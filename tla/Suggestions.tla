----------------------------- MODULE Suggestions -----------------------------
(* What builders would like to see in the shop.  A suggestion comes with    *)
(* its maker's vote, in a write of its own; voting again takes a vote back. *)
(* Whether it is cast or taken back is decided on what a call has read, and *)
(* only the database keeps one vote for each builder.                       *)
EXTENDS Integers, FiniteSets

CONSTANTS
    Voters, Ideas,
    VoteCalls,       \* calls at once
    DailyLimit,      \* suggestions of one builder in a day, five in the code
    Watched          \* bound: the vote, of a builder on an idea, whose answers are kept

ASSUME SuggestionsAssumption ==
    /\ IsFiniteSet(Ideas) /\ DailyLimit \in Nat /\ Watched \in Voters \X Ideas
    /\ Voters \cap {"nobody", "deleted"} = {}

VARIABLES
    posted,     \* by whom each suggestion is, and whether it was made today
    votes,      \* the votes there are
    voteCalls,  \* what each call has read
    answer,     \* history: the last answer on the vote that is watched
    slipped     \* history: who posted past a call that had counted already

suggestionVars == <<posted, votes, voteCalls, answer, slipped>>

Nothing == [by |-> "nobody", fresh |-> FALSE]
Deleted == [by |-> "deleted", fresh |-> FALSE]
NoCall == [stage |-> "free", by |-> "nobody", on |-> "nothing", row |-> "none", crossed |-> FALSE]

IsThere(i) == posted[i] \notin {Nothing, Deleted}
Today(u) == {i \in Ideas : posted[i].by = u /\ posted[i].fresh}

SuggestionsTypeOK ==
    /\ posted \in [Ideas -> {Nothing, Deleted} \cup [by : Voters, fresh : BOOLEAN]]
    /\ votes \subseteq Voters \X Ideas
    /\ \A c \in VoteCalls : voteCalls[c].stage \in {"free", "counted", "posted", "found", "cast"}
    /\ answer \in {"none", "voted", "taken back", "crossed"}
    /\ slipped \subseteq Voters

SuggestionsInit ==
    /\ posted = [i \in Ideas |-> Nothing] /\ votes = {}
    /\ voteCalls = [c \in VoteCalls |-> NoCall]
    /\ answer = "none" /\ slipped = {}

-----------------------------------------------------------------------------
(* createSuggestion: count, post, and vote; a vote that fails is let go.    *)

CountRecent(c, u) ==
    /\ voteCalls[c] = NoCall /\ Cardinality(Today(u)) < DailyLimit
    /\ voteCalls' = [voteCalls EXCEPT ![c] = [NoCall EXCEPT !.stage = "counted", !.by = u]]
    /\ UNCHANGED <<posted, votes, answer, slipped>>

Post(c, i) ==
    LET u == voteCalls[c].by
        others == \E d \in VoteCalls \ {c} : voteCalls[d].stage = "counted" /\ voteCalls[d].by = u IN
    /\ voteCalls[c].stage = "counted" /\ posted[i] = Nothing
    /\ posted' = [posted EXCEPT ![i] = [by |-> u, fresh |-> TRUE]]
    /\ voteCalls' = [voteCalls EXCEPT ![c].stage = "posted", ![c].on = i]
    /\ slipped' = IF others THEN slipped \cup {u} ELSE slipped
    /\ UNCHANGED <<votes, answer>>

AutoVote(c) ==
    LET q == voteCalls[c] IN
    /\ q.stage = "posted"
    /\ \/ IsThere(q.on) /\ votes' = votes \cup {<<q.by, q.on>>}
       \/ UNCHANGED votes
    /\ voteCalls' = [voteCalls EXCEPT ![c] = NoCall]
    /\ UNCHANGED <<posted, answer, slipped>>

-----------------------------------------------------------------------------
(* toggleSuggestionVote: the vote is read, then cast or taken back, and the *)
(* votes are counted.  Calls that overtake each other are marked.           *)

Of(c) == <<voteCalls[c].by, voteCalls[c].on>>
On(c, v) == voteCalls[c].stage \in {"posted", "found", "cast"} /\ Of(c) = v

FindVote(c, u, i) ==
    LET v == <<u, i>>
        meets == v = Watched /\ \E d \in VoteCalls : On(d, v) IN
    /\ voteCalls[c] = NoCall /\ IsThere(i)
    /\ voteCalls' = [d \in VoteCalls |->
            CASE d = c -> [stage |-> "found", by |-> u, on |-> i, crossed |-> meets,
                           row |-> IF v \in votes THEN "row" ELSE "none"]
              [] meets /\ On(d, v) -> [voteCalls[d] EXCEPT !.crossed = TRUE]
              [] OTHER -> voteCalls[d]]
    /\ UNCHANGED <<posted, votes, answer, slipped>>

(* The rows in gone are deleted; whoever has read one deletes nothing.      *)
RowsGone(gone) == [d \in VoteCalls |->
    IF voteCalls[d].row = "row" /\ Of(d) \in gone
    THEN [voteCalls[d] EXCEPT !.row = "gone"] ELSE voteCalls[d]]

CastForAll(c) ==                                 \* mutant: removes by the suggestion alone
    LET q == voteCalls[c]
        v == <<q.by, q.on>> IN
    /\ q.stage = "found"
    /\ \/ /\ q.row = "row" /\ votes' = {w \in votes : w[2] # q.on}
          /\ voteCalls' = [RowsGone(votes \ votes') EXCEPT ![c].stage = "cast", ![c].row = "taken"]
       \/ /\ q.row = "none" /\ IsThere(q.on) /\ votes' = votes \cup {v}
          /\ voteCalls' = [voteCalls EXCEPT ![c].stage = "cast"]
       \/ /\ q.row = "gone" \/ ~IsThere(q.on)
          /\ voteCalls' = [voteCalls EXCEPT ![c] = NoCall] /\ UNCHANGED votes
    /\ UNCHANGED <<posted, answer, slipped>>

(* A vote that is there already is as good; one on a suggestion that is     *)
(* gone throws.                                                             *)
CastVote(c) ==
    LET q == voteCalls[c]
        v == <<q.by, q.on>> IN
    /\ q.stage = "found"
    /\ \/ /\ q.row = "row" /\ votes' = votes \ {v}
          /\ voteCalls' = [RowsGone({v}) EXCEPT ![c].stage = "cast", ![c].row = "taken"]
       \/ /\ q.row = "gone" /\ UNCHANGED votes
          /\ voteCalls' = [voteCalls EXCEPT ![c].stage = "cast", ![c].row = "taken"]
       \/ /\ q.row = "none" /\ IsThere(q.on) /\ votes' = votes \cup {v}
          /\ voteCalls' = [voteCalls EXCEPT ![c].stage = "cast"]
       \/ /\ q.row = "none" /\ ~IsThere(q.on) /\ UNCHANGED votes
          /\ voteCalls' = [voteCalls EXCEPT ![c] = NoCall]
    /\ UNCHANGED <<posted, answer, slipped>>

AnswerVote(c) ==
    LET q == voteCalls[c] IN
    /\ q.stage = "cast"
    /\ answer' = IF Of(c) # Watched THEN answer ELSE
            IF q.crossed THEN "crossed" ELSE IF q.row = "taken" THEN "taken back" ELSE "voted"
    /\ voteCalls' = [voteCalls EXCEPT ![c] = NoCall]
    /\ UNCHANGED <<posted, votes, slipped>>

(* deleteSuggestion; its votes go with it.                                  *)
DeleteIdea(u, i) ==
    LET gone == {v \in votes : v[2] = i} IN
    /\ posted[i].by = u
    /\ posted' = [posted EXCEPT ![i] = Deleted]
    /\ votes' = votes \ gone /\ voteCalls' = RowsGone(gone)
    /\ UNCHANGED <<answer, slipped>>

DayPasses(i) ==
    /\ posted[i].fresh
    /\ posted' = [posted EXCEPT ![i].fresh = FALSE]
    /\ UNCHANGED <<votes, voteCalls, answer, slipped>>

SuggestionsNext ==
    \/ \E c \in VoteCalls :
        \/ AutoVote(c) \/ CastVote(c) \/ AnswerVote(c)
        \/ \E u \in Voters : CountRecent(c, u) \/ \E i \in Ideas : FindVote(c, u, i)
        \/ \E i \in Ideas : Post(c, i)
    \/ \E i \in Ideas : DayPasses(i) \/ \E u \in Voters : DeleteIdea(u, i)

SuggestionsSpec == SuggestionsInit /\ [][SuggestionsNext]_suggestionVars

-----------------------------------------------------------------------------

(* listSuggestions: whether the builder who asks has voted, and how many.   *)
VotedByUser(u, i) == <<u, i>> \in votes
VoteCount(i) == Cardinality({u \in Voters : <<u, i>> \in votes})

(* The list says of a vote what the builder was last told, unless two of    *)
(* the builder's calls on it crossed; whatever others vote meanwhile.  No   *)
(* vote outlives its suggestion, and no day brings more suggestions than it *)
(* may, unless two were counted before either was there.                    *)
VotesStand ==
    /\ IsThere(Watched[2]) /\ answer \in {"voted", "taken back"} /\ (\A c \in VoteCalls : ~On(c, Watched)) =>
            VotedByUser(Watched[1], Watched[2]) = (answer = "voted")
    /\ \A i \in Ideas : ~IsThere(i) => VoteCount(i) = 0
    /\ \A u \in Voters \ slipped : Cardinality(Today(u)) <= DailyLimit
=============================================================================
