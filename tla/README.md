# Beest: TLA+ models of the backend and the site

Beest is a Hack Club program: builders log coding hours, reviewers approve them, approved
hours mint *pipes*, and pipes buy things in a shop whose orders are shipped or paid out as
card grants (HCB) or storage (SILO). The backend is one NestJS process over one Postgres
database; the frontend is a SvelteKit proxy and the pages it serves. This directory holds
TLA+ modules translated from `src/backend/src` and `src/frontend/src`, TLC configurations that
check them on small instances, and TLAPS proofs of the safety properties for every instance.

Paths below are relative to `src/backend/src` unless they start with `src/`. `PROJECT.json` has,
for every definition, the lines it translates; for every property, a plausible bug in the mapped
code that TLC finds; and the hazards the properties are for.

## 1. Inventory

| Component | State | Operations | Modelled in |
|---|---|---|---|
| Shop (`shop/`) | `users.pipes`, `shop_items`, `orders`, suggestions and votes | purchase, fulfil, refund (staff, buyer, ban), merge, suggestions | `Shop`, `Suggestions` |
| HCB (`hcb/`) | `orders.hcb_card_grant_id`, `hcb_credentials` (rotating token), `refreshInFlight` | single and bulk card grants, OAuth connect, refresh | `Grants`, `HcbToken` |
| SILO (`silo/`) | `orders.silo_grant_id` | createSiloGrantForOrder | `Grants` |
| Admin (`admin/admin.service.ts`) | all of the above, `projects`, `submissions`, `project_reviews` | adjustPipes, item editor, reviewProject, claims, banUser, perms, statistics, broadcasts | `Shop`, `Review`, `Desk`, `Claims`, `Bans`, `Access`, `Stats`, `Notices` |
| Audit (`admin/audit.service.ts`) | `projects.status`, `pipes_granted`, `submissions`, `users.pipes` | load, approve, return, reject, ban | `Review`, `Desk`, `Queue` |
| Projects (`projects/`) | `projects`, `submissions` | create, ship, withdraw, resubmit, delete, queue position | `Review`, `Desk`, `Window`, `Queue`, `Shown` |
| Sidekick (`sidekick/`) | the rows of all of these | ship queue, decisions, order fields | `Sidekick`, `Queue`, `Certificates` |
| Certificates (`certificates/`) | `certificates` with its unique indexes | generate, preference, sync | `Certificates` |
| Devlogs, Lookout | `devlogs`, `lookout_sessions` | create, attach, review, mirror, prune, export | `Devlogs` |
| Auth (`auth/`), frontend proxy | `sessions`, cookies | login, refresh, logout, impersonation, guards | `Sessions`, `Signup`, `Impersonation`, `Access` |
| RSVP, Airtable, Hackatime, identity, Slack | records elsewhere, caches | perms, RSVP, ownership check and daily sweep, hours, eligibility | `Perms`, `Signup`, `Stats`, `Window`, `Notices` |
| Pages (`src/frontend/src/routes`) | Svelte variables | handlers, markup that offers them | `Pages` and the modules with its tables |
| Fraud review, Attend, audit iframes, Crescent, migrations | – | – | not modelled (section 6) |

**How they interact.** Components share rows, not messages. Three disciplines exist side by
side, and most of what is hard comes from their meeting:

* *Locked transactions.* The shop runs every operation in one `SERIALIZABLE` transaction that
  locks the rows it writes; the grant services use `READ COMMITTED` and lock the order row,
  **holding the lock across an HTTP call** that moves real money.
* *Whole-row saves.* Elsewhere an entity is read without a lock, changed, and handed to
  `repository.save`, which selects the row again and updates **every column that differs from
  the entity** – including those another request has changed since the first read – and
  inserts the row if it is gone.
* *Targeted statements*: `increment`, `decrement`, `update` on one column, atomic by themselves.

A request of the backend gives way to others at every `await`, and all of them are forgotten
when the process dies (`OneProcess`). In the browser it is the same: a handler runs alone from one
`await` to the next, and answers come back in any order.

## 2. Modules

### Shop, orders and grants

| Module | Models |
|---|---|
| `Totals` | the sum of a finite natural-valued function, as the size of a set of unit tokens, so that it can be proved about |
| `Shop` | the order desk as the database sees it, one action per committed transaction |
| `Suggestions` | suggestions and votes, call by call, with what only the unique index keeps apart |
| `Grants` (extends `Shop`) | the interior of HCB and SILO grant transactions, composed with the running shop |
| `HcbToken` | the one pair of single-use tokens, the shared refresh, a reconnection meanwhile |

`Shop`:

| State | Code |
|---|---|
| `pipes[u]` | `users.pipes` (no CHECK constraint; may be negative) |
| `catalog[i]` | `shop_items`: `stock` (NULL is `Unlimited`), `is_active`; `Unused` and `Removed` for no row |
| `orders[o]` | `orders`: buyer, item, quantity, pipes spent, status, `grantId["hcb"]` and `grantId["silo"]` |
| `awarded`, `credit`, `clawed`, `supply`, `refunds`, `outside` | history only: no guard of the code reads them, except that `awarded` stands for `projects.pipes_granted` in `Clawback` |

| Action | Code |
|---|---|
| `Award`, `Clawback`, `AdjustPipes` | the `increment` of `AuditService.approve`, the `decrement` of `AdminService.reviewProject`, the single `UPDATE` of `AdminService.adjustPipes` |
| `SaveShopItem`, `DeleteShopItem` | `createShopItem`, `updateShopItem`, `deleteShopItem`, and the foreign key's `ON DELETE SET NULL` |
| `Purchase` = `MayBuy` ∧ `InStock` ∧ `PlaceOrder` | `ShopService.purchase` |
| `FulfillOrder`, `RefundOrder`, `RefundOwnOrder`, `MergeOrders` | the `ShopService` methods of those names; `RefundOwnOrder` adds the controller's `requireUserId` and `requirePending` |
| `CommitGrant`, `StampGrant` | what the grant services leave on a row: the committed transaction, and the best-effort `UPDATE` after a failed one |

A step is a transaction because `SERIALIZABLE` with `FOR UPDATE` makes it one: a conflicting
transaction waits or fails with nothing written. A price is a function of buyer and item
(`effectivePriceHours`). `Shop` is the program **without** the whole-row saves of items and users
(section 5): its theorems say what the locked transactions and targeted statements guarantee among
themselves. Saves of whole orders are in `Certificates`.

`Grants`: `req[r]` is one request: its stage (`priced`, `checked`, `calling`, `issued`, `stamping`,
`fulfilling`), the locals it carries, and the entity it read under the lock. `paid[g]` is what
a provider paid; `troubled` records payments that their own transaction did not commit. The
row lock is the set of orders of requests in `calling` or `issued`; `ShopRuns` – any action of
`Shop` – may change no locked row. `AnswerLost` pays and rolls back; `CommitFails` goes on to
`Stamp`; `Crash` forgets every request. The status of the order is not looked at by the single
grant, exactly as in the code. `ImplementsShop` is a refinement: every step of `Grants` is a step
of `Shop` or changes none of its variables.

`HcbToken` numbers token pairs as HCB mints them: `row` is the stored pair, `flight` the refresh
in flight with the pair it spends, `usable` the pairs HCB still takes, `lost` those whose successor
no longer reaches the row. HCB takes a refresh token once.

### Projects, reviews and Sidekick

| Module | Models |
|---|---|
| `Review` | projects through first pass, audit, revocation, ban and resubmission, and the pipes the audit pays, one request at a time |
| `Ledger` | abstract: wallets move only with the record of granted pipes; `Review` implements it |
| `Desk` | one project under several requests that read, wait and save whole rows, and die half-way |
| `Claims` | which reviewer has a project: claim, release, expiry, and the saves that write a claim back |
| `Sidekick` | reviews that name a ship while the desk takes the newest; calls that look first and decide later |
| `Shown` (extends `Sidekick`) | what the builder is told of hours and reviews before HQ has authorized them |
| `Queue` | the order of the queue in the four places that sort it, and a client that pages through it |
| `Window` | what may still be sent in after the program's end: grace after a return, extension, exemption, pause, eligibility |
| `Bans` | `banUser` statement by statement, and the hourly sweep, against buyers, fulfillers and reviewers |

`Review` and `Ledger`:

| State | Code |
|---|---|
| `projects[p]` | `projects`: `status`, approved `hours` (tenths), `pipes_granted` |
| `submissions[p]` | the submissions of `p` in creation order: `status`, `overrideHours`, and how many of its `project_reviews` are still `approved` |
| `devlogHours[p]` | the approved hours of the devlogs linked to `p` |
| `wallet[u]` | `users.pipes` as far as reviews move it |
| `baseline`, `peak` | history: hours of the last final approval that stands; the most hours a builder was ever owed |

| Action | Code |
|---|---|
| `Create`, `Ship`, `Withdraw`, `Resubmit`, `Delete` | `ProjectsService.create`, `update`, `resubmit`, `delete` with the window of the ended program |
| `FirstPass`, `SendBack` | `AdminService.reviewProject` with verdict `approved`, and with the others (which revoke an approval and claw back its pipes) |
| `EditHours` | `SidekickService.updateReviewAction` |
| `LoadQueue`, `Authorize`, `Return`, `AuditReject` | `AuditService.loadUnreviewedIntoQueue`, `approve`, `returnForReReview`, `reject` and `hardReject` |
| `Ban`, `BanFromReview` | `rejectQueuedProjects` (from `banUser` and the hourly sweep), `banAndRejectProject` |
| `ReviewDevlogs` | `DevlogsService.reviewDevlog`, `deleteOwn` |

Each action of `Review` is one request against a quiet database; `Desk` has the same requests
overlap, on one project, with the rules for hours cut down to full ones. `Ledger` says what the
shop may rely on: a wallet rises only by a grant that goes on record and falls only by taking a
recorded grant back; a record may be dropped with the deleted project that carried it. `Shop`'s
`Award` and `Clawback` are its two moves as the shop sees them.

`Desk`: `hand[r]` holds what a request read and will save; `torn` records that two requests crossed or one
died half-way, so the properties say what holds *until* then. `Sidekick`: `project`, `ships` and `calls`;
a call is one of `approve`, `reject`, `authorize`, `deauthorize` or `edit` and moves through `ReadShip`,
`ReadProject`, `RequireOpenSubmission` and one whole step of the desk or the audit, or through two saves
(an edit); `Panel` is everybody else, whose verdicts come with hours or without (`Entered`). `Queue`:
`shipped[p]` are the submissions, dated in instants of the database's clock, of which `Grain` make a
millisecond; `ToMillis` is what becomes of a column's time in a JavaScript `Date`; `halfway` the projects
whose ship is saved and its submission not yet, `cut` those where that was cut short; `client` is Sidekick
at page *n*. A sort is the one list of the set that agrees with the comparison (`InOrder`, `OpenOrder`).

### Certificates, devlogs and the front door

| Module | Models |
|---|---|
| `Certificates` | one certificate per class of fulfilled orders, generated without a lock by fulfilment, preference and page loads; whole-order saves of Sidekick and of the preference |
| `Devlogs` | devlogs and the timelapse sessions attached to them: upload, attach, mirror, prune, delete |
| `Sessions` | one user's browser, the proxy in front of the backend, and the session rows |
| `Signup` | the OAuth state cookie, the first row of a user, the record `createRsvp` makes in Airtable |
| `Impersonation` | the cookies of a Super Admin who acts as a user, and the requests that carry copies of them |
| `Access` | the guards of the backend, what each page offers whom, roles that change while a request is on its way |
| `Perms` | a user's `Perms`: the ownership check, connecting an account, staff bans, the daily sweep that lets users back in |

`Sessions`:

| State | Code |
|---|---|
| `sessions[t]` | the row of refresh token `t`: none yet, live, past its `expiresAt`, deleted |
| `jar` | the cookies `auth_token` (a JWT within its hour, past it, or none) and `refresh_token` |
| `req[r]` | a request: what it asks for, how far it got, the cookies it carries, those its answer will set, whether it has retried |
| `banned`, `outages` | the user's `Perms` in Airtable; failures spent so far |
| `ended`, `loggedOut` | history |

| Action | Code |
|---|---|
| `Send`, `Reply`, `Lost` | `proxyWithRefresh`, `getAuthenticatedUser` and the logout route of the frontend, split at every call to the backend; `Reply` is the browser applying `Set-Cookie` |
| `Forward`, `Throttled` | `JwtAuthGuard`, `/me` with its ban check, `/nickname` and `/gender` with the JWT they sign; the throttler's 429 |
| `ReadSession`, `CheckBan`, `FailOpen`, `RemoveSession`, `SaveSession` | `AuthService.refreshAuth` split at its two waits: the row read, the lookup in Airtable, the save |
| `DatabaseFails` | a read, delete or save of the session row that throws, done or not: the 401 of the controller's `catch`, and the cookies gone |
| `InvalidateSession`, `Login`, `Hour`, `ExpireSession`, `Ban` | logout, `handleCallback`, the end of access and refresh tokens, the staff |

`SaveSession` is `repository.save`: an UPDATE, or an INSERT if the row is gone. A request that gives
up deletes both cookies, also those a login has set since it started.

`Access` has one table per group of routes (`Guards`) and one operator per tab or page (`Offered`);
`Perms` splits `banUser` at its writes, since the entry in the audit log by which the sweep tells a
ban of the staff comes last.

### Messages and numbers

| Module | Models |
|---|---|
| `Notices` | three broadcasts that tell each user once: the closing DM, the date for the email, golden projects; saves of the user row meanwhile |
| `Stats` | numbers read piece by piece over caches, and the backfill of daily activity that concurrent callers share |

### Pages

`Pages` says what running a Svelte handler means: flags up or down, the thing that is open or shown,
calls in flight, answers that come in any order, are refusals or never come. It also states the rules
that the handlers of a panel keep – who may raise and lower a busy flag, what bars a second request,
who takes down what was shown of the last thing – as an assumption on the tables (`PanelsAssumption`),
which TLC evaluates on all 35 panels of the site and the theorems use. `Handlers` is the vocabulary;
`HomePage`, `AdminPage` and `SmallPages` describe the handlers of each panel and what its markup
offers, row by row; `QueuePages` follows the queues of the second pass and of fraud review with their
position, search and reloads.

### Composition

Parts that share no state are checked in one run, one at a time: a variable `focus` says which part
runs, and the others stand still in their initial states. Nothing is enabled there, so the fairness of
a part that is not in focus asks for nothing. `MCShop` (`Shop`, `Suggestions`), `MCDecisions`
(`MCReview`, `Shown`), `MCDesk` (`Desk`, `Bans`, `Claims`), `MCServices` (`HcbToken`, `Devlogs`,
`Certificates`, `Sessions`), `MCSite` (`Pages` with its panels, `QueuePages`, `Access`, `Signup`,
`Impersonation`, `Perms`) and `MCOffice` (`Queue`, `Notices`, `Stats`, `Window`) do so; `MCGrants` and
`MCReview` only name values.

## 3. Runs

| Run | Instance | Shows |
|---|---|---|
| `shop` | 1 buyer, 1 item, 3 orders, quantities 1–2, stock 2 or unlimited; 2 voters, 2 ideas, 2 calls, 1 idea a day | no pipe or unit is created or lost, no order's pipes return twice, granted and settled rows stay; the votes are those the builders were told of |
| `grants` | 2 requests, 2 orders, 2 grant ids, amounts 2–3 | a committed payment is on record and within its budget, whatever fails; the refinement of `Shop` |
| `grants_live` | 2 requests on 1 order, with fairness | every grant request ends, so the row lock is released |
| `review` | 1 project, 2 submissions, 2 live approvals each, hours 1 or 2, devlogs 0 or 1 hour; 1 call of Sidekick, 2 ships | hours paid once and in full, a reject is terminal, the refinement of `Ledger`; Sidekick's decisions land on what was seen and pay what was given; nothing pending is shown |
| `desk` | 2 requests (one of them the builder's), 2 submissions; 2 projects and 2 orders to ban; 2 reviewers | pipes as recorded, queued means open, verdicts stand, a ban clears up, a claim holds while it is young – until two requests cross |
| `services` | 2 requests and a reconnection over 3 token pairs; 2 projects, 2 devlogs, 1 timelapse; 2 orders; 1 login, 2 requests of every kind | the HCB connection is kept, evidence stands, certificates follow the orders, parallel refreshes log nobody out unless the throttler or the database refuses one, a banned user is locked out after the last profile edit |
| `site` | every panel with 2 calls in flight; a queue of 3 with 2 reloads; 2 clicks; 2 sign-ins; 2 accounts, 1 change of role | pages show what is chosen and send once; one record per person; the way back from an impersonation; guards and pages agree and the sweep is just |
| `office` | 3 projects, pages of 1; 1 recipient, 2 jobs, 2 savers; 2 pieces, 2 callers, 2 midnights; 2 tabs, 2 days | every list agrees with the position told, as far as milliseconds tell; nobody is told twice; numbers were true while they were read; what is sent in was allowed |
| `silo_duplicate`, `refunded_then_granted`, `pending_hours_paid`, `logout_undone` | as `grants`; 2 projects of one builder; 1 login, 2 requests | section 5 |

**Bounds.** Every bound is a constant, named in its module. *Shop*: `MaxOutside` caps the steps the rest
of the program takes (awards, clawbacks, adjustments, edits); four are enough to fund a purchase, stock an
item, and then claw back, edit or delete once more. Three orders let a merge fold two rows and leave the
result to be refunded, granted or merged again. *Requests*: two are the smallest number that contend for a
row, a lock, a refresh or an answer, and a third is one of the two after it ended. *Ships*: two are enough
for a resubmission to be decided against the traces of the first. *Queue*: three projects on pages of one
let one leave, change places or join between two pages; of three instants, two to a millisecond (`Grain`,
a thousand in the code), one falls on the millisecond and two ships can share one. *Failures, clocks and
staff* (`MaxOutages`, `MaxFaults`, `MaxLost`, `MaxNow`, `MaxStaff`, `MaxChanges`, `MaxJobs`, `MaxEvents`)
are small because every property is about the order of a few of them; without `MaxOutages` a ban need
never take effect, because the code lets users pass while Airtable is down. Numbers of everything else are
the smallest with which two of a kind meet, and the theorems of section 4 hold for any. Two bounds are
part of what is modelled: `MaxProjectHours` keeps Sidekick's edited hours within what a row can sum up to,
and `MaxPairs` ends the minting of tokens. Order ids, grant ids and tabs are interchangeable, which
justifies the symmetry sets; no run with a liveness property uses one. `CHECK_DEADLOCK FALSE` is set where
a bounded system does come to rest: every id used, every bound reached.

**Fairness**, stated only where a run checks that something must happen:

* `Grants`: weak fairness of `Resolve`, because `fetchWithTimeout` aborts a call after ten seconds and a
  database statement returns or fails; strong fairness of the steps that need the row lock (`LockRow`,
  `Stamp`, `FulfillGranted`), because Postgres serves the waiters of a lock in order.
* `Sessions`: weak fairness of `Hour` – a JWT's hour passes – and of each request's backend steps and
  answer, which the same timeouts bound. Nothing of the user, the throttler, Airtable or a failing database.
* `HcbToken`: the refresh in flight and each caller go on (weak). `Certificates`: each request goes on
  (weak); that the page is opened again and again is a premise of the property.
* `Bans`: the hourly job starts and a token's hour passes (weak); its lookup and its steps, each of which
  may fail in any run of the job, succeed in some run of those that never stop coming (strong).
* `Claims`: the expiry job runs infinitely often while there is an old claim (strong), and requests go on.
* `Perms`: the daily job starts and goes on (weak); failures are bounded by `MaxFaults`.

Nothing is ever assumed of buyers, builders or staff, and a crash may strike at any time.

## 4. Theorems

Every safety property of a passing run is a theorem of its specification, for every value of the
constants. The assumptions are those the modules name (`ASSUME …Assumption`): finite sets where a sum or a
list is taken, natural numbers where the code has counters, NULLs distinct from values. TLC evaluates each
of them. A theorem about a part is a theorem about the composed run, because `focus` only holds the other
parts still. All proofs are by an inductive invariant that TLC has confirmed on the run's instance.

`ShopProofs`: `TypeCorrect`, `Conservation`, `StockConservation`, `NoDebt`, `NoDoubleRefund`,
`GrantsAreFinal`, `SettledIsFinal`.

* `TypeOK` is inductive by itself (it contains `stock \in Nat`, which is `InStock`'s work). Each
  conservation law is inductive relative to it; the work is in the sum over all orders, which
  `TotalsProofs` reduces to the orders a step touches: one for a purchase or a refund (`TotalUpdate`),
  the target and its duplicates for a merge (`TotalMove`). Refunds and the two action properties follow
  from one lemma, `OrderLife`: every step keeps an order, inserts it, cancels it with its pipes
  returned, or folds it into another.
* *Why no recursion*: a sum over a set is naturally recursive or a fold, and neither can be reasoned
  about without induction over data, which the provers at hand cannot instantiate. `Totals` counts unit
  tokens instead, so that the library's facts on cardinality do the job.
* `VotesAreKept`, for any number of builders, suggestions and calls (`SuggestionsInv`): a vote is that of
  a suggestion that is there; a call that crosses nobody knows the vote as it is; whoever is beyond the
  limit had posted past a call that had counted.

`GrantsProofs`: `GrantsTypeCorrect`, `GrantsStayOnRecord`, `GrantsWithinBudget`, the refinement
`GrantsImplementShop`, and through it `GrantsKeepTheBooks` – the conservation laws of `Shop` hold of the
shop that grants run in.

* `GrantsInv`: every request past its check names an order that is there; one that carries a payment
  carries what `paid` says; what was asked for and what was paid is within the order's budget; an id
  that its transaction committed is on its row. The refinement uses that a request in `calling` or
  `issued` is the only one with its order, so a shop step meanwhile touches none of it.

`ReviewProofs`: `ReviewTypeCorrect`, `HoursPaidOnce`, `ApprovalPays`, `RejectionIsTerminal`, the
refinement `ReviewImplementsLedger`, and `Backed` (a wallet moved by reviews alone covers what is on
record).

* Every step makes one of three moves (`StepMoves`): neither record nor wallet moves; one project loses
  its record, with a clawback or without; an audit pays `Due`. A record changes by updating one project,
  so the sum changes by that project's difference (`GrantedUpdate`). `HoursPaidOnce` is inductive relative
  to the type invariant because the payment is computed from the same sum the history `peak` takes its
  maximum of, and every other move only lowers the record. The refinement reads the same three moves as
  steps of `Ledger`.
* `DecisionsStandForGood` (`Sidekick` and `Shown`, for any number of calls, ships and hours) and
  `DecisionsTypeCorrect`. `SidekickInv`: while the newest ship awaits HQ, the project's hours are those
  before it plus its own, unless an edit is between its two saves or the pass left the ship the hours of
  an earlier one; and a call since whose look nothing has moved still sees the ship it named, and would
  save hours that add up. The proof found one case the property had missed: an authorization that reads
  between the two saves of another call's edit pays other hours than its author assigned. The property
  names it now.

`DeskProofs`: `PaidIsRecorded`, `QueueIsOpen`, `VerdictsAreKept` of `Desk`; `ListedIsCancelled` of `Bans`;
`ClaimsAreKept` of `Claims`; `RowsTypeCorrect` of the three.

* `DeskInv`: a request that is not stale holds the row as it is; and until something is torn, at most one
  request is midway between two writes, the others saw the row before or after both, and when nobody is
  midway the purse is what the row records. `BansInv`: an order that was listed and is not left to do is
  cancelled. `ClaimsInv`: a request that will take a claim read a row that let it.

`ServicesProofs`: `SessionsTypeCorrect` and `ParallelRefresh` of `Sessions`, `TokenIsKept` and
`RefusalIsTrue` of `HcbToken`, `EvidenceIsKept` of `Devlogs`, `OrdersAreKept` of `Certificates`,
`ServicesTypeCorrect` of the four.

* `Inv` of `Sessions`: a row is expired or gone only if its session has ended; a request or a cookie never
  names a row that was not created; a request that found its row expired, or the user banned, was right;
  a request that retries carries a JWT minted on its own behalf. The last conjunct is why a second 401
  cannot delete the cookies, the others are why the first refusal is justified. Had the refresh rotated
  its token, the first conjunct would fail – the defect the comment over `refreshAuth` describes, and the
  mutant of the run.

* `HcbInv`: every pair the program holds was minted; one answered and not saved is known to a single
  holder, and HCB still takes it. `DevlogsInv`: the session row a request
  holds names a devlog that was made for the row's project, unless one of the two is gone; a devlog
  changes its project only by losing it, and then the key refuses the row. `CertInv`: the unique keys
  hold, and an errand past its read carries the row of an order.

`SiteProofs`: `PagesAreSound` and `SitePermissions` of the whole; `QueuePositions` of `QueuePages`;
`GuardsMirrored` and `ElevationIsGuarded` of `Access`; `RsvpMakesOne` of `Signup`; `WayBackStays` of
`Impersonation`; `ManualBansAreKept` and `PermsTypeCorrect` of `Perms`.

* `PagesInv`, for any panel that keeps the rules of `Pages`, any things, and any number of clicks and
  answers. `BusyFlagsHold` and `ShownBelongs` look at one pair of calls and one pair of variables; neither
  is inductive. What is: every busy flag that is up belongs to a call in flight that will lower it, or
  whose awaiting handler will (`Returns`); a flag that is a lock belongs to one call at most, and is up
  while that is in flight, unless another handler lowered it (`LocksUp`); a latch stays up while its one
  call is in flight (`LatchesUp`); of a handler that cancels its predecessor one call is left (`Single`);
  two calls that would fill the same variable ask for the same thing, unless one of them is known to be
  late (`Agree`); and what is shown agrees with the selection, or with every call that could replace the
  selection, or is hidden until it is replaced (`Shown`). Between the moment a handler lowers a flag or
  fills a variable and the moment those that it awaits or starts have begun, the invariant is broken in a
  way the lemmas name (`Sound` with the flags in hand, dropped, crossed and hidden as parameters).
* A handler may start a list of others, and so may the page when it loads. That each of them keeps the
  invariant is an induction over the list; the proof takes the first of them that would not
  (`LeastNat`). `SublistIs` says what is left of a list when some places are taken out – its length,
  and that it keeps the others once and each – which the model states in closed form for that purpose
  rather than by the library's `SelectSeq`.
* The rules were found by the proof: each is what some step needs of the tables. Three tables had
  left out that a handler clears a variable it is about to fill (`selectProject` its timelapses,
  `openBuyers` the last buyers, `openGrantModal` the dialog of the last order); the code does, or mounts a
  new component.
* `QueuePositions`: `QueueInv` is `PositionInQueue` with the types. A filtered list is no longer than the
  queue it was taken from (`WithinIs`), so a position brought back into what the search lets through is in
  the queue too.
* `AccessInv`: the page knows the role it was drawn for and that of the user selected, unless it is known
  to have moved; a request on its way is still offered by the page, and was let through as who asked.
  The guards of all 62 routes are computed once (`GuardsAre`), by merging the tables of the modules two at
  a time; then every tab's offers are within what its role may do (`OffersMay`).
* `SignupInv`: one call at a time is inside `createRsvp`, and every record is the first one or is
  accounted for by a POST given up. `ImpInv`: the cookies, every copy a request carries and every change
  it will make are *sound*, so they may be applied in any order. `PermsInv`: a ban that stands is the
  latest verdict in the log, and a sweep that saw it has not read the log yet. `AskInv`: past the lookup,
  the role asked for is one the asker may give.

`OfficeProofs`: `WindowIsKept`, `EachIsToldOnce`, `NumbersStayTrue`, `ListsAgree`, `OfficeTypeCorrect`.

* `ListsAgree`: `QueueInv` dates the submissions uniquely, gives every queued project an open newest one
  unless its ship is halfway or was cut short, and has the paging client caught up with everything ranked
  before its offset. That a sorted list has a project at the place given by the number of those before it
  would be an induction over the list; the proof instead shows that the places of a finite set under a
  strict total order are a bijection with `1 .. n` (`ListExists`), and that only one list agrees with it.
  Who is counted ahead of a project is then a bijection with the places up to its own, less those shipped
  since its millisecond began (`PlaceTold`); that rounding keeps the order of times is `ToMillisMonotone`.
  For this the module states the sort by its result rather than by the library's fold.
* `NoticesInv` follows, for each user and each message, who has the user in hand and whether the mark is
  on the row, in a saver's copy, or on its way. `StatsInv`: what a reader has got was there while it read,
  what is memoised was counted in full unless it is named, and somebody waits exactly when a backfill is
  in flight. `WindowInv`: what a request carries was allowed at some time since it began.

**Only model-checked**, and why:

* `RequestsEnd`, `CallsEnd`, `BanEmptiesQueue`, `OldClaimsGo`, `SyncCatchesUp`, `LockedOutAfterLastEdit`,
  `ClearedComeBack`: liveness under fairness, which this prover does not reach. The safety parts of
  `ConnectionKept`, `BanClearsUp`, `ClaimsHold`, `CertificatesFollow` and `PermissionsHold` that stand
  next to them are theorems (`TokenIsKept`, `RefusalIsTrue`, `ListedIsCancelled`, `ClaimsAreKept`,
  `OrdersAreKept`, `SitePermissions`).
* That the panels keep the rules of `Pages` (`PanelsAssumption`): a finite look at 35 tables, which TLC
  takes whole before the run. The theorems hold of any tables that keep them.
* The four runs that end in a violation, which need only the one behaviour they show.

## 5. What the code does otherwise than its comments say

With a run that shows it (`findings` in `PROJECT.json`):

* `silo/silo.service.ts:82` calls a duplicate grant impossible; a lost answer makes one (`SiloPaysOnce`).
* `hcb/hcb.service.ts:409` relies on the locked re-read to guard money; it does not look at the
  status, so a refunded order can be granted (`NeverPaidAndRefunded`).
* `admin/audit.service.ts:745` has hours mint pipes only at the audit; an audit also pays hours another
  project of the builder has from a first pass alone (`OnlyFinalHoursArePaid`).
* `auth/auth.service.ts:322` has a logout delete the row for good; a refresh in flight saves it back
  (`LogoutIsFinal`).

Met while modelling: the models do these things too, and the properties name each of them as an exception
or leave it outside what they say.

* *Grants and shop*: the bulk worker prices a grant from a read made before the lock, so a merge in
  between leaves it short of what the order cost. One order granted or taken back after `banUser` listed
  it aborts the ban, although the service says it must not.
* *Review*: a submission approved once counts as having a first pass after its hours were revoked; hours
  approved when no submission is open leak past a return; devlog hours make the record exceed the hours of
  a row, which blocks its next first pass; withdrawing and shipping again leaves two open submissions.
* *Desk*: two requests past the same approval check pay twice. `clearFraud` "does NOT change status", but
  saves the whole row it read.
* *Sidekick*: a returned pass leaves its hours on the submission, so a later return, edit or load
  subtracts them again, and after a pass of the panel without hours, which adds none to the project, an
  authorization pays the project without them; `isPendingHq` of an edit does not check that the ship is
  the one awaiting HQ; authorize and deauthorize look only at the project's status; a withdrawn ship stays
  `unreviewed` and is open again once the later one is decided.
* *Shown*: an audit's reject zeroes hours whose pipes stay, so paid hours vanish from the builder's bar
  though `getHours` says they are locked in; the rejected pass's review becomes visible; `findByUser` reads
  twice, and an authorization in between shows first-pass hours.
* *Queue*: "1 = next to be reviewed" (`projects/projects.service.ts:172`), yet who is next is told 0,
  unless the ship fell on a whole millisecond: the time of its submission has lost its microseconds when
  `MAX(created_at) <= $1` compares it with the column, so the project does not count itself, nor what was
  shipped just before it in the same millisecond; nor does anyone behind it. "'unreviewed' projects always
  carry an open submission" fails while a ship is between its two saves, or was cut short, or when a draft
  was passed; "offset pagination stays consistent across pages" only while nothing leaves, moves or joins;
  `mapShipStatus` takes older ships for decided.
* *Window*: a project shipped inside its two days and withdrawn loses the rest of them; a stale edit writes
  an older `changesRequestedAt` back; the page asks for the window once and offers on after an extension
  ended; an answer of Slack that is not null stops the lookup by email.
* *Perms*: a red account at connect leaves no entry in the log, so the sweep never finds that ban; a failed
  `/user/info` is taken for a clean account and the sweep may unban (the comment says it skips); a ban that
  throws before its last step leaves no entry and is reversed; the staff member's own record gets
  `admin_ban` too.
* *Access*: two comments call routes Super-Admin-only that have the `FulfillerGuard`; the fulfillment tab
  asks for the state of HCB on behalf of Fulfillers and is refused; `getUser` swallows a failed lookup of
  the role; `banAndRejectProject` "aborts before anything is mutated" after it saved the note.
* *Sessions, Signup, Impersonation*: a profile edit signs a new token without a look at the ban; a refresh
  answered 429, or 401 because the database failed, deletes the cookies of a live session; each callback
  deletes the state cookie of whichever sign-in is current; a nested impersonation overwrites the stash
  that "restores admin's original tokens"; a logout while impersonating leaves the `admin_*` cookies.
* *Certificates, Devlogs*: "the partial unique index protects this path", yet two grant certificates can
  exist; `mirrorSessionToCdn` "never throws", but its save can.
* *Notices*: "re-run only reaches users who …" also reaches those skipped, or whose mark a stale save took
  off; a crash between message and mark sends it again, one after the golden UPDATE loses it for good; "a
  second run is a no-op" fails once golden is revoked; markers called mutually exclusive can both be set
  by two saves that compare before either writes.
* *Stats*: "entries never need invalidation", but a failed span is counted 0 and memoised; a caller that
  joins a backfill begun on an earlier day is told 0 for the missing day; "back-to-back loads must not
  multiply that fan-out", concurrent ones do; a slow computation overwrites a newer cache entry; a refused
  Airtable page truncates the sign-ups for ten minutes; a failed Hackatime call drops a builder from the
  leaderboard for a minute.
* *Pages*: "Refresh shop items" does nothing; handlers read the selection again after an `await`; answers of
  `openProjectDetail` and `selectProject` cross; the grant modal closes while it submits; keyboard shortcuts
  pass by what the markup withholds; "remove current item" of both queues removes whatever is current when
  the answer comes; opening one's own tab fetches updates and marks them read at the same time, so one that
  arrives in between is marked unseen.

By reading only: `setIntent`, `updateShopItem` and the spotlight save whole rows read before a call or
without a lock, and undo what was committed in between. `PROJECT.json` lists them under `hazards`, without
a property, because the state they spoil is `Shop`'s, whose theorems are about its transactions.

## 6. Not modelled

* *Fraud review*: nobody calls `stageProjectForReview` or `poll`, and `onApplicationBootstrap` returns
  before it starts the timer. *Attend*: three attempts after a committed purchase, fire and forget. *Audit
  iframe contexts*: single-use ids in a map, every operation one synchronous call. *Crescent*: signs a
  link. *Migrations*: run once, before the service.
* The fulfilment feed, the country backfill, listings, news, comments and the gallery; the closing preview
  of the shop; the conversions of Sidekick's mappers; the sync of approved projects to Airtable, which has
  no state of its own; the messages after a commit, which are best effort.
* Markup that shows what it is given: the guide, the FAQ, the landing page and its parallax, the drawing of
  hour breakdowns, the page and image of a certificate.
* What other services answer is data: any answer the code distinguishes may come. A sum of hours is exact
  in `Review`; the code's 4-byte floats are not modelled.

What is left to do: the whole-row saves of users and items next to `Shop`, with the exceptions they force
on its conservation laws.
