----------------------------- MODULE MCServices -----------------------------
(* Services that share nothing but the process they run in, each checked by *)
(* itself: a behaviour is one of HcbToken, of Devlogs, of Certificates or of *)
(* Sessions.                                                                *)
EXTENDS HcbToken, Devlogs, Certificates, Sessions

CONSTANTS o1, o2

VARIABLE focus

servicesAll == <<hcbVars, devlogVars, certVars, vars, focus>>

MCPrice == [o \in {o1, o2} |-> IF o = o1 THEN 1 ELSE 2]
MCItemOf == [o \in {o1, o2} |-> o]

MCInit ==
    /\ HcbInit /\ DevlogsInit /\ CertificatesInit /\ SessionsInit
    /\ focus \in {"hcb", "devlogs", "certificates", "sessions"}

MCNext ==
    /\ UNCHANGED focus
    /\ \/ focus = "hcb" /\ HcbNext
          /\ UNCHANGED <<devlogVars, certVars, vars>>
       \/ focus = "devlogs" /\ DevlogsNext
          /\ UNCHANGED <<hcbVars, certVars, vars>>
       \/ focus = "certificates" /\ CertificatesNext
          /\ UNCHANGED <<hcbVars, devlogVars, vars>>
       \/ focus = "sessions" /\ SessionsNext
          /\ UNCHANGED <<hcbVars, devlogVars, certVars>>

MCSpec == MCInit /\ [][MCNext]_servicesAll

(* Nothing is enabled, and so nothing is owed, in a service that stands     *)
(* still in its initial state.                                              *)
FairMCSpec ==
    MCSpec /\ HcbFairness /\ CertificatesFairness /\ SessionsFairness

(* The types of the four parts, with what no row may hold: a refresh in     *)
(* flight without the token it spends, an approved devlog without hours, a  *)
(* second certificate that the unique indexes exclude, a request that       *)
(* renews a session it has no token of.                                     *)
ServicesTypeOK ==
    /\ HcbTypeOK /\ DevlogsTypeOK /\ CertificatesTypeOK
    /\ SessionsTypeOK
=============================================================================
