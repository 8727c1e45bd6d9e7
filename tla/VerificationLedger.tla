------------------------- MODULE VerificationLedger -------------------------
(***************************************************************************)
(* What the verification API promises of its jobs, with nothing of how the *)
(* tables are written: a job is accepted for one contract and gets one     *)
(* outcome, success only for a contract that is verified, and a verified   *)
(* contract stays verified.                                                *)
(***************************************************************************)
CONSTANTS Jobs, Contracts, None

VARIABLES subject,    (* the contract of an accepted job                   *)
          outcome,    (* none, open, success or an error code              *)
          verified    (* the contracts that have a match                   *)

vars == <<subject, outcome, verified>>

Errors == {"verify_error", "already_verified", "internal_error"}

Init == /\ subject = [j \in Jobs |-> None]
        /\ outcome = [j \in Jobs |-> "none"]
        /\ verified = {}

Accept(j, c) == /\ outcome[j] = "none"
                /\ outcome' = [outcome EXCEPT ![j] = "open"]
                /\ subject' = [subject EXCEPT ![j] = c]
                /\ UNCHANGED verified

\* Some task stored a match; its own job may still fail.
Verify(c) == /\ verified' = verified \cup {c}
             /\ UNCHANGED <<subject, outcome>>

Succeed(j) == /\ outcome[j] = "open"
              /\ subject[j] \in verified
              /\ outcome' = [outcome EXCEPT ![j] = "success"]
              /\ UNCHANGED <<subject, verified>>

\* The match and the outcome in one transaction.
VerifyAndSucceed(j) == /\ outcome[j] = "open"
                       /\ outcome' = [outcome EXCEPT ![j] = "success"]
                       /\ verified' = verified \cup {subject[j]}
                       /\ UNCHANGED subject

Fail(j, code) == /\ outcome[j] = "open"
                 /\ outcome' = [outcome EXCEPT ![j] = code]
                 /\ UNCHANGED <<subject, verified>>

\* The one outcome that may still change: the success was written, but the
\* server was told it was not.
Retract(j) == /\ outcome[j] = "success"
              /\ outcome' = [outcome EXCEPT ![j] = "internal_error"]
              /\ UNCHANGED <<subject, verified>>

Next ==
  \/ \E j \in Jobs :
       \/ \E c \in Contracts : Accept(j, c)
       \/ Succeed(j)
       \/ VerifyAndSucceed(j)
       \/ \E code \in Errors : Fail(j, code)
       \/ Retract(j)
  \/ \E c \in Contracts : Verify(c)

Spec == Init /\ [][Next]_vars
=============================================================================
