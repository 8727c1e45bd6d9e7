----------------------------- MODULE HealthAlerts -----------------------------
(***************************************************************************)
(* TimedCounter and the two functions of utils/alert.ts.                   *)
(*                                                                         *)
(* In the monitor every step of a syncer reports to alertError, in a       *)
(* finally block that waits for it, how the call of the node went.         *)
(* alertError takes the channels in turn and asks the one counter of the   *)
(* syncer for each; what it throws replaces the result of the step.        *)
(* In the server insertNewSimilarContract starts alertErrorImmediately and *)
(* does not wait: what that throws is an unhandled rejection.              *)
(* Time passes between all steps, so also while a message is sent.         *)
(***************************************************************************)
EXTENDS Integers, Sequences, Functions

CONSTANTS
  Configured,  (* the channels of an alert, in order                       *)
  Enablings,   (* the sets of them that may have enable set                *)
  Threshold,   (* of a TimedCounter                                        *)
  Remind,
  None,
  MaxTime      (* bound on the clock                                       *)

Channels == Range(Configured)

ASSUME AlertAssumption ==
  /\ Configured \in Seq(Channels)
  /\ Enablings \subseteq SUBSET Channels
  /\ Threshold \in Nat /\ Remind \in Nat \ {0} /\ MaxTime \in Nat
  /\ None \notin Nat

VARIABLES
  enabled,            (* the channels in the manager                       *)
  now,
  failedAt, reports,  (* the TimedCounter: first failure time, reports     *)
  node,               (* how the node answered in the syncer's step        *)
  step,               (* its alertError                                    *)
  result,             (* how that step ended: "none" while it runs         *)
  urgent,             (* alertErrorImmediately in the server               *)
  server,             (* whether the server runs                           *)
  since, checked,     (* history: first failure and latest look at the
                         counter in the current outage                     *)
  alarms, recovered   (* history: messages of this outage; whether a
                         recovery was announced after the latest alarm     *)

counter == <<failedAt, reports>>
history == <<since, checked, alarms, recovered>>
monitor == <<counter, node, step, result, history>>
vars == <<enabled, now, monitor, urgent, server>>

\* A loop over the channels: the next one, and whether errs is not empty.
Idle == [pc |-> "idle", next |-> 1, errs |-> FALSE]

Init ==
  /\ enabled \in Enablings
  /\ now = 0
  /\ failedAt = None /\ reports = 0
  /\ node = "ok"
  /\ step = Idle
  /\ result = "none"
  /\ urgent = Idle
  /\ server = "up"
  /\ since = None /\ checked = 0
  /\ alarms = 0 /\ recovered = TRUE

Tick ==
  /\ now < MaxTime
  /\ now' = now + 1
  /\ UNCHANGED <<enabled, monitor, urgent, server>>

-----------------------------------------------------------------------------
(* TimedCounter, at the current time *)

Healthy == failedAt = None
FirstFailure == IF Healthy THEN now ELSE failedAt
Elapsed == now - FirstFailure

\* A plausible slip: the remind time counts from the report before.
AlarmDueOnce == Elapsed >= Threshold /\ (reports = 0 \/ Elapsed >= Threshold + Remind)

\* onFailureAt: unhealthy, or unrecovered.
AlarmDue == Elapsed >= Threshold /\ (reports = 0 \/ Elapsed >= Threshold + Remind * reports)

OnFailure ==
  /\ failedAt' = FirstFailure
  /\ reports' = IF AlarmDue THEN reports + 1 ELSE reports

\* A plausible slip: longer than the threshold.
RecoveredDueStrict == ~Healthy /\ Elapsed > Threshold

\* onSuccessAt
RecoveredDue == ~Healthy /\ Elapsed >= Threshold

\* A plausible slip: the failure time is kept.
OnSuccessKeeping == UNCHANGED failedAt /\ reports' = 0

OnSuccess == failedAt' = None /\ reports' = 0

-----------------------------------------------------------------------------
(* alertError, in a step of a syncer *)

\* The call of the node: a head that does not move is an error for the counter
\* only.  A refused range of logs is no error.
Nodes == {"ok", "stuck", "error"}

CallNode ==
  /\ step.pc = "idle"
  /\ node' \in Nodes
  /\ step' = [step EXCEPT !.pc = "channels"]
  /\ result' = "none"
  /\ UNCHANGED <<enabled, now, counter, urgent, server, history>>

Channel(t) == Configured[t.next]

AtChannel(t, found) ==
  /\ t.pc = "channels" /\ t.next <= Len(Configured)
  /\ (Channel(t) \in enabled) = found

Skipped(t) == [t EXCEPT !.next = @ + 1]
SkippedWithError(t) == [t EXCEPT !.next = @ + 1, !.errs = TRUE]

\* The counter is not asked for a channel that is not found.
UnknownChannel ==
  /\ AtChannel(step, FALSE)
  /\ step' = SkippedWithError(step)
  /\ UNCHANGED <<enabled, now, node, counter, result, urgent, server, history>>

ReportSuccess ==
  /\ AtChannel(step, TRUE) /\ node = "ok"
  /\ OnSuccess
  /\ step' = IF RecoveredDue THEN [step EXCEPT !.pc = "sending"] ELSE Skipped(step)
  /\ recovered' = (recovered \/ RecoveredDue)
  /\ since' = None /\ alarms' = 0 /\ checked' = now
  /\ UNCHANGED <<enabled, now, node, result, urgent, server>>

ReportFailure ==
  /\ AtChannel(step, TRUE) /\ node # "ok"
  /\ OnFailure
  /\ step' = IF AlarmDue THEN [step EXCEPT !.pc = "sending"] ELSE Skipped(step)
  /\ alarms' = IF AlarmDue THEN alarms + 1 ELSE alarms
  /\ recovered' = (recovered /\ ~AlarmDue)
  /\ since' = IF since = None THEN now ELSE since
  /\ checked' = now
  /\ UNCHANGED <<enabled, now, node, result, urgent, server>>

\* ch.send ends; an error of it is kept for the end of the loop.
Send ==
  /\ step.pc = "sending"
  /\ \E t \in {Skipped(step), SkippedWithError(step)} :
       step' = [t EXCEPT !.pc = "channels"]
  /\ UNCHANGED <<enabled, now, node, counter, result, urgent, server, history>>

\* An AlertError replaces what the step returned; a stuck node's step goes on.
EndStep ==
  /\ step.pc = "channels" /\ step.next > Len(Configured)
  /\ result' = IF step.errs \/ node = "error" THEN "failed" ELSE "done"
  /\ step' = Idle
  /\ UNCHANGED <<enabled, now, node, counter, urgent, server, history>>

-----------------------------------------------------------------------------
(* alertErrorImmediately, in insertNewSimilarContract without a creation code *)

StoreWithoutCreation ==
  /\ server = "up" /\ urgent.pc = "idle"
  /\ urgent' = [urgent EXCEPT !.pc = "channels"]
  /\ UNCHANGED <<enabled, now, monitor, server>>

SendUrgent ==
  /\ urgent.pc = "channels" /\ urgent.next <= Len(Configured)
  /\ urgent' \in (IF Channel(urgent) \in enabled THEN {Skipped(urgent)} ELSE {})
                   \cup {SkippedWithError(urgent)}
  /\ UNCHANGED <<enabled, now, monitor, server>>

EndUrgent ==
  /\ urgent.pc = "channels" /\ urgent.next > Len(Configured)
  /\ urgent' = Idle
  /\ server' = IF urgent.errs THEN "down" ELSE server
  /\ UNCHANGED <<enabled, now, monitor>>

\* docker-compose.yaml: restart: unless-stopped
RestartServer ==
  /\ server = "down"
  /\ server' = "up"
  /\ UNCHANGED <<enabled, now, monitor, urgent>>

-----------------------------------------------------------------------------

Alert == UnknownChannel \/ ReportSuccess \/ ReportFailure \/ Send \/ EndStep

Next ==
  \/ Tick
  \/ CallNode
  \/ Alert
  \/ StoreWithoutCreation \/ SendUrgent \/ EndUrgent \/ RestartServer

Spec == Init /\ [][Next]_vars

\* The loop of the syncer takes its next step, and calls end.
FairSpec ==
  /\ Spec
  /\ WF_vars(Alert)
  /\ WF_vars(CallNode)

-----------------------------------------------------------------------------
(* Properties *)

TypeOK ==
  /\ enabled \in Enablings
  /\ now \in 0..MaxTime
  /\ failedAt \in 0..now \cup {None}
  /\ reports \in Nat
  /\ Healthy => reports = 0
  /\ step.pc \in {"idle", "channels", "sending"}
  /\ node \in Nodes
  /\ result \in {"none", "done", "failed"}
  /\ \A t \in {step, urgent} :
       /\ t.next \in 1..Len(Configured) + 1
       /\ t.errs \in BOOLEAN
       /\ t.pc = "sending" => t.next <= Len(Configured)
       /\ t.pc = "idle" => t.next = 1 /\ ~t.errs
  /\ server \in {"up", "down"}

\* However many channels share the counter, are missing or fail, and however
\* often they look at it: an outage is announced as soon as a look finds it as
\* old as the threshold, and by then with at most one message and one more for
\* each remind interval after it.  (A late look leaves several of them due, and
\* then two channels are told at one instant.)
AlarmsFollowTheOutage ==
  LET late == checked - since - Threshold
  IN  since # None =>
        IF late < 0 THEN alarms = 0 ELSE alarms \in 1 .. 1 + late \div Remind

\* When the syncer is healthy again, a recovery has been announced after the
\* latest alarm.  (Not to the channel that had the alarm: the first channel
\* that is found gets it.)
AlarmsAreClosed == Healthy => recovered

\* A message that cannot be sent costs a syncer one step: when the node is well
\* and the channels exist, steps succeed again.
StepsGoOn == <>[](node = "ok" /\ Channels \subseteq enabled) => []<>(result = "done")

\* README.md: alerts are there for those who configure a channel.  Without one
\* a step of a syncer that has ended has not failed, when the node answered it.
AlertsAreOptional == enabled = {} => (node # "error" => result # "failed")
=============================================================================
