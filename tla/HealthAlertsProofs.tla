-------------------------- MODULE HealthAlertsProofs --------------------------
(***************************************************************************)
(* What holds of the alerts of the monitor for any number of channels, any *)
(* threshold and remind interval, and whichever channels are missing, fail *)
(* or are slow.                                                            *)
(***************************************************************************)
EXTENDS HealthAlerts, TLAPS

Loops == [pc : {"idle", "channels", "sending"}, next : 1..Len(Configured) + 1, errs : BOOLEAN]

\* The loops over the channels.
LoopInv ==
  /\ step \in Loops /\ urgent \in Loops
  /\ step.pc = "sending" => step.next <= Len(Configured)
  /\ step.pc = "idle" => step.next = 1 /\ ~step.errs
  /\ urgent.pc # "sending"
  /\ urgent.pc = "idle" => urgent.next = 1 /\ ~urgent.errs

PlainTypes ==
  /\ enabled \in Enablings
  /\ node \in Nodes
  /\ result \in {"none", "done", "failed"}
  /\ server \in {"up", "down"}

Age == checked - failedAt

(***************************************************************************)
(* The counter and what has been told of it.  In an outage the latest look *)
(* decides: before the threshold nothing has been sent; from then on there *)
(* is an alarm, and the last one was due by then.                          *)
(***************************************************************************)
CounterInv ==
  /\ now \in 0..MaxTime /\ checked \in 0..now
  /\ failedAt \in 0..now \cup {None} /\ reports \in Nat
  /\ recovered \in BOOLEAN
  /\ since = failedAt /\ alarms = reports
  /\ Healthy => reports = 0 /\ recovered
  /\ ~Healthy => /\ failedAt <= checked
                 /\ Age < Threshold => reports = 0 /\ recovered
                 /\ Age >= Threshold =>
                      reports >= 1 /\ (reports - 1) * Remind <= Age - Threshold

LengthIsNat == Len(Configured) \in Nat

LEMMA ConfiguredLength == LengthIsNat
BY AlertAssumption DEF LengthIsNat

-----------------------------------------------------------------------------
(* The loops *)

LEMMA LoopInit == Init => LoopInv /\ PlainTypes
<1> SUFFICES ASSUME Init PROVE LoopInv /\ PlainTypes
  OBVIOUS
<1>1. step = Idle /\ urgent = Idle
  BY Zenon DEF Init
<1>2. Idle \in Loops /\ Idle.pc = "idle" /\ Idle.next = 1 /\ ~Idle.errs
  BY ConfiguredLength DEF Idle, Loops, LengthIsNat
<1>3. LoopInv
  BY <1>1, <1>2 DEF LoopInv
<1>4. PlainTypes
  <2>1. enabled \in Enablings
    BY DEF Init
  <2>2. node \in Nodes /\ result \in {"none", "done", "failed"} /\ server \in {"up", "down"}
    BY DEF Init, Nodes
  <2> QED
    BY <2>1, <2>2 DEF PlainTypes
<1> QED
  BY <1>3, <1>4

\* A loop that is not idle and has a channel left goes on to the next.
LEMMA Advance ==
  ASSUME NEW t \in Loops, t.next <= Len(Configured)
  PROVE  /\ Skipped(t) \in Loops /\ SkippedWithError(t) \in Loops
         /\ Skipped(t).pc = t.pc /\ SkippedWithError(t).pc = t.pc
<1>1. t.next \in 1..Len(Configured) + 1 /\ t.next + 1 \in 1..Len(Configured) + 1
  BY ConfiguredLength DEF Loops, LengthIsNat
<1>2. Skipped(t) \in Loops /\ Skipped(t).pc = t.pc
  BY <1>1 DEF Loops, Skipped
<1>3. SkippedWithError(t) \in Loops /\ SkippedWithError(t).pc = t.pc
  BY <1>1 DEF Loops, SkippedWithError
<1> QED
  BY <1>2, <1>3

LEMMA LoopStep ==
  ASSUME LoopInv, [Next]_vars PROVE LoopInv'
<1> USE ConfiguredLength DEF LengthIsNat
<1>1. CASE UNCHANGED vars
  BY <1>1 DEF vars, monitor, counter, history, LoopInv
<1>2. CASE Tick \/ RestartServer
  BY <1>2 DEF Tick, RestartServer, monitor, LoopInv
<1>3. CASE CallNode
  BY <1>3 DEF CallNode, LoopInv, Loops
<1>4. CASE UnknownChannel
  BY <1>4, Advance DEF UnknownChannel, AtChannel, LoopInv
<1>5. CASE ReportSuccess
  <2>1. CASE RecoveredDue
    BY <1>5, <2>1 DEF ReportSuccess, AtChannel, LoopInv, Loops
  <2>2. CASE ~RecoveredDue
    BY <1>5, <2>2, Advance DEF ReportSuccess, AtChannel, LoopInv
  <2> QED
    BY <2>1, <2>2
<1>6. CASE ReportFailure
  <2>1. CASE AlarmDue
    BY <1>6, <2>1 DEF ReportFailure, AtChannel, LoopInv, Loops
  <2>2. CASE ~AlarmDue
    BY <1>6, <2>2, Advance DEF ReportFailure, AtChannel, LoopInv
  <2> QED
    BY <2>1, <2>2
<1>7. CASE Send
  <2>1. PICK t \in {Skipped(step), SkippedWithError(step)} : step' = [t EXCEPT !.pc = "channels"]
    BY <1>7 DEF Send
  <2>2. t \in Loops
    BY <1>7, <2>1, Advance DEF Send, LoopInv
  <2>3. urgent' = urgent
    BY <1>7 DEF Send
  <2> QED
    BY <2>1, <2>2, <2>3 DEF LoopInv, Loops
<1>8. CASE EndStep
  BY <1>8 DEF EndStep, LoopInv, Loops, Idle
<1>9. CASE StoreWithoutCreation
  BY <1>9 DEF StoreWithoutCreation, LoopInv, Loops, monitor
<1>10. CASE SendUrgent
  <2>1. urgent' \in {Skipped(urgent), SkippedWithError(urgent)}
    BY <1>10 DEF SendUrgent
  <2>2. urgent' \in Loops /\ urgent'.pc = "channels"
    BY <1>10, <2>1, Advance DEF SendUrgent, LoopInv
  <2>3. step' = step
    BY <1>10 DEF SendUrgent, monitor
  <2> QED
    BY <2>2, <2>3 DEF LoopInv
<1>11. CASE EndUrgent
  BY <1>11 DEF EndUrgent, LoopInv, Loops, Idle, monitor
<1> QED
  BY <1>1, <1>2, <1>3, <1>4, <1>5, <1>6, <1>7, <1>8, <1>9, <1>10, <1>11 DEF Next, Alert

LEMMA PlainStep ==
  ASSUME PlainTypes, [Next]_vars PROVE PlainTypes'
<1>1. CASE UNCHANGED vars \/ Tick \/ StoreWithoutCreation \/ SendUrgent
  BY <1>1 DEF Tick, StoreWithoutCreation, SendUrgent, vars, monitor, PlainTypes
<1>2. CASE Alert
  BY <1>2 DEF Alert, UnknownChannel, ReportSuccess, ReportFailure, Send, EndStep, PlainTypes
<1>3. CASE CallNode \/ EndUrgent \/ RestartServer
  BY <1>3 DEF CallNode, EndUrgent, RestartServer, monitor, PlainTypes
<1> QED
  BY <1>1, <1>2, <1>3 DEF Next

-----------------------------------------------------------------------------
(* The counter *)

LEMMA CounterInit == Init => CounterInv
BY AlertAssumption DEF Init, CounterInv, Healthy

\* A look at a failing node at the age the outage has by now.
LEMMA FailureKeeps ==
  ASSUME CounterInv, ReportFailure PROVE CounterInv'
<1> DEFINE first == FirstFailure
           age == now - first
<1>1. /\ now' = now /\ failedAt' = first /\ since' = first /\ checked' = now
      /\ reports' = (IF AlarmDue THEN reports + 1 ELSE reports)
      /\ alarms' = reports' /\ recovered' = (recovered /\ ~AlarmDue)
  BY DEF ReportFailure, OnFailure, CounterInv, FirstFailure, Healthy
<1>2. now \in Nat /\ first \in 0..now /\ age \in Nat /\ first # None
  BY AlertAssumption DEF CounterInv, FirstFailure, Healthy
<1>3. reports \in Nat /\ Threshold \in Nat /\ Remind \in Nat /\ checked \in Nat /\ checked <= now
  BY AlertAssumption DEF CounterInv
<1>4. AlarmDue <=> age >= Threshold /\ (reports = 0 \/ age >= Threshold + Remind * reports)
  BY DEF AlarmDue, Elapsed
<1>5. age < Threshold => reports = 0 /\ recovered
  <2>1. CASE Healthy
    BY <2>1 DEF CounterInv
  <2>2. CASE ~Healthy
    <3>1. first = failedAt /\ Age <= age
      BY <2>2, <1>2, <1>3 DEF FirstFailure, Age, Healthy, CounterInv
    <3> QED
      BY <2>2, <3>1, <1>2, <1>3 DEF CounterInv, Age
  <2> QED
    BY <2>1, <2>2
<1>6. reports >= 1 => (reports - 1) * Remind <= age - Threshold
  <2> SUFFICES ASSUME reports >= 1 PROVE (reports - 1) * Remind <= age - Threshold
    OBVIOUS
  <2>1. ~Healthy
    BY <1>3 DEF CounterInv
  <2>2. first = failedAt /\ failedAt \in Nat /\ Age <= age /\ Age \in Int
    BY <2>1, <1>2, <1>3 DEF FirstFailure, Age, Healthy, CounterInv
  <2>3. Age >= Threshold
    BY <2>1, <2>2, <1>3 DEF CounterInv
  <2>4. (reports - 1) * Remind <= Age - Threshold
    BY <2>1, <2>3 DEF CounterInv
  <2>5. (reports - 1) * Remind \in Int
    BY <1>3
  <2> QED
    BY <2>2, <2>4, <2>5, <1>2, <1>3
<1>7. age >= Threshold => reports' >= 1 /\ (reports' - 1) * Remind <= age - Threshold
  <2> SUFFICES ASSUME age >= Threshold
               PROVE  reports' >= 1 /\ (reports' - 1) * Remind <= age - Threshold
    OBVIOUS
  <2>1. CASE reports = 0
    <3>1. reports' = 1
      BY <2>1, <1>1, <1>4
    <3>2. (1 - 1) * Remind = 0
      BY <1>3
    <3> QED
      BY <3>1, <3>2, <1>2, <1>3
  <2>2. CASE reports # 0 /\ age >= Threshold + Remind * reports
    <3>1. reports' = reports + 1
      BY <2>2, <1>1, <1>4
    <3>2. (reports + 1 - 1) * Remind = Remind * reports /\ Remind * reports \in Nat
      BY <1>3
    <3> QED
      BY <2>2, <3>1, <3>2, <1>2, <1>3
  <2>3. CASE reports # 0 /\ ~(age >= Threshold + Remind * reports)
    <3>1. reports' = reports
      BY <2>3, <1>1, <1>4
    <3> QED
      BY <2>3, <3>1, <1>3, <1>6
  <2> QED
    BY <2>1, <2>2, <2>3
<1>8. /\ now' \in 0..MaxTime /\ checked' \in 0..now' /\ failedAt' \in 0..now'
      /\ reports' \in Nat /\ recovered' \in BOOLEAN
  BY <1>1, <1>2, <1>3 DEF CounterInv
<1>9. age < Threshold => reports' = 0 /\ recovered'
  <2> SUFFICES ASSUME age < Threshold PROVE reports' = 0 /\ recovered'
    OBVIOUS
  <2>1. ~AlarmDue
    <3>1. ~(age >= Threshold)
      BY <1>2, <1>3
    <3> QED
      BY <3>1, <1>4
  <2>2. reports = 0 /\ recovered
    BY <1>5
  <2>3. reports' = reports
    BY <2>1, <1>1
  <2>4. recovered'
    BY <2>1, <2>2, <1>1, Zenon
  <2> QED
    BY <2>2, <2>3, <2>4
<1>10. failedAt' # None /\ failedAt' <= checked' /\ Age' = age
  BY <1>1, <1>2 DEF Age
<1> QED
  BY <1>1, <1>7, <1>8, <1>9, <1>10 DEF CounterInv, Healthy

LEMMA SuccessKeeps ==
  ASSUME CounterInv, ReportSuccess PROVE CounterInv'
<1>1. /\ now' = now /\ failedAt' = None /\ since' = None /\ checked' = now
      /\ reports' = 0 /\ alarms' = 0 /\ recovered' = (recovered \/ RecoveredDue)
  BY DEF ReportSuccess, OnSuccess
<1>2. now \in 0..MaxTime /\ now \in 0..now /\ recovered \in BOOLEAN
  BY AlertAssumption DEF CounterInv
<1>3. recovered \/ RecoveredDue
  <2>1. CASE Healthy
    BY <2>1 DEF CounterInv
  <2>2. CASE ~Healthy
    <3>1. failedAt \in Nat /\ now \in Nat /\ checked \in Nat /\ checked <= now
      BY <2>2, AlertAssumption DEF CounterInv, Healthy
    <3>2. Age < Threshold => recovered
      BY <2>2 DEF CounterInv
    <3>3. Age >= Threshold => RecoveredDue
      BY <2>2, <3>1, AlertAssumption DEF RecoveredDue, Elapsed, FirstFailure, Age
    <3>4. Age \in Int /\ Threshold \in Nat
      BY <3>1, AlertAssumption DEF Age
    <3> QED
      BY <3>2, <3>3, <3>4
  <2> QED
    BY <2>1, <2>2
<1> QED
  BY <1>1, <1>2, <1>3 DEF CounterInv, Healthy

LEMMA CounterStep ==
  ASSUME CounterInv, [Next]_vars PROVE CounterInv'
<1>1. CASE Tick
  <2>1. now' = now + 1 /\ now < MaxTime /\ UNCHANGED <<counter, history>>
    BY <1>1 DEF Tick, monitor
  <2>2. now' \in 0..MaxTime /\ 0..now \subseteq 0..now'
    BY <2>1, AlertAssumption DEF CounterInv
  <2> QED
    BY <2>1, <2>2 DEF CounterInv, Healthy, Age, counter, history
<1>2. CASE ReportFailure
  BY <1>2, FailureKeeps
<1>3. CASE ReportSuccess
  BY <1>3, SuccessKeeps
<1>4. CASE UNCHANGED <<now, counter, history>>
  BY <1>4 DEF CounterInv, Healthy, Age, counter, history
<1>5. UnknownChannel \/ Send \/ EndStep \/ CallNode => UNCHANGED <<now, counter, history>>
  BY DEF UnknownChannel, Send, EndStep, CallNode, counter, history
<1>6. StoreWithoutCreation \/ SendUrgent \/ EndUrgent \/ RestartServer \/ UNCHANGED vars
        => UNCHANGED <<now, counter, history>>
  BY DEF StoreWithoutCreation, SendUrgent, EndUrgent, RestartServer, vars, monitor
<1> QED
  BY <1>1, <1>2, <1>3, <1>4, <1>5, <1>6 DEF Next, Alert

-----------------------------------------------------------------------------
(* Theorems *)

AlertInv == LoopInv /\ PlainTypes /\ CounterInv

\* The inductive invariant of the alerts.
THEOREM AlertInvariance == Spec => []AlertInv
<1>1. Init => AlertInv
  BY LoopInit, CounterInit DEF AlertInv
<1>2. AlertInv /\ [Next]_vars => AlertInv'
  BY LoopStep, PlainStep, CounterStep DEF AlertInv
<1> QED
  BY <1>1, <1>2, PTL DEF Spec

\* Type correctness of the counter and of the two loops over the channels of
\* utils/alert.ts.
THEOREM AlertTypeCorrect == Spec => []TypeOK
<1>1. AlertInv => TypeOK
  <2> SUFFICES ASSUME AlertInv PROVE TypeOK
    OBVIOUS
  <2>1. now \in 0..MaxTime /\ failedAt \in 0..now \cup {None} /\ reports \in Nat
        /\ (Healthy => reports = 0)
    BY DEF AlertInv, CounterInv
  <2>2. /\ step.next \in 1..Len(Configured) + 1 /\ urgent.next \in 1..Len(Configured) + 1
        /\ step.errs \in BOOLEAN /\ urgent.errs \in BOOLEAN
        /\ step.pc \in {"idle", "channels", "sending"}
    BY DEF AlertInv, LoopInv, Loops
  <2>3. enabled \in Enablings /\ node \in Nodes /\ result \in {"none", "done", "failed"}
        /\ server \in {"up", "down"}
    BY DEF AlertInv, PlainTypes
  <2>4. \A t \in {step, urgent} :
          /\ t.next \in 1..Len(Configured) + 1
          /\ t.errs \in BOOLEAN
          /\ t.pc = "sending" => t.next <= Len(Configured)
          /\ t.pc = "idle" => t.next = 1 /\ ~t.errs
    BY <2>2 DEF AlertInv, LoopInv
  <2> QED
    BY <2>1, <2>2, <2>3, <2>4 DEF TypeOK
<1> QED
  BY <1>1, AlertInvariance, PTL

\* k intervals fit into n when their product does.
LEMMA Fits ==
  ASSUME NEW k \in Nat, NEW n \in Nat, NEW d \in Nat \ {0}, k * d <= n
  PROVE  k <= n \div d
<1>1. /\ n \div d \in Nat /\ n < d * (n \div d) + d
  OBVIOUS
<1> DEFINE q == n \div d
<1>2. q \in Nat /\ k * d < d * q + d /\ k * d \in Nat
  BY <1>1
<1> HIDE DEF q
<1>3. ASSUME k >= q + 1 PROVE FALSE
  <2>1. PICK m \in Nat : k = q + 1 + m
    <3>1. k - (q + 1) \in Nat /\ k = q + 1 + (k - (q + 1))
      BY <1>2, <1>3
    <3> QED
      BY <3>1
  <2>2. k * d = d * q + d + m * d /\ m * d \in Nat /\ d * q \in Nat
    BY <1>2, <2>1
  <2> QED
    BY <1>2, <2>2
<1> QED
  BY <1>2, <1>3 DEF q

\* However many channels share the counter of a syncer, are missing, fail or are
\* slow: an outage is announced as soon as it is seen to be as old as the
\* threshold, and by then with at most one message and one more for each remind
\* interval after it.
THEOREM OutageAnnounced == Spec => []AlarmsFollowTheOutage
<1>1. CounterInv => AlarmsFollowTheOutage
  <2> SUFFICES ASSUME CounterInv, since # None PROVE
        LET late == checked - since - Threshold
        IN  IF late < 0 THEN alarms = 0 ELSE alarms \in 1 .. 1 + late \div Remind
    BY DEF AlarmsFollowTheOutage
  <2> DEFINE late == checked - since - Threshold
  <2>1. /\ ~Healthy /\ since = failedAt /\ alarms = reports /\ failedAt \in Nat /\ checked \in Nat
        /\ reports \in Nat /\ Threshold \in Nat /\ Remind \in Nat \ {0}
    BY AlertAssumption DEF CounterInv, Healthy
  <2>2. late = Age - Threshold /\ late \in Int /\ Age \in Int
    BY <2>1 DEF Age
  <2>3. CASE late < 0
    BY <2>1, <2>2, <2>3 DEF CounterInv
  <2>4. CASE late >= 0
    <3>1. reports >= 1 /\ (reports - 1) * Remind <= late
      BY <2>1, <2>2, <2>4 DEF CounterInv
    <3>2. reports - 1 \in Nat /\ late \in Nat
      BY <3>1, <2>1, <2>2, <2>4
    <3>3. reports - 1 <= late \div Remind
      BY <3>1, <3>2, <2>1, Fits
    <3>4. late \div Remind \in Int
      BY <3>2, <2>1
    <3>5. reports \in 1 .. 1 + late \div Remind
      BY <3>1, <3>3, <3>4, <2>1
    <3> QED
      BY <3>5, <2>1, <2>2, <2>4
  <2> QED
    BY <2>2, <2>3, <2>4
<1>2. AlertInv => AlarmsFollowTheOutage
  BY <1>1 DEF AlertInv
<1> QED
  BY <1>2, AlertInvariance, PTL

\* A syncer that is healthy again has announced a recovery after its last alarm.
THEOREM AlarmsGetClosed == Spec => []AlarmsAreClosed
<1>1. AlertInv => AlarmsAreClosed
  BY DEF AlertInv, CounterInv, AlarmsAreClosed
<1> QED
  BY <1>1, AlertInvariance, PTL
=============================================================================
