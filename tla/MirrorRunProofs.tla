-------------------------- MODULE MirrorRunProofs --------------------------
(***************************************************************************)
(* What MirrorRun's runs check on one instance, for every interval, floor, *)
(* timeout and retry budget: the types, the promise behind the pending     *)
(* flag, and the floor between two outbound API calls.                     *)
(***************************************************************************)
EXTENDS MirrorRun, TLAPS

(* What every wake-up has in common keeps the types, given that the timers *)
(* and channels, which each wake-up sets in its own way, are of theirs.    *)
LEMMA ProceedTypes ==
  ASSUME TypeOK, NEW c \in BOOLEAN, Proceed(c),
         trigger' \in BOOLEAN, tickReady' \in BOOLEAN,
         deferredIn' \in Nat, deferredReady' \in BOOLEAN, deferredPending' \in BOOLEAN
  PROVE  TypeOK'
<1> USE RunAssumption
<1>1. answering' \in BOOLEAN /\ cancelled' \in BOOLEAN
  BY Zenon DEF TypeOK, LoopTypes, HistoryTypes, Proceed, BeginAttempt, historyVars
<1>2. LoopTypes'
  BY <1>1 DEF TypeOK, LoopTypes, TimerTypes, Proceed, BeginAttempt
<1>3. TimerTypes'
  BY DEF TypeOK, LoopTypes, TimerTypes, Proceed, BeginAttempt
<1>4. series' \in 0..SeriesCap
  BY DEF TypeOK, HistoryTypes, TimerTypes, Proceed, Capped, SeriesCap
<1>5. gap' \in 0..GapCap
  BY DEF TypeOK, HistoryTypes, TimerTypes, Proceed, BeginAttempt, GapCap
<1> QED
  BY <1>1, <1>2, <1>3, <1>4, <1>5 DEF TypeOK, HistoryTypes, Proceed

(* Every step keeps every variable within its type.                        *)
LEMMA TypeStep == TypeOK /\ [Next]_vars => TypeOK'
<1> SUFFICES ASSUME TypeOK, [Next]_vars PROVE TypeOK'
  OBVIOUS
<1> USE RunAssumption DEF deferredVars, historyVars
<1>1. CASE TriggerRefresh
  <2>1. LoopTypes'
    BY <1>1 DEF TypeOK, LoopTypes, TimerTypes, TriggerRefresh
  <2>2. TimerTypes'
    BY <1>1 DEF TypeOK, LoopTypes, TimerTypes, TriggerRefresh
  <2>3. press' \in {NoPress} \cup 0..PressCap
    BY <1>1 DEF TypeOK, HistoryTypes, PressCap, NoPress, Capped, Longer, TriggerRefresh
  <2>4. HistoryTypes'
    BY <1>1, <2>3 DEF TypeOK, HistoryTypes, GapCap, SeriesCap, Capped, TriggerRefresh
  <2> QED
    BY <2>1, <2>2, <2>4 DEF TypeOK
<1>2. CASE Cancel
  <2>1. LoopTypes'
    BY <1>2 DEF TypeOK, LoopTypes, TimerTypes, Cancel
  <2>2. TimerTypes'
    BY <1>2 DEF TypeOK, LoopTypes, TimerTypes, Cancel
  <2>3. HistoryTypes'
    BY <1>2 DEF TypeOK, HistoryTypes, TimerTypes, Cancel
  <2> QED
    BY <2>1, <2>2, <2>3 DEF TypeOK
<1>3. CASE Elapse
  <2>1. LoopTypes'
    BY <1>3 DEF TypeOK, LoopTypes, TimerTypes, Elapse
  <2>2. TimerTypes'
    BY <1>3 DEF TypeOK, LoopTypes, TimerTypes, Elapse, Longer
  <2>3. press' \in {NoPress} \cup 0..PressCap
    BY <1>3 DEF TypeOK, HistoryTypes, PressCap, NoPress, Capped, Longer, Elapse
  <2>4. HistoryTypes'
    BY <1>3, <2>3 DEF TypeOK, HistoryTypes, GapCap, SeriesCap, Capped, Elapse
  <2> QED
    BY <2>1, <2>2, <2>4 DEF TypeOK
<1>4. CASE WakeByTrigger
  <2>1. Proceed(FALSE) /\ trigger' \in BOOLEAN /\ tickReady' \in BOOLEAN
    BY <1>4, Zenon DEF TypeOK, LoopTypes, TimerTypes, WakeByTrigger
  <2>2. deferredIn' \in Nat /\ deferredReady' \in BOOLEAN
    BY <1>4 DEF TypeOK, TimerTypes, WakeByTrigger, Arm
  <2>3. deferredPending' \in BOOLEAN
    BY <1>4, Zenon DEF TypeOK, TimerTypes, WakeByTrigger, Arm
  <2> QED
    BY <2>1, <2>2, <2>3, ProceedTypes
<1>5. CASE WakeByTick
  <2>1. Proceed(FALSE) /\ trigger' \in BOOLEAN /\ tickReady' \in BOOLEAN
    BY <1>5, Zenon DEF TypeOK, LoopTypes, TimerTypes, WakeByTick
  <2>2. deferredIn' \in Nat /\ deferredReady' \in BOOLEAN
    BY <1>5 DEF TypeOK, TimerTypes, WakeByTick, Arm
  <2>3. deferredPending' \in BOOLEAN
    BY <1>5, Zenon DEF TypeOK, TimerTypes, WakeByTick, Arm
  <2> QED
    BY <2>1, <2>2, <2>3, ProceedTypes
<1>6. CASE WakeByDeferred
  <2>1. Proceed(TRUE) /\ trigger' \in BOOLEAN /\ tickReady' \in BOOLEAN
    BY <1>6, Zenon DEF TypeOK, LoopTypes, TimerTypes, WakeByDeferred
  <2>2. deferredIn' \in Nat
    BY <1>6 DEF TypeOK, TimerTypes, WakeByDeferred
  <2>3. deferredPending' \in BOOLEAN /\ deferredReady' \in BOOLEAN
    BY <1>6, Zenon DEF TypeOK, TimerTypes, WakeByDeferred
  <2> QED
    BY <2>1, <2>2, <2>3, ProceedTypes
<1>7. CASE Return
  <2>1. LoopTypes'
    BY <1>7 DEF TypeOK, LoopTypes, TimerTypes, Return
  <2>2. TimerTypes'
    BY <1>7 DEF TypeOK, LoopTypes, TimerTypes, Return
  <2>3. HistoryTypes'
    BY <1>7 DEF TypeOK, HistoryTypes, TimerTypes, Return
  <2> QED
    BY <2>1, <2>2, <2>3 DEF TypeOK
<1>8. CASE AttemptSucceeds
  <2>1. LoopTypes'
    BY <1>8 DEF TypeOK, LoopTypes, TimerTypes, AttemptSucceeds, EndAttempt
  <2>2. TimerTypes'
    BY <1>8 DEF TypeOK, LoopTypes, TimerTypes, AttemptSucceeds, EndAttempt
  <2>3. HistoryTypes'
    BY <1>8 DEF TypeOK, HistoryTypes, AttemptSucceeds, EndAttempt
  <2> QED
    BY <2>1, <2>2, <2>3 DEF TypeOK
<1>9. CASE AttemptFails
  <2>1. LoopTypes'
    BY <1>9 DEF TypeOK, LoopTypes, TimerTypes, AttemptFails, EndAttempt, Arm, RetryDelay
  <2>2. RetryDelay \in Nat
    BY DEF TypeOK, TimerTypes, RetryDelay
  <2>3. deferredIn' \in Nat
    BY <1>9, <2>2 DEF TypeOK, TimerTypes, AttemptFails, Arm
  <2>4. deferredReady' \in BOOLEAN /\ deferredPending' \in BOOLEAN
    BY <1>9, Zenon DEF TypeOK, TimerTypes, AttemptFails, Arm
  <2>5. TimerTypes'
    BY <1>9, <2>3, <2>4 DEF TypeOK, TimerTypes, AttemptFails, EndAttempt
  <2>6. HistoryTypes'
    BY <1>9 DEF TypeOK, HistoryTypes, AttemptFails, EndAttempt
  <2> QED
    BY <2>1, <2>5, <2>6 DEF TypeOK
<1>10. CASE UNCHANGED vars
  BY <1>10 DEF vars, TypeOK, LoopTypes, TimerTypes, HistoryTypes
<1> QED
  BY <1>1, <1>2, <1>3, <1>4, <1>5, <1>6, <1>7, <1>8, <1>9, <1>10 DEF Next

(* The variables of Run keep their types in every behaviour.               *)
THEOREM TypeCorrect == Spec => []TypeOK
<1>1. Init => TypeOK
  <2> SUFFICES ASSUME Init PROVE TypeOK
    OBVIOUS
  <2>1. /\ cancelled \in BOOLEAN /\ trigger \in BOOLEAN /\ tickReady \in BOOLEAN
        /\ deferredReady \in BOOLEAN /\ deferredPending \in BOOLEAN /\ answering \in BOOLEAN
    BY Zenon DEF Init
  <2>2. failures \in 0..MaxRetries /\ running \in 0..RefreshTimeout
    BY RunAssumption DEF Init
  <2>3. tickIn \in 1..Interval /\ deferredIn \in Nat /\ floorLeft \in 0..Floor
    BY RunAssumption DEF Init
  <2>4. gap \in 0..GapCap /\ series \in 0..SeriesCap
    BY RunAssumption DEF Init, GapCap, SeriesCap
  <2> QED
    BY <2>1, <2>2, <2>3, <2>4, Zenon
       DEF Init, TypeOK, LoopTypes, TimerTypes, HistoryTypes
<1> QED
  BY <1>1, TypeStep, PTL DEF Spec

-----------------------------------------------------------------------------
(* No step breaks the promise: whoever sets the pending flag arms the      *)
(* timer, and only the timer's own tick clears it.                         *)
LEMMA WakeUpsStep ==
  TypeOK /\ WakeUpsAreKept /\ [Next]_vars => WakeUpsAreKept'
<1> SUFFICES ASSUME TypeOK, WakeUpsAreKept, [Next]_vars PROVE WakeUpsAreKept'
  OBVIOUS
<1> USE RunAssumption DEF TypeOK, LoopTypes, TimerTypes, WakeUpsAreKept, deferredVars, historyVars
<1>1. CASE TriggerRefresh
  BY <1>1 DEF TriggerRefresh
<1>2. CASE Cancel
  BY <1>2 DEF Cancel
<1>3. CASE Elapse
  BY <1>3 DEF Elapse, Longer
<1>4. CASE WakeByTrigger
  BY <1>4 DEF WakeByTrigger, Proceed, BeginAttempt, Arm
<1>5. CASE WakeByTick
  BY <1>5 DEF WakeByTick, Proceed, BeginAttempt, Arm
<1>6. CASE WakeByDeferred
  BY <1>6 DEF WakeByDeferred, Proceed, BeginAttempt
<1>7. CASE Return
  BY <1>7 DEF Return
<1>8. CASE AttemptSucceeds
  BY <1>8 DEF AttemptSucceeds, EndAttempt
<1>9. CASE AttemptFails
  BY <1>9 DEF AttemptFails, EndAttempt, Arm, RetryDelay
<1>10. CASE UNCHANGED vars
  BY <1>10 DEF vars
<1> QED
  BY <1>1, <1>2, <1>3, <1>4, <1>5, <1>6, <1>7, <1>8, <1>9, <1>10 DEF Next

(* arm's flag and the deferred timer agree for ever, and a failed attempt  *)
(* with budget left always has its retry on the way.                       *)
THEOREM WakeUpsHold == Spec => []WakeUpsAreKept
<1>1. Init => WakeUpsAreKept
  BY DEF Init, WakeUpsAreKept
<1> QED
  BY <1>1, WakeUpsStep, TypeCorrect, PTL DEF Spec

-----------------------------------------------------------------------------
(* The strengthening behind the floor: what is left of it and what has     *)
(* passed since the last attempt began always add up to it.                *)
FloorInv == gap + floorLeft >= Floor

(* Time moves the two against each other, an attempt resets both, nothing  *)
(* else touches either.                                                    *)
LEMMA FloorStep ==
  TypeOK /\ FloorInv /\ [Next]_vars
    => FloorInv' /\ (pc = "select" /\ pc' = "refreshing" => gap >= Floor)
<1> SUFFICES ASSUME TypeOK, FloorInv, [Next]_vars
             PROVE  FloorInv' /\ (pc = "select" /\ pc' = "refreshing" => gap >= Floor)
  OBVIOUS
<1> USE RunAssumption DEF TypeOK, LoopTypes, TimerTypes, HistoryTypes, FloorInv, GapCap, historyVars
<1>1. CASE TriggerRefresh
  BY <1>1 DEF TriggerRefresh
<1>2. CASE Cancel
  BY <1>2 DEF Cancel
<1>3. CASE Elapse
  BY <1>3 DEF Elapse, Longer, Capped
<1>4. CASE WakeByTrigger
  BY <1>4 DEF WakeByTrigger, Proceed, BeginAttempt
<1>5. CASE WakeByTick
  BY <1>5 DEF WakeByTick, Proceed, BeginAttempt
<1>6. CASE WakeByDeferred
  BY <1>6 DEF WakeByDeferred, Proceed, BeginAttempt
<1>7. CASE Return
  BY <1>7 DEF Return
<1>8. CASE AttemptSucceeds
  BY <1>8 DEF AttemptSucceeds, EndAttempt
<1>9. CASE AttemptFails
  BY <1>9 DEF AttemptFails, EndAttempt
<1>10. CASE UNCHANGED vars
  BY <1>10 DEF vars
<1> QED
  BY <1>1, <1>2, <1>3, <1>4, <1>5, <1>6, <1>7, <1>8, <1>9, <1>10 DEF Next

(* Two outbound checks never start less than the floor apart, whatever     *)
(* wakes the loop and however the last attempt ended.                      *)
THEOREM FloorHolds == Spec => FloorBetweenAttempts
<1>1. Init => FloorInv
  BY RunAssumption DEF Init, FloorInv
<1>2. TypeOK /\ FloorInv /\ [Next]_vars
        => [pc = "select" /\ pc' = "refreshing" => gap >= Floor]_vars
  BY FloorStep
<1> QED
  BY <1>1, <1>2, FloorStep, TypeCorrect, PTL DEF Spec, FloorBetweenAttempts

-----------------------------------------------------------------------------
(* How far a series of attempts can be ahead of the failures counted: by   *)
(* one, or by two when it was joined by a wake-up promised before it, and  *)
(* then the timer is not running any more.                                 *)
SeriesInv ==
  /\ series <= MaxRetries + 2
  /\ pc = "refreshing" => series <= IF deferredPending THEN 1 ELSE failures + 2
  /\ pc = "select" /\ deferredPending => series <= failures + 1

(* Only a timer that was running lengthens a series, and a failure that    *)
(* sets it again is counted.                                               *)
LEMMA SeriesStep ==
  TypeOK /\ WakeUpsAreKept /\ SeriesInv /\ [Next]_vars => SeriesInv'
<1> SUFFICES ASSUME TypeOK, WakeUpsAreKept, SeriesInv, [Next]_vars PROVE SeriesInv'
  OBVIOUS
<1> USE RunAssumption
    DEF TypeOK, LoopTypes, TimerTypes, HistoryTypes, SeriesInv, SeriesCap, deferredVars, historyVars
<1>1. CASE TriggerRefresh
  BY <1>1 DEF TriggerRefresh
<1>2. CASE Cancel
  BY <1>2 DEF Cancel
<1>3. CASE Elapse
  BY <1>3 DEF Elapse, Longer, Capped
<1>4. CASE WakeByTrigger
  BY <1>4 DEF WakeByTrigger, Proceed, BeginAttempt, Capped, Arm
<1>5. CASE WakeByTick
  BY <1>5 DEF WakeByTick, Proceed, BeginAttempt, Capped, Arm
<1>6. CASE WakeByDeferred
  BY <1>6 DEF WakeByDeferred, Proceed, BeginAttempt, Capped, WakeUpsAreKept
<1>7. CASE Return
  BY <1>7 DEF Return
<1>8. CASE AttemptSucceeds
  BY <1>8 DEF AttemptSucceeds, EndAttempt
<1>9. CASE AttemptFails
  BY <1>9 DEF AttemptFails, EndAttempt, Arm, RetryDelay
<1>10. CASE UNCHANGED vars
  BY <1>10 DEF vars
<1> QED
  BY <1>1, <1>2, <1>3, <1>4, <1>5, <1>6, <1>7, <1>8, <1>9, <1>10 DEF Next

(* One event leads to at most one attempt, its retries, and one more.      *)
THEOREM RetriesHold == Spec => []RetriesBounded
<1>1. Init => SeriesInv
  BY RunAssumption DEF Init, SeriesInv
<1>2. SeriesInv => RetriesBounded
  BY DEF SeriesInv, RetriesBounded
<1> QED
  BY <1>1, <1>2, SeriesStep, TypeCorrect, WakeUpsHold, PTL DEF Spec

-----------------------------------------------------------------------------
Patience == Longer(Floor, RefreshTimeout)

(* The timer never runs longer than the floor, and neither does an attempt *)
(* see more of the floor than is left after the time it has been running.  *)
FloorRuns ==
  /\ Floor > 0 => deferredIn <= Floor
  /\ floorLeft > 0 => deferredIn <= floorLeft
  /\ pc = "refreshing" /\ floorLeft > 0 => floorLeft + running <= Floor

(* A press that is waiting is as old as the attempt in its way at most,    *)
(* then as the floor allows; what will answer it is on its way; and the    *)
(* attempt that answers it began in time.                                  *)
PressInv ==
  /\ answering => pc = "refreshing" /\ press # NoPress
  /\ press # NoPress =>
       /\ pc = "refreshing" => IF answering THEN press <= Patience + running
                                            ELSE press <= running /\ trigger
       /\ pc # "refreshing" => press + floorLeft <= Patience
       /\ pc = "select" => trigger \/ deferredReady \/ (0 < deferredIn /\ deferredIn <= floorLeft)

(* Every step keeps the time since the last attempt and the rest of the    *)
(* floor together at the floor or above.                                   *)
LEMMA FloorRunsStep ==
  TypeOK /\ WakeUpsAreKept /\ FloorRuns /\ [Next]_vars => FloorRuns'
<1> SUFFICES ASSUME TypeOK, WakeUpsAreKept, FloorRuns, [Next]_vars PROVE FloorRuns'
  OBVIOUS
<1> USE RunAssumption
    DEF TypeOK, LoopTypes, TimerTypes, WakeUpsAreKept, FloorRuns, deferredVars, historyVars
<1>1. CASE TriggerRefresh
  BY <1>1 DEF TriggerRefresh
<1>2. CASE Cancel
  BY <1>2 DEF Cancel
<1>3. CASE Elapse
  BY <1>3 DEF Elapse, Longer, Capped
<1>4. CASE WakeByTrigger
  BY <1>4 DEF WakeByTrigger, Proceed, BeginAttempt, Arm
<1>5. CASE WakeByTick
  BY <1>5 DEF WakeByTick, Proceed, BeginAttempt, Arm
<1>6. CASE WakeByDeferred
  BY <1>6 DEF WakeByDeferred, Proceed, BeginAttempt
<1>7. CASE Return
  BY <1>7 DEF Return
<1>8. CASE AttemptSucceeds
  BY <1>8 DEF AttemptSucceeds, EndAttempt
<1>9. CASE AttemptFails
  BY <1>9 DEF AttemptFails, EndAttempt, Arm, RetryDelay
<1>10. CASE UNCHANGED vars
  BY <1>10 DEF vars
<1> QED
  BY <1>1, <1>2, <1>3, <1>4, <1>5, <1>6, <1>7, <1>8, <1>9, <1>10 DEF Next

(* The attempt that begins answers whoever is waiting.                     *)
LEMMA BeginAnswers ==
  ASSUME TypeOK, PressInv, pc = "select", BeginAttempt, UNCHANGED press
  PROVE  PressInv'
<1>1. answering' <=> press' # NoPress
  BY DEF BeginAttempt
<1>2. pc' = "refreshing" /\ running' = 0
  BY DEF BeginAttempt
<1>3. press' # NoPress => press' <= Patience + running'
  BY <1>2, RunAssumption
     DEF TypeOK, LoopTypes, TimerTypes, HistoryTypes, PressInv, Patience, Longer, NoPress, PressCap
<1> QED
  BY <1>1, <1>2, <1>3 DEF PressInv, Patience

(* A press waits for an attempt to end and for the floor, not for both in  *)
(* a row, and no wake-up in between loses it.                              *)
LEMMA PressStep ==
  TypeOK /\ WakeUpsAreKept /\ FloorRuns /\ PressInv /\ [Next]_vars => PressInv'
<1> SUFFICES ASSUME TypeOK, WakeUpsAreKept, FloorRuns, PressInv, [Next]_vars PROVE PressInv'
  OBVIOUS
<1> USE RunAssumption
    DEF TypeOK, LoopTypes, TimerTypes, HistoryTypes, WakeUpsAreKept, FloorRuns, PressInv,
        Patience, Longer, NoPress, PressCap, deferredVars, historyVars
<1>1. CASE TriggerRefresh
  BY <1>1 DEF TriggerRefresh
<1>2. CASE Cancel
  BY <1>2 DEF Cancel
<1>3. CASE Elapse
  BY <1>3 DEF Elapse, Awake, Capped
<1>4. CASE WakeByTrigger
  <2>1. CASE floorLeft > 0
    BY <1>4, <2>1 DEF WakeByTrigger, Proceed, BeginAttempt, Arm
  <2>2. CASE ~(floorLeft > 0)
    BY <1>4, <2>2, BeginAnswers DEF WakeByTrigger, Proceed
  <2> QED
    BY <2>1, <2>2
<1>5. CASE WakeByTick
  <2>1. CASE floorLeft > 0
    BY <1>5, <2>1 DEF WakeByTick, Proceed, BeginAttempt, Arm
  <2>2. CASE ~(floorLeft > 0)
    BY <1>5, <2>2, BeginAnswers DEF WakeByTick, Proceed
  <2> QED
    BY <2>1, <2>2
<1>6. CASE WakeByDeferred
  <2>1. CASE floorLeft > 0
    BY <1>6, <2>1 DEF WakeByDeferred, Proceed, BeginAttempt
  <2>2. CASE ~(floorLeft > 0)
    BY <1>6, <2>2, BeginAnswers DEF WakeByDeferred, Proceed
  <2> QED
    BY <2>1, <2>2
<1>7. CASE Return
  BY <1>7 DEF Return
<1>8. CASE AttemptSucceeds
  BY <1>8 DEF AttemptSucceeds, EndAttempt
<1>9. CASE AttemptFails
  BY <1>9 DEF AttemptFails, EndAttempt, Arm, RetryDelay
<1>10. CASE UNCHANGED vars
  BY <1>10 DEF vars
<1> QED
  BY <1>1, <1>2, <1>3, <1>4, <1>5, <1>6, <1>7, <1>8, <1>9, <1>10 DEF Next

(* "Late is a delay, never is a bug": a press is answered within the floor *)
(* and one refresh timeout, whatever ticks, retries and presses do.        *)
THEOREM PressesHold == Spec => []PressAnsweredInTime
<1>1. Init => FloorRuns /\ PressInv
  BY RunAssumption DEF Init, FloorRuns, PressInv
<1>2. TypeOK /\ PressInv => PressAnsweredInTime
  BY RunAssumption DEF TypeOK, LoopTypes, TimerTypes, HistoryTypes, PressInv, PressAnsweredInTime,
     Patience, Longer, NoPress
<1> QED
  BY <1>1, <1>2, FloorRunsStep, PressStep, TypeCorrect, WakeUpsHold, PTL DEF Spec
=============================================================================
