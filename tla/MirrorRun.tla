----------------------------- MODULE MirrorRun -----------------------------
(***************************************************************************)
(* The refresh loop of the firmware mirror (Run and TriggerRefresh in      *)
(* internal/firmware): a ticker, a capacity-1 trigger channel, one         *)
(* deferred timer that serves both the API-call floor and the retries, and *)
(* a retry budget.  What a refresh does to the cache is FirmwareMirror;    *)
(* here an attempt only takes time and succeeds or fails.                  *)
(*                                                                         *)
(* Time is counted in whole units; every timer is kept as the time it has  *)
(* left.  The loop itself takes no time: it runs within a unit.            *)
(***************************************************************************)
EXTENDS Integers

CONSTANTS
  Interval,        \* firmware.refresh_interval, the ticker's period
  Floor,           \* minInterval, the floor between two API calls (0: none)
  RefreshTimeout,  \* the longest an attempt runs
  MaxRetries       \* maxRetries in Run

ASSUME RunAssumption ==
  /\ Interval \in Nat \ {0} /\ Floor \in Nat
  /\ RefreshTimeout \in Nat \ {0} /\ MaxRetries \in Nat \ {0}

VARIABLES
  pc,             \* where Run is: in select, in refreshLogged, returned
  cancelled,      \* ctx is done
  trigger,        \* the token in the trigger channel
  tickIn,         \* time until the ticker fires
  tickReady,      \* a tick waits in ticker.C
  deferredIn,     \* time until the deferred timer fires; 0: not running
  deferredReady,  \* its tick waits in deferred.C
  deferredPending,
  failures,
  floorLeft,      \* throttleRemaining()
  running,        \* how long the current attempt has been running
  (* History: time since the last attempt began; the age of the oldest    *)
  (* button press not yet answered and whether an attempt that began      *)
  (* after it is under way; attempts since the last fresh event.          *)
  gap, press, answering, series

vars == <<pc, cancelled, trigger, tickIn, tickReady, deferredIn, deferredReady,
          deferredPending, failures, floorLeft, running, gap, press, answering, series>>
deferredVars == <<deferredIn, deferredReady, deferredPending>>
historyVars  == <<gap, press, answering, series>>

Longer(a, b) == IF a > b THEN a ELSE b
NoPress == -1

(* Bounds of the history counters, beyond which they are not told apart.   *)
GapCap    == Floor + 1
PressCap  == Longer(Floor, RefreshTimeout) + RefreshTimeout + 1
SeriesCap == MaxRetries + 3
Capped(n, cap) == IF n < cap THEN n ELSE cap

LoopTypes ==
  /\ pc \in {"select", "refreshing", "returned"}
  /\ cancelled \in BOOLEAN /\ trigger \in BOOLEAN
  /\ failures \in 0..MaxRetries
  /\ running \in 0..RefreshTimeout

TimerTypes ==
  /\ tickIn \in 1..Interval /\ tickReady \in BOOLEAN
  /\ deferredIn \in Nat
  /\ deferredReady \in BOOLEAN /\ deferredPending \in BOOLEAN
  /\ floorLeft \in 0..Floor

HistoryTypes ==
  /\ gap \in 0..GapCap
  /\ press \in {NoPress} \cup 0..PressCap
  /\ answering \in BOOLEAN
  /\ series \in 0..SeriesCap

(* Types; at most MaxRetries failures are counted against the budget.      *)
TypeOK == LoopTypes /\ TimerTypes /\ HistoryTypes

(* Run performs one attempt before it enters its loop.                     *)
Init ==
  /\ pc = "refreshing" /\ running = 0 /\ floorLeft = Floor
  /\ cancelled = FALSE /\ trigger = FALSE
  /\ tickIn = Interval /\ tickReady = FALSE
  /\ deferredIn = 0 /\ deferredReady = FALSE /\ deferredPending = FALSE
  /\ failures = 0
  /\ gap = 0 /\ press = NoPress /\ answering = FALSE /\ series = 1

-----------------------------------------------------------------------------
(* Mutant: arm forgets that a wake-up is already promised and the flag     *)
(* outlives it.                                                            *)
ArmOnlyFlag(wait) ==
  /\ deferredPending' = TRUE
  /\ UNCHANGED <<deferredIn, deferredReady>>

(* arm: a second call while one wake-up is pending is ignored.             *)
Arm(wait) ==
  IF deferredPending THEN UNCHANGED deferredVars
  ELSE /\ deferredPending' = TRUE /\ deferredIn' = wait
       /\ UNCHANGED deferredReady

(* Never zero, so a mirror without a floor cannot spin.                    *)
RetryDelay ==
  IF floorLeft > 0 THEN floorLeft ELSE IF Floor > 0 THEN Floor ELSE 1

(* TriggerRefresh: a full channel means a refresh is already queued.       *)
TriggerRefresh ==
  /\ pc # "returned"
  /\ trigger' = TRUE
  /\ press' = IF press = NoPress \/ answering THEN 0 ELSE press
  /\ answering' = FALSE
  /\ UNCHANGED <<pc, cancelled, tickIn, tickReady, deferredVars, failures, floorLeft,
                 running, gap, series>>

(* Refresh records the attempt, not its success, and goes to GitHub.       *)
BeginAttempt ==
  /\ pc' = "refreshing" /\ running' = 0
  /\ floorLeft' = Floor
  /\ gap' = 0
  /\ answering' = (press # NoPress)

(* What follows any wake-up: a fresh event starts the retry budget over,   *)
(* and inside the floor the attempt is deferred, not dropped.              *)
Proceed(continuation) ==
  /\ failures' = IF continuation THEN failures ELSE 0
  /\ series' = Capped((IF continuation THEN series ELSE 0) + (IF floorLeft > 0 THEN 0 ELSE 1),
                      SeriesCap)
  /\ UNCHANGED <<cancelled, tickIn, press>>
  /\ IF floorLeft > 0 THEN UNCHANGED <<pc, running, floorLeft, gap, answering>>
                      ELSE BeginAttempt

(* Mutant: a trigger that lands inside the floor is dropped.               *)
WakeByTriggerDropped ==
  /\ pc = "select" /\ trigger
  /\ trigger' = FALSE
  /\ UNCHANGED <<tickReady, deferredVars>>
  /\ Proceed(FALSE)

WakeByTrigger ==
  /\ pc = "select" /\ trigger
  /\ trigger' = FALSE
  /\ IF floorLeft > 0 THEN Arm(floorLeft) ELSE UNCHANGED deferredVars
  /\ UNCHANGED tickReady
  /\ Proceed(FALSE)

WakeByTick ==
  /\ pc = "select" /\ tickReady
  /\ tickReady' = FALSE
  /\ IF floorLeft > 0 THEN Arm(floorLeft) ELSE UNCHANGED deferredVars
  /\ UNCHANGED trigger
  /\ Proceed(FALSE)

(* Mutant: every wake-up starts the retry budget over.                     *)
WakeByDeferredAsFresh ==
  /\ pc = "select" /\ deferredReady
  /\ deferredReady' = FALSE
  /\ IF floorLeft > 0 THEN deferredPending' = TRUE /\ deferredIn' = floorLeft
                      ELSE deferredPending' = FALSE /\ deferredIn' = 0
  /\ failures' = 0
  /\ series' = Capped(series + (IF floorLeft > 0 THEN 0 ELSE 1), SeriesCap)
  /\ UNCHANGED <<cancelled, tickIn, press, trigger, tickReady>>
  /\ IF floorLeft > 0 THEN UNCHANGED <<pc, running, floorLeft, gap, answering>>
                      ELSE BeginAttempt

(* The timer has fired: its pending flag goes before arm can be called.    *)
WakeByDeferred ==
  /\ pc = "select" /\ deferredReady
  /\ deferredReady' = FALSE
  /\ IF floorLeft > 0 THEN deferredPending' = TRUE /\ deferredIn' = floorLeft
                      ELSE deferredPending' = FALSE /\ deferredIn' = 0
  /\ UNCHANGED <<trigger, tickReady>>
  /\ Proceed(TRUE)

(* Mutant: ctx.Done is looked at only when nothing else is ready.          *)
ReturnWhenIdle ==
  /\ pc = "select" /\ cancelled
  /\ ~trigger /\ ~tickReady /\ ~deferredReady
  /\ pc' = "returned"
  /\ UNCHANGED <<cancelled, trigger, tickIn, tickReady, deferredVars, failures, floorLeft,
                 running, historyVars>>

Return ==
  /\ pc = "select" /\ cancelled
  /\ pc' = "returned"
  /\ UNCHANGED <<cancelled, trigger, tickIn, tickReady, deferredVars, failures, floorLeft,
                 running, historyVars>>

-----------------------------------------------------------------------------
EndAttempt ==
  /\ pc = "refreshing"
  /\ pc' = "select" /\ running' = 0
  /\ press' = IF answering THEN NoPress ELSE press
  /\ answering' = FALSE
  /\ UNCHANGED <<cancelled, trigger, tickIn, tickReady, gap, series>>

AttemptSucceeds ==
  /\ EndAttempt
  /\ failures' = 0
  /\ UNCHANGED <<deferredVars, floorLeft>>

(* Mutant: a failed attempt does not count against the floor.              *)
AttemptFailsFree ==
  /\ EndAttempt
  /\ floorLeft' = 0
  /\ IF failures < MaxRetries THEN failures' = failures + 1 /\ Arm(1)
                              ELSE UNCHANGED <<failures, deferredVars>>

AttemptFails ==
  /\ EndAttempt
  /\ UNCHANGED floorLeft
  /\ IF failures < MaxRetries THEN failures' = failures + 1 /\ Arm(RetryDelay)
                              ELSE UNCHANGED <<failures, deferredVars>>

Cancel ==
  /\ ~cancelled /\ cancelled' = TRUE
  /\ UNCHANGED <<pc, trigger, tickIn, tickReady, deferredVars, failures, floorLeft, running,
                 historyVars>>

(* A unit of time passes: not while the loop has something to do, and no   *)
(* attempt outlives its timeout.                                           *)
Awake == trigger \/ tickReady \/ deferredReady \/ cancelled

Elapse ==
  /\ \/ pc = "select" /\ ~Awake /\ running' = running
     \/ pc = "refreshing" /\ running < RefreshTimeout /\ running' = running + 1
  /\ floorLeft' = Longer(floorLeft - 1, 0)
  /\ tickIn' = IF tickIn = 1 THEN Interval ELSE tickIn - 1
  /\ tickReady' = (tickReady \/ tickIn = 1)
  /\ deferredIn' = Longer(deferredIn - 1, 0)
  /\ deferredReady' = (deferredReady \/ deferredIn = 1)
  /\ gap' = Capped(gap + 1, GapCap)
  /\ press' = IF press = NoPress THEN NoPress ELSE Capped(press + 1, PressCap)
  /\ UNCHANGED <<pc, cancelled, trigger, deferredPending, failures, answering, series>>

-----------------------------------------------------------------------------
Wake == WakeByTrigger \/ WakeByTick \/ WakeByDeferred

Next ==
  \/ TriggerRefresh \/ Cancel \/ Elapse
  \/ WakeByTrigger \/ WakeByTick \/ WakeByDeferred \/ Return
  \/ AttemptSucceeds \/ AttemptFails

Spec == Init /\ [][Next]_vars

(* Time passes, attempts end within their timeout, the goroutine is        *)
(* scheduled, and select picks at random among the ready cases, so none of *)
(* them is passed over for ever.                                           *)
Fairness ==
  /\ WF_vars(Elapse) /\ WF_vars(AttemptSucceeds \/ AttemptFails)
  /\ SF_vars(WakeByTrigger) /\ SF_vars(WakeByTick) /\ SF_vars(WakeByDeferred)
  /\ SF_vars(Return)

FairSpec == Spec /\ Fairness

-----------------------------------------------------------------------------
(* The API-call floor: however triggers, ticks and retries interleave, and *)
(* whether or not the last attempt failed, two outbound checks never start *)
(* less than the floor apart.                                              *)
FloorBetweenAttempts ==
  [][pc = "select" /\ pc' = "refreshing" => gap >= Floor]_vars

(* The pending flag and the timer agree: a promised wake-up is really on   *)
(* its way, and a failed attempt with budget left has one.                 *)
WakeUpsAreKept ==
  /\ deferredPending <=> (deferredIn > 0 \/ deferredReady)
  /\ pc = "select" /\ failures \in 1..(MaxRetries - 1) => deferredPending

(* "late is a delay, never is a bug", and the bound behind the last of the *)
(* three manifest reads of the panel's button (ADR 0025): by the time the  *)
(* floor (or an attempt under way) and one refresh timeout have passed, an *)
(* attempt that began after the press has ended.                           *)
PressAnsweredInTime ==
  press <= Longer(Floor, RefreshTimeout) + RefreshTimeout

(* The retries of one event are bounded, so an unreachable GitHub is not   *)
(* polled for ever: one attempt, its retries, and at most one more from a  *)
(* wake-up promised before the event.                                      *)
RetriesBounded == series <= MaxRetries + 2

(* Cancelling the context ends the loop although wake-ups keep coming.     *)
CancelReturns == cancelled ~> pc = "returned"
=============================================================================
