-------------------------- MODULE DaemonStopProofs --------------------------
(***************************************************************************)
(* What DaemonStop promises, for any number of calls, restarts and failing *)
(* listeners and for any timeouts: the exit code is true, a stop ends in   *)
(* time, and no call is cut off before its budget has passed.              *)
(***************************************************************************)
EXTENDS DaemonStop, TLAPS

(* Which steps come before the listener is needed by every case on pc.     *)
USE DEF Starting, Up

(* The deadline is the graceful budget, then all that a stop may take, and *)
(* the clock never passes it.                                              *)
OnTime ==
  /\ pc \in Starting \cup {"serving"} => elapsed = 0
  /\ pc = "graceful" => deadline = budget /\ elapsed <= budget
  /\ pc = "hard" => daemon = "scan-bridge"
  /\ pc \in {"hard", "close"} =>
       deadline = FullBudget /\ budget <= elapsed /\ elapsed <= deadline

(* Nothing is accepted once Shutdown was called, so that what has drained  *)
(* stays drained and what is left over when both have returned expired.    *)
NoneBefore == pc = "serving" => \A l \in Listeners : shutdown[l] = "none"
AllAfter   == /\ pc \in {"hard", "close"} => \A l \in Listeners : shutdown[l] # "none"
              /\ pc = "close" => AllReturned
OneEach ==
  \A l \in Listeners :
    /\ shutdown[l] # "none" => listener[l] # "up"
    /\ shutdown[l] = "drained" => ActiveOn(l) = {}
    /\ shutdown[l] = "expired" => elapsed >= deadline
ActiveSomewhere == \A r \in Active : request[r].on \in Listeners
Blank == ~Up => /\ Active = {}
                /\ \A l \in Listeners : shutdown[l] = "none" /\ listener[l] = "down"
Draining == NoneBefore /\ AllAfter /\ OneEach /\ ActiveSomewhere /\ Blank

(* The exit code speaks of the run that ended, until the next one starts.  *)
Ended == pc # "down" => status = "none" /\ cut = {}

(* There is no file when one is to be made, and it is bound from before    *)
(* the listener comes up until it closes.                                  *)
FileIsBound ==
  /\ cause # "refused"
  /\ pc = "bind" => socket = "absent"
  /\ daemon = "service" /\ Up /\ shutdown["socket"] = "none"
       => socket = "bound" \/ listener["socket"] = "failed"

StopInv == /\ TypeOK /\ OnTime /\ Draining /\ Ended /\ FileIsBound
           /\ ExitCodeIsTrue /\ CutOnlyAfterBudget

-----------------------------------------------------------------------------
(* The parameters and clocks are numbers.                                  *)
LEMMA StopNumbers ==
  /\ \A c \in Configs : c.sigterm \in 1..MaxBudget /\ c.sigint \in 1..MaxBudget
                        /\ c.hard \in 1..MaxBudget
  /\ MaxBudget \in Nat
BY StopAssumption DEF Configs, Budgets

(* The window that is left is what is missing of the full budget.          *)
LEMMA WindowsAddUp ==
  ASSUME TypeOK, daemon = "scan-bridge"
  PROVE  Remainder \in Nat \ {0} /\ FullBudget = budget + Remainder
<1>1. cfg.hard \in Nat /\ budget \in Nat
  BY StopNumbers DEF TypeOK
<1> QED
  BY <1>1 DEF Remainder, FullBudget

(* A daemon not yet started satisfies the invariant.                       *)
LEMMA InitInv == Init => StopInv
<1> SUFFICES ASSUME Init PROVE StopInv
  OBVIOUS
<1>1. TypeOK
  <2>1. request \in [Requests -> [on : Listeners \cup {"none"},
                                 state : {"none", "active", "answered"}]]
    BY DEF Init, NoRequests
  <2>2. listener \in [Listeners -> {"down", "up", "closed", "failed"}]
        /\ shutdown \in [Listeners -> {"none", "running", "drained", "expired"}]
    BY DEF Init, ForAll
  <2> QED
    BY <2>1, <2>2, StopAssumption DEF Init, TypeOK, NoSignal
<1>2. Draining
  BY DEF Init, ForAll, NoRequests, Draining, NoneBefore, AllAfter, OneEach, ActiveSomewhere,
         Blank, Active, ActiveOn
<1> QED
  BY <1>1, <1>2
     DEF Init, StopInv, OnTime, Ended, FileIsBound, ExitCodeIsTrue, CutOnlyAfterBudget

(* What the end of a process leaves.                                       *)
LEMMA AfterExit ==
  ASSUME NEW code \in {"0", "1", "killed"}, Exit(code), TypeOK, UNCHANGED <<given, starts>>,
         failures' \in 0..MaxFailures,
         elapsed' \in Nat, budget' = budget, deadline' = deadline,
         socket' \in {"absent", "private", "bound", "stale"}, cause' \in {"none", "signal", "failure"}
  PROVE  TypeOK' /\ OnTime' /\ Draining' /\ Ended' /\ FileIsBound'
<1>1. Listeners' = Listeners /\ cfg' = cfg /\ daemon' = daemon
  BY DEF Listeners, given
<1>2. TypeOK'
  <2>1. request' \in [Requests -> [on : Listeners \cup {"none"},
                                  state : {"none", "active", "answered"}]]
    BY DEF Exit, NoRequests
  <2>2. listener' \in [Listeners -> {"down", "up", "closed", "failed"}]
        /\ shutdown' \in [Listeners -> {"none", "running", "drained", "expired"}]
    BY DEF Exit, ForAll
  <2>3. cut' \subseteq Requests
    BY DEF Exit, Active
  <2> QED
    BY <1>1, <2>1, <2>2, <2>3 DEF Exit, TypeOK, NoSignal
<1>3. Draining'
  BY <1>1 DEF Exit, ForAll, NoRequests, Draining, NoneBefore, AllAfter, OneEach,
              ActiveSomewhere, Blank, Active, ActiveOn
<1> QED
  BY <1>2, <1>3 DEF Exit, OnTime, Ended, FileIsBound

(* The steps that leave the times, the run and how the last one ended.     *)
Apart == UNCHANGED <<given, pc, timing, status, starts, cause, cut>>
(* Its parts survive a step that leaves their variables alone.             *)
LEMMA ApartKeeps ==
  ASSUME StopInv, Apart
  PROVE  OnTime' /\ Ended' /\ ExitCodeIsTrue' /\ CutOnlyAfterBudget'
<1> USE DEF Apart, given, timing
<1>1. FullBudget' = FullBudget
  BY DEF FullBudget
<1> QED
  BY <1>1 DEF StopInv, OnTime, Ended, ExitCodeIsTrue, CutOnlyAfterBudget

(* Starting keeps the invariant.                                           *)
LEMMA StartInv == StopInv /\ Start => StopInv'
<1> SUFFICES ASSUME StopInv, Start PROVE StopInv'
  OBVIOUS
<1> USE DEF given, Memory
<1>1. Listeners' = Listeners /\ daemon' = daemon /\ cfg' = cfg
  BY DEF Start, Listeners
<1>2. TypeOK'
  BY <1>1, StopAssumption DEF StopInv, Start, TypeOK
<1>3. Draining'
  BY <1>1 DEF StopInv, Start, Draining, NoneBefore, AllAfter, OneEach, ActiveSomewhere,
              Blank, Active, ActiveOn
<1> QED
  BY <1>1, <1>2, <1>3
     DEF StopInv, Start, OnTime, Ended, FileIsBound, ExitCodeIsTrue, CutOnlyAfterBudget

(* A step on the way to the listener that succeeds keeps it: nobody can    *)
(* have been accepted yet.                                                 *)
LEMMA ProceedInv ==
  ASSUME StopInv, pc \in Starting, NEW next \in {"bind", "chmod", "serving"}, Proceed(next),
         UNCHANGED <<given, timing, starts>>,
         socket' \in {"absent", "private", "bound", "stale"},
         next = "bind" => socket' = "absent", next = "serving" => socket' = "bound"
  PROVE  StopInv'
<1> USE DEF given, timing, Memory, Proceed
<1>1. Listeners' = Listeners
  BY DEF Listeners
<1>2. TypeOK'
  BY <1>1 DEF StopInv, TypeOK
<1>3. Draining'
  BY <1>1 DEF StopInv, Draining, NoneBefore, AllAfter, OneEach, ActiveSomewhere, Blank,
              Active, ActiveOn
<1>4. OnTime' /\ Ended' /\ FileIsBound'
  BY DEF StopInv, OnTime, Ended, FileIsBound
<1>5. ExitCodeIsTrue' /\ CutOnlyAfterBudget'
  BY DEF StopInv, Ended, ExitCodeIsTrue, CutOnlyAfterBudget
<1> QED
  BY <1>2, <1>3, <1>4, <1>5 DEF StopInv

(* And so does one that fails.                                             *)
LEMMA FailStartInv ==
  ASSUME StopInv, pc \in Starting, FailStart, UNCHANGED <<given, timing, starts>>,
         socket' \in {"absent", "private", "bound", "stale"}
  PROVE  StopInv'
<1> USE DEF given, timing, FailStart, GiveUpStart
<1>1. failures' \in 0..MaxFailures /\ elapsed' \in Nat
  BY StopAssumption DEF StopInv, TypeOK
<1>2. TypeOK' /\ OnTime' /\ Draining' /\ Ended' /\ FileIsBound'
  BY <1>1, AfterExit DEF StopInv
<1>3. Active = {}
  BY DEF StopInv, Draining, Blank
<1>4. ExitCodeIsTrue' /\ CutOnlyAfterBudget'
  BY <1>3 DEF Exit, ExitCodeIsTrue, CutOnlyAfterBudget
<1> QED
  BY <1>2, <1>4 DEF StopInv

(* The steps of newUnixListener keep the invariant: whatever lay there is  *)
(* gone when a file is to be made.                                         *)
LEMMA StartUpInv == StopInv /\ (RemoveStale \/ BindSocket \/ ChmodSocket) => StopInv'
<1> SUFFICES ASSUME StopInv, RemoveStale \/ BindSocket \/ ChmodSocket PROVE StopInv'
  OBVIOUS
<1>1. pc \in Starting /\ UNCHANGED <<given, timing, starts>>
  BY DEF RemoveStale, BindSocket, ChmodSocket
<1>2. socket \in {"absent", "private", "bound", "stale"} /\ (pc = "bind" => socket = "absent")
  BY DEF StopInv, TypeOK, FileIsBound
<1>3. CASE RemoveStale
  BY <1>1, <1>2, <1>3, ProceedInv, FailStartInv DEF RemoveStale
<1>4. CASE BindSocket
  BY <1>1, <1>2, <1>4, ProceedInv, FailStartInv DEF BindSocket
<1>5. CASE ChmodSocket
  BY <1>1, <1>5, ProceedInv, FailStartInv DEF ChmodSocket
<1> QED
  BY <1>3, <1>4, <1>5

(* A listener that binds or fails keeps the invariant.                     *)
LEMMA ListenInv ==
  ASSUME StopInv, NEW l \in Listeners, Listen(l) \/ ListenerFails(l)
  PROVE  StopInv'
<1> USE DEF given, Memory, timing, bounds
<1>1. Listeners' = Listeners /\ Apart /\ shutdown' = shutdown /\ request' = request
  BY DEF Listen, ListenerFails, Listeners, Apart
<1>2. TypeOK'
  <2>1. listener' \in [Listeners -> {"down", "up", "closed", "failed"}]
        /\ socket' \in {"absent", "private", "bound", "stale"} /\ signal' = signal
        /\ failures' \in 0..MaxFailures
    <3>1. CASE Listen(l)
      BY <3>1, StopAssumption DEF StopInv, Listen, TypeOK
    <3>2. CASE ListenerFails(l)
      BY <3>2, StopAssumption DEF StopInv, ListenerFails, TypeOK
    <3> QED
      BY <3>1, <3>2
  <2> QED
    BY <1>1, <2>1 DEF StopInv, TypeOK, Apart
<1>3. Draining'
  <2>1. Active' = Active /\ (\A k : ActiveOn(k)' = ActiveOn(k)) /\ Up
    BY <1>1 DEF Active, ActiveOn, Listen, ListenerFails
  <2>2. \A k \in Listeners : shutdown[k] # "none" => listener'[k] # "up"
    BY DEF StopInv, TypeOK, Draining, OneEach, Listen, ListenerFails
  <2> QED
    BY <1>1, <2>1, <2>2 DEF StopInv, Draining, NoneBefore, AllAfter, OneEach, ActiveSomewhere,
                            Blank, AllReturned, Apart
<1>4. FileIsBound'
  BY <1>1 DEF StopInv, TypeOK, FileIsBound, Listen, ListenerFails, Listeners, Apart
<1> QED
  BY <1>1, <1>2, <1>3, <1>4, ApartKeeps DEF StopInv

(* Calls that come and end keep it.                                        *)
LEMMA CallInv ==
  ASSUME StopInv, NEW r \in Requests,
         Answer(r) \/ \E l \in Listeners : Accept(r, l)
  PROVE  StopInv'
<1> USE DEF given, Memory, timing, bounds
<1>1. /\ Listeners' = Listeners /\ Apart /\ shutdown' = shutdown /\ listener' = listener
      /\ Up /\ UNCHANGED <<signal, socket, failures>>
  BY DEF Accept, Answer, Listeners, Apart
<1>2. CASE Answer(r)
  <2>1. request' \in [Requests -> [on : Listeners \cup {"none"},
                                  state : {"none", "active", "answered"}]]
    BY <1>2 DEF Answer, StopInv, TypeOK
  <2>2. TypeOK'
    BY <1>1, <2>1 DEF StopInv, TypeOK, Apart
  <2>3. \A q \in Requests : request'[q].on = request[q].on
                           /\ (request'[q].state = "active" => request[q].state = "active")
    BY <1>2 DEF Answer, StopInv, TypeOK
  <2>4. Draining'
    BY <1>1, <2>3 DEF StopInv, Draining, NoneBefore, AllAfter, OneEach, ActiveSomewhere,
                      Blank, Active, ActiveOn, AllReturned, Apart
  <2> QED
    BY <1>1, <2>2, <2>4, ApartKeeps DEF StopInv, FileIsBound, Apart
<1>3. ASSUME NEW l \in Listeners, Accept(r, l) PROVE StopInv'
  <2>1. request' \in [Requests -> [on : Listeners \cup {"none"},
                                  state : {"none", "active", "answered"}]]
    BY <1>3 DEF Accept, StopInv, TypeOK
  <2>2. TypeOK'
    BY <1>1, <2>1 DEF StopInv, TypeOK, Apart
  <2>3. request' = [request EXCEPT ![r] = [on |-> l, state |-> "active"]]
        /\ shutdown[l] = "none" /\ request[r].state = "none"
    BY <1>3 DEF Accept, StopInv, Draining, OneEach
  <2>4. \A k \in Listeners : k # l => ActiveOn(k)' = ActiveOn(k)
    BY <2>3 DEF ActiveOn, Active, StopInv, TypeOK
  <2>5. ActiveSomewhere'
    BY <2>3, <1>1 DEF StopInv, Draining, ActiveSomewhere, Active, TypeOK
  <2>6. Draining'
    BY <1>1, <2>3, <2>4, <2>5
       DEF StopInv, Draining, NoneBefore, AllAfter, OneEach, Blank, AllReturned, Apart
  <2> QED
    BY <1>1, <2>2, <2>6, ApartKeeps DEF StopInv, FileIsBound, Apart
<1> QED
  BY <1>2, <1>3

(* A signal, or a listener that fails, keeps it.                           *)
LEMMA SignalInv ==
  ASSUME StopInv, NEW s \in Signals, Signal(s)
  PROVE  StopInv'
<1> USE DEF given, timing, bounds
<1>1. Apart /\ Listeners' = Listeners
      /\ UNCHANGED <<shutdown, listener, request, socket, failures>>
  BY DEF Signal, Apart, Listeners
<1>2. TypeOK'
  BY <1>1 DEF Signal, StopInv, TypeOK, Apart
<1>3. Draining' /\ FileIsBound'
  BY <1>1 DEF StopInv, Draining, NoneBefore, AllAfter, OneEach, ActiveSomewhere, Blank,
              Active, ActiveOn, AllReturned, Apart, FileIsBound
<1> QED
  BY <1>1, <1>2, <1>3, ApartKeeps DEF StopInv

-----------------------------------------------------------------------------
(* So does what makes run stop: the first deadline is the graceful one.    *)
LEMMA BeginStopInv ==
  ASSUME StopInv, pc = "serving", NEW why \in {"signal", "failure"},
         NEW b \in 1..MaxBudget, BeginStop(b, why),
         UNCHANGED <<given, listener, shutdown, request, elapsed, socket, status, bounds, cut>>,
         signal' \in Signals \cup {NoSignal}
  PROVE  StopInv'
<1> USE DEF given, bounds, BeginStop
<1>1. Listeners' = Listeners
  BY DEF Listeners
<1>2. TypeOK'
  BY <1>1, StopNumbers DEF StopInv, TypeOK
<1>3. OnTime'
  BY StopNumbers DEF StopInv, OnTime
<1>4. Draining'
  BY <1>1 DEF StopInv, Draining, NoneBefore, AllAfter, OneEach, ActiveSomewhere, Blank,
              Active, ActiveOn
<1> QED
  BY <1>2, <1>3, <1>4
     DEF StopInv, Ended, FileIsBound, ExitCodeIsTrue, CutOnlyAfterBudget

(* Both cases of the select are such a beginning.                          *)
LEMMA SelectInv == StopInv /\ (SelectSignal \/ SelectError) => StopInv'
<1> SUFFICES ASSUME StopInv, SelectSignal \/ SelectError PROVE StopInv'
  OBVIOUS
<1>1. cfg \in Configs
  BY DEF StopInv, TypeOK
<1>2. CASE SelectSignal
  <2>1. Graceful(signal) \in 1..MaxBudget
    BY <1>1, StopNumbers DEF Graceful
  <2> QED
    BY <1>2, <2>1, BeginStopInv DEF SelectSignal
<1>3. CASE SelectError /\ BeginStop(cfg.sigterm, "failure") /\ UNCHANGED <<Memory, socket, status, cut>>
  <2>1. cfg.sigterm \in 1..MaxBudget
    BY <1>1, StopNumbers
  <2>2. signal' \in Signals \cup {NoSignal}
    BY <1>3 DEF StopInv, TypeOK, Memory
  <2> QED
    BY <1>3, <2>1, <2>2, BeginStopInv DEF SelectError, Memory
<1>4. CASE SelectError /\ daemon = "service" /\ Exit("1") /\ socket' = "absent"
           /\ cause' = "failure" /\ UNCHANGED <<budget, deadline>>
  <2>1. TypeOK' /\ OnTime' /\ Draining' /\ Ended' /\ FileIsBound'
    BY <1>4, AfterExit DEF StopInv, TypeOK, FileIsBound, SelectError, bounds
  <2>2. ExitCodeIsTrue' /\ CutOnlyAfterBudget'
    BY <1>4 DEF Exit, ExitCodeIsTrue, CutOnlyAfterBudget, SelectError, given
  <2> QED
    BY <2>1, <2>2 DEF StopInv
<1> QED
  BY <1>2, <1>3, <1>4 DEF SelectError

(* Calling Shutdown closes a listener, for good.                           *)
LEMMA BeginShutdownInv ==
  ASSUME StopInv, NEW l \in Listeners, BeginShutdown(l)
  PROVE  StopInv'
<1> USE DEF given, timing, bounds
<1>1. Apart /\ Listeners' = Listeners /\ pc = "graceful"
      /\ UNCHANGED <<request, signal, failures>>
      /\ shutdown' = [shutdown EXCEPT ![l] = "running"]
      /\ listener' = [listener EXCEPT ![l] = IF @ = "up" THEN "closed" ELSE @]
  BY DEF BeginShutdown, MayShutDown, Apart, Listeners
<1>2. TypeOK'
  <2>1. listener' \in [Listeners -> {"down", "up", "closed", "failed"}]
    BY <1>1 DEF StopInv, TypeOK
  <2>2. shutdown' \in [Listeners -> {"none", "running", "drained", "expired"}]
    BY <1>1 DEF StopInv, TypeOK
  <2>3. socket' \in {"absent", "private", "bound", "stale"}
    BY DEF StopInv, TypeOK, BeginShutdown
  <2> QED
    BY <1>1, <2>1, <2>2, <2>3 DEF StopInv, TypeOK, Apart
<1>3. Draining'
  BY <1>1 DEF StopInv, TypeOK, Draining, NoneBefore, AllAfter, OneEach, ActiveSomewhere,
              Blank, Active, ActiveOn, Apart
<1>4. FileIsBound'
  BY <1>1 DEF StopInv, TypeOK, FileIsBound, BeginShutdown, Listeners, Apart
<1> QED
  BY <1>1, <1>2, <1>3, <1>4, ApartKeeps DEF StopInv

(* A Shutdown that returns says truly whether its listener drained.        *)
LEMMA ShutdownReturnsInv ==
  ASSUME StopInv, NEW l \in Listeners, ShutdownReturns(l)
  PROVE  StopInv'
<1> USE DEF given, timing, bounds
<1>1. Apart /\ Listeners' = Listeners /\ shutdown[l] = "running"
      /\ UNCHANGED <<request, signal, failures, listener, socket>>
  BY DEF ShutdownReturns, Apart, Listeners
<1>2. PICK end \in {"drained", "expired"} :
        /\ end = "drained" => ActiveOn(l) = {}
        /\ end = "expired" => elapsed >= deadline
        /\ shutdown' = [shutdown EXCEPT ![l] = end]
  BY DEF ShutdownReturns
<1>3. TypeOK'
  BY <1>1, <1>2 DEF StopInv, TypeOK, Apart
<1>4. Draining'
  <2>1. Active' = Active /\ (\A k : ActiveOn(k)' = ActiveOn(k))
    BY <1>1 DEF Active, ActiveOn
  <2>2. pc \notin {"down", "serving", "close"}
    BY <1>1 DEF StopInv, Draining, Blank, NoneBefore, AllAfter, AllReturned
  <2>3. OneEach'
    BY <1>1, <1>2, <2>1 DEF StopInv, TypeOK, Draining, OneEach, Apart
  <2>4. AllAfter' /\ NoneBefore' /\ Blank' /\ ActiveSomewhere'
    BY <1>1, <1>2, <2>1, <2>2
       DEF StopInv, TypeOK, Draining, AllAfter, NoneBefore, Blank, ActiveSomewhere, Apart
  <2> QED
    BY <2>3, <2>4 DEF Draining
<1>5. FileIsBound'
  BY <1>1, <1>2 DEF StopInv, TypeOK, FileIsBound, Apart, Listeners
<1> QED
  BY <1>1, <1>3, <1>4, <1>5, ApartKeeps DEF StopInv

(* Where every Shutdown has drained there is nobody left to cut off.       *)
LEMMA DrainedIsEmpty ==
  ASSUME StopInv, AllDrained
  PROVE  Active = {}
<1> SUFFICES ASSUME NEW r \in Active PROVE FALSE
  OBVIOUS
<1>1. request[r].on \in Listeners /\ r \in ActiveOn(request[r].on)
  BY DEF StopInv, Draining, ActiveSomewhere, ActiveOn
<1> QED
  BY <1>1 DEF StopInv, Draining, OneEach, AllDrained

(* The stop that drained within its budget keeps the invariant.            *)
LEMMA DrainedInTimeInv == StopInv /\ DrainedInTime => StopInv'
<1> SUFFICES ASSUME StopInv, DrainedInTime PROVE StopInv'
  OBVIOUS
<1> USE DEF given, timing, bounds
<1>1. PICK code \in {"0", "1"} : Exit(code) /\ (code = "1" => cause = "failure")
  BY DEF DrainedInTime
<1>2. TypeOK' /\ OnTime' /\ Draining' /\ Ended' /\ FileIsBound'
  BY <1>1, AfterExit DEF StopInv, TypeOK, FileIsBound, DrainedInTime
<1>3. cut' = {}
  BY <1>1, DrainedIsEmpty DEF DrainedInTime, Exit
<1>4. ExitCodeIsTrue' /\ CutOnlyAfterBudget'
  BY <1>1, <1>3 DEF DrainedInTime, Exit, ExitCodeIsTrue, CutOnlyAfterBudget
<1> QED
  BY <1>2, <1>4 DEF StopInv

(* The graceful budget is used up to the day, so that what is left of the  *)
(* hard timeout brings the stop to the full budget and no further.         *)
LEMMA EnterHardWindowInv == StopInv /\ EnterHardWindow => StopInv'
<1> SUFFICES ASSUME StopInv, EnterHardWindow PROVE StopInv'
  OBVIOUS
<1> USE DEF given, bounds
<1>1. /\ Listeners' = Listeners /\ pc = "graceful" /\ pc' = "hard"
      /\ daemon = "scan-bridge" /\ AllReturned /\ elapsed >= budget
      /\ deadline' = elapsed + Remainder /\ shutdown' = ForAll("running")
      /\ UNCHANGED <<daemon, cfg, listener, signal, request, elapsed, budget, socket,
                     status, starts, failures, cause, cut>>
  BY DEF EnterHardWindow, Listeners
<1>2. elapsed = budget /\ budget \in Nat
  BY <1>1 DEF StopInv, OnTime, TypeOK
<1>3. Remainder \in Nat \ {0} /\ FullBudget = budget + Remainder
  BY <1>1, WindowsAddUp DEF StopInv
<1>4. TypeOK'
  <2>1. shutdown' \in [Listeners -> {"none", "running", "drained", "expired"}]
    BY <1>1 DEF ForAll
  <2> QED
    BY <1>1, <1>2, <1>3, <2>1 DEF StopInv, TypeOK
<1>5. FullBudget' = FullBudget
  BY <1>1 DEF FullBudget
<1>6. OnTime'
  BY <1>1, <1>2, <1>3, <1>5 DEF OnTime
<1>7. Draining'
  BY <1>1 DEF StopInv, TypeOK, Draining, NoneBefore, AllAfter, OneEach, ActiveSomewhere,
              Blank, Active, ActiveOn, ForAll, AllReturned
<1>8. Ended' /\ FileIsBound' /\ ExitCodeIsTrue' /\ CutOnlyAfterBudget'
  BY <1>1, <1>5 DEF StopInv, Ended, FileIsBound, ExitCodeIsTrue, CutOnlyAfterBudget
<1> QED
  BY <1>4, <1>6, <1>7, <1>8 DEF StopInv

(* Giving up comes no earlier than the budget's end.                       *)
LEMMA GiveUpInv == StopInv /\ GiveUp => StopInv'
<1> SUFFICES ASSUME StopInv, GiveUp PROVE StopInv'
  OBVIOUS
<1> USE DEF given, timing, bounds
<1>1. /\ Listeners' = Listeners /\ pc' = "close"
      /\ UNCHANGED <<daemon, cfg, listener, signal, shutdown, request, elapsed, budget,
                     deadline, socket, status, starts, failures, cause, cut>>
  BY DEF GiveUp, Listeners
<1>2. AllReturned /\ pc \in {"graceful", "hard"}
  BY DEF GiveUp, AllReturned, Listeners
<1>3. pc = "graceful" => daemon = "service" /\ elapsed >= deadline
  BY DEF GiveUp, StopInv, Draining, OneEach, Listeners
<1>4. TypeOK'
  BY <1>1 DEF StopInv, TypeOK
<1>5. FullBudget' = FullBudget /\ AllReturned'
  BY <1>1, <1>2 DEF FullBudget, AllReturned
<1>6. OnTime'
  <2>1. CASE pc = "hard"
    BY <1>1, <1>5, <2>1 DEF StopInv, OnTime
  <2>2. CASE pc = "graceful"
    <3>1. FullBudget = budget /\ deadline = budget /\ elapsed <= budget
      BY <1>3, <2>2 DEF FullBudget, StopInv, OnTime
    <3>2. elapsed \in Nat /\ budget \in Nat
      BY DEF StopInv, TypeOK
    <3> QED
      BY <1>1, <1>3, <1>5, <2>2, <3>1, <3>2 DEF OnTime
  <2> QED
    BY <1>2, <2>1, <2>2
<1>7. Draining'
  BY <1>1, <1>2, <1>5 DEF StopInv, Draining, NoneBefore, AllAfter, OneEach, ActiveSomewhere,
                          Blank, Active, ActiveOn, AllReturned
<1>8. Ended' /\ FileIsBound' /\ ExitCodeIsTrue' /\ CutOnlyAfterBudget'
  BY <1>1, <1>2, <1>5 DEF StopInv, Ended, FileIsBound, ExitCodeIsTrue, CutOnlyAfterBudget
<1> QED
  BY <1>4, <1>6, <1>7, <1>8 DEF StopInv

(* Who is cut off here was waited for to the deadline.                     *)
LEMMA ForceCloseInv == StopInv /\ ForceClose => StopInv'
<1> SUFFICES ASSUME StopInv, ForceClose PROVE StopInv'
  OBVIOUS
<1> USE DEF given, timing, bounds
<1>1. TypeOK' /\ OnTime' /\ Draining' /\ Ended' /\ FileIsBound'
  BY AfterExit DEF StopInv, TypeOK, FileIsBound, ForceClose
<1>2. FullBudget' = FullBudget /\ elapsed' = elapsed /\ budget' = budget
  BY DEF ForceClose, FullBudget
<1>3. elapsed >= budget /\ deadline = FullBudget
  BY DEF StopInv, OnTime, ForceClose
<1>4. Active # {} => elapsed >= deadline
  <2> SUFFICES ASSUME Active # {} PROVE elapsed >= deadline
    OBVIOUS
  <2>1. PICK l \in Listeners : shutdown[l] # "drained"
    BY DrainedIsEmpty DEF AllDrained
  <2>2. shutdown[l] = "expired"
    BY <2>1 DEF ForceClose, StopInv, Draining, AllAfter, AllReturned
  <2> QED
    BY <2>2 DEF StopInv, Draining, OneEach
<1>5. ExitCodeIsTrue' /\ CutOnlyAfterBudget'
  BY <1>2, <1>3, <1>4 DEF ForceClose, Exit, ExitCodeIsTrue, CutOnlyAfterBudget
<1> QED
  BY <1>1, <1>5 DEF StopInv

(* A kill keeps the invariant.                                             *)
LEMMA KillInv == StopInv /\ Kill => StopInv'
<1> SUFFICES ASSUME StopInv, Kill PROVE StopInv'
  OBVIOUS
<1> USE DEF given, timing, bounds
<1>1. TypeOK' /\ OnTime' /\ Draining' /\ Ended' /\ FileIsBound'
  BY AfterExit DEF StopInv, TypeOK, FileIsBound, Kill
<1>2. ExitCodeIsTrue' /\ CutOnlyAfterBudget'
  BY DEF Kill, Exit, ExitCodeIsTrue, CutOnlyAfterBudget
<1> QED
  BY <1>1, <1>2 DEF StopInv

(* Time does not pass a deadline while a Shutdown runs.                    *)
LEMMA TickInv == StopInv /\ Tick => StopInv'
<1> SUFFICES ASSUME StopInv, Tick PROVE StopInv'
  OBVIOUS
<1> USE DEF given, bounds
<1>1. /\ Listeners' = Listeners /\ pc \in {"graceful", "hard"} /\ elapsed < deadline
      /\ elapsed' = elapsed + 1
      /\ UNCHANGED <<daemon, cfg, pc, listener, signal, shutdown, request, budget, deadline,
                     socket, status, starts, failures, cause, cut>>
  BY DEF Tick, Listeners
<1>2. elapsed \in Nat /\ deadline \in Nat /\ budget \in Nat
  BY DEF StopInv, TypeOK
<1>3. TypeOK' /\ FullBudget' = FullBudget
  BY <1>1, <1>2 DEF StopInv, TypeOK, FullBudget
<1>4. OnTime'
  BY <1>1, <1>2, <1>3 DEF StopInv, OnTime
<1>5. Draining'
  <2>1. elapsed >= deadline => elapsed' >= deadline
    BY <1>1, <1>2
  <2> QED
    BY <1>1, <2>1 DEF StopInv, Draining, NoneBefore, AllAfter, OneEach, ActiveSomewhere,
                      Blank, Active, ActiveOn, AllReturned
<1>6. Ended' /\ FileIsBound' /\ ExitCodeIsTrue' /\ CutOnlyAfterBudget'
  BY <1>1 DEF StopInv, Ended, FileIsBound, ExitCodeIsTrue, CutOnlyAfterBudget
<1> QED
  BY <1>3, <1>4, <1>5, <1>6 DEF StopInv

(* Stuttering keeps it.                                                    *)
LEMMA StutterInv == StopInv /\ UNCHANGED vars => StopInv'
<1> SUFFICES ASSUME StopInv, UNCHANGED vars PROVE StopInv'
  OBVIOUS
<1> USE DEF vars, given, timing, bounds
<1>1. Listeners' = Listeners /\ Apart
  BY DEF Listeners, Apart
<1>2. TypeOK'
  BY <1>1 DEF StopInv, TypeOK
<1>3. Draining' /\ FileIsBound'
  BY <1>1 DEF StopInv, Draining, NoneBefore, AllAfter, OneEach, ActiveSomewhere, Blank,
              Active, ActiveOn, AllReturned, FileIsBound
<1> QED
  BY <1>1, <1>2, <1>3, ApartKeeps DEF StopInv

(* Every step keeps the invariant.                                         *)
LEMMA StopStep == StopInv /\ [Next]_vars => StopInv'
BY StartInv, StartUpInv, ListenInv, CallInv, SignalInv, SelectInv, BeginShutdownInv, ShutdownReturnsInv,
   DrainedInTimeInv, EnterHardWindowInv, GiveUpInv, ForceCloseInv, KillInv, TickInv,
   StutterInv
   DEF Next, Run

(* The invariant holds throughout.                                         *)
LEMMA StopSafe == Spec => []StopInv
BY InitInv, StopStep, PTL DEF Spec

-----------------------------------------------------------------------------
(* Every variable keeps its type, and the hard window is never empty.      *)
THEOREM StopTypes == Spec => []TypeOK
<1>1. StopInv => TypeOK
  BY DEF StopInv
<1> QED
  BY <1>1, StopSafe, PTL

(* Exit code 0 means that no caller was cut off, 1 that a listener broke   *)
(* or the graceful budget was used up.                                     *)
THEOREM ExitCodeTold == Spec => []ExitCodeIsTrue
<1>1. StopInv => ExitCodeIsTrue
  BY DEF StopInv
<1> QED
  BY <1>1, StopSafe, PTL

(* A handler is cut off by the stop after its full budget, never before.   *)
THEOREM BudgetIsKept == Spec => []CutOnlyAfterBudget
<1>1. StopInv => CutOnlyAfterBudget
  BY DEF StopInv
<1> QED
  BY <1>1, StopSafe, PTL

(* And the stop takes no longer than that.                                 *)
THEOREM EndsInTime == Spec => []StopsInTime
<1>1. StopInv => StopsInTime
  <2> SUFFICES ASSUME StopInv, Stopping PROVE elapsed <= FullBudget
    BY DEF StopsInTime
  <2>1. CASE pc \in {"hard", "close"}
    BY <2>1 DEF StopInv, OnTime
  <2>2. CASE pc = "graceful"
    <3>1. elapsed <= budget /\ elapsed \in Nat /\ budget \in Nat /\ cfg.hard \in Nat
      BY <2>2, StopNumbers DEF StopInv, OnTime, TypeOK
    <3>2. daemon \in {"scan-bridge", "service"}
      BY DEF StopInv, TypeOK
    <3> QED
      BY <3>1, <3>2 DEF FullBudget
  <2> QED
    BY <2>1, <2>2 DEF Stopping
<1> QED
  BY <1>1, StopSafe, PTL

(* A service finds no file in its way though its predecessor was killed at *)
(* any step, and while its accept loop runs the file is its own, open to   *)
(* scan-bridge (ReachableWhileUp).                                         *)
THEOREM SocketIsItsOwn == Spec => []ReachableWhileUp
<1>1. StopInv => ReachableWhileUp
  BY DEF StopInv, ReachableWhileUp, FileIsBound, Draining, OneEach, Listeners
<1> QED
  BY <1>1, StopSafe, PTL
=============================================================================
