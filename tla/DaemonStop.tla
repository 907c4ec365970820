----------------------------- MODULE DaemonStop -----------------------------
(***************************************************************************)
(* Start and stop of one daemon: run() and shutdownAll of scan-bridge, or  *)
(* run() and shutdown of the two services behind a Unix socket.  A stop    *)
(* gives the handlers in flight a graceful budget; scan-bridge adds a hard *)
(* window before it closes their connections, the services close at once.  *)
(*                                                                         *)
(* Of net/http.Server only what the code relies on is kept: Shutdown       *)
(* closes the listener and waits for the active requests or its context,   *)
(* Close cuts them.  Time counts from the moment a stop begins.            *)
(***************************************************************************)
EXTENDS Naturals, FiniteSets

CONSTANTS
  Requests,     \* calls that may arrive
  MaxBudget,    \* bound on the timeouts of a configuration
  MaxStarts,    \* bound on how often the daemon is started
  MaxFailures   \* bound on listeners and start-up steps that fail by themselves

ASSUME StopAssumption ==
  /\ IsFiniteSet(Requests)
  /\ MaxBudget \in Nat \ {0} /\ MaxStarts \in Nat /\ MaxFailures \in Nat

VARIABLES
  daemon,     \* which main.go: "scan-bridge" or "service"
  cfg,        \* its timeouts
  pc,         \* where run() is
  listener,   \* per listener: not up yet, up, closed, or failed and in srvErrs
  signal,     \* sigCh, of capacity one
  shutdown,   \* per listener: its Shutdown call
  request,    \* per call: the listener it came in on, and how far it is
  elapsed,    \* time since the stop began
  budget,     \* the graceful timeout of this stop
  deadline,   \* of the Shutdown calls under way
  socket,     \* the service's socket file
  status,     \* how the last run ended
  starts, failures,
  (* History: what made it stop, and the calls cut off by the end.          *)
  cause, cut

vars == <<daemon, cfg, pc, listener, signal, shutdown, request, elapsed, budget,
          deadline, socket, status, starts, failures, cause, cut>>
given  == <<daemon, cfg>>
bounds == <<starts, failures>>
timing == <<elapsed, budget, deadline>>

Listeners == IF daemon = "scan-bridge" THEN {"public", "metrics"} ELSE {"socket"}
Budgets   == 1..MaxBudget
NoSignal  == "none"
Signals   == {"SIGTERM", "SIGINT"}

(* Config.Validate: timeouts are positive, and the hard one covers the     *)
(* graceful one of SIGTERM.                                                *)
Valid(c) == c.hard >= c.sigterm
Configs  == {c \in [sigterm : Budgets, sigint : Budgets, hard : Budgets] : Valid(c)}

(* A service on its way to its listener (newUnixListener), and a daemon    *)
(* that serves or stops.                                                   *)
Starting == {"remove", "bind", "chmod"}
Up       == pc \notin Starting \cup {"down"}
Stopping == pc \in {"graceful", "hard", "close"}
Active   == {r \in Requests : request[r].state = "active"}
ActiveOn(l) == {r \in Active : request[r].on = l}

(* Types; the hard window is never empty.                                  *)
TypeOK ==
  /\ daemon \in {"scan-bridge", "service"} /\ cfg \in Configs
  /\ pc \in {"down", "remove", "bind", "chmod", "serving", "graceful", "hard", "close"}
  /\ listener \in [Listeners -> {"down", "up", "closed", "failed"}]
  /\ signal \in Signals \cup {NoSignal}
  /\ shutdown \in [Listeners -> {"none", "running", "drained", "expired"}]
  /\ request \in [Requests -> [on : Listeners \cup {"none"},
                               state : {"none", "active", "answered"}]]
  /\ elapsed \in Nat /\ budget \in 0..MaxBudget /\ deadline \in Nat
  /\ pc = "hard" => deadline > budget
  /\ socket \in {"absent", "private", "bound", "stale"}
  /\ status \in {"none", "0", "1", "killed"}
  /\ starts \in 0..MaxStarts /\ failures \in 0..MaxFailures
  /\ cause \in {"none", "signal", "failure", "refused"} /\ cut \subseteq Requests

(* What a process holds in memory, and what it starts with.                *)
Memory     == <<listener, shutdown, request, signal>>
ForAll(x)  == [l \in Listeners |-> x]
NoRequests == [r \in Requests |-> [on |-> "none", state |-> "none"]]

Init ==
  /\ daemon \in {"scan-bridge", "service"} /\ cfg \in Configs
  /\ pc = "down" /\ status = "none"
  /\ listener = ForAll("down") /\ shutdown = ForAll("none")
  /\ request = NoRequests /\ signal = NoSignal
  /\ socket = "absent"
  /\ elapsed = 0 /\ budget = 0 /\ deadline = 0
  /\ starts = 0 /\ failures = 0
  /\ cause = "none" /\ cut = {}

-----------------------------------------------------------------------------
(* The start. *)

(* The end of the process, whatever led to it.                             *)
Exit(code) ==
  /\ pc' = "down" /\ status' = code /\ cut' = Active
  /\ listener' = ForAll("down") /\ shutdown' = ForAll("none")
  /\ request' = NoRequests /\ signal' = NoSignal

Start ==
  /\ pc = "down" /\ starts < MaxStarts
  /\ pc' = IF daemon = "service" THEN "remove" ELSE "serving"
  /\ starts' = starts + 1
  /\ cause' = "none" /\ cut' = {} /\ status' = "none"
  /\ elapsed' = 0 /\ budget' = 0 /\ deadline' = 0
  /\ UNCHANGED <<given, Memory, socket, failures>>

(* A step of newUnixListener succeeds, or the service exits without ever   *)
(* having served.                                                          *)
Proceed(next) == pc' = next /\ UNCHANGED <<Memory, status, failures, cause, cut>>
GiveUpStart(why) == Exit("1") /\ cause' = why
FailStart == failures < MaxFailures /\ failures' = failures + 1 /\ GiveUpStart("failure")

(* Mutant: the file is left to the orderly exit, which removes its own.    *)
KeepStale ==
  /\ pc = "remove"
  /\ Proceed("bind")
  /\ UNCHANGED <<given, timing, starts, socket>>

(* The socket file of an earlier run is removed.                           *)
RemoveStale ==
  /\ pc = "remove"
  /\ \/ Proceed("bind") /\ socket' = "absent"
     \/ FailStart /\ UNCHANGED socket
  /\ UNCHANGED <<given, timing, starts>>

(* Listen makes a new file, and refuses a path where there is one.         *)
BindSocket ==
  /\ pc = "bind"
  /\ \/ socket = "absent" /\ Proceed("chmod") /\ socket' = "private"
     \/ socket # "absent" /\ GiveUpStart("refused") /\ UNCHANGED <<socket, failures>>
     \/ FailStart /\ UNCHANGED socket
  /\ UNCHANGED <<given, timing, starts>>

(* scan-bridge, of the same group, may connect from here on; otherwise the *)
(* listener is closed, which removes its file.                             *)
ChmodSocket ==
  /\ pc = "chmod"
  /\ \/ Proceed("serving") /\ socket' = "bound"
     \/ FailStart /\ socket' = "absent"
  /\ UNCHANGED <<given, timing, starts>>

-----------------------------------------------------------------------------
(* Life before a stop. *)

(* A Serve goroutine comes to its accept loop; after Shutdown it returns   *)
(* at once.                                                                *)
Listen(l) ==
  /\ Up /\ listener[l] = "down"
  /\ listener' = [listener EXCEPT ![l] = IF shutdown[l] = "none" THEN "up" ELSE "closed"]
  /\ socket' = IF shutdown[l] = "none" THEN socket ELSE "absent"
  /\ UNCHANGED <<given, pc, signal, shutdown, request, timing, status, bounds, cause, cut>>

(* The address is taken, or accepting fails: the error goes to srvErrs,    *)
(* which has room for one from every listener.                             *)
ListenerFails(l) ==
  /\ Up /\ listener[l] \in {"down", "up"} /\ shutdown[l] = "none"
  /\ failures < MaxFailures /\ failures' = failures + 1
  /\ listener' = [listener EXCEPT ![l] = "failed"]
  /\ UNCHANGED <<given, pc, signal, shutdown, request, timing, socket, status, starts,
                 cause, cut>>

Accept(r, l) ==
  /\ Up /\ listener[l] = "up" /\ request[r].state = "none"
  /\ request' = [request EXCEPT ![r] = [on |-> l, state |-> "active"]]
  /\ UNCHANGED <<given, pc, listener, signal, shutdown, timing, socket, status, bounds,
                 cause, cut>>

Answer(r) ==
  /\ Up /\ r \in Active
  /\ request' = [request EXCEPT ![r].state = "answered"]
  /\ UNCHANGED <<given, pc, listener, signal, shutdown, timing, socket, status, bounds,
                 cause, cut>>

(* signal.Notify does not block: what does not fit is dropped, and nobody  *)
(* reads the channel once a stop has begun.                                *)
Signal(s) ==
  /\ Up /\ signal = NoSignal
  /\ signal' = s
  /\ UNCHANGED <<given, pc, listener, shutdown, request, timing, socket, status, bounds,
                 cause, cut>>

-----------------------------------------------------------------------------
(* The stop. *)

(* signalDetails; the services have one timeout for both signals.          *)
Graceful(s) == IF daemon = "scan-bridge" /\ s = "SIGINT" THEN cfg.sigint ELSE cfg.sigterm

BeginStop(b, why) ==
  /\ pc' = "graceful" /\ budget' = b /\ deadline' = b /\ cause' = why

SelectSignal ==
  /\ pc = "serving" /\ signal # NoSignal
  /\ BeginStop(Graceful(signal), "signal")
  /\ signal' = NoSignal
  /\ UNCHANGED <<given, listener, shutdown, request, elapsed, socket, status, bounds, cut>>

(* A listener that exited unexpectedly: scan-bridge still drains the other *)
(* one, a service returns on the spot.                                     *)
SelectError ==
  /\ pc = "serving" /\ \E l \in Listeners : listener[l] = "failed"
  /\ UNCHANGED <<given, elapsed, bounds>>
  /\ \/ /\ daemon = "scan-bridge" /\ BeginStop(cfg.sigterm, "failure")
        /\ UNCHANGED <<Memory, socket, status, cut>>
     \/ /\ daemon = "service" /\ Exit("1")
        /\ socket' = "absent" /\ cause' = "failure"
        /\ UNCHANGED <<budget, deadline>>

(* Every listener gets its Shutdown at once, in a goroutine of its own.    *)
MayShutDown(l) == pc = "graceful" /\ shutdown[l] = "none"

BeginShutdown(l) ==
  /\ MayShutDown(l)
  /\ shutdown' = [shutdown EXCEPT ![l] = "running"]
  /\ listener' = [listener EXCEPT ![l] = IF @ = "up" THEN "closed" ELSE @]
  /\ socket' = IF daemon = "service" /\ listener[l] = "up" THEN "absent" ELSE socket
  /\ UNCHANGED <<given, pc, signal, request, timing, status, bounds, cause, cut>>

(* Mutant: Shutdown is called with a context that never ends.              *)
ShutdownWaits(l) ==
  /\ shutdown[l] = "running" /\ ActiveOn(l) = {}
  /\ shutdown' = [shutdown EXCEPT ![l] = "drained"]
  /\ UNCHANGED <<given, pc, listener, signal, request, timing, socket, status, bounds,
                 cause, cut>>

ShutdownReturns(l) ==
  /\ shutdown[l] = "running"
  /\ \E end \in {"drained", "expired"} :
       /\ end = "drained" => ActiveOn(l) = {}
       /\ end = "expired" => elapsed >= deadline
       /\ shutdown' = [shutdown EXCEPT ![l] = end]
  /\ UNCHANGED <<given, pc, listener, signal, request, timing, socket, status, bounds,
                 cause, cut>>

AllReturned == \A l \in Listeners : shutdown[l] \in {"drained", "expired"}

(* Mutant: nobody looks at how Shutdown returned.                          *)
ReturnedInTime == AllReturned

(* Shutdown returned nil everywhere.  scan-bridge asks the context, which  *)
(* may have run out in the same instant: then EnterHardWindow is taken,    *)
(* though everything has drained.                                          *)
AllDrained == \A l \in Listeners : shutdown[l] = "drained"

DrainedInTime ==
  /\ pc = "graceful" /\ AllDrained
  /\ Exit(IF cause = "failure" THEN "1" ELSE "0")
  /\ socket' = "absent"
  /\ UNCHANGED <<given, timing, bounds, cause>>

(* Mutant: the second window is the whole hard timeout.                    *)
WholeHardTimeout == cfg.hard

(* What is left of the hard timeout, a second if nothing is.               *)
Remainder == IF cfg.hard > budget THEN cfg.hard - budget ELSE 1

EnterHardWindow ==
  /\ pc = "graceful" /\ daemon = "scan-bridge" /\ AllReturned /\ elapsed >= budget
  /\ pc' = "hard" /\ deadline' = elapsed + Remainder
  /\ shutdown' = ForAll("running")
  /\ UNCHANGED <<given, listener, signal, request, elapsed, budget, socket, status, bounds,
                 cause, cut>>

(* Mutant: a second signal ends the hard window.                           *)
GiveUpOnSecondSignal ==
  /\ \/ pc = "hard" /\ (signal # NoSignal \/ AllReturned)
     \/ pc = "graceful" /\ daemon = "service" /\ shutdown["socket"] = "expired"
  /\ pc' = "close"
  /\ UNCHANGED <<given, listener, signal, shutdown, request, timing, socket, status, bounds,
                 cause, cut>>

GiveUp ==
  /\ \/ pc = "hard" /\ AllReturned
     \/ pc = "graceful" /\ daemon = "service" /\ shutdown["socket"] = "expired"
  /\ pc' = "close"
  /\ UNCHANGED <<given, listener, signal, shutdown, request, timing, socket, status, bounds,
                 cause, cut>>

(* Close on every listener, and the error that makes main exit 1.          *)
ForceClose ==
  /\ pc = "close"
  /\ Exit("1")
  /\ socket' = "absent"
  /\ UNCHANGED <<given, timing, bounds, cause>>

-----------------------------------------------------------------------------
(* SIGKILL, or a signal before Notify: nothing deferred runs, and the      *)
(* socket file stays as it is.                                             *)
Kill ==
  /\ pc # "down"
  /\ Exit("killed")
  /\ socket' = IF socket \in {"private", "bound"} THEN "stale" ELSE socket
  /\ UNCHANGED <<given, timing, bounds, cause>>

(* Goroutines start, and timers fire, when they are due.                   *)
Tick ==
  /\ pc \in {"graceful", "hard"} /\ elapsed < deadline
  /\ \A l \in Listeners : ~MayShutDown(l)
  /\ elapsed' = elapsed + 1
  /\ UNCHANGED <<given, pc, listener, signal, shutdown, request, budget, deadline, socket,
                 status, bounds, cause, cut>>

Run ==
  \/ RemoveStale \/ BindSocket \/ ChmodSocket
  \/ SelectSignal \/ SelectError
  \/ \E l \in Listeners : BeginShutdown(l) \/ ShutdownReturns(l)
  \/ DrainedInTime \/ EnterHardWindow \/ GiveUp \/ ForceClose

Next ==
  \/ Start \/ Run \/ Tick \/ Kill
  \/ \E l \in Listeners : Listen(l) \/ ListenerFails(l)
  \/ \E r \in Requests : Answer(r) \/ \E l \in Listeners : Accept(r, l)
  \/ \E s \in Signals : Signal(s)

Spec == Init /\ [][Next]_vars

(* run() is scheduled and time passes; no handler is assumed to return.    *)
Fairness == WF_vars(Run) /\ WF_vars(Tick)
FairSpec == Spec /\ Fairness

-----------------------------------------------------------------------------
(* Properties. *)

(* All the time a stop in progress may take.                               *)
FullBudget ==
  IF daemon = "service" THEN budget
  ELSE IF cfg.hard > budget THEN cfg.hard ELSE budget + 1

(* The exit code, which the supervisor and the operator see: 0 means that  *)
(* no caller was cut off, 1 that a listener broke or the graceful budget   *)
(* was used up (main.go, shutdownAll; services, newUnixListener, shutdown).*)
ExitCodeIsTrue ==
  /\ status = "0" => cut = {}
  /\ status = "1" => cause = "failure" \/ elapsed >= budget

(* No handler in flight is cut off before all the time it was promised has *)
(* passed -- neither by a second signal nor by another listener's trouble. *)
(* A service whose only listener breaks does not wait.                     *)
CutOnlyAfterBudget ==
  cut # {} /\ status = "1" /\ ~(daemon = "service" /\ cause = "failure")
    => elapsed >= FullBudget

(* A stop takes no longer than the hard timeout, or a second more than the *)
(* graceful one where the configuration leaves no room between them.       *)
StopsInTime == Stopping => elapsed <= FullBudget

(* A service comes back after any end of its predecessor, killed at        *)
(* whatever step of its start or stop -- "any stale socket file left       *)
(* behind by an unclean previous exit" does not keep it from listening --  *)
(* and while its accept loop runs, the file is its own and open to         *)
(* scan-bridge.                                                            *)
ReachableWhileUp ==
  /\ cause # "refused"
  /\ daemon = "service" /\ Up /\ listener["socket"] = "up" => socket = "bound"

(* A signal stops the daemon, whatever its handlers do.                    *)
SignalStops == signal # NoSignal ~> pc = "down"
=============================================================================
