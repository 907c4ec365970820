---------------------------- MODULE PanelUpdates ----------------------------
(***************************************************************************)
(* How the touch panel finds new firmware (cyd-scan-panel.yaml): an update *)
(* component that polls the bridge's manifest, and the scripts that decide *)
(* when it does.  The Bridge URL can be edited or cleared at any time, a   *)
(* check runs on a task of its own and cannot be called back, and every    *)
(* other HTTP request blocks the main loop and with it every timer.        *)
(*                                                                         *)
(* ESPHome is external: a check is refused while one is running or there   *)
(* is no network, a failed one sets the error status and leaves the state  *)
(* alone, and start_poller first fires a whole interval later.  Time is in *)
(* whole units and timers are kept as the time they have left.             *)
(***************************************************************************)
EXTENDS Integers

CONSTANTS
  Bridges,          \* Bridge URLs
  None,
  Supervisor,       \* period of adaptive_update_poll
  Fast, Slow,       \* kUnknownMs, kSettledMs
  CheckTimeout,     \* http_request.timeout
  Window,           \* how long a new source holds the fast cadence
  Wrap,             \* millis() counts modulo this
  MaxBlock          \* the longest the main loop is held between two passes

ASSUME PanelAssumption ==
  /\ None \notin Bridges
  /\ Supervisor \in Nat \ {0} /\ Fast \in Nat \ {0} /\ Slow \in Nat
  /\ Fast < Slow /\ CheckTimeout \in Nat /\ CheckTimeout < Fast
  /\ Window \in Nat /\ MaxBlock \in Nat
  /\ Wrap \in Nat /\ Window < Wrap \div 2

ASSUME NoneAssumption ==
  None \notin [source : Bridges \cup {None}, age : 0..CheckTimeout, spoiled : BOOLEAN]

VARIABLES
  url,          \* bridge_url, None: empty
  source,       \* what set_source_url was last given; None: the placeholder
  interval, polling, pollIn,  \* the component's poller
  running,      \* update_poll_running, what the scripts think of it
  fastFor,      \* update_fast_until_ms - millis(), or NoDeadline: the global is 0
  superviseIn,  \* time until adaptive_update_poll
  task,         \* the check under way
  error,        \* status_has_error()
  last,         \* source of the last check that succeeded; None: UNKNOWN
  busy,         \* how long the main loop stays blocked
  doing,        \* the script to be continued then
  wifi, up,     \* network::is_connected(), and which bridges answer
  (* History: since when url, wifi and the bridge are as they are, and      *)
  (* whether the deadline for this source came out as 0.                    *)
  steady, zero

pollerVars == <<interval, polling, pollIn, running>>
checkVars  == <<task, error, last>>
loopVars   == <<busy, doing>>
worldVars  == <<wifi, up>>
vars == <<url, source, pollerVars, fastFor, superviseIn, checkVars, loopVars,
          worldVars, steady, zero>>

NoDeadline == -1
URLs == Bridges \cup {None}

(* The longest that can pass until a bridge that is back is found (a check *)
(* fails, supervisor, poller, a check), until one that has gone is noticed *)
(* (a check of the one before ends, the supervisor puts off the next poll, *)
(* it fails), and until the slow cadence returns (what is longer: that, or *)
(* a window that opens late; and the supervisor).                          *)
Larger(a, b) == IF a > b THEN a ELSE b
Late(period) == period + MaxBlock
Recovery  == CheckTimeout + Late(Supervisor) + Late(Fast) + CheckTimeout
Notice    == CheckTimeout + Late(Supervisor) + Late(Slow) + CheckTimeout
Settling  == Larger(Recovery, Late(Window)) + Late(Supervisor)
SteadyCap == Larger(Settling, Notice) + 1

PollerTypes ==
  /\ interval \in {Fast, Slow} /\ polling \in BOOLEAN /\ running \in BOOLEAN
  /\ pollIn \in 0..interval
  /\ superviseIn \in 0..Supervisor

WindowTypes == fastFor \in {NoDeadline} \cup 0..(Wrap - 1) /\ zero \in BOOLEAN

CheckTypes ==
  /\ url \in URLs /\ source \in URLs
  /\ task \in {None} \cup [source : URLs, age : 0..CheckTimeout, spoiled : BOOLEAN]
  /\ error \in BOOLEAN /\ last \in URLs

WorldTypes ==
  /\ busy \in 0..MaxBlock /\ doing \in {"boot", "update", "nothing"}
  /\ wifi \in BOOLEAN /\ up \in [Bridges -> BOOLEAN]
  /\ steady \in 0..SteadyCap

(* Types; a poller is never further from its next poll than its interval.  *)
TypeOK == PollerTypes /\ WindowTypes /\ CheckTypes /\ WorldTypes

Reachable(s) == wifi /\ s # None /\ up[s]

-----------------------------------------------------------------------------
(* A power-up, a watchdog, an installed update: component setup, up to the *)
(* call of on_boot.  The text entity restores the URL and fires on_value,  *)
(* so that apply_update_source comes before the poller is started; of an   *)
(* empty URL it may publish nothing.                                       *)
Reboot ==
  /\ UNCHANGED <<url, up>> /\ source' = url
  /\ interval' = Fast /\ pollIn' = Fast /\ polling' = TRUE
  /\ running' \in IF url = None THEN BOOLEAN ELSE {TRUE}
  /\ fastFor' = IF url = None THEN NoDeadline ELSE Window
  /\ superviseIn' = Supervisor
  /\ task' = None /\ error' = FALSE /\ last' = None
  /\ busy' = 0 /\ doing' = "boot"
  /\ wifi' = FALSE /\ steady' = 0 /\ zero' = FALSE

Init ==
  /\ url = None /\ source = None
  /\ interval = Fast /\ pollIn = Fast /\ polling = TRUE /\ running \in BOOLEAN
  /\ fastFor = NoDeadline /\ superviseIn = Supervisor
  /\ task = None /\ error = FALSE /\ last = None
  /\ busy = 0 /\ doing = "boot"
  /\ wifi = FALSE /\ up \in [Bridges -> BOOLEAN] /\ steady = 0 /\ zero = FALSE

-----------------------------------------------------------------------------
(* The scripts. *)

Idle == busy = 0 /\ doing = "nothing"

(* update(): of the component, for the source it has.                      *)
Check(s) ==
  IF wifi /\ task = None
    THEN task' = [source |-> s, age |-> 0, spoiled |-> ~Reachable(s)]
    ELSE UNCHANGED task

CheckNow(s) == IF url # None THEN Check(s) ELSE UNCHANGED task

(* Mutant: it covers the check in flight only, as an earlier version did.  *)
OpenForOneCheck == fastFor' = CheckTimeout /\ zero' = FALSE

(* millis() + 300 s, which may wrap to the value that means none.          *)
OpenWindow == fastFor' \in {Window, NoDeadline} /\ zero' = (fastFor' = NoDeadline)

(* Mutant: the supervisor is left to stop the poller.                      *)
ApplyWithoutStop ==
  /\ source' = url
  /\ IF url # None /\ url # source THEN OpenWindow ELSE UNCHANGED <<fastFor, zero>>
  /\ UNCHANGED pollerVars

(* apply_update_source: an unchanged source is left alone; an empty URL    *)
(* stops the poller on the spot.                                           *)
ApplyUpdateSource ==
  /\ source' = url
  /\ IF url # None /\ url # source THEN OpenWindow ELSE UNCHANGED <<fastFor, zero>>
  /\ IF url = None /\ running THEN polling' = FALSE /\ running' = FALSE
                              ELSE UNCHANGED <<polling, running>>
  /\ UNCHANGED <<interval, pollIn>>

(* (int32_t)(update_fast_until_ms - millis()) > 0.                         *)
WindowOpen == fastFor \in 1..(Wrap \div 2 - 1)

(* Mutant: the deadline is left in place when it has passed.               *)
KeepDeadline == fastFor

ExpireDeadline == IF WindowOpen THEN fastFor ELSE NoDeadline

(* Mutant: a failed check is not looked at.                                *)
SettledByState == last # None /\ ~WindowOpen

Settled == last # None /\ ~error /\ ~WindowOpen

Want == IF Settled THEN Slow ELSE Fast

(* Mutant: the poller is restarted whatever it was doing.                  *)
AlwaysRestart == TRUE

MustRestart == ~running \/ interval # Want

RestartPoller ==
  /\ interval' = Want /\ pollIn' = Want
  /\ polling' = TRUE /\ running' = TRUE

(* sync_update_cadence; stop_poller is not left to the flag.               *)
SyncUpdateCadence ==
  \/ /\ url = None
     /\ polling' = FALSE /\ running' = FALSE
     /\ UNCHANGED <<interval, pollIn, fastFor>>
  \/ /\ url # None
     /\ fastFor' = ExpireDeadline
     /\ IF MustRestart THEN RestartPoller ELSE UNCHANGED pollerVars

-----------------------------------------------------------------------------
(* What the main loop runs. *)

OnBoot ==
  /\ doing = "boot" /\ doing' = "nothing"
  /\ SyncUpdateCadence
  /\ UNCHANGED <<url, source, superviseIn, checkVars, busy, worldVars, steady, zero>>

AdaptiveUpdatePoll ==
  /\ Idle /\ superviseIn = 0
  /\ superviseIn' = Supervisor
  /\ SyncUpdateCadence
  /\ UNCHANGED <<url, source, checkVars, loopVars, worldVars, steady, zero>>

(* The poller does not ask check_now.                                      *)
Poll ==
  /\ Idle /\ polling /\ pollIn = 0
  /\ pollIn' = interval
  /\ Check(source)
  /\ UNCHANGED <<url, source, interval, polling, running, fastFor, superviseIn, error, last,
                 loopVars, worldVars, steady, zero>>

(* Timers that are due are served before the loop is blocked again.        *)
Due == superviseIn = 0 \/ (polling /\ pollIn = 0)

(* on_value of the Bridge URL: profiles and health are asked for first,    *)
(* one blocking request each.                                              *)
EditURL(u) ==
  /\ Idle /\ ~Due
  /\ url' = u
  /\ doing' = "update" /\ busy' \in IF u = None THEN {0} ELSE 0..MaxBlock
  /\ steady' = IF u = url THEN steady ELSE 0
  /\ UNCHANGED <<source, pollerVars, fastFor, superviseIn, checkVars, worldVars, zero>>

(* wifi.on_connect begins with the same two.                               *)
Connect ==
  /\ Idle /\ ~Due /\ ~wifi
  /\ wifi' = TRUE
  /\ doing' = "update" /\ busy' \in IF url = None THEN {0} ELSE 0..MaxBlock
  /\ steady' = 0
  /\ UNCHANGED <<url, source, pollerVars, fastFor, superviseIn, checkVars, up, zero>>

(* And both end with these.                                                *)
Update ==
  /\ doing = "update" /\ busy = 0
  /\ doing' = "nothing"
  /\ ApplyUpdateSource
  /\ CheckNow(source')
  /\ UNCHANGED <<url, superviseIn, error, last, busy, worldVars, steady>>

(* check_for_update: POST /firmware/refresh blocks too.  Of its checks, 8, *)
(* 90 and 660 seconds later, each is a press of its own here.              *)
Press ==
  /\ Idle /\ ~Due /\ url # None
  /\ doing' = "update" /\ busy' \in 0..MaxBlock
  /\ UNCHANGED <<url, source, pollerVars, fastFor, superviseIn, checkVars, worldVars, steady, zero>>

(* A scan, or one of the other polls, holds the loop.                      *)
Request ==
  /\ Idle /\ ~Due /\ url # None
  /\ busy' \in 1..MaxBlock
  /\ UNCHANGED <<url, source, pollerVars, fastFor, superviseIn, checkVars, doing,
                 worldVars, steady, zero>>

-----------------------------------------------------------------------------
(* The update task, the network and the bridges. *)

CheckSucceeds ==
  /\ task # None /\ Reachable(task.source)
  /\ last' = task.source /\ error' = FALSE /\ task' = None
  /\ UNCHANGED <<url, source, pollerVars, fastFor, superviseIn, loopVars, worldVars,
                 steady, zero>>

CheckFails ==
  /\ task # None /\ task.spoiled
  /\ error' = TRUE /\ task' = None
  /\ UNCHANGED <<url, source, pollerVars, fastFor, superviseIn, last, loopVars,
                 worldVars, steady, zero>>

Spoil(hit) == IF task # None /\ hit THEN task' = [task EXCEPT !.spoiled = TRUE]
                                    ELSE UNCHANGED task

Disconnect ==
  /\ wifi /\ wifi' = FALSE
  /\ Spoil(TRUE) /\ steady' = 0
  /\ UNCHANGED <<url, source, pollerVars, fastFor, superviseIn, error, last, loopVars, up, zero>>

(* A bridge goes away or comes back.                                       *)
Flip(b) ==
  /\ up' = [up EXCEPT ![b] = ~@]
  /\ Spoil(task # None /\ task.source = b)
  /\ steady' = IF b = url THEN 0 ELSE steady
  /\ UNCHANGED <<url, source, pollerVars, fastFor, superviseIn, error, last, loopVars, wifi, zero>>

Less(n) == Larger(n - 1, 0)

Elapse ==
  /\ busy = 0 => doing = "nothing" /\ ~Due
  /\ task # None => task.age < CheckTimeout
  /\ task' = IF task = None THEN None ELSE [task EXCEPT !.age = @ + 1]
  /\ superviseIn' = Less(superviseIn) /\ pollIn' = Less(pollIn)
  /\ fastFor' = IF fastFor = NoDeadline THEN NoDeadline ELSE (fastFor + Wrap - 1) % Wrap
  /\ busy' = Less(busy)
  /\ steady' = IF steady < SteadyCap THEN steady + 1 ELSE steady
  /\ UNCHANGED <<url, source, interval, polling, running, error, last, doing, worldVars, zero>>

Next ==
  \/ OnBoot \/ AdaptiveUpdatePoll \/ Poll \/ Connect \/ Update \/ Press \/ Request
  \/ \E u \in URLs : EditURL(u)
  \/ CheckSucceeds \/ CheckFails \/ Disconnect \/ Reboot \/ Elapse
  \/ \E b \in Bridges : Flip(b)

Spec == Init /\ [][Next]_vars

-----------------------------------------------------------------------------
(* Nothing is asked of a bridge the operator has replaced or removed: a    *)
(* check that begins goes to the URL as it now is, and there is none       *)
(* without one, at boot included.                                          *)
ChecksFollowURL ==
  [][task = None /\ task' # None => url' # None /\ task'.source = url']_vars

(* A panel that is on the network and takes its answer for settled got it  *)
(* from the bridge it is pointed at -- not from the one before, by a check *)
(* that was under way when the URL was edited: the window outlasts the     *)
(* chain (comment on update_fast_until_ms) -- unless its end came out as 0.*)
SettledIsTrue ==
  Settled /\ wifi /\ Idle /\ task = None /\ url # None /\ ~zero => last = url

(* A bridge that is there is found: no later than a check that fails as it *)
(* comes back, the supervisor, the poller and one good check take, nothing *)
(* is unknown, in error or another bridge's word any more.                 *)
PickedUpInTime ==
  Reachable(url) /\ steady > Recovery /\ ~zero => last = url /\ ~error

(* A bridge that has gone is noticed within a settled poll, which a check  *)
(* of the bridge before and then the supervisor may have put off, and the  *)
(* time a check takes to fail.                                             *)
NoticedInTime ==
  wifi /\ url # None /\ ~Reachable(url) /\ steady > Notice => error

(* The fast cadence ends by itself, and for good: the window does not come *)
(* back when millis() wraps.                                               *)
SettlesAgain ==
  Reachable(url) /\ steady > Settling => interval = Slow
=============================================================================
