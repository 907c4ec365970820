------------------------- MODULE PanelUpdatesProofs -------------------------
(***************************************************************************)
(* What PanelUpdates's run checks on one instance, for every set of        *)
(* bridges, every cadence, timeout, window and clock: the types; that no   *)
(* check is sent anywhere but to the Bridge URL; that what the panel takes *)
(* for settled is its bridge's word; and that a bridge that comes or goes  *)
(* is noticed, and the fast cadence ends, in bounded time.                 *)
(*                                                                         *)
(* What the parameters must satisfy beyond PanelAssumption is named where  *)
(* it is needed and stands in the theorem: ChainFits, SupervisorFits,      *)
(* ClockFits.  The panel's own values satisfy all three.                   *)
(***************************************************************************)
EXTENDS PanelUpdates, TLAPS

(* The initial state is within its types.                                  *)
LEMMA InitTypes == Init => TypeOK
<1> SUFFICES ASSUME Init PROVE TypeOK
  OBVIOUS
<1> USE PanelAssumption DEF Init
<1>1. PollerTypes
  <2>1. polling \in BOOLEAN /\ running \in BOOLEAN
    BY Zenon
  <2> QED
    BY <2>1 DEF PollerTypes
<1>2. WindowTypes
  BY DEF WindowTypes
<1>3. CheckTypes
  BY DEF CheckTypes, URLs
<1>4. WorldTypes
  <2>1. steady \in 0..SteadyCap
    BY DEF SteadyCap, Settling, Notice, Recovery, Late, Larger
  <2>2. wifi \in BOOLEAN
    BY Zenon
  <2> QED
    BY <2>1, <2>2 DEF WorldTypes
<1> QED
  BY <1>1, <1>2, <1>3, <1>4 DEF TypeOK

(* The supervisor's script keeps the poller and the window in their types. *)
LEMMA SyncTypes ==
  ASSUME TypeOK, SyncUpdateCadence, UNCHANGED zero, superviseIn' \in 0..Supervisor
  PROVE  PollerTypes' /\ WindowTypes'
<1> USE PanelAssumption
<1>1. polling' \in BOOLEAN /\ running' \in BOOLEAN
  BY Zenon DEF TypeOK, PollerTypes, SyncUpdateCadence, RestartPoller, pollerVars
<1>2. interval' \in {Fast, Slow} /\ pollIn' \in 0..interval'
  BY DEF TypeOK, PollerTypes, SyncUpdateCadence, RestartPoller, pollerVars, Want
<1>3. fastFor' \in {NoDeadline} \cup 0..(Wrap - 1)
  BY DEF TypeOK, WindowTypes, SyncUpdateCadence, ExpireDeadline, NoDeadline
<1> QED
  BY <1>1, <1>2, <1>3 DEF TypeOK, PollerTypes, WindowTypes

(* A check that begins is one.                                             *)
LEMMA CheckTask ==
  ASSUME TypeOK, NEW s \in URLs, Check(s)
  PROVE  task' \in {None} \cup [source : URLs, age : 0..CheckTimeout, spoiled : BOOLEAN]
<1> USE PanelAssumption
<1>1. ASSUME NEW b \in BOOLEAN
      PROVE  [source |-> s, age |-> 0, spoiled |-> b]
               \in [source : URLs, age : 0..CheckTimeout, spoiled : BOOLEAN]
  OBVIOUS
<1>2. [source |-> s, age |-> 0, spoiled |-> ~Reachable(s)]
        \in [source : URLs, age : 0..CheckTimeout, spoiled : BOOLEAN]
  <2>1. (~Reachable(s)) \in BOOLEAN
    BY Zenon
  <2> QED
    BY <1>1, <2>1, Zenon
<1>3. \/ task' = [source |-> s, age |-> 0, spoiled |-> ~Reachable(s)]
      \/ UNCHANGED task
  BY Zenon DEF Check
<1> QED
  BY <1>2, <1>3, Zenon DEF TypeOK, CheckTypes

(* Every step keeps every variable within its type.                        *)
LEMMA TypeStep == TypeOK /\ [Next]_vars => TypeOK'
<1> SUFFICES ASSUME TypeOK, [Next]_vars PROVE TypeOK'
  OBVIOUS
<1> USE PanelAssumption
<1>0. SteadyCap \in Nat
  BY DEF SteadyCap, Settling, Notice, Recovery, Late, Larger
<1> USE DEF pollerVars, checkVars, loopVars, worldVars
<1>1. CASE OnBoot
  <2>1. PollerTypes' /\ WindowTypes'
    BY <1>1, SyncTypes DEF OnBoot, TypeOK, PollerTypes
  <2>2. CheckTypes' /\ WorldTypes'
    BY <1>1 DEF OnBoot, TypeOK, CheckTypes, WorldTypes
  <2> QED
    BY <2>1, <2>2 DEF TypeOK
<1>2. CASE AdaptiveUpdatePoll
  <2>1. PollerTypes' /\ WindowTypes'
    BY <1>2, SyncTypes DEF AdaptiveUpdatePoll, TypeOK, PollerTypes
  <2>2. CheckTypes' /\ WorldTypes'
    BY <1>2 DEF AdaptiveUpdatePoll, TypeOK, CheckTypes, WorldTypes
  <2> QED
    BY <2>1, <2>2 DEF TypeOK
<1>3. CASE Poll
  <2>1. PollerTypes' /\ WindowTypes'
    BY <1>3 DEF Poll, TypeOK, PollerTypes, WindowTypes
  <2>2. CheckTypes'
    BY <1>3, CheckTask DEF Poll, TypeOK, CheckTypes
  <2>3. WorldTypes'
    BY <1>3 DEF Poll, TypeOK, WorldTypes
  <2> QED
    BY <2>1, <2>2, <2>3 DEF TypeOK
<1>4. CASE Connect
  <2>1. PollerTypes' /\ WindowTypes' /\ CheckTypes'
    BY <1>4 DEF Connect, TypeOK, PollerTypes, WindowTypes, CheckTypes
  <2>2. WorldTypes'
    BY <1>4, <1>0 DEF Connect, TypeOK, WorldTypes
  <2> QED
    BY <2>1, <2>2 DEF TypeOK
<1>5. CASE Update
  <2>1. polling' \in BOOLEAN /\ running' \in BOOLEAN /\ zero' \in BOOLEAN
    BY <1>5, Zenon DEF Update, ApplyUpdateSource, OpenWindow, TypeOK, PollerTypes, WindowTypes
  <2>2. fastFor' \in {NoDeadline} \cup 0..(Wrap - 1)
    BY <1>5 DEF Update, ApplyUpdateSource, OpenWindow, TypeOK, WindowTypes, NoDeadline
  <2>3. PollerTypes'
    BY <1>5, <2>1 DEF Update, ApplyUpdateSource, TypeOK, PollerTypes
  <2>4. CheckTypes'
    <3>1. source' \in URLs /\ url' \in URLs /\ error' \in BOOLEAN /\ last' \in URLs
      BY <1>5 DEF Update, ApplyUpdateSource, TypeOK, CheckTypes
    <3>2. Check(source') \/ UNCHANGED task
      BY <1>5 DEF Update, CheckNow
    <3> QED
      BY <3>1, <3>2, CheckTask DEF TypeOK, CheckTypes
  <2>5. WorldTypes'
    BY <1>5 DEF Update, TypeOK, WorldTypes
  <2> QED
    BY <2>1, <2>2, <2>3, <2>4, <2>5 DEF TypeOK, WindowTypes
<1>6. CASE Press
  <2>1. PollerTypes' /\ WindowTypes' /\ CheckTypes'
    BY <1>6 DEF Press, TypeOK, PollerTypes, WindowTypes, CheckTypes
  <2>2. WorldTypes'
    BY <1>6 DEF Press, TypeOK, WorldTypes
  <2> QED
    BY <2>1, <2>2 DEF TypeOK
<1>7. CASE Request
  <2>1. PollerTypes' /\ WindowTypes' /\ CheckTypes'
    BY <1>7 DEF Request, TypeOK, PollerTypes, WindowTypes, CheckTypes
  <2>2. WorldTypes'
    BY <1>7 DEF Request, TypeOK, WorldTypes
  <2> QED
    BY <2>1, <2>2 DEF TypeOK
<1>8. ASSUME NEW u \in URLs, EditURL(u) PROVE TypeOK'
  <2>1. PollerTypes' /\ WindowTypes' /\ CheckTypes'
    BY <1>8 DEF EditURL, TypeOK, PollerTypes, WindowTypes, CheckTypes
  <2>2. WorldTypes'
    BY <1>8, <1>0 DEF EditURL, TypeOK, WorldTypes
  <2> QED
    BY <2>1, <2>2 DEF TypeOK
<1>9. CASE CheckSucceeds
  <2>1. PollerTypes' /\ WindowTypes' /\ WorldTypes'
    BY <1>9 DEF CheckSucceeds, TypeOK, PollerTypes, WindowTypes, WorldTypes
  <2>2. CheckTypes'
    BY <1>9 DEF CheckSucceeds, TypeOK, CheckTypes
  <2> QED
    BY <2>1, <2>2 DEF TypeOK
<1>10. CASE CheckFails
  <2>1. PollerTypes' /\ WindowTypes' /\ WorldTypes'
    BY <1>10 DEF CheckFails, TypeOK, PollerTypes, WindowTypes, WorldTypes
  <2>2. CheckTypes'
    BY <1>10 DEF CheckFails, TypeOK, CheckTypes
  <2> QED
    BY <2>1, <2>2 DEF TypeOK
<1>11. CASE Disconnect
  <2>1. PollerTypes' /\ WindowTypes'
    BY <1>11 DEF Disconnect, TypeOK, PollerTypes, WindowTypes
  <2>2. CheckTypes'
    BY <1>11 DEF Disconnect, TypeOK, CheckTypes, Spoil
  <2>3. wifi' \in BOOLEAN
    BY <1>11, Zenon DEF Disconnect
  <2>4. WorldTypes'
    BY <1>11, <1>0, <2>3 DEF Disconnect, TypeOK, WorldTypes
  <2> QED
    BY <2>1, <2>2, <2>4 DEF TypeOK
<1>12. CASE Reboot
  <2>1. polling' \in BOOLEAN /\ running' \in BOOLEAN /\ zero' \in BOOLEAN
    BY <1>12, Zenon DEF Reboot
  <2>2. PollerTypes' /\ WindowTypes'
    BY <1>12, <2>1 DEF Reboot, TypeOK, PollerTypes, WindowTypes, NoDeadline
  <2>3. wifi' \in BOOLEAN /\ error' \in BOOLEAN
    BY <1>12, Zenon DEF Reboot
  <2>4. CheckTypes' /\ WorldTypes'
    BY <1>12, <1>0, <2>3 DEF Reboot, TypeOK, CheckTypes, WorldTypes, URLs
  <2> QED
    BY <2>2, <2>4 DEF TypeOK
<1>13. CASE Elapse
  <2>1. PollerTypes'
    BY <1>13 DEF Elapse, TypeOK, PollerTypes, Less, Larger
  <2>2. WindowTypes'
    BY <1>13 DEF Elapse, TypeOK, WindowTypes, NoDeadline
  <2>3. CheckTypes'
    BY <1>13 DEF Elapse, TypeOK, CheckTypes
  <2>4. WorldTypes'
    BY <1>13, <1>0 DEF Elapse, TypeOK, WorldTypes, Less, Larger
  <2> QED
    BY <2>1, <2>2, <2>3, <2>4 DEF TypeOK
<1>14. ASSUME NEW b \in Bridges, Flip(b) PROVE TypeOK'
  <2>1. PollerTypes' /\ WindowTypes'
    BY <1>14 DEF Flip, TypeOK, PollerTypes, WindowTypes
  <2>2. CheckTypes'
    BY <1>14 DEF Flip, TypeOK, CheckTypes, Spoil
  <2>3. up' \in [Bridges -> BOOLEAN]
    BY <1>14 DEF Flip, TypeOK, WorldTypes
  <2>4. WorldTypes'
    BY <1>14, <1>0, <2>3 DEF Flip, TypeOK, WorldTypes
  <2> QED
    BY <2>1, <2>2, <2>4 DEF TypeOK
<1>15. CASE UNCHANGED vars
  BY <1>15 DEF TypeOK, PollerTypes, WindowTypes, CheckTypes, WorldTypes, vars
<1> QED
  BY <1>1, <1>2, <1>3, <1>4, <1>5, <1>6, <1>7, <1>8, <1>9, <1>10, <1>11, <1>12, <1>13,
     <1>14, <1>15 DEF Next

(* Every variable keeps its type, and the poller is never further from its *)
(* next poll than its interval: nothing re-times a poller that runs.       *)
THEOREM TypeCorrect == Spec => []TypeOK
<1> QED
  BY InitTypes, TypeStep, PTL DEF Spec

-----------------------------------------------------------------------------
(* When no script is pending the component has the source the URL calls    *)
(* for, and without a URL its poller is off; at boot nothing is known, and *)
(* from then on the flag is true of the poller.                            *)
SourceApplied    == doing = "update" \/ source = url
NoPollWithoutURL == doing = "nothing" /\ url = None => ~polling
FlagIsTrue       == doing # "boot" => (polling <=> running)
BootIsBlank ==
  doing = "boot" => /\ task = None /\ last = None
                    /\ polling /\ (url # None => running)
Follows == SourceApplied /\ NoPollWithoutURL /\ FlagIsTrue /\ BootIsBlank

(* Without a URL nothing is pending, and at boot nothing is known.         *)
LEMMA InitFollows == Init => Follows
BY DEF Init, Follows, SourceApplied, NoPollWithoutURL, FlagIsTrue, BootIsBlank

(* The supervisor's script, at boot or later, leaves a poller that is off  *)
(* without a URL and a flag that is true.                                  *)
LEMMA SyncFollows ==
  ASSUME Follows, SyncUpdateCadence, UNCHANGED <<url, source>>,
         doing' = "nothing", doing # "update"
  PROVE  Follows'
<1>1. SourceApplied' /\ BootIsBlank'
  BY DEF Follows, SourceApplied, BootIsBlank
<1>2. url = None => ~polling' /\ ~running'
  BY DEF SyncUpdateCadence
<1>3. url # None => polling' /\ running'
  BY DEF SyncUpdateCadence, RestartPoller, MustRestart, pollerVars, Follows, FlagIsTrue,
         BootIsBlank
<1> QED
  BY <1>1, <1>2, <1>3 DEF Follows, NoPollWithoutURL, FlagIsTrue

(* No step leaves the component with another source than the scripts gave  *)
(* it.                                                                     *)
LEMMA FollowsStep == Follows /\ [Next]_vars => Follows'
<1> SUFFICES ASSUME Follows, [Next]_vars PROVE Follows'
  OBVIOUS
<1> USE DEF Idle, pollerVars, checkVars, loopVars, worldVars
<1>1. CASE OnBoot
  BY <1>1, SyncFollows DEF OnBoot
<1>2. CASE AdaptiveUpdatePoll
  BY <1>2, SyncFollows DEF AdaptiveUpdatePoll
<1> USE DEF Follows, SourceApplied, NoPollWithoutURL, FlagIsTrue, BootIsBlank
<1>3. CASE Poll
  BY <1>3 DEF Poll
<1>4. CASE Connect
  BY <1>4 DEF Connect
<1>5. CASE Update
  <2>1. source' = url' /\ doing' = "nothing" /\ url' = url /\ doing = "update"
    BY <1>5 DEF Update, ApplyUpdateSource
  <2>2. polling' <=> running'
    BY <1>5, <2>1 DEF Update, ApplyUpdateSource
  <2>3. url = None => ~polling'
    BY <1>5, <2>1 DEF Update, ApplyUpdateSource
  <2> QED
    BY <2>1, <2>2, <2>3
<1>6. CASE Press
  BY <1>6 DEF Press
<1>7. CASE Request
  BY <1>7 DEF Request
<1>8. ASSUME NEW u \in URLs, EditURL(u) PROVE Follows'
  BY <1>8 DEF EditURL
<1>9. CASE CheckSucceeds
  BY <1>9 DEF CheckSucceeds
<1>10. CASE CheckFails
  BY <1>10 DEF CheckFails
<1>11. CASE Disconnect
  BY <1>11 DEF Disconnect, Spoil
<1>12. CASE Reboot
  BY <1>12 DEF Reboot
<1>13. CASE Elapse
  BY <1>13 DEF Elapse
<1>14. ASSUME NEW b \in Bridges, Flip(b) PROVE Follows'
  BY <1>14 DEF Flip, Spoil
<1>15. CASE UNCHANGED vars
  BY <1>15 DEF vars
<1> QED
  BY <1>1, <1>2, <1>3, <1>4, <1>5, <1>6, <1>7, <1>8, <1>9, <1>10, <1>11, <1>12, <1>13,
     <1>14, <1>15 DEF Next

(* A check only begins in two places, and in both the source is the URL.   *)
LEMMA BeginsAtURL ==
  ASSUME Follows, [Next]_vars, task = None, task' # None
  PROVE  url' # None /\ task'.source = url'
<1> USE DEF Idle, pollerVars, checkVars, loopVars, worldVars
<1>1. CASE Poll
  BY <1>1 DEF Poll, Check, Follows, SourceApplied, NoPollWithoutURL
<1>2. CASE Update
  BY <1>2 DEF Update, ApplyUpdateSource, CheckNow, Check
<1>3. ASSUME NEW u \in URLs, EditURL(u) PROVE FALSE
  BY <1>3 DEF EditURL
<1>4. ASSUME NEW b \in Bridges, Flip(b) PROVE FALSE
  BY <1>4 DEF Flip, Spoil
<1>5. ~OnBoot /\ ~AdaptiveUpdatePoll /\ ~Connect /\ ~Press /\ ~Request /\ ~CheckSucceeds
      /\ ~CheckFails /\ ~Disconnect /\ ~Reboot /\ ~Elapse /\ ~(UNCHANGED vars)
  BY DEF OnBoot, AdaptiveUpdatePoll, Connect, Press, Request, CheckSucceeds, CheckFails,
         Disconnect, Spoil, Reboot, Elapse, vars
<1> QED
  BY <1>1, <1>2, <1>3, <1>4, <1>5 DEF Next

(* No check is sent anywhere but to the URL as it is when the check begins:*)
(* not to a bridge the operator has replaced, and nowhere without a URL.   *)
THEOREM ChecksFollow == Spec => ChecksFollowURL
<1>1. Follows /\ [Next]_vars => (task = None /\ task' # None => url' # None /\ task'.source = url')
  BY BeginsAtURL
<1> QED
  BY <1>1, InitFollows, FollowsStep, PTL DEF Spec, ChecksFollowURL

-----------------------------------------------------------------------------
(* Why the window outlasts the chain.  A timer with x left fires within    *)
(* Fires(x), whatever requests block the loop meanwhile.  From then on it  *)
(* is a poll, if the poller is at its fast cadence, or the supervisor and  *)
(* then a poll, until a check of the new source begins; while a check of   *)
(* an old one is under way, that has to end first, and may cost a poll.    *)
FastPolling == polling /\ interval = Fast
Held        == Less(MaxBlock)
Fires(x)    == IF x <= busy THEN busy ELSE x + Held
UntilPoll   == IF FastPolling THEN Fires(pollIn) ELSE Fires(superviseIn) + Fast + Held
UntilFresh(left) ==
  (IF FastPolling THEN left ELSE Larger(Fires(superviseIn), left)) + Fast + Held
Outlasts(t) == t < fastFor /\ fastFor <= Window

Applied  == url # None /\ source = url /\ ~zero
OldCheck == task # None /\ task.source # url
OldWord  == last # None /\ ~error /\ last # url /\ wifi /\ task = None /\ doing = "nothing"

WindowOutlastsCheck == Applied /\ OldCheck => Outlasts(UntilFresh(CheckTimeout - task.age))
WindowOutlastsWord  == Applied /\ OldWord => Outlasts(UntilPoll)

SettledInv == TypeOK /\ Follows /\ WindowOutlastsCheck /\ WindowOutlastsWord

(* What the window must be longer than.                                    *)
ChainFits ==
  /\ Supervisor + Held + Fast + Held < Window
  /\ CheckTimeout + Fast + Held < Window

(* How late a timer can be made is a number, one short of the longest      *)
(* block.                                                                  *)
LEMMA HeldIsNat == Held \in Nat /\ Held <= MaxBlock /\ MaxBlock <= Held + 1
BY PanelAssumption DEF Held, Less, Larger

(* The chain as numbers, which is all that matters from here on.           *)
LEMMA FiresBound ==
  ASSUME TypeOK, NEW x \in Nat
  PROVE  Fires(x) \in Nat /\ (x > 0 => Fires(x) <= x + Held)
BY HeldIsNat, PanelAssumption DEF Fires, TypeOK, WorldTypes

(* In the initial state there is no URL, and so no race.                   *)
LEMMA InitSettled == Init => SettledInv
<1> SUFFICES ASSUME Init PROVE SettledInv
  OBVIOUS
<1>1. ~Applied /\ ~OldWord
  BY DEF Init, Applied, OldWord
<1> QED
  BY <1>1, InitTypes, InitFollows DEF SettledInv, WindowOutlastsCheck, WindowOutlastsWord

(* Time: the window and the chain run down together, and while there is a  *)
(* chain the window does not reach its end.                                *)
LEMMA ElapseSettled ==
  ASSUME SettledInv, Elapse
  PROVE  WindowOutlastsCheck' /\ WindowOutlastsWord'
<1> USE PanelAssumption
<1>1. /\ busy \in 0..MaxBlock /\ busy' = (IF busy > 0 THEN busy - 1 ELSE 0)
      /\ superviseIn \in Nat /\ superviseIn' = (IF superviseIn > 0 THEN superviseIn - 1 ELSE 0)
      /\ pollIn \in Nat /\ pollIn' = (IF pollIn > 0 THEN pollIn - 1 ELSE 0)
      /\ interval' = interval /\ polling' = polling
  BY DEF SettledInv, TypeOK, WorldTypes, PollerTypes, Elapse, Less, Larger
<1>2. fastFor \in Int /\ (Outlasts(0) => fastFor' = fastFor - 1)
  BY DEF Outlasts, Elapse, NoDeadline, SettledInv, TypeOK, WindowTypes
<1>3. busy = 0 => superviseIn > 0 /\ (polling => pollIn > 0)
  BY <1>1 DEF Elapse, Due
<1>4. Held' = Held /\ Held \in Nat
  BY HeldIsNat DEF Held, Less, Larger
<1>5. Fires(superviseIn)' <= Fires(superviseIn) - 1
      /\ Fires(superviseIn) \in Nat /\ Fires(superviseIn)' \in Nat
  BY <1>1, <1>3, <1>4 DEF Fires
<1>6. polling => /\ Fires(pollIn)' <= Fires(pollIn) - 1
                 /\ Fires(pollIn) \in Nat /\ Fires(pollIn)' \in Nat
  BY <1>1, <1>3, <1>4 DEF Fires
<1>7. FastPolling' = FastPolling
  BY <1>1 DEF FastPolling
<1>8. Applied' = Applied
  BY DEF Elapse, Applied
<1>9. WindowOutlastsCheck'
  <2> SUFFICES ASSUME Applied', OldCheck' PROVE Outlasts(UntilFresh(CheckTimeout - task.age))'
    BY DEF WindowOutlastsCheck
  <2>1. /\ task # None /\ task.source # url
        /\ task'.age = task.age + 1 /\ task.age \in Nat /\ task.age < CheckTimeout
    BY DEF OldCheck, Elapse, SettledInv, TypeOK, CheckTypes
  <2>2. Outlasts(UntilFresh(CheckTimeout - task.age))
    BY <2>1, <1>8 DEF SettledInv, WindowOutlastsCheck, OldCheck
  <2> DEFINE left == CheckTimeout - task.age
  <2>3. left \in Nat \ {0} /\ CheckTimeout - task'.age = left - 1
    BY <2>1
  <2>4. /\ UntilFresh(left) \in Nat /\ UntilFresh(CheckTimeout - task.age)' \in Nat
        /\ UntilFresh(CheckTimeout - task.age)' <= UntilFresh(left) - 1
    <3> HIDE DEF left
    <3>1. CASE FastPolling
      BY <3>1, <2>3, <1>4, <1>7 DEF UntilFresh
    <3>2. CASE ~FastPolling
      BY <3>2, <2>3, <1>4, <1>5, <1>7 DEF UntilFresh, Larger
    <3> QED
      BY <3>1, <3>2
  <2> QED
    BY <2>2, <2>4, <1>2 DEF Outlasts
<1>10. WindowOutlastsWord'
  <2> SUFFICES ASSUME Applied', OldWord' PROVE Outlasts(UntilPoll)'
    BY DEF WindowOutlastsWord
  <2>1. OldWord
    <3>1. task # None => task' # None
      <4>1. task # None => task' \in [source : URLs, age : 0..CheckTimeout, spoiled : BOOLEAN]
        BY DEF Elapse, SettledInv, TypeOK, CheckTypes
      <4> QED
        BY <4>1, NoneAssumption DEF URLs
    <3> QED
      BY <3>1 DEF OldWord, Elapse, worldVars
  <2>2. Outlasts(UntilPoll)
    BY <2>1, <1>8 DEF SettledInv, WindowOutlastsWord
  <2>3. UntilPoll \in Nat /\ UntilPoll' \in Nat /\ UntilPoll' <= UntilPoll - 1
    <3>1. CASE FastPolling
      BY <3>1, <1>6, <1>7 DEF UntilPoll, FastPolling
    <3>2. CASE ~FastPolling
      BY <3>2, <1>4, <1>5, <1>7 DEF UntilPoll
    <3> QED
      BY <3>1, <3>2
  <2> QED
    BY <2>2, <2>3, <1>2 DEF Outlasts
<1> QED
  BY <1>9, <1>10

(* An open window.                                                         *)
LEMMA OutlastsIsOpen ==
  ASSUME SettledInv, NEW t \in Nat, Outlasts(t)
  PROVE  WindowOpen
<1>1. fastFor \in Int /\ 0 < fastFor /\ fastFor <= Window
  BY DEF Outlasts, SettledInv, TypeOK, WindowTypes, NoDeadline
<1>2. Window < Wrap \div 2 /\ Wrap \div 2 \in Int /\ Window \in Nat
  BY PanelAssumption
<1> QED
  BY <1>1, <1>2 DEF WindowOpen

(* The chain is a length of time.                                          *)
LEMMA ChainIsNat ==
  ASSUME TypeOK
  PROVE  /\ Fires(superviseIn) \in Nat /\ Fires(pollIn) \in Nat /\ UntilPoll \in Nat
         /\ \A left \in Nat : UntilFresh(left) \in Nat
<1>1. superviseIn \in Nat /\ pollIn \in Nat
  BY PanelAssumption DEF TypeOK, PollerTypes
<1>2. Fires(superviseIn) \in Nat /\ Fires(pollIn) \in Nat
  BY <1>1, FiresBound
<1>3. UntilPoll \in Nat
  BY <1>2, HeldIsNat, PanelAssumption DEF UntilPoll
<1>4. ASSUME NEW left \in Nat PROVE UntilFresh(left) \in Nat
  BY <1>2, HeldIsNat, PanelAssumption DEF UntilFresh, Larger
<1> QED
  BY <1>2, <1>3, <1>4

(* The supervisor finds the window open, so that it leaves a poller at the *)
(* fast cadence alone and restarts any other at that one.                  *)
LEMMA SuperviseSettled ==
  ASSUME SettledInv, AdaptiveUpdatePoll
  PROVE  WindowOutlastsCheck' /\ WindowOutlastsWord'
<1>1. /\ busy = 0 /\ busy' = 0 /\ superviseIn = 0 /\ Held' = Held
      /\ UNCHANGED <<url, source, task, error, last, wifi, doing, zero>>
      /\ doing = "nothing"
  BY DEF AdaptiveUpdatePoll, Idle, checkVars, loopVars, worldVars, Held
<1>2. Applied' = Applied /\ OldCheck' = OldCheck /\ OldWord' = OldWord
  BY <1>1 DEF Applied, OldCheck, OldWord
<1>3. ASSUME Applied, WindowOpen
      PROVE  /\ fastFor' = fastFor
             /\ \/ FastPolling /\ FastPolling' /\ pollIn' = pollIn
                \/ ~FastPolling /\ FastPolling' /\ pollIn' = Fast
  <2>1. url # None /\ SyncUpdateCadence
    BY <1>3 DEF Applied, AdaptiveUpdatePoll
  <2>2. fastFor' = fastFor /\ Want = Fast
    BY <1>3, <2>1 DEF SyncUpdateCadence, ExpireDeadline, Want, Settled
  <2>3. polling <=> running
    BY <1>1 DEF SettledInv, Follows, FlagIsTrue
  <2>4. MustRestart <=> ~FastPolling
    BY <2>2, <2>3 DEF MustRestart, FastPolling
  <2>5. CASE FastPolling
    BY <2>1, <2>4, <2>5, <2>2 DEF SyncUpdateCadence, pollerVars, FastPolling
  <2>6. CASE ~FastPolling
    <3>1. RestartPoller
      BY <2>1, <2>4, <2>6 DEF SyncUpdateCadence
    <3> QED
      BY <3>1, <2>2, <2>6 DEF RestartPoller, FastPolling
  <2> QED
    BY <2>5, <2>6
<1>4. Fires(superviseIn) = 0
  BY <1>1 DEF Fires
<1>5. Held \in Nat /\ Fast \in Nat \ {0}
  BY HeldIsNat, PanelAssumption
<1>6. WindowOutlastsCheck'
  <2> SUFFICES ASSUME Applied, OldCheck PROVE Outlasts(UntilFresh(CheckTimeout - task.age))'
    BY <1>2 DEF WindowOutlastsCheck
  <2> DEFINE left == CheckTimeout - task.age
  <2>1. left \in Nat
    BY PanelAssumption DEF OldCheck, SettledInv, TypeOK, CheckTypes
  <2>2. Outlasts(UntilFresh(left)) /\ UntilFresh(left) \in Nat
    BY <2>1, ChainIsNat DEF SettledInv, WindowOutlastsCheck
  <2>3. WindowOpen
    BY <2>2, OutlastsIsOpen
  <2>4. UntilFresh(left)' = UntilFresh(left) /\ left' = left
    <3>1. left' = left
      BY <1>1
    <3> HIDE DEF left
    <3> QED
      BY <3>1, <2>1, <2>3, <1>1, <1>3, <1>4, <1>5 DEF UntilFresh, Larger
  <2>5. fastFor' = fastFor
    BY <2>3, <1>3
  <2> QED
    BY <2>2, <2>4, <2>5 DEF Outlasts
<1>7. WindowOutlastsWord'
  <2> SUFFICES ASSUME Applied, OldWord PROVE Outlasts(UntilPoll)'
    BY <1>2 DEF WindowOutlastsWord
  <2>1. Outlasts(UntilPoll) /\ UntilPoll \in Nat
    BY ChainIsNat DEF SettledInv, WindowOutlastsWord
  <2>2. WindowOpen
    BY <2>1, OutlastsIsOpen
  <2>3. UntilPoll' = UntilPoll
    BY <2>2, <1>1, <1>3, <1>4, <1>5 DEF UntilPoll, Fires
  <2> QED
    BY <2>1, <2>2, <2>3, <1>3 DEF Outlasts
<1> QED
  BY <1>6, <1>7

(* A script that stops for a blocking request does so when no timer is due,*)
(* and is over before any timer fires later than it would have anyway.     *)
LEMMA BlockSettled ==
  ASSUME SettledInv, busy = 0, ~Due, busy' \in 0..MaxBlock,
         UNCHANGED <<source, pollerVars, fastFor, superviseIn, checkVars, zero>>,
         url' = url, OldWord' => OldWord
  PROVE  WindowOutlastsCheck' /\ WindowOutlastsWord'
<1>1. /\ Held' = Held /\ Held \in Nat /\ Fast \in Nat \ {0} /\ MaxBlock <= Held + 1
      /\ MaxBlock \in Nat /\ busy' \in Nat /\ busy' <= MaxBlock
      /\ superviseIn \in Nat \ {0} /\ superviseIn' = superviseIn
      /\ pollIn \in Nat /\ pollIn' = pollIn
      /\ (polling => pollIn > 0)
      /\ FastPolling' = FastPolling
  BY HeldIsNat, PanelAssumption
     DEF Held, Due, FastPolling, pollerVars, SettledInv, TypeOK, PollerTypes
<1>2. Fires(superviseIn)' <= Fires(superviseIn) /\ Fires(superviseIn)' \in Nat
      /\ Fires(superviseIn) \in Nat
  BY <1>1 DEF Fires
<1>3. FastPolling => Fires(pollIn)' <= Fires(pollIn) /\ Fires(pollIn)' \in Nat
                     /\ Fires(pollIn) \in Nat
  BY <1>1 DEF Fires, FastPolling
<1>4. Applied' = Applied /\ OldCheck' = OldCheck /\ fastFor' = fastFor /\ task' = task
  BY DEF Applied, OldCheck, checkVars
<1>5. fastFor \in Int
  BY DEF SettledInv, TypeOK, WindowTypes, NoDeadline
<1>6. WindowOutlastsCheck'
  <2> SUFFICES ASSUME Applied, OldCheck PROVE Outlasts(UntilFresh(CheckTimeout - task.age))'
    BY <1>4 DEF WindowOutlastsCheck
  <2> DEFINE left == CheckTimeout - task.age
  <2>1. left \in Nat
    BY PanelAssumption DEF OldCheck, SettledInv, TypeOK, CheckTypes
  <2>2. left' = left
    BY <1>4
  <2>3. Outlasts(UntilFresh(left))
    BY DEF SettledInv, WindowOutlastsCheck
  <2> HIDE DEF left
  <2>4. UntilFresh(left)' <= UntilFresh(left) /\ UntilFresh(left) \in Nat
        /\ UntilFresh(left)' \in Nat
    BY <2>1, <2>2, <1>1, <1>2 DEF UntilFresh, Larger
  <2>5. Outlasts(UntilFresh(left))'
    BY <2>3, <2>4, <1>4, <1>5, PanelAssumption DEF Outlasts
  <2> QED
    BY <2>5 DEF left
<1>7. WindowOutlastsWord'
  <2> SUFFICES ASSUME Applied, OldWord PROVE Outlasts(UntilPoll)'
    BY <1>4 DEF WindowOutlastsWord
  <2>1. Outlasts(UntilPoll)
    BY DEF SettledInv, WindowOutlastsWord
  <2>2. UntilPoll' <= UntilPoll /\ UntilPoll \in Nat /\ UntilPoll' \in Nat
    BY <1>1, <1>2, <1>3 DEF UntilPoll
  <2> QED
    BY <2>1, <2>2, <1>4, <1>5, PanelAssumption DEF Outlasts
<1> QED
  BY <1>6, <1>7

(* A poll starts a check of the source, or runs into one under way.        *)
LEMMA PollSettled ==
  ASSUME SettledInv, Poll
  PROVE  WindowOutlastsCheck' /\ WindowOutlastsWord'
<1>1. /\ UNCHANGED <<url, source, interval, polling, fastFor, superviseIn, error, last,
                     busy, doing, wifi, zero>>
      /\ Held' = Held
  BY DEF Poll, loopVars, worldVars, Held
<1>2. Applied' = Applied /\ FastPolling' = FastPolling
      /\ Fires(superviseIn)' = Fires(superviseIn)
  BY <1>1 DEF Applied, FastPolling, Fires
<1>3. CASE wifi /\ task = None
  <2>1. task' = [source |-> source, age |-> 0, spoiled |-> ~Reachable(source)]
    BY <1>3 DEF Poll, Check
  <2>2. source \in URLs /\ Reachable(source) \in BOOLEAN
    BY DEF SettledInv, TypeOK, CheckTypes, WorldTypes, Reachable
  <2>3. task' # None
    <3>1. (~Reachable(source)) \in BOOLEAN
      BY Zenon
    <3>2. task' \in [source : URLs, age : 0..CheckTimeout, spoiled : BOOLEAN]
      BY <2>1, <2>2, <3>1, PanelAssumption
    <3> QED
      BY <3>2, NoneAssumption DEF URLs
  <2>4. task'.source = source
    BY <2>1
  <2> QED
    BY <2>3, <2>4, <1>1
       DEF WindowOutlastsCheck, WindowOutlastsWord, Applied, OldCheck, OldWord
<1>4. CASE ~(wifi /\ task = None)
  <2>1. task' = task
    BY <1>4 DEF Poll, Check
  <2>2. WindowOutlastsCheck'
    BY <2>1, <1>1, <1>2 DEF WindowOutlastsCheck, OldCheck, UntilFresh, Outlasts, SettledInv
  <2>3. ~OldWord'
    BY <2>1, <1>1, <1>4 DEF OldWord
  <2> QED
    BY <2>2, <2>3 DEF WindowOutlastsWord
<1> QED
  BY <1>3, <1>4

(* The new source: its window is longer than any chain that begins here,   *)
(* and where the window is an old one a check begins, or the chain it was  *)
(* long enough for is still the same.                                      *)
LEMMA UpdateSettled ==
  ASSUME SettledInv, Update, ChainFits
  PROVE  WindowOutlastsCheck' /\ WindowOutlastsWord'
<1>1. /\ busy = 0 /\ busy' = 0 /\ url' = url /\ source' = url /\ Held' = Held
      /\ UNCHANGED <<superviseIn, error, last, wifi, interval, pollIn>>
  BY DEF Update, ApplyUpdateSource, Held, worldVars
<1>2. SUFFICES ASSUME url # None, ~zero'
      PROVE  WindowOutlastsCheck' /\ WindowOutlastsWord'
  BY <1>1 DEF WindowOutlastsCheck, WindowOutlastsWord, Applied
<1>3. polling' = polling /\ FastPolling' = FastPolling
  BY <1>1, <1>2 DEF Update, ApplyUpdateSource, FastPolling
<1>4. CASE wifi /\ task = None
  <2>1. task' = [source |-> url, age |-> 0, spoiled |-> ~Reachable(url)]
    BY <1>1, <1>2, <1>4 DEF Update, CheckNow, Check
  <2>2. task' # None
    <3>1. (~Reachable(url)) \in BOOLEAN
      BY Zenon
    <3>2. task' \in [source : URLs, age : 0..CheckTimeout, spoiled : BOOLEAN]
      BY <2>1, <3>1, PanelAssumption DEF SettledInv, TypeOK, CheckTypes
    <3> QED
      BY <3>2, NoneAssumption DEF URLs
  <2>3. task'.source = url'
    BY <2>1, <1>1
  <2> QED
    BY <2>2, <2>3 DEF WindowOutlastsCheck, WindowOutlastsWord, OldCheck, OldWord
<1>5. CASE ~(wifi /\ task = None)
  <2>1. task' = task /\ ~OldWord'
    BY <1>1, <1>2, <1>5 DEF Update, CheckNow, Check, OldWord
  <2> SUFFICES ASSUME OldCheck' PROVE Outlasts(UntilFresh(CheckTimeout - task.age))'
    BY <2>1 DEF WindowOutlastsCheck, WindowOutlastsWord
  <2>2. OldCheck
    BY <2>1, <1>1 DEF OldCheck
  <2>3. UntilFresh(CheckTimeout - task.age)' = UntilFresh(CheckTimeout - task.age)
    BY <2>1, <1>1, <1>3 DEF UntilFresh, Fires
  <2>4. CASE url = source
    <3>1. fastFor' = fastFor /\ zero' = zero
      BY <2>4, <1>2 DEF Update, ApplyUpdateSource
    <3>2. Outlasts(UntilFresh(CheckTimeout - task.age))
      BY <2>2, <2>4, <1>2, <3>1 DEF SettledInv, WindowOutlastsCheck, Applied
    <3> QED
      BY <3>1, <3>2, <2>3 DEF Outlasts
  <2>5. CASE url # source
    <3>1. fastFor' = Window
      BY <2>5, <1>2 DEF Update, ApplyUpdateSource, OpenWindow
    <3> DEFINE left == CheckTimeout - task.age
    <3>2. left \in 0..CheckTimeout
      BY <2>2, PanelAssumption DEF OldCheck, SettledInv, TypeOK, CheckTypes
    <3>3. superviseIn \in 0..Supervisor
      BY DEF SettledInv, TypeOK, PollerTypes
    <3>4. UntilFresh(left) < Window
      <4> HIDE DEF left
      <4>1. Fires(superviseIn) \in Nat /\ Fires(superviseIn) <= Supervisor + Held
        BY <3>3, <1>1, HeldIsNat, PanelAssumption DEF Fires
      <4> QED
        BY <4>1, <3>2, HeldIsNat, PanelAssumption DEF UntilFresh, Larger, ChainFits
    <3> QED
      BY <3>1, <3>4, <2>3, PanelAssumption DEF Outlasts
  <2> QED
    BY <2>4, <2>5
<1> QED
  BY <1>4, <1>5

(* The old check ends, and leaves its word: there was time for that too.   *)
LEMMA AnswerSettled ==
  ASSUME SettledInv, CheckSucceeds \/ CheckFails
  PROVE  WindowOutlastsCheck' /\ WindowOutlastsWord'
<1>1. /\ UNCHANGED <<url, source, pollerVars, fastFor, superviseIn, busy, doing, wifi, zero>>
      /\ task # None /\ task' = None /\ Held' = Held
  BY DEF CheckSucceeds, CheckFails, loopVars, worldVars, Held
<1>2. WindowOutlastsCheck'
  BY <1>1 DEF WindowOutlastsCheck, OldCheck
<1>3. WindowOutlastsWord'
  <2> SUFFICES ASSUME Applied', OldWord' PROVE Outlasts(UntilPoll)'
    BY DEF WindowOutlastsWord
  <2>1. CheckSucceeds /\ last' = task.source
    BY DEF OldWord, CheckFails, CheckSucceeds
  <2>2. Applied /\ OldCheck
    BY <2>1, <1>1 DEF Applied, OldWord, OldCheck
  <2> DEFINE left == CheckTimeout - task.age
  <2>3. left \in Nat /\ Outlasts(UntilFresh(left)) /\ UntilFresh(left) \in Nat
    <3>1. left \in Nat
      BY <1>1, PanelAssumption DEF SettledInv, TypeOK, CheckTypes
    <3> QED
      BY <3>1, <2>2, ChainIsNat DEF SettledInv, WindowOutlastsCheck
  <2> HIDE DEF left
  <2>4. UntilPoll \in Nat /\ UntilPoll <= UntilFresh(left)
    <3>1. Fires(superviseIn) \in Nat /\ UntilPoll \in Nat /\ Fires(pollIn) \in Nat
      BY ChainIsNat DEF SettledInv
    <3>2. FastPolling => Fires(pollIn) <= Fast + Held
      BY HeldIsNat, PanelAssumption
         DEF Fires, FastPolling, SettledInv, TypeOK, PollerTypes, WorldTypes
    <3> QED
      BY <2>3, <3>1, <3>2, HeldIsNat, PanelAssumption DEF UntilPoll, UntilFresh, Larger
  <2>5. UntilPoll' = UntilPoll /\ fastFor' = fastFor
    BY <1>1 DEF UntilPoll, FastPolling, Fires, pollerVars
  <2>6. fastFor \in Int
    BY DEF SettledInv, TypeOK, WindowTypes, NoDeadline
  <2> QED
    BY <2>3, <2>4, <2>5, <2>6, PanelAssumption DEF Outlasts
<1> QED
  BY <1>2, <1>3

(* What neither the poller nor the window can tell.                        *)
LEMMA SpoilSettled ==
  ASSUME SettledInv,
         UNCHANGED <<url, source, pollerVars, fastFor, superviseIn, error, last, busy,
                     doing, zero>>,
         wifi' => wifi, NEW hit, Spoil(hit)
  PROVE  WindowOutlastsCheck' /\ WindowOutlastsWord'
<1>1. UntilPoll' = UntilPoll /\ Applied' = Applied /\ fastFor' = fastFor
      /\ \A left : UntilFresh(left)' = UntilFresh(left)
  BY DEF UntilPoll, UntilFresh, Held, Fires, FastPolling, pollerVars, Applied
<1>2. /\ task = None => task' = None
      /\ task # None => task' # None /\ task'.source = task.source /\ task'.age = task.age
  <2>1. task = None => task' = None
    BY DEF Spoil
  <2>2. task # None => task' \in [source : URLs, age : 0..CheckTimeout, spoiled : BOOLEAN]
                       /\ task'.source = task.source /\ task'.age = task.age
    BY DEF Spoil, SettledInv, TypeOK, CheckTypes
  <2> QED
    BY <2>1, <2>2, NoneAssumption DEF URLs
<1>3. WindowOutlastsCheck'
  BY <1>1, <1>2 DEF WindowOutlastsCheck, OldCheck, Outlasts, SettledInv
<1>4. WindowOutlastsWord'
  BY <1>1, <1>2 DEF WindowOutlastsWord, OldWord, Outlasts, SettledInv
<1> QED
  BY <1>3, <1>4

(* No step makes the chain longer than what is left of the window.         *)
LEMMA SettledStep ==
  ASSUME SettledInv, [Next]_vars, ChainFits
  PROVE  WindowOutlastsCheck' /\ WindowOutlastsWord'
<1>0. TypeOK' /\ busy' \in 0..MaxBlock
  <2>1. TypeOK'
    BY TypeStep DEF SettledInv
  <2> QED
    BY <2>1 DEF TypeOK, WorldTypes
<1>1. CASE OnBoot
  <2>1. task' = None /\ last' = None
    BY <1>1 DEF OnBoot, checkVars, SettledInv, Follows, BootIsBlank
  <2> QED
    BY <2>1 DEF WindowOutlastsCheck, WindowOutlastsWord, OldCheck, OldWord
<1>2. CASE AdaptiveUpdatePoll
  BY <1>2, SuperviseSettled
<1>3. CASE Poll
  BY <1>3, PollSettled
<1>4. CASE Connect
  <2>1. ~OldWord'
    BY <1>4 DEF Connect, OldWord
  <2> QED
    BY <1>4, <1>0, <2>1, BlockSettled DEF Connect, Idle
<1>5. CASE Update
  BY <1>5, UpdateSettled
<1>6. CASE Press
  <2>1. ~OldWord'
    BY <1>6 DEF Press, OldWord
  <2> QED
    BY <1>6, <1>0, <2>1, BlockSettled DEF Press, Idle
<1>7. CASE Request
  <2>1. OldWord' => OldWord
    BY <1>7 DEF Request, OldWord, checkVars, worldVars
  <2> QED
    BY <1>7, <1>0, <2>1, BlockSettled DEF Request, Idle
<1>8. ASSUME NEW u \in URLs, EditURL(u)
      PROVE  WindowOutlastsCheck' /\ WindowOutlastsWord'
  <2>1. ~OldWord'
    BY <1>8 DEF EditURL, OldWord
  <2>2. CASE u = url
    BY <1>8, <1>0, <2>1, <2>2, BlockSettled DEF EditURL, Idle
  <2>3. CASE u # url
    <3>1. ~Applied'
      BY <1>8, <2>3 DEF EditURL, Applied, Idle, SettledInv, Follows, SourceApplied
    <3> QED
      BY <3>1 DEF WindowOutlastsCheck, WindowOutlastsWord
  <2> QED
    BY <2>2, <2>3
<1>9. CASE CheckSucceeds \/ CheckFails
  BY <1>9, AnswerSettled
<1>10. CASE Disconnect
  BY <1>10, SpoilSettled DEF Disconnect, loopVars
<1>11. CASE Reboot
  <2>1. task' = None /\ last' = None
    BY <1>11 DEF Reboot
  <2> QED
    BY <2>1 DEF WindowOutlastsCheck, WindowOutlastsWord, OldCheck, OldWord
<1>12. CASE Elapse
  BY <1>12, ElapseSettled
<1>13. ASSUME NEW b \in Bridges, Flip(b)
       PROVE  WindowOutlastsCheck' /\ WindowOutlastsWord'
  BY <1>13, SpoilSettled DEF Flip, loopVars
<1>14. CASE UNCHANGED vars
  <2>1. UNCHANGED <<url, source, pollerVars, fastFor, superviseIn, error, last, busy,
                    doing, zero>> /\ wifi' = wifi /\ task' = task
    BY <1>14 DEF vars, checkVars, loopVars, worldVars
  <2>2. Spoil(FALSE)
    BY <2>1 DEF Spoil
  <2> QED
    BY <2>1, <2>2, SpoilSettled
<1> QED
  BY <1>1, <1>2, <1>3, <1>4, <1>5, <1>6, <1>7, <1>8, <1>9, <1>10, <1>11, <1>12, <1>13,
     <1>14 DEF Next

(* A panel on the network that takes its answer for settled has it from    *)
(* the bridge it is pointed at, whatever the periods, as long as they and  *)
(* the longest the loop is held add up to less than the window.            *)
THEOREM SettledByItsBridge == ChainFits => (Spec => []SettledIsTrue)
<1> SUFFICES ASSUME ChainFits PROVE Spec => []SettledIsTrue
  OBVIOUS
<1>1. SettledInv /\ [Next]_vars => SettledInv'
  BY TypeStep, FollowsStep, SettledStep DEF SettledInv
<1>2. ASSUME SettledInv PROVE SettledIsTrue
  <2> SUFFICES ASSUME Settled, wifi, Idle, task = None, url # None, ~zero, last # url
               PROVE FALSE
    BY DEF SettledIsTrue
  <2>1. Applied /\ OldWord
    BY <1>2 DEF Applied, OldWord, Settled, Idle, SettledInv, Follows, SourceApplied
  <2>2. Outlasts(UntilPoll) /\ UntilPoll \in Nat
    BY <1>2, <2>1, ChainIsNat DEF SettledInv, WindowOutlastsWord
  <2> QED
    BY <1>2, <2>2, OutlastsIsOpen DEF Settled
<1> QED
  BY InitSettled, <1>1, <1>2, PTL DEF Spec

-----------------------------------------------------------------------------
(* Why a bridge that is there is found in time.  From the moment it can be *)
(* reached, a check that is still to fail, or is of another bridge, is no  *)
(* younger than that moment; when it is over, or there was none, a poll    *)
(* comes while the panel has no word of this bridge; and the check it      *)
(* begins cannot fail.                                                     *)
StaleCheck == task # None /\ (task.source # url \/ (Reachable(url) /\ task.spoiled))
NoWord     == last = None \/ error
Unheard    == NoWord \/ ((~zero \/ source # url) /\ last # url)

BootIsOffline == doing = "boot" => ~wifi
StaleIsOld    == wifi /\ url # None /\ StaleCheck => steady <= task.age
AnswerComes ==
  Reachable(url) /\ Unheard =>
    /\ task = None => steady + UntilPoll + CheckTimeout <= Recovery
    /\ task # None /\ ~StaleCheck => steady + (CheckTimeout - task.age) <= Recovery

AnswerInv == SettledInv /\ BootIsOffline /\ StaleIsOld /\ AnswerComes

(* The times that count, and the longest they can be.                      *)
TimesBounded ==
  /\ steady \in Nat /\ busy \in Nat
  /\ superviseIn \in 0..Supervisor /\ pollIn \in 0..interval /\ interval \in Nat
  /\ Fires(superviseIn) \in Nat /\ Fires(superviseIn) <= Supervisor + Held
  /\ Fires(pollIn) \in Nat /\ Fires(pollIn) <= interval + Held
  /\ UntilPoll \in Nat /\ UntilPoll <= Supervisor + Held + Fast + Held

(* The types bound them.                                                   *)
LEMMA Times == TypeOK => TimesBounded
<1> SUFFICES ASSUME TypeOK PROVE TimesBounded
  OBVIOUS
<1>1. /\ steady \in Nat /\ busy \in Nat /\ busy <= MaxBlock
      /\ superviseIn \in 0..Supervisor /\ pollIn \in 0..interval /\ interval \in {Fast, Slow}
  BY DEF TypeOK, WorldTypes, PollerTypes
<1>2. /\ Supervisor \in Nat \ {0} /\ Fast \in Nat \ {0} /\ Slow \in Nat \ {0}
      /\ Held \in Nat /\ MaxBlock \in Nat /\ MaxBlock <= Held + 1
  BY HeldIsNat, PanelAssumption
<1>3. Fires(superviseIn) \in Nat /\ Fires(superviseIn) <= Supervisor + Held
  BY <1>1, <1>2 DEF Fires
<1>4. Fires(pollIn) \in Nat /\ Fires(pollIn) <= interval + Held
  BY <1>1, <1>2 DEF Fires
<1>5. UntilPoll \in Nat /\ UntilPoll <= Supervisor + Held + Fast + Held
  BY <1>2, <1>3, <1>4 DEF UntilPoll, FastPolling
<1> QED
  BY <1>1, <1>2, <1>3, <1>4, <1>5 DEF TimesBounded

(* And in the state after a step.                                          *)
LEMMA TimesNext == TypeOK' => TimesBounded'
  BY Times, PTL

(* A check under way is one, of some age.                                  *)
LEMMA CheckIs ==
  ASSUME TypeOK, task # None
  PROVE  /\ task \in [source : URLs, age : 0..CheckTimeout, spoiled : BOOLEAN]
         /\ task.age \in Nat /\ CheckTimeout - task.age \in Nat
  BY PanelAssumption DEF TypeOK, CheckTypes

(* A record of a check is not None.                                        *)
LEMMA ChecksAreSome ==
  ASSUME NEW c \in [source : URLs, age : 0..CheckTimeout, spoiled : BOOLEAN]
  PROVE  c # None
  BY NoneAssumption DEF URLs

(* A check that begins is new, of the source it is given, and can only be  *)
(* spoiled if that cannot be reached.                                      *)
LEMMA CheckBegins ==
  ASSUME TypeOK, NEW s \in URLs, Check(s), wifi, task = None
  PROVE  task' # None /\ task'.source = s /\ task'.age = 0 /\ (task'.spoiled <=> ~Reachable(s))
<1>1. task' = [source |-> s, age |-> 0, spoiled |-> ~Reachable(s)]
  BY Zenon DEF Check
<1>2. (~Reachable(s)) \in BOOLEAN
  BY Zenon
<1>3. task' \in [source : URLs, age : 0..CheckTimeout, spoiled : BOOLEAN]
  BY <1>1, <1>2, PanelAssumption
<1> QED
  BY <1>1, <1>3, ChecksAreSome

(* Spoiling a check changes nothing else about it.                         *)
LEMMA SpoilKeeps ==
  ASSUME TypeOK, NEW hit, Spoil(hit)
  PROVE  /\ task = None <=> task' = None
         /\ task # None => /\ task'.source = task.source /\ task'.age = task.age
                           /\ ~hit => task' = task
<1>1. task = None => task' = None
  BY DEF Spoil
<1>2. task # None => /\ task' \in [source : URLs, age : 0..CheckTimeout, spoiled : BOOLEAN]
                     /\ task'.source = task.source /\ task'.age = task.age
                     /\ ~hit => task' = task
  BY DEF Spoil, TypeOK, CheckTypes
<1> QED
  BY <1>1, <1>2, ChecksAreSome

(* Time brings the timers nearer, blocked or not, and ages a check.        *)
LEMMA ElapseShortens ==
  ASSUME TypeOK, Elapse
  PROVE  /\ steady' \in {steady, steady + 1}
         /\ Fires(superviseIn)' <= Fires(superviseIn) - 1
         /\ polling => Fires(pollIn)' <= Fires(pollIn) - 1
         /\ UntilPoll' <= UntilPoll - 1
         /\ FastPolling' = FastPolling
         /\ task = None <=> task' = None
         /\ task # None => /\ task'.source = task.source /\ task'.spoiled = task.spoiled
                           /\ task'.age = task.age + 1
<1>1. /\ busy \in 0..MaxBlock /\ busy' = (IF busy > 0 THEN busy - 1 ELSE 0)
      /\ superviseIn \in Nat /\ superviseIn' = (IF superviseIn > 0 THEN superviseIn - 1 ELSE 0)
      /\ pollIn \in Nat /\ pollIn' = (IF pollIn > 0 THEN pollIn - 1 ELSE 0)
      /\ interval' = interval /\ polling' = polling
      /\ steady' \in {steady, steady + 1}
  BY PanelAssumption DEF TypeOK, WorldTypes, PollerTypes, Elapse, Less, Larger
<1>2. busy = 0 => superviseIn > 0 /\ (polling => pollIn > 0)
  BY <1>1 DEF Elapse, Due
<1>3. Held' = Held /\ Held \in Nat /\ MaxBlock \in Nat /\ Fast \in Nat
  BY HeldIsNat, PanelAssumption DEF Held, Less, Larger
<1>4. Fires(superviseIn)' <= Fires(superviseIn) - 1
      /\ Fires(superviseIn) \in Nat /\ Fires(superviseIn)' \in Nat
  BY <1>1, <1>2, <1>3 DEF Fires
<1>5. polling => /\ Fires(pollIn)' <= Fires(pollIn) - 1
                 /\ Fires(pollIn) \in Nat /\ Fires(pollIn)' \in Nat
  BY <1>1, <1>2, <1>3 DEF Fires
<1>6. FastPolling' = FastPolling
  BY <1>1 DEF FastPolling
<1>7. UntilPoll' <= UntilPoll - 1
  <2>1. CASE FastPolling
    BY <2>1, <1>5, <1>6 DEF UntilPoll, FastPolling
  <2>2. CASE ~FastPolling
    BY <2>2, <1>3, <1>4, <1>6 DEF UntilPoll
  <2> QED
    BY <2>1, <2>2
<1>8. task = None => task' = None
  BY DEF Elapse
<1>9. task # None => /\ task' \in [source : URLs, age : 0..CheckTimeout, spoiled : BOOLEAN]
                     /\ task'.source = task.source /\ task'.spoiled = task.spoiled
                     /\ task'.age = task.age + 1
  BY PanelAssumption DEF Elapse, TypeOK, CheckTypes
<1> QED
  BY <1>1, <1>4, <1>5, <1>6, <1>7, <1>8, <1>9, ChecksAreSome

(* A request that blocks the loop when no timer is due makes none late     *)
(* that would not have been anyway.                                        *)
LEMMA BlockShortens ==
  ASSUME TypeOK, busy = 0, ~Due, busy' \in 0..MaxBlock, UNCHANGED <<pollerVars, superviseIn>>
  PROVE  /\ Fires(superviseIn)' <= Fires(superviseIn)
         /\ polling => Fires(pollIn)' <= Fires(pollIn)
         /\ UntilPoll' <= UntilPoll
         /\ FastPolling' = FastPolling
<1>1. /\ Held' = Held /\ Held \in Nat /\ MaxBlock <= Held + 1
      /\ MaxBlock \in Nat /\ busy' \in Nat /\ busy' <= MaxBlock /\ Fast \in Nat
      /\ superviseIn \in Nat \ {0} /\ superviseIn' = superviseIn
      /\ pollIn \in Nat /\ pollIn' = pollIn
      /\ (polling => pollIn > 0)
      /\ FastPolling' = FastPolling
  BY HeldIsNat, PanelAssumption
     DEF Held, Less, Larger, Due, FastPolling, pollerVars, TypeOK, PollerTypes
<1>2. Fires(superviseIn)' <= Fires(superviseIn) /\ Fires(superviseIn)' \in Nat
      /\ Fires(superviseIn) \in Nat
  BY <1>1 DEF Fires
<1>3. polling => Fires(pollIn)' <= Fires(pollIn) /\ Fires(pollIn)' \in Nat
                 /\ Fires(pollIn) \in Nat
  BY <1>1 DEF Fires
<1>4. UntilPoll' <= UntilPoll
  <2>1. CASE FastPolling
    BY <1>1, <1>3, <2>1 DEF UntilPoll, FastPolling
  <2>2. CASE ~FastPolling
    BY <1>1, <1>2, <2>2 DEF UntilPoll
  <2> QED
    BY <2>1, <2>2
<1> QED
  BY <1>1, <1>2, <1>3, <1>4

(* Where the clock of steady starts there is all the time there can be.    *)
LEMMA AnswerFromStart ==
  ASSUME TypeOK', steady' = 0
  PROVE  StaleIsOld' /\ AnswerComes'
<1>1. UntilPoll' \in Nat /\ UntilPoll' <= Supervisor + Held + Fast + Held
  BY TimesNext DEF TimesBounded
<1>2. task' # None => task'.age \in 0..CheckTimeout
  BY DEF TypeOK, CheckTypes
<1>3. /\ Recovery = CheckTimeout + (Supervisor + MaxBlock) + (Fast + MaxBlock) + CheckTimeout
      /\ Recovery' = Recovery
  BY DEF Recovery, Late
<1>4. Held \in Nat /\ Held <= MaxBlock /\ CheckTimeout \in Nat /\ Supervisor \in Nat /\ Fast \in Nat
      /\ MaxBlock \in Nat
  BY HeldIsNat, PanelAssumption
<1>5. StaleIsOld'
  BY <1>2 DEF StaleIsOld, StaleCheck
<1>6. AnswerComes'
  <2> DEFINE now == steady'
             wait == UntilPoll'
  <2>1. now + wait + CheckTimeout <= Recovery
    <3>1. now = 0 /\ wait \in Nat /\ wait <= Supervisor + Held + Fast + Held
      BY <1>1
    <3> HIDE DEF now, wait
    <3> QED
      BY <1>3, <1>4, <3>1
  <2>2. task' # None => now + (CheckTimeout - task'.age) <= Recovery
    BY <1>2, <1>3, <1>4
  <2> QED
    BY <1>3, <2>1, <2>2 DEF AnswerComes
<1> QED
  BY <1>5, <1>6

(* Off the network nothing is promised.                                    *)
LEMMA AnswerOffline ==
  ASSUME ~wifi'
  PROVE  StaleIsOld' /\ AnswerComes'
  BY DEF StaleIsOld, AnswerComes, Reachable

(* Time.                                                                   *)
LEMMA ElapseAnswer ==
  ASSUME AnswerInv, Elapse, TypeOK'
  PROVE  StaleIsOld' /\ AnswerComes'
<1>1. /\ UNCHANGED <<url, source, last, error, zero, wifi, up>>
      /\ Reachable(url)' = Reachable(url) /\ Unheard' = Unheard
  BY DEF Elapse, worldVars, Reachable, Unheard, NoWord
<1>2. /\ steady' \in {steady, steady + 1} /\ steady \in Nat
      /\ UntilPoll' <= UntilPoll - 1 /\ UntilPoll \in Nat /\ UntilPoll' \in Nat
      /\ task = None <=> task' = None
      /\ task # None => /\ task'.source = task.source /\ task'.spoiled = task.spoiled
                        /\ task'.age = task.age + 1 /\ task.age \in Nat
                        /\ StaleCheck' = StaleCheck
  BY <1>1, ElapseShortens, Times, TimesNext, CheckIs
     DEF TimesBounded, AnswerInv, SettledInv, StaleCheck
<1>3. StaleIsOld'
  BY <1>1, <1>2 DEF AnswerInv, StaleIsOld, StaleCheck
<1>4. CheckTimeout \in Nat /\ Recovery' = Recovery /\ Recovery \in Nat
  BY PanelAssumption DEF Recovery, Late
<1>5. AnswerComes'
  <2> DEFINE now == steady'
             wait == UntilPoll'
             age == task'.age
  <2> SUFFICES ASSUME Reachable(url), Unheard
               PROVE  /\ task' = None => now + wait + CheckTimeout <= Recovery
                      /\ task' # None /\ ~StaleCheck' => now + (CheckTimeout - age) <= Recovery
    BY <1>1, <1>4 DEF AnswerComes
  <2>0. /\ now \in Nat /\ now <= steady + 1 /\ wait \in Nat /\ wait <= UntilPoll - 1
        /\ task # None => age = task.age + 1
    BY <1>2
  <2> HIDE DEF now, wait, age
  <2>1. CASE task = None
    <3>1. steady + UntilPoll + CheckTimeout <= Recovery
      BY <2>1 DEF AnswerInv, AnswerComes
    <3> QED
      BY <1>2, <1>4, <2>0, <2>1, <3>1
  <2>2. CASE task # None /\ ~StaleCheck
    <3>1. steady + (CheckTimeout - task.age) <= Recovery
      BY <2>2 DEF AnswerInv, AnswerComes
    <3> QED
      BY <1>2, <1>4, <2>0, <2>2, <3>1
  <2> QED
    BY <1>2, <2>1, <2>2
<1> QED
  BY <1>3, <1>5

(* While the panel has no word of its bridge the supervisor wants the fast *)
(* cadence: it does not put a fast poll off, and brings a slow one forward.*)
LEMMA SuperviseAnswer ==
  ASSUME AnswerInv, AdaptiveUpdatePoll, TypeOK'
  PROVE  StaleIsOld' /\ AnswerComes'
<1>1. /\ busy = 0 /\ busy' = 0 /\ superviseIn = 0 /\ doing = "nothing"
      /\ UNCHANGED <<url, source, task, error, last, wifi, up, zero, steady>>
      /\ SyncUpdateCadence /\ source = url
  BY DEF AdaptiveUpdatePoll, Idle, checkVars, loopVars, worldVars, AnswerInv, SettledInv, Follows,
         SourceApplied
<1>2. /\ StaleCheck' = StaleCheck /\ Unheard' = Unheard /\ Reachable(url)' = Reachable(url)
      /\ Recovery' = Recovery /\ StaleIsOld'
  BY <1>1 DEF StaleCheck, Unheard, NoWord, Reachable, Recovery, Late, AnswerInv, StaleIsOld
<1>3. ASSUME Reachable(url), Unheard, task = None
      PROVE  UntilPoll' = UntilPoll
  <2>1. Want = Fast
    <3>1. CASE NoWord
      BY <3>1 DEF Want, Settled, NoWord
    <3>2. CASE ~NoWord
      <4>1. Applied /\ OldWord
        BY <1>1, <1>3, <3>2 DEF Applied, OldWord, Unheard, NoWord, Reachable
      <4>2. Outlasts(UntilPoll) /\ UntilPoll \in Nat
        BY <4>1, ChainIsNat DEF AnswerInv, SettledInv, WindowOutlastsWord
      <4>3. WindowOpen
        BY <4>2, OutlastsIsOpen DEF AnswerInv
      <4> QED
        BY <4>3 DEF Want, Settled
    <3> QED
      BY <3>1, <3>2
  <2>2. url # None /\ (polling <=> running)
    BY <1>1, <1>3 DEF Reachable, AnswerInv, SettledInv, Follows, FlagIsTrue
  <2>3. MustRestart <=> ~FastPolling
    BY <2>1, <2>2 DEF MustRestart, FastPolling
  <2>4. CASE FastPolling
    BY <1>1, <2>2, <2>3, <2>4
       DEF SyncUpdateCadence, pollerVars, UntilPoll, FastPolling, Fires
  <2>5. CASE ~FastPolling
    <3>1. polling' = TRUE /\ interval' = Fast /\ pollIn' = Fast
      BY <1>1, <2>1, <2>2, <2>3, <2>5 DEF SyncUpdateCadence, RestartPoller
    <3>2. UntilPoll' = Fast + Held /\ UntilPoll = Fast + Held
      BY <1>1, <2>5, <3>1, PanelAssumption, HeldIsNat
         DEF UntilPoll, FastPolling, Fires, Held, Less, Larger
    <3> QED
      BY <3>2
  <2> QED
    BY <2>4, <2>5
<1>4. AnswerComes'
  BY <1>1, <1>2, <1>3 DEF AnswerInv, AnswerComes
<1> QED
  BY <1>2, <1>4

(* A check that is asked for, by a poll or by a script, begins, or one is  *)
(* under way already, or there is no network.                              *)
LEMMA AskAnswer ==
  ASSUME AnswerInv, TypeOK', source' = url, Check(url),
         UNCHANGED <<url, steady, error, last, wifi, up>>,
         Unheard' => Unheard
  PROVE  StaleIsOld' /\ AnswerComes'
<1>1. Reachable(url)' = Reachable(url) /\ Recovery' = Recovery
  BY DEF Reachable, Recovery, Late
<1>2. CASE wifi /\ task = None
  <2>1. url \in URLs
    BY DEF AnswerInv, SettledInv, TypeOK, CheckTypes
  <2>2. task' # None /\ task'.source = url /\ task'.age = 0 /\ (task'.spoiled <=> ~Reachable(url))
    BY <1>2, <2>1, CheckBegins DEF AnswerInv, SettledInv
  <2>3. StaleIsOld'
    BY <1>1, <2>2 DEF StaleIsOld, StaleCheck
  <2>4. AnswerComes'
    <3> SUFFICES ASSUME Reachable(url), Unheard
                 PROVE  steady' + (CheckTimeout - task'.age) <= Recovery
      BY <1>1, <2>2 DEF AnswerComes
    <3>1. steady + UntilPoll + CheckTimeout <= Recovery
      BY <1>2 DEF AnswerInv, AnswerComes
    <3>2. steady \in Nat /\ UntilPoll \in Nat /\ CheckTimeout \in Nat /\ Recovery \in Nat
      BY Times, PanelAssumption DEF TimesBounded, AnswerInv, SettledInv, Recovery, Late
    <3>3. steady + CheckTimeout <= Recovery /\ CheckTimeout - task'.age = CheckTimeout
      BY <2>2, <3>1, <3>2
    <3> QED
      BY <3>3
  <2> QED
    BY <2>3, <2>4
<1>3. CASE ~wifi
  BY <1>3, AnswerOffline
<1>4. CASE task # None
  <2>1. task' = task
    BY <1>4 DEF Check
  <2>2. StaleCheck' = StaleCheck
    BY <1>1, <2>1 DEF StaleCheck
  <2> QED
    BY <1>1, <1>4, <2>1, <2>2 DEF AnswerInv, StaleIsOld, AnswerComes
<1> QED
  BY <1>2, <1>3, <1>4

(* Polls and scripts.                                                      *)
LEMMA PollAnswer ==
  ASSUME AnswerInv, TypeOK', Poll \/ Update
  PROVE  StaleIsOld' /\ AnswerComes'
<1>1. CASE Poll
  <2>1. source' = url /\ Check(url) /\ UNCHANGED <<url, steady, error, last, wifi, up>>
    BY <1>1 DEF Poll, Idle, worldVars, AnswerInv, SettledInv, Follows, SourceApplied
  <2>2. Unheard' = Unheard
    BY <1>1 DEF Poll, Unheard, NoWord
  <2> QED
    BY <2>1, <2>2, AskAnswer
<1>2. CASE Update /\ url = None
  BY <1>2 DEF Update, ApplyUpdateSource, StaleIsOld, AnswerComes, Reachable
<1>3. CASE Update /\ url # None
  <2>1. source' = url /\ Check(url) /\ UNCHANGED <<url, steady, error, last, wifi, up>>
    BY <1>3 DEF Update, ApplyUpdateSource, CheckNow, worldVars
  <2>2. source = url => UNCHANGED zero
    BY <1>3 DEF Update, ApplyUpdateSource
  <2>3. Unheard' => Unheard
    BY <2>1, <2>2 DEF Unheard, NoWord
  <2> QED
    BY <2>1, <2>3, AskAnswer
<1> QED
  BY <1>1, <1>2, <1>3

(* A check that ends and leaves the panel without word of its bridge was a *)
(* stale one, and those are gone before they have cost more than one may.  *)
LEMMA EndAnswer ==
  ASSUME AnswerInv, TypeOK', CheckSucceeds \/ CheckFails
  PROVE  StaleIsOld' /\ AnswerComes'
<1>1. /\ UNCHANGED <<url, source, pollerVars, superviseIn, busy, wifi, up, zero, steady>>
      /\ task # None /\ task' = None /\ Held' = Held /\ Recovery' = Recovery
      /\ Reachable(url)' = Reachable(url)
  BY DEF CheckSucceeds, CheckFails, loopVars, worldVars, Held, Recovery, Late, Reachable
<1>2. StaleIsOld'
  BY <1>1 DEF StaleIsOld, StaleCheck
<1>3. AnswerComes'
  <2> SUFFICES ASSUME Reachable(url), Unheard'
               PROVE  (steady + UntilPoll + CheckTimeout <= Recovery)'
    BY <1>1 DEF AnswerComes
  <2>1. StaleCheck
    <3>1. CASE CheckSucceeds
      BY <1>1, <3>1 DEF CheckSucceeds, Unheard, NoWord, StaleCheck, Reachable
    <3>2. CASE CheckFails
      BY <1>1, <3>2 DEF CheckFails, StaleCheck
    <3> QED
      BY <3>1, <3>2
  <2>2. steady <= task.age
    BY <2>1 DEF AnswerInv, StaleIsOld, Reachable
  <2>3. /\ steady \in Nat /\ task.age \in 0..CheckTimeout /\ UntilPoll \in Nat
        /\ UntilPoll <= Supervisor + Held + Fast + Held
    BY <1>1, Times, CheckIs DEF AnswerInv, SettledInv, TimesBounded
  <2>4. UntilPoll' = UntilPoll
    BY <1>1 DEF UntilPoll, FastPolling, Fires, pollerVars
  <2>5. steady + UntilPoll + CheckTimeout <= Recovery
    BY <2>2, <2>3, HeldIsNat, PanelAssumption DEF Recovery, Late
  <2> QED
    BY <1>1, <2>4, <2>5
<1> QED
  BY <1>2, <1>3

(* Requests that block the loop, for the bridge that is set.               *)
LEMMA BlockAnswer ==
  ASSUME AnswerInv, TypeOK', busy = 0, ~Due,
         UNCHANGED <<url, source, pollerVars, superviseIn, checkVars, worldVars, zero, steady>>
  PROVE  StaleIsOld' /\ AnswerComes'
<1>1. /\ Reachable(url)' = Reachable(url) /\ Unheard' = Unheard /\ StaleCheck' = StaleCheck
      /\ Recovery' = Recovery /\ Recovery \in Nat /\ CheckTimeout \in Nat
      /\ UNCHANGED <<task, wifi, url, steady>>
  BY PanelAssumption
     DEF checkVars, worldVars, Reachable, Unheard, NoWord, StaleCheck, Recovery, Late
<1>2. UntilPoll' <= UntilPoll /\ UntilPoll \in Nat /\ UntilPoll' \in Nat /\ steady \in Nat
  <2>1. busy' \in 0..MaxBlock
    BY DEF TypeOK, WorldTypes
  <2> QED
    BY <2>1, BlockShortens, Times, TimesNext DEF TimesBounded, AnswerInv, SettledInv
<1>3. StaleIsOld'
  BY <1>1 DEF StaleIsOld, AnswerInv
<1>4. AnswerComes'
  <2> DEFINE wait == UntilPoll'
  <2>1. wait <= UntilPoll /\ wait \in Nat
    BY <1>2
  <2> SUFFICES ASSUME Reachable(url), Unheard
               PROVE  /\ task = None => steady + wait + CheckTimeout <= Recovery
                      /\ task # None /\ ~StaleCheck => steady + (CheckTimeout - task.age) <= Recovery
    BY <1>1 DEF AnswerComes
  <2> HIDE DEF wait
  <2>2. task = None => steady + UntilPoll + CheckTimeout <= Recovery
    BY DEF AnswerInv, AnswerComes
  <2> QED
    BY <1>1, <1>2, <2>1, <2>2 DEF AnswerInv, AnswerComes
<1> QED
  BY <1>3, <1>4

(* A bridge that is not the panel's comes or goes.                         *)
LEMMA OtherAnswer ==
  ASSUME AnswerInv, NEW hit, Spoil(hit), hit => task # None /\ task.source # url,
         UNCHANGED <<url, source, pollerVars, superviseIn, error, last, busy, wifi, zero, steady>>,
         Reachable(url)' = Reachable(url)
  PROVE  StaleIsOld' /\ AnswerComes'
<1>1. /\ task = None <=> task' = None
      /\ task # None => task'.source = task.source /\ task'.age = task.age /\ (~hit => task' = task)
  BY SpoilKeeps DEF AnswerInv, SettledInv
<1>2. StaleCheck' = StaleCheck /\ Unheard' = Unheard
  BY <1>1 DEF StaleCheck, Unheard, NoWord
<1>3. UntilPoll' = UntilPoll /\ Recovery' = Recovery
  BY DEF UntilPoll, FastPolling, Fires, Held, Less, Larger, pollerVars, Recovery, Late
<1> QED
  BY <1>1, <1>2, <1>3 DEF AnswerInv, StaleIsOld, AnswerComes, StaleCheck

(* At boot there is no network yet.                                        *)
LEMMA OfflineStep == BootIsOffline /\ [Next]_vars => BootIsOffline'
<1> SUFFICES ASSUME BootIsOffline, [Next]_vars, doing' = "boot" PROVE ~wifi'
  BY DEF BootIsOffline
<1> USE DEF BootIsOffline, Idle, loopVars, worldVars
<1>1. CASE Reboot
  BY <1>1 DEF Reboot
<1>2. ~OnBoot /\ ~Connect /\ ~Update /\ ~Press /\ ~Request /\ ~(\E u \in URLs : EditURL(u))
  BY DEF OnBoot, Connect, Update, Press, Request, EditURL
<1>3. CASE AdaptiveUpdatePoll \/ Poll \/ CheckSucceeds \/ CheckFails \/ Elapse
  BY <1>3 DEF AdaptiveUpdatePoll, Poll, CheckSucceeds, CheckFails, Elapse
<1>4. CASE Disconnect
  BY <1>4 DEF Disconnect
<1>5. ASSUME NEW b \in Bridges, Flip(b) PROVE ~wifi'
  BY <1>5 DEF Flip
<1>6. CASE UNCHANGED vars
  BY <1>6 DEF vars
<1> QED
  BY <1>1, <1>2, <1>3, <1>4, <1>5, <1>6 DEF Next

(* No step brings the answer later than it may come.                       *)
LEMMA AnswerStep ==
  ASSUME AnswerInv, [Next]_vars
  PROVE  StaleIsOld' /\ AnswerComes'
<1>0. TypeOK' /\ busy' \in 0..MaxBlock
  <2>1. TypeOK'
    BY TypeStep DEF AnswerInv, SettledInv
  <2> QED
    BY <2>1 DEF TypeOK, WorldTypes
<1>1. CASE OnBoot \/ Disconnect \/ Reboot
  <2>1. ~wifi'
    BY <1>1 DEF OnBoot, Disconnect, Reboot, AnswerInv, BootIsOffline, worldVars
  <2> QED
    BY <2>1, AnswerOffline
<1>2. CASE AdaptiveUpdatePoll
  BY <1>0, <1>2, SuperviseAnswer
<1>3. CASE Poll \/ Update
  BY <1>0, <1>3, PollAnswer
<1>4. CASE CheckSucceeds \/ CheckFails
  BY <1>0, <1>4, EndAnswer
<1>5. CASE Elapse
  BY <1>0, <1>5, ElapseAnswer
<1>6. CASE Connect
  BY <1>0, <1>6, AnswerFromStart DEF Connect
<1>7. CASE Press \/ Request
  BY <1>0, <1>7, BlockAnswer DEF Press, Request, Idle
<1>8. ASSUME NEW u \in URLs, EditURL(u)
      PROVE  StaleIsOld' /\ AnswerComes'
  <2>1. CASE u = url
    BY <1>0, <1>8, <2>1, BlockAnswer DEF EditURL, Idle
  <2>2. CASE u # url
    BY <1>0, <1>8, <2>2, AnswerFromStart DEF EditURL
  <2> QED
    BY <2>1, <2>2
<1>9. ASSUME NEW b \in Bridges, Flip(b)
      PROVE  StaleIsOld' /\ AnswerComes'
  <2>1. CASE b = url
    BY <1>0, <1>9, <2>1, AnswerFromStart DEF Flip
  <2>2. CASE b # url
    <3>1. Reachable(url)' = Reachable(url)
      BY <1>9, <2>2 DEF Flip, Reachable, AnswerInv, SettledInv, TypeOK, CheckTypes, WorldTypes, URLs
    <3>2. Spoil(task # None /\ task.source = b)
      BY <1>9 DEF Flip
    <3> QED
      BY <1>9, <2>2, <3>1, <3>2, OtherAnswer DEF Flip, loopVars
  <2> QED
    BY <2>1, <2>2
<1>10. CASE UNCHANGED vars
  <2>1. Spoil(FALSE) /\ Reachable(url)' = Reachable(url)
    BY <1>10 DEF vars, checkVars, worldVars, Spoil, Reachable
  <2> QED
    BY <1>10, <2>1, OtherAnswer DEF vars, checkVars, loopVars, worldVars
<1> QED
  BY <1>1, <1>2, <1>3, <1>4, <1>5, <1>6, <1>7, <1>8, <1>9, <1>10 DEF Next

(* From the start on, if the window is long enough.                        *)
LEMMA AnswerHolds == ChainFits => (Spec => []AnswerInv)
<1> SUFFICES ASSUME ChainFits PROVE Spec => []AnswerInv
  OBVIOUS
<1>1. Init => AnswerInv
  <2> SUFFICES ASSUME Init PROVE AnswerInv
    OBVIOUS
  <2>1. SettledInv
    BY InitSettled
  <2> QED
    BY <2>1 DEF Init, AnswerInv, BootIsOffline, StaleIsOld, AnswerComes, Reachable
<1>2. AnswerInv /\ [Next]_vars => AnswerInv'
  BY TypeStep, FollowsStep, SettledStep, OfflineStep, AnswerStep DEF AnswerInv, SettledInv
<1> QED
  BY <1>1, <1>2, PTL DEF Spec

(* A bridge that is there is found within a failing check, the supervisor, *)
(* the poller and a good check, whatever the operator, the network and the *)
(* other bridges do meanwhile (PickedUpInTime).                            *)
THEOREM FoundInTime == ChainFits => (Spec => []PickedUpInTime)
<1> SUFFICES ASSUME ChainFits PROVE Spec => []PickedUpInTime
  OBVIOUS
<1>1. AnswerInv => PickedUpInTime
  <2> SUFFICES ASSUME AnswerInv, Reachable(url), steady > Recovery, ~zero, ~(last = url /\ ~error)
               PROVE  FALSE
    BY DEF PickedUpInTime
  <2>1. Unheard
    BY DEF Unheard, NoWord
  <2>2. /\ steady \in Nat /\ UntilPoll \in Nat /\ Recovery \in Nat
        /\ CheckTimeout \in Nat /\ CheckTimeout <= Recovery
        /\ task # None => task.age \in 0..CheckTimeout
    BY Times, CheckIs, PanelAssumption DEF TimesBounded, AnswerInv, SettledInv, Recovery, Late
  <2>3. CASE task = None
    <3>1. steady + UntilPoll + CheckTimeout <= Recovery
      BY <2>1, <2>3 DEF AnswerInv, AnswerComes
    <3> QED
      BY <2>2, <3>1
  <2>4. CASE task # None /\ ~StaleCheck
    <3>1. steady + (CheckTimeout - task.age) <= Recovery
      BY <2>1, <2>4 DEF AnswerInv, AnswerComes
    <3> QED
      BY <2>2, <2>4, <3>1
  <2>5. CASE StaleCheck
    <3>1. steady <= task.age
      BY <2>5 DEF AnswerInv, StaleIsOld, Reachable
    <3> QED
      BY <2>2, <2>5, <3>1 DEF StaleCheck
  <2> QED
    BY <2>3, <2>4, <2>5
<1> QED
  BY <1>1, AnswerHolds, PTL

-----------------------------------------------------------------------------
(* Why a bridge that has gone is noticed in time.  A poll may be put off   *)
(* once, by a supervisor that settles for the slow cadence; a window that  *)
(* is open outlasts the poll it makes the supervisor bring forward, so     *)
(* that this one is not put off as well.                                   *)
UnknownIsFast == last = None => interval = Fast
WindowOutlastsRestart ==
  url # None /\ source = url /\ fastFor # NoDeadline /\ ~FastPolling => Outlasts(UntilPoll)

PollIsKept == last = None \/ Outlasts(Fires(pollIn))
SlowIsKept == polling /\ interval = Slow /\ fastFor = NoDeadline
UntilAnyPoll ==
  IF FastPolling THEN Fires(pollIn) + (IF PollIsKept THEN 0 ELSE Slow + Held)
  ELSE IF SlowIsKept THEN Fires(pollIn)
  ELSE Fires(superviseIn) + Slow + Held

FailureComes ==
  wifi /\ url # None /\ ~Reachable(url) /\ ~error =>
    /\ task = None => steady + UntilAnyPoll + CheckTimeout <= Notice
    /\ task # None /\ task.source = url => steady + (CheckTimeout - task.age) <= Notice

CadenceInv == AnswerInv /\ UnknownIsFast /\ WindowOutlastsRestart
NoticeInv  == CadenceInv /\ FailureComes

(* The supervisor is no slower than the fast cadence.                      *)
SupervisorFits == Fast <= Supervisor

(* What the supervisor's script does to a poller of a panel with a URL.    *)
LEMMA SyncPolls ==
  ASSUME Follows, SyncUpdateCadence, url # None, doing # "update"
  PROVE  /\ polling' = TRUE /\ interval' = Want
         /\ pollIn' = IF polling /\ interval = Want THEN pollIn ELSE Want
         /\ fastFor' = ExpireDeadline
<1>1. polling <=> running
  <2>1. CASE doing = "boot"
    BY <2>1, Zenon DEF Follows, BootIsBlank
  <2>2. CASE doing # "boot"
    BY <2>2, Zenon DEF Follows, FlagIsTrue
  <2> QED
    BY <2>1, <2>2
<1>2. fastFor' = ExpireDeadline /\ (IF MustRestart THEN RestartPoller ELSE UNCHANGED pollerVars)
  BY DEF SyncUpdateCadence
<1>3. CASE MustRestart
  BY <1>1, <1>2, <1>3 DEF MustRestart, RestartPoller
<1>4. CASE ~MustRestart
  <2>1. running /\ interval = Want /\ UNCHANGED pollerVars
    BY <1>2, <1>4 DEF MustRestart
  <2> QED
    BY <1>1, <1>2, <2>1 DEF pollerVars
<1> QED
  BY <1>3, <1>4

(* Nothing is known only until the first check that succeeds, and until    *)
(* then the fast cadence is wanted.                                        *)
LEMMA UnknownStep == TypeOK /\ UnknownIsFast /\ [Next]_vars => UnknownIsFast'
<1> SUFFICES ASSUME TypeOK, UnknownIsFast, [Next]_vars, last' = None PROVE interval' = Fast
  BY DEF UnknownIsFast
<1> USE DEF UnknownIsFast, checkVars, pollerVars
<1>1. CASE OnBoot \/ AdaptiveUpdatePoll
  <2>1. last = None /\ Want = Fast
    BY <1>1 DEF OnBoot, AdaptiveUpdatePoll, Want, Settled
  <2> QED
    BY <1>1, <2>1 DEF OnBoot, AdaptiveUpdatePoll, SyncUpdateCadence, RestartPoller
<1>2. CASE Reboot
  BY <1>2 DEF Reboot
<1>3. CASE CheckSucceeds
  BY <1>3 DEF CheckSucceeds, Reachable
<1>4. CASE Poll \/ Connect \/ Update \/ Press \/ Request \/ CheckFails \/ Disconnect \/ Elapse
  BY <1>4 DEF Poll, Connect, Update, ApplyUpdateSource, Press, Request, CheckFails, Disconnect,
              Elapse
<1>5. CASE (\E u \in URLs : EditURL(u)) \/ (\E b \in Bridges : Flip(b)) \/ UNCHANGED vars
  BY <1>5 DEF EditURL, Flip, vars
<1> QED
  BY <1>1, <1>2, <1>3, <1>4, <1>5 DEF Next

(* A deadline that is in force counts down.                                *)
LEMMA WindowShortens ==
  ASSUME TypeOK, Elapse
  PROVE  /\ fastFor \in Int /\ fastFor' \in Int
         /\ fastFor = NoDeadline <=> fastFor' = NoDeadline
         /\ fastFor # NoDeadline => fastFor' = IF fastFor = 0 THEN Wrap - 1 ELSE fastFor - 1
         /\ \A t \in Nat : Outlasts(t) => fastFor' = fastFor - 1
<1>1. fastFor \in {NoDeadline} \cup 0..(Wrap - 1) /\ Wrap \in Nat
  BY PanelAssumption DEF TypeOK, WindowTypes
<1>2. CASE fastFor = NoDeadline
  BY <1>2, PanelAssumption DEF Elapse, Outlasts, NoDeadline
<1>3. CASE fastFor = 0
  <2>1. Wrap \in Nat \ {0} /\ fastFor' = (Wrap - 1) % Wrap
    BY <1>1, <1>3 DEF Elapse, NoDeadline
  <2>2. fastFor' = Wrap - 1 /\ fastFor' \in 0..(Wrap - 1)
    BY <2>1
  <2> QED
    BY <1>3, <2>2 DEF Outlasts, NoDeadline
<1>4. CASE fastFor \in 1..(Wrap - 1)
  <2>1. fastFor' = ((fastFor - 1) + Wrap) % Wrap
    BY <1>1, <1>4 DEF Elapse, NoDeadline
  <2>2. ((fastFor - 1) + Wrap) % Wrap = fastFor - 1
    BY <1>1, <1>4
  <2> QED
    BY <1>4, <2>1, <2>2 DEF NoDeadline
<1> QED
  BY <1>1, <1>2, <1>3, <1>4

(* The window the supervisor finds open brings a fast poller; one it finds *)
(* over, it clears.                                                        *)
LEMMA RestartStep ==
  ASSUME SettledInv, WindowOutlastsRestart, [Next]_vars, ChainFits
  PROVE  WindowOutlastsRestart'
<1>0. TypeOK' /\ busy' \in 0..MaxBlock
  <2>1. TypeOK'
    BY TypeStep DEF SettledInv
  <2> QED
    BY <2>1 DEF TypeOK, WorldTypes
<1> SUFFICES ASSUME url' # None, source' = url', fastFor' # NoDeadline, ~FastPolling'
             PROVE  Outlasts(UntilPoll)'
  BY DEF WindowOutlastsRestart
<1>1. /\ UntilPoll \in Nat /\ UntilPoll <= Supervisor + Held + Fast + Held
      /\ fastFor \in Int
  BY Times, PanelAssumption DEF SettledInv, TimesBounded, TypeOK, WindowTypes, NoDeadline
<1>2. CASE OnBoot \/ AdaptiveUpdatePoll
  <2>1. url # None /\ SyncUpdateCadence /\ doing # "update"
    BY <1>2 DEF OnBoot, AdaptiveUpdatePoll, Idle
  <2>2. polling' = TRUE /\ interval' = Want /\ fastFor' = ExpireDeadline
    BY <2>1, SyncPolls DEF SettledInv
  <2>3. WindowOpen
    BY <2>2 DEF ExpireDeadline
  <2> QED
    BY <2>2, <2>3 DEF Want, Settled, FastPolling
<1>3. CASE /\ UNCHANGED <<url, source, fastFor, polling, interval, superviseIn>>
           /\ busy' = busy
  <2>1. UntilPoll' = UntilPoll /\ ~FastPolling
    BY <1>3 DEF UntilPoll, FastPolling, Fires, Held, Less, Larger
  <2> QED
    BY <1>3, <2>1 DEF WindowOutlastsRestart, Outlasts
<1>4. CASE Poll \/ CheckSucceeds \/ CheckFails \/ Disconnect \/ (\E b \in Bridges : Flip(b))
             \/ UNCHANGED vars
  BY <1>3, <1>4 DEF Poll, CheckSucceeds, CheckFails, Disconnect, Flip, vars, pollerVars, loopVars
<1>5. CASE /\ busy = 0 /\ ~Due
           /\ UNCHANGED <<url, source, fastFor, pollerVars, superviseIn>>
  <2>1. UntilPoll' <= UntilPoll /\ FastPolling' = FastPolling /\ UntilPoll' \in Nat
    BY <1>0, <1>5, BlockShortens, TimesNext DEF SettledInv, TimesBounded
  <2>2. Outlasts(UntilPoll)
    BY <1>5, <2>1 DEF WindowOutlastsRestart
  <2> QED
    BY <1>1, <1>5, <2>1, <2>2, PanelAssumption DEF Outlasts
<1>6. CASE Connect \/ Press \/ Request
  BY <1>5, <1>6 DEF Connect, Press, Request, Idle
<1>7. ASSUME NEW u \in URLs, EditURL(u) PROVE Outlasts(UntilPoll)'
  <2>1. source = url
    BY <1>7 DEF EditURL, Idle, SettledInv, Follows, SourceApplied
  <2> QED
    BY <1>5, <1>7, <2>1 DEF EditURL, Idle
<1>8. CASE Update
  <2>1. /\ busy' = busy /\ url' = url /\ UNCHANGED <<interval, polling, superviseIn>>
        /\ url # None
    BY <1>8 DEF Update, ApplyUpdateSource
  <2>2. UntilPoll' = UntilPoll /\ ~FastPolling
    BY <2>1 DEF UntilPoll, FastPolling, Fires, Held, Less, Larger
  <2>3. CASE url = source
    BY <1>3, <1>8, <2>1, <2>3 DEF Update, ApplyUpdateSource
  <2>4. CASE url # source
    <3>1. fastFor' = Window
      BY <1>8, <2>1, <2>4 DEF Update, ApplyUpdateSource, OpenWindow
    <3>2. UntilPoll < Window
      BY <1>1, HeldIsNat, PanelAssumption DEF ChainFits
    <3> QED
      BY <2>2, <3>1, <3>2, PanelAssumption DEF Outlasts
  <2> QED
    BY <2>3, <2>4
<1>9. CASE Reboot
  BY <1>9 DEF Reboot, FastPolling
<1>10. CASE Elapse
  <2>1. FastPolling' = FastPolling /\ UntilPoll' <= UntilPoll - 1 /\ UntilPoll' \in Nat
    BY <1>0, <1>10, ElapseShortens, TimesNext DEF SettledInv, TimesBounded
  <2>2. fastFor # NoDeadline /\ url # None /\ source = url
    BY <1>10, WindowShortens DEF Elapse, SettledInv
  <2>3. Outlasts(UntilPoll)
    BY <2>1, <2>2 DEF WindowOutlastsRestart
  <2>4. fastFor' = fastFor - 1
    BY <1>1, <1>10, <2>3, WindowShortens DEF SettledInv
  <2> QED
    BY <1>1, <2>1, <2>3, <2>4, PanelAssumption DEF Outlasts
<1> QED
  BY <1>2, <1>4, <1>6, <1>7, <1>8, <1>9, <1>10 DEF Next

(* The longest until a poll, put off or not.                               *)
AnyPollBounded ==
  UntilAnyPoll \in Nat /\ UntilAnyPoll <= Supervisor + Held + Slow + Held
(* The longest until a poll, of whatever cadence.                          *)
LEMMA AnyPoll == SupervisorFits => (TypeOK => AnyPollBounded)
<1> SUFFICES ASSUME SupervisorFits, TypeOK PROVE AnyPollBounded
  OBVIOUS
<1>1. /\ Fires(superviseIn) \in Nat /\ Fires(superviseIn) <= Supervisor + Held
      /\ Fires(pollIn) \in Nat /\ Fires(pollIn) <= interval + Held /\ interval \in {Fast, Slow}
  BY Times DEF TimesBounded, TypeOK, PollerTypes
<1>2. /\ Supervisor \in Nat /\ Fast \in Nat /\ Slow \in Nat /\ Held \in Nat /\ Fast <= Supervisor
  BY HeldIsNat, PanelAssumption DEF SupervisorFits
<1> QED
  BY <1>1, <1>2 DEF AnyPollBounded, UntilAnyPoll, FastPolling

(* And in the state after a step.                                          *)
LEMMA AnyPollNext == SupervisorFits => (TypeOK' => AnyPollBounded')
<1> SUFFICES ASSUME SupervisorFits PROVE TypeOK' => AnyPollBounded'
  OBVIOUS
<1>1. TypeOK => AnyPollBounded
  BY AnyPoll
<1> QED
  BY <1>1, PTL

(* The numbers in Notice.                                                  *)
LEMMA NoticeIs ==
  /\ Notice = CheckTimeout + (Supervisor + MaxBlock) + (Slow + MaxBlock) + CheckTimeout
  /\ Notice' = Notice /\ Notice \in Nat
  /\ Held \in Nat /\ Held <= MaxBlock /\ MaxBlock \in Nat
  /\ CheckTimeout \in Nat /\ Supervisor \in Nat /\ Slow \in Nat
  BY HeldIsNat, PanelAssumption DEF Notice, Late

(* Where the clock of steady starts, and off the network.                  *)
LEMMA FailureFromStart ==
  ASSUME TypeOK', SupervisorFits, steady' = 0 \/ ~wifi'
  PROVE  FailureComes'
<1>1. CASE ~wifi'
  BY <1>1 DEF FailureComes
<1>2. CASE steady' = 0
  <2> DEFINE now == steady'
             wait == UntilAnyPoll'
             age == task'.age
  <2>1. now = 0 /\ wait \in Nat /\ wait <= Supervisor + Held + Slow + Held
    BY <1>2, AnyPollNext DEF AnyPollBounded
  <2>2. task' # None => age \in 0..CheckTimeout
    BY DEF TypeOK, CheckTypes
  <2> SUFFICES /\ now + wait + CheckTimeout <= Notice
               /\ task' # None => now + (CheckTimeout - age) <= Notice
    BY NoticeIs DEF FailureComes
  <2> HIDE DEF now, wait, age
  <2> QED
    BY <2>1, <2>2, NoticeIs
<1> QED
  BY <1>1, <1>2

(* A wait no longer than the time that has passed allows.                  *)
LEMMA FailureKept ==
  ASSUME NoticeInv, TypeOK', SupervisorFits,
         UNCHANGED <<url, error, wifi>>, Reachable(url)' = Reachable(url),
         steady' \in Nat,
         \/ steady' <= steady /\ UntilAnyPoll' <= UntilAnyPoll
         \/ steady' <= steady + 1 /\ UntilAnyPoll' <= UntilAnyPoll - 1,
         task = None <=> task' = None,
         task # None => /\ task'.source = task.source
                        /\ task'.age - steady' >= task.age - steady /\ task'.age \in Nat
  PROVE  FailureComes'
<1> DEFINE now == steady'
           wait == UntilAnyPoll'
           age == task'.age
<1>1. /\ now \in Nat /\ wait \in Nat /\ steady \in Nat /\ UntilAnyPoll \in Nat
      /\ \/ now <= steady /\ wait <= UntilAnyPoll
         \/ now <= steady + 1 /\ wait <= UntilAnyPoll - 1
      /\ task # None => /\ age - now >= task.age - steady /\ age \in Nat /\ task.age \in Nat
  BY AnyPoll, AnyPollNext, Times, CheckIs
     DEF AnyPollBounded, TimesBounded, NoticeInv, CadenceInv, AnswerInv, SettledInv
<1> SUFFICES ASSUME wifi, url # None, ~Reachable(url), ~error
             PROVE  /\ task' = None => now + wait + CheckTimeout <= Notice
                    /\ task' # None /\ task'.source = url => now + (CheckTimeout - age) <= Notice
  BY NoticeIs DEF FailureComes
<1> HIDE DEF now, wait, age
<1>2. CASE task = None
  <2>1. steady + UntilAnyPoll + CheckTimeout <= Notice
    BY <1>2 DEF NoticeInv, FailureComes
  <2> QED
    BY <1>1, <1>2, <2>1, NoticeIs
<1>3. CASE task # None /\ task.source = url
  <2>1. steady + (CheckTimeout - task.age) <= Notice
    BY <1>3 DEF NoticeInv, FailureComes
  <2> QED
    BY <1>1, <1>3, <2>1, NoticeIs
<1> QED
  BY <1>2, <1>3

(* Time: a poll that is kept stays kept, and the wait gets shorter.        *)
LEMMA ElapseFailure ==
  ASSUME NoticeInv, Elapse, TypeOK', SupervisorFits
  PROVE  FailureComes'
<1>1. /\ UNCHANGED <<url, error, last, wifi, interval, polling>>
      /\ Reachable(url)' = Reachable(url) /\ Held' = Held
  BY DEF Elapse, worldVars, Reachable, Held, Less, Larger
<1>2. /\ TypeOK
      /\ steady' \in {steady, steady + 1} /\ steady \in Nat
      /\ Fires(superviseIn) \in Nat /\ Fires(superviseIn)' \in Nat
      /\ Fires(pollIn) \in Nat /\ Fires(pollIn)' \in Nat
      /\ Fires(superviseIn)' <= Fires(superviseIn) - 1
      /\ polling => Fires(pollIn)' <= Fires(pollIn) - 1
      /\ FastPolling' = FastPolling
      /\ task = None <=> task' = None
      /\ task # None => /\ task'.source = task.source
                        /\ task'.age = task.age + 1 /\ task.age \in Nat
  BY ElapseShortens, Times, TimesNext, CheckIs
     DEF TimesBounded, NoticeInv, CadenceInv, AnswerInv, SettledInv
<1>3. FastPolling /\ PollIsKept => PollIsKept'
  <2> SUFFICES ASSUME FastPolling, Outlasts(Fires(pollIn)) PROVE Outlasts(Fires(pollIn))'
    BY <1>1 DEF PollIsKept
  <2>1. fastFor \in Int /\ fastFor' = fastFor - 1
    BY <1>2, WindowShortens
  <2>2. Fires(pollIn)' <= Fires(pollIn) - 1
    BY <1>2 DEF FastPolling
  <2> QED
    BY <1>2, <2>1, <2>2, PanelAssumption DEF Outlasts
<1>4. SlowIsKept' = SlowIsKept
  BY <1>1, <1>2, WindowShortens DEF SlowIsKept
<1>5. Slow \in Nat /\ Held \in Nat
  BY NoticeIs
<1>6. UntilAnyPoll' <= UntilAnyPoll - 1
  <2>1. CASE FastPolling
    BY <1>1, <1>2, <1>3, <1>5, <2>1 DEF UntilAnyPoll, FastPolling
  <2>2. CASE ~FastPolling /\ SlowIsKept
    BY <1>2, <1>4, <2>2 DEF UntilAnyPoll, SlowIsKept
  <2>3. CASE ~FastPolling /\ ~SlowIsKept
    BY <1>1, <1>2, <1>4, <1>5, <2>3 DEF UntilAnyPoll
  <2> QED
    BY <2>1, <2>2, <2>3
<1>7. /\ steady' \in Nat /\ steady' <= steady + 1
      /\ task # None => task'.age - steady' >= task.age - steady /\ task'.age \in Nat
  BY <1>2
<1> QED
  BY <1>1, <1>2, <1>6, <1>7, FailureKept

(* A script that blocks the loop.                                          *)
LEMMA BlockFailure ==
  ASSUME NoticeInv, TypeOK', SupervisorFits, busy = 0, ~Due,
         UNCHANGED <<url, pollerVars, fastFor, superviseIn, checkVars, worldVars, steady>>
  PROVE  FailureComes'
<1>1. /\ UNCHANGED <<url, error, last, wifi, task, interval, polling>>
      /\ Reachable(url)' = Reachable(url) /\ Held' = Held
  BY DEF checkVars, worldVars, pollerVars, Reachable, Held, Less, Larger
<1>2. busy' \in 0..MaxBlock
  BY DEF TypeOK, WorldTypes
<1>3. /\ Fires(superviseIn) \in Nat /\ Fires(superviseIn)' \in Nat
      /\ Fires(pollIn) \in Nat /\ Fires(pollIn)' \in Nat
      /\ Fires(superviseIn)' <= Fires(superviseIn)
      /\ polling => Fires(pollIn)' <= Fires(pollIn)
      /\ FastPolling' = FastPolling /\ steady \in Nat
  BY <1>2, BlockShortens, Times, TimesNext
     DEF TimesBounded, NoticeInv, CadenceInv, AnswerInv, SettledInv
<1>4. FastPolling /\ PollIsKept => PollIsKept'
  <2> SUFFICES ASSUME FastPolling, Outlasts(Fires(pollIn)) PROVE Outlasts(Fires(pollIn))'
    BY <1>1 DEF PollIsKept
  <2>1. fastFor \in Int /\ fastFor' = fastFor
    BY DEF TypeOK, WindowTypes, NoDeadline, NoticeInv, CadenceInv, AnswerInv, SettledInv
  <2>2. Fires(pollIn)' <= Fires(pollIn)
    BY <1>3 DEF FastPolling
  <2> QED
    BY <1>3, <2>1, <2>2, PanelAssumption DEF Outlasts
<1>5. SlowIsKept' = SlowIsKept /\ Slow \in Nat /\ Held \in Nat
  BY <1>1, NoticeIs DEF SlowIsKept
<1>6. UntilAnyPoll' <= UntilAnyPoll
  <2>1. CASE FastPolling
    BY <1>1, <1>3, <1>4, <1>5, <2>1 DEF UntilAnyPoll, FastPolling
  <2>2. CASE ~FastPolling /\ SlowIsKept
    BY <1>3, <1>5, <2>2 DEF UntilAnyPoll, SlowIsKept
  <2>3. CASE ~FastPolling /\ ~SlowIsKept
    BY <1>1, <1>3, <1>5, <2>3 DEF UntilAnyPoll
  <2> QED
    BY <2>1, <2>2, <2>3
<1>7. task # None => task'.age - steady' >= task.age - steady /\ task'.age \in Nat
  BY <1>1, <1>3, CheckIs DEF NoticeInv, CadenceInv, AnswerInv, SettledInv
<1> QED
  BY <1>1, <1>3, <1>6, <1>7, FailureKept

(* The supervisor puts a poll off once, and then no longer than the slow   *)
(* cadence; a fast poll it brings forward comes before the window ends.    *)
LEMMA SuperviseFailure ==
  ASSUME NoticeInv, AdaptiveUpdatePoll, TypeOK', SupervisorFits
  PROVE  FailureComes'
<1>1. /\ busy = 0 /\ busy' = 0 /\ superviseIn = 0 /\ superviseIn' = Supervisor
      /\ doing = "nothing" /\ source = url /\ SyncUpdateCadence
      /\ UNCHANGED <<url, source, task, error, last, wifi, up, steady>>
      /\ Reachable(url)' = Reachable(url) /\ Held' = Held
  BY DEF AdaptiveUpdatePoll, Idle, checkVars, loopVars, worldVars, NoticeInv, CadenceInv, AnswerInv,
         SettledInv, Follows, SourceApplied, Reachable, Held, Less, Larger
<1> SUFFICES ASSUME url # None, ~error PROVE FailureComes'
  BY <1>1 DEF FailureComes
<1>2. /\ polling' = TRUE /\ interval' = Want
      /\ pollIn' = (IF polling /\ interval = Want THEN pollIn ELSE Want)
      /\ fastFor' = ExpireDeadline
  BY <1>1, SyncPolls DEF NoticeInv, CadenceInv, AnswerInv, SettledInv
<1>3. /\ Fast \in Nat \ {0} /\ Slow \in Nat \ {0} /\ Fast # Slow /\ Held \in Nat /\ Fast < Slow
      /\ pollIn \in Nat /\ pollIn <= interval /\ interval \in {Fast, Slow}
  BY HeldIsNat, PanelAssumption
     DEF NoticeInv, CadenceInv, AnswerInv, SettledInv, TypeOK, PollerTypes
<1>4. /\ Fires(superviseIn) = 0
      /\ Fires(pollIn) = IF pollIn = 0 THEN 0 ELSE pollIn + Held
      /\ Fires(pollIn)' = IF pollIn' = 0 THEN 0 ELSE pollIn' + Held
  <2>1. pollIn' \in Nat
    BY <1>2, <1>3 DEF Want
  <2>2. Fires(pollIn)' = IF pollIn' <= 0 THEN 0 ELSE pollIn' + Held
    BY <1>1 DEF Fires
  <2>3. pollIn' <= 0 <=> pollIn' = 0
    BY <2>1
  <2> QED
    BY <1>1, <1>3, <2>2, <2>3 DEF Fires
<1>5. last # None => (Want = Fast <=> WindowOpen)
  BY <1>3 DEF Want, Settled
<1>6. last = None => Want = Fast /\ interval = Fast
  BY DEF Want, Settled, NoticeInv, CadenceInv, UnknownIsFast
<1>7. UntilAnyPoll' <= UntilAnyPoll
  <2>1. CASE FastPolling /\ Want = Fast
    <3>1. FastPolling' /\ Fires(pollIn)' = Fires(pollIn) /\ Fires(pollIn) \in Nat
      BY <1>1, <1>2, <1>3, <1>4, <2>1 DEF FastPolling, Fires
    <3>2. PollIsKept' = PollIsKept
      <4>1. CASE last = None
        BY <1>1, <4>1 DEF PollIsKept
      <4>2. CASE last # None
        BY <1>1, <1>2, <1>5, <2>1, <3>1, <4>2 DEF PollIsKept, ExpireDeadline, Outlasts
      <4> QED
        BY <4>1, <4>2
    <3> QED
      BY <1>1, <1>3, <2>1, <3>1, <3>2 DEF UntilAnyPoll
  <2>2. CASE FastPolling /\ Want # Fast
    <3>1. Want = Slow /\ ~WindowOpen /\ last # None
      BY <1>5, <1>6, <2>2 DEF Want
    <3>2. ~PollIsKept
      <4>1. Fires(pollIn) \in Nat
        BY <1>3, <1>4
      <4> QED
        BY <3>1, <4>1, OutlastsIsOpen DEF PollIsKept, NoticeInv, CadenceInv, AnswerInv
    <3>3. ~FastPolling' /\ SlowIsKept' /\ Fires(pollIn)' = Slow + Held
      BY <1>2, <1>3, <1>4, <2>2, <3>1 DEF FastPolling, SlowIsKept, ExpireDeadline
    <3> QED
      BY <1>3, <1>4, <2>2, <3>2, <3>3 DEF UntilAnyPoll
  <2>3. CASE ~FastPolling /\ SlowIsKept
    <3>1. last # None /\ ~WindowOpen
      BY <1>3, <1>6, <2>3 DEF SlowIsKept, WindowOpen, NoDeadline
    <3>2. Want = Slow
      BY <1>5, <3>1 DEF Want
    <3>3. /\ ~FastPolling' /\ SlowIsKept' /\ Fires(pollIn)' = Fires(pollIn)
      BY <1>2, <1>3, <1>4, <2>3, <3>1, <3>2 DEF FastPolling, SlowIsKept, ExpireDeadline
    <3> QED
      BY <1>3, <1>4, <2>3, <3>3 DEF UntilAnyPoll
  <2>4. CASE ~FastPolling /\ ~SlowIsKept
    <3>1. UntilAnyPoll = Slow + Held
      BY <1>3, <1>4, <2>4 DEF UntilAnyPoll
    <3>2. CASE Want = Fast
      <4>1. FastPolling' /\ Fires(pollIn)' = Fast + Held
        BY <1>2, <1>3, <1>4, <2>4, <3>2 DEF FastPolling
      <4>2. PollIsKept'
        <5>1. CASE last = None
          BY <1>1, <5>1 DEF PollIsKept
        <5>2. CASE last # None
          <6>1. WindowOpen
            BY <1>5, <3>2, <5>2
          <6>2. fastFor' = fastFor /\ fastFor # NoDeadline
            BY <1>2, <6>1 DEF ExpireDeadline, WindowOpen, NoDeadline
          <6>3. Outlasts(UntilPoll)
            BY <1>1, <2>4, <6>2 DEF NoticeInv, CadenceInv, WindowOutlastsRestart
          <6>4. UntilPoll = Fast + Held
            BY <1>3, <1>4, <2>4 DEF UntilPoll
          <6> QED
            BY <4>1, <6>2, <6>3, <6>4 DEF PollIsKept, Outlasts
        <5> QED
          BY <5>1, <5>2
      <4> QED
        BY <1>3, <3>1, <4>1, <4>2 DEF UntilAnyPoll
    <3>3. CASE Want # Fast
      <4>1. Want = Slow /\ ~WindowOpen
        BY <1>5, <1>6, <3>3 DEF Want
      <4>2. ~FastPolling' /\ SlowIsKept' /\ Fires(pollIn)' <= Slow + Held /\ Fires(pollIn)' \in Nat
        BY <1>2, <1>3, <1>4, <4>1 DEF FastPolling, SlowIsKept, ExpireDeadline
      <4> QED
        BY <1>3, <3>1, <4>2 DEF UntilAnyPoll
    <3> QED
      BY <3>2, <3>3
  <2> QED
    BY <2>1, <2>2, <2>3, <2>4
<1>8. /\ steady' = steady /\ steady \in Nat
      /\ task # None => task'.age - steady' >= task.age - steady /\ task'.age \in Nat
  BY <1>1, Times, CheckIs DEF TimesBounded, NoticeInv, CadenceInv, AnswerInv, SettledInv
<1> QED
  BY <1>1, <1>7, <1>8, FailureKept

(* A check that is asked for.                                              *)
LEMMA AskFailure ==
  ASSUME NoticeInv, TypeOK', SupervisorFits, source' = url, Check(url),
         UNCHANGED <<url, steady, error, wifi, up>>
  PROVE  FailureComes'
<1>1. Reachable(url)' = Reachable(url)
  BY DEF Reachable
<1>2. CASE wifi /\ task = None
  <2>1. url \in URLs
    BY DEF NoticeInv, CadenceInv, AnswerInv, SettledInv, TypeOK, CheckTypes
  <2>2. task' # None /\ task'.source = url /\ task'.age = 0
    BY <1>2, <2>1, CheckBegins DEF NoticeInv, CadenceInv, AnswerInv, SettledInv
  <2> SUFFICES ASSUME wifi, url # None, ~Reachable(url), ~error
               PROVE  steady' + (CheckTimeout - task'.age) <= Notice
    BY <1>1, <2>2, NoticeIs DEF FailureComes
  <2>3. steady + UntilAnyPoll + CheckTimeout <= Notice
    BY <1>2 DEF NoticeInv, FailureComes
  <2>4. steady \in Nat /\ UntilAnyPoll \in Nat
    BY Times, AnyPoll DEF TimesBounded, AnyPollBounded, NoticeInv, CadenceInv, AnswerInv, SettledInv
  <2>5. steady + CheckTimeout <= Notice /\ CheckTimeout - task'.age = CheckTimeout
    BY <2>2, <2>3, <2>4, NoticeIs
  <2> QED
    BY <2>5
<1>3. CASE ~wifi
  BY <1>3, FailureFromStart
<1>4. CASE task # None
  <2>1. task' = task
    BY <1>4 DEF Check
  <2> QED
    BY <1>1, <1>4, <2>1, NoticeIs DEF NoticeInv, FailureComes
<1> QED
  BY <1>2, <1>3, <1>4

(* A check that succeeds when the bridge has gone was of another one.      *)
LEMMA EndFailure ==
  ASSUME NoticeInv, TypeOK', SupervisorFits, CheckSucceeds \/ CheckFails
  PROVE  FailureComes'
<1>1. CASE CheckFails
  BY <1>1 DEF CheckFails, FailureComes
<1>2. CASE CheckSucceeds
  <2>1. /\ UNCHANGED <<url, wifi, up, steady>> /\ task # None /\ task' = None
        /\ Reachable(url)' = Reachable(url)
    BY <1>2 DEF CheckSucceeds, worldVars, Reachable
  <2> DEFINE wait == UntilAnyPoll'
  <2> SUFFICES ASSUME wifi, url # None, ~Reachable(url)
               PROVE  steady + wait + CheckTimeout <= Notice
    BY <2>1, NoticeIs DEF FailureComes
  <2>2. StaleCheck
    BY <1>2 DEF CheckSucceeds, StaleCheck
  <2>3. steady <= task.age /\ steady \in Nat /\ task.age \in 0..CheckTimeout
    BY <2>1, <2>2, Times, CheckIs
       DEF TimesBounded, NoticeInv, CadenceInv, AnswerInv, SettledInv, StaleIsOld
  <2>4. wait \in Nat /\ wait <= Supervisor + Held + Slow + Held
    BY AnyPollNext DEF AnyPollBounded
  <2> HIDE DEF wait
  <2> QED
    BY <2>3, <2>4, NoticeIs
<1> QED
  BY <1>1, <1>2

(* No step puts the failure off for longer than it may be.                 *)
LEMMA FailureStep ==
  ASSUME NoticeInv, [Next]_vars, SupervisorFits
  PROVE  FailureComes'
<1>0. TypeOK' /\ TypeOK /\ steady \in Nat
  BY TypeStep, Times DEF NoticeInv, CadenceInv, AnswerInv, SettledInv, TimesBounded
<1>1. CASE OnBoot \/ Disconnect \/ Reboot
  <2>1. ~wifi'
    BY <1>1 DEF OnBoot, Disconnect, Reboot, NoticeInv, CadenceInv, AnswerInv, BootIsOffline,
                worldVars
  <2> QED
    BY <1>0, <2>1, FailureFromStart
<1>2. CASE AdaptiveUpdatePoll
  BY <1>0, <1>2, SuperviseFailure
<1>3. CASE Poll
  <2>1. source' = url /\ Check(url) /\ UNCHANGED <<url, steady, error, wifi, up>>
    BY <1>3 DEF Poll, Idle, worldVars, NoticeInv, CadenceInv, AnswerInv, SettledInv, Follows,
                SourceApplied
  <2> QED
    BY <1>0, <2>1, AskFailure
<1>4. CASE Update
  <2>1. CASE url = None
    BY <1>4, <2>1 DEF Update, FailureComes
  <2>2. CASE url # None
    <3>1. source' = url /\ Check(url) /\ UNCHANGED <<url, steady, error, wifi, up>>
      BY <1>4, <2>2 DEF Update, ApplyUpdateSource, CheckNow, worldVars
    <3> QED
      BY <1>0, <3>1, AskFailure
  <2> QED
    BY <2>1, <2>2
<1>5. CASE CheckSucceeds \/ CheckFails
  BY <1>0, <1>5, EndFailure
<1>6. CASE Elapse
  BY <1>0, <1>6, ElapseFailure
<1>7. CASE Connect
  BY <1>0, <1>7, FailureFromStart DEF Connect
<1>8. CASE Press \/ Request
  BY <1>0, <1>8, BlockFailure DEF Press, Request, Idle
<1>9. ASSUME NEW u \in URLs, EditURL(u) PROVE FailureComes'
  <2>1. CASE u = url
    BY <1>0, <1>9, <2>1, BlockFailure DEF EditURL, Idle
  <2>2. CASE u # url
    BY <1>0, <1>9, <2>2, FailureFromStart DEF EditURL
  <2> QED
    BY <2>1, <2>2
<1>10. ASSUME NEW hit, Spoil(hit), Reachable(url)' = Reachable(url),
              UNCHANGED <<url, pollerVars, fastFor, superviseIn, error, last, busy, wifi, steady>>
       PROVE  FailureComes'
  <2>1. UntilAnyPoll' = UntilAnyPoll /\ UntilAnyPoll \in Nat
    <3>1. UntilAnyPoll' = UntilAnyPoll
      BY <1>10 DEF UntilAnyPoll, FastPolling, PollIsKept, SlowIsKept, Outlasts, Fires, Held, Less,
                   Larger, pollerVars
    <3> QED
      BY <1>0, <3>1, AnyPoll DEF AnyPollBounded
  <2>2. /\ task = None <=> task' = None
        /\ task # None => /\ task'.source = task.source /\ task.age \in Nat
                          /\ task'.age - steady' >= task.age - steady /\ task'.age \in Nat
    BY <1>0, <1>10, SpoilKeeps, CheckIs
  <2> QED
    BY <1>0, <1>10, <2>1, <2>2, FailureKept
<1>11. ASSUME NEW b \in Bridges, Flip(b) PROVE FailureComes'
  <2>1. CASE b = url
    BY <1>0, <1>11, <2>1, FailureFromStart DEF Flip
  <2>2. CASE b # url
    <3>1. Reachable(url)' = Reachable(url)
      BY <1>0, <1>11, <2>2 DEF Flip, Reachable, TypeOK, CheckTypes, WorldTypes, URLs
    <3> QED
      BY <1>10, <1>11, <2>2, <3>1 DEF Flip, loopVars
  <2> QED
    BY <2>1, <2>2
<1>12. CASE UNCHANGED vars
  <2>1. Spoil(FALSE) /\ Reachable(url)' = Reachable(url)
    BY <1>12 DEF vars, checkVars, worldVars, Spoil, Reachable
  <2> QED
    BY <1>10, <1>12, <2>1 DEF vars, checkVars, loopVars, worldVars
<1> QED
  BY <1>1, <1>2, <1>3, <1>4, <1>5, <1>6, <1>7, <1>8, <1>9, <1>11, <1>12 DEF Next

(* The cadence's invariant, from the start on.                             *)
LEMMA CadenceStep == ChainFits => (CadenceInv /\ [Next]_vars => CadenceInv')
  BY TypeStep, FollowsStep, SettledStep, OfflineStep, AnswerStep, UnknownStep, RestartStep
     DEF CadenceInv, AnswerInv, SettledInv

(* And in the initial state.                                               *)
LEMMA CadenceInit == Init => CadenceInv
<1> SUFFICES ASSUME Init PROVE CadenceInv
  OBVIOUS
<1>1. SettledInv
  BY InitSettled
<1> QED
  BY <1>1 DEF Init, CadenceInv, AnswerInv, BootIsOffline, StaleIsOld, AnswerComes, Reachable,
              UnknownIsFast, WindowOutlastsRestart

(* A bridge that has gone is noticed within a check of another, one poll   *)
(* put off and a check that fails (NoticedInTime).                         *)
THEOREM MissedInTime == ChainFits /\ SupervisorFits => (Spec => []NoticedInTime)
<1> SUFFICES ASSUME ChainFits, SupervisorFits PROVE Spec => []NoticedInTime
  OBVIOUS
<1>1. Init => NoticeInv
  BY CadenceInit DEF Init, NoticeInv, FailureComes
<1>2. NoticeInv /\ [Next]_vars => NoticeInv'
  BY CadenceStep, FailureStep DEF NoticeInv
<1>3. NoticeInv => NoticedInTime
  <2> SUFFICES ASSUME NoticeInv, wifi, url # None, ~Reachable(url), steady > Notice, ~error
               PROVE  FALSE
    BY DEF NoticedInTime
  <2>1. /\ steady \in Nat /\ UntilAnyPoll \in Nat
        /\ task # None => task.age \in 0..CheckTimeout
    BY Times, AnyPoll, CheckIs
       DEF TimesBounded, AnyPollBounded, NoticeInv, CadenceInv, AnswerInv, SettledInv
  <2>2. CASE task = None
    <3>1. steady + UntilAnyPoll + CheckTimeout <= Notice
      BY <2>2 DEF NoticeInv, FailureComes
    <3> QED
      BY <2>1, <3>1, NoticeIs
  <2>3. CASE task # None /\ task.source = url
    <3>1. steady + (CheckTimeout - task.age) <= Notice
      BY <2>3 DEF NoticeInv, FailureComes
    <3> QED
      BY <2>1, <2>3, <3>1, NoticeIs
  <2>4. CASE task # None /\ task.source # url
    <3>1. steady <= task.age
      BY <2>4 DEF NoticeInv, CadenceInv, AnswerInv, StaleIsOld, StaleCheck
    <3> QED
      BY <2>1, <2>4, <3>1, NoticeIs
  <2> QED
    BY <2>2, <2>3, <2>4
<1> QED
  BY <1>1, <1>2, <1>3, PTL DEF Spec

-----------------------------------------------------------------------------
(* Why the fast cadence ends.  The window opens when the script gets to    *)
(* the new URL, which is no later than the loop can be held; a deadline    *)
(* that has passed is cleared by the supervisor long before the clock      *)
(* brings it back; and once there is word of the bridge and no window, the *)
(* supervisor settles for the slow cadence.                                *)
PendingIsNew == url # source => steady + busy <= MaxBlock
DeadlineIsCleared ==
  url # None /\ source = url /\ fastFor # NoDeadline =>
    \/ fastFor <= Window /\ steady + fastFor <= Late(Window)
    \/ fastFor >= (Wrap \div 2) + Fires(superviseIn)
FastEnds ==
  Reachable(url) /\ interval = Fast =>
    steady + Fires(superviseIn) <= Larger(Recovery, Late(Window)) + Supervisor + Held

SlowInv == AnswerInv /\ PendingIsNew /\ DeadlineIsCleared /\ FastEnds

(* The supervisor comes round well within half the clock.                  *)
ClockFits == Late(Supervisor) < Wrap \div 2

(* A script that is pending has not been for longer than the loop is held. *)
LEMMA PendingStep ==
  ASSUME SettledInv, PendingIsNew, [Next]_vars
  PROVE  PendingIsNew'
<1> DEFINE now == steady'
           held == busy'
<1>1. /\ steady \in Nat /\ busy \in Nat /\ MaxBlock \in Nat /\ now \in Nat
      /\ held \in Nat /\ held <= MaxBlock
  <2>1. TypeOK'
    BY TypeStep DEF SettledInv
  <2>2. busy' \in 0..MaxBlock
    BY <2>1 DEF TypeOK, WorldTypes
  <2> QED
    BY <2>1, <2>2, Times, TimesNext, PanelAssumption DEF SettledInv, TimesBounded
<1>2. doing # "update" => source = url
  BY Zenon DEF SettledInv, Follows, SourceApplied
<1>3. MaxBlock' = MaxBlock
  OBVIOUS
<1> SUFFICES ASSUME url' # source' PROVE now + held <= MaxBlock
  BY <1>3, Zenon DEF PendingIsNew
<1>4. CASE UNCHANGED <<url, source, busy>> /\ now \in {steady, 0}
  <2>1. steady + busy <= MaxBlock /\ held = busy
    BY <1>4 DEF PendingIsNew
  <2> HIDE DEF now, held
  <2> QED
    BY <1>1, <1>4, <2>1
<1>5. ~OnBoot /\ ~AdaptiveUpdatePoll /\ ~Poll /\ ~Connect /\ ~Update /\ ~Press /\ ~Request
      /\ ~Reboot
  BY <1>2 DEF OnBoot, AdaptiveUpdatePoll, Poll, Connect, Update, ApplyUpdateSource, Press, Request,
              Reboot, Idle
<1>6. ASSUME NEW u \in URLs, EditURL(u) PROVE now + held <= MaxBlock
  <2>1. u # url
    BY <1>2, <1>6 DEF EditURL, Idle
  <2>2. now = 0
    BY <1>6, <2>1 DEF EditURL
  <2> HIDE DEF now, held
  <2> QED
    BY <1>1, <2>2
<1>7. CASE CheckSucceeds \/ CheckFails \/ Disconnect \/ UNCHANGED vars
  BY <1>4, <1>7 DEF CheckSucceeds, CheckFails, Disconnect, vars, loopVars
<1>8. ASSUME NEW b \in Bridges, Flip(b) PROVE now + held <= MaxBlock
  BY <1>4, <1>8 DEF Flip, loopVars
<1>9. CASE Elapse
  <2>1. url # source
    BY <1>9 DEF Elapse
  <2>2. busy # 0 /\ steady + busy <= MaxBlock
    BY <1>2, <1>9, <2>1 DEF Elapse, PendingIsNew
  <2>3. held = busy - 1
    BY <1>1, <1>9, <2>2 DEF Elapse, Less, Larger
  <2>4. now \in {steady, steady + 1}
    BY <1>9, ElapseShortens DEF SettledInv
  <2> HIDE DEF now, held
  <2> QED
    BY <1>1, <2>2, <2>3, <2>4
<1> QED
  BY <1>5, <1>6, <1>7, <1>8, <1>9 DEF Next

(* The window runs down with steady, and when it is over it is cleared.    *)
LEMMA DeadlineStep ==
  ASSUME SettledInv, PendingIsNew, DeadlineIsCleared, [Next]_vars, ClockFits
  PROVE  DeadlineIsCleared'
<1> DEFINE now == steady'
           left == fastFor'
           due == Fires(superviseIn)'
<1>0. /\ TypeOK' /\ busy' \in 0..MaxBlock /\ now \in Nat /\ left \in Int /\ due \in Nat
      /\ steady \in Nat /\ fastFor \in Int /\ Fires(superviseIn) \in Nat
      /\ Fires(superviseIn) <= Supervisor + Held /\ Late(Window)' = Late(Window)
      /\ Late(Window) = Window + MaxBlock /\ Wrap' = Wrap /\ Window' = Window
  <2>1. TypeOK'
    BY TypeStep DEF SettledInv
  <2>2. left \in Int /\ fastFor \in Int /\ busy' \in 0..MaxBlock
    BY <2>1, PanelAssumption DEF SettledInv, TypeOK, WindowTypes, WorldTypes, NoDeadline
  <2> QED
    BY <2>1, <2>2, Times, TimesNext DEF SettledInv, TimesBounded, Late
<1>1. /\ Wrap \in Nat /\ Wrap \div 2 \in Nat /\ 2 * (Wrap \div 2) <= Wrap /\ Window < Wrap \div 2
      /\ Window \in Nat /\ MaxBlock \in Nat /\ Supervisor \in Nat /\ Held \in Nat
      /\ Held <= MaxBlock /\ Supervisor + MaxBlock < Wrap \div 2
  BY HeldIsNat, PanelAssumption DEF ClockFits, Late
<1> SUFFICES ASSUME url' # None, source' = url', left # NoDeadline
             PROVE  \/ left <= Window /\ now + left <= Late(Window)
                    \/ left >= (Wrap \div 2) + due
  BY <1>0 DEF DeadlineIsCleared
<1>2. CASE /\ UNCHANGED <<url, source, fastFor>> /\ now <= steady /\ due <= Fires(superviseIn)
  <2> HIDE DEF now, due
  <2>1. \/ fastFor <= Window /\ steady + fastFor <= Late(Window)
        \/ fastFor >= (Wrap \div 2) + Fires(superviseIn)
    BY <1>2 DEF DeadlineIsCleared
  <2> QED
    BY <1>0, <1>1, <1>2, <2>1
<1>3. ASSUME UNCHANGED <<superviseIn, busy>> PROVE due = Fires(superviseIn)
  BY <1>3 DEF Fires, Held, Less, Larger
<1>4. CASE OnBoot \/ AdaptiveUpdatePoll
  <2>1. /\ SyncUpdateCadence /\ url # None /\ source = url /\ now = steady
        /\ left = ExpireDeadline
    BY <1>4 DEF OnBoot, AdaptiveUpdatePoll, SyncUpdateCadence
  <2>2. WindowOpen /\ left = fastFor /\ fastFor < Wrap \div 2 /\ fastFor # NoDeadline
    BY <1>0, <1>1, <2>1 DEF ExpireDeadline, WindowOpen, NoDeadline
  <2>3. fastFor <= Window /\ steady + fastFor <= Late(Window)
    BY <1>0, <1>1, <2>1, <2>2 DEF DeadlineIsCleared
  <2> QED
    BY <2>1, <2>2, <2>3
<1>5. CASE Poll \/ CheckSucceeds \/ CheckFails \/ UNCHANGED vars
  BY <1>0, <1>2, <1>3, <1>5 DEF Poll, CheckSucceeds, CheckFails, vars, pollerVars, loopVars
<1>6. CASE Disconnect \/ (\E b \in Bridges : Flip(b))
  <2>1. UNCHANGED <<url, source, fastFor, superviseIn, busy>> /\ now \in {0, steady}
    BY <1>6 DEF Disconnect, Flip, loopVars
  <2> QED
    BY <1>0, <1>2, <1>3, <2>1
<1>7. CASE Connect \/ Press \/ Request
  <2>1. /\ busy = 0 /\ ~Due /\ UNCHANGED <<url, source, fastFor, pollerVars, superviseIn>>
        /\ now \in {0, steady}
    BY <1>7 DEF Connect, Press, Request, Idle
  <2>2. due <= Fires(superviseIn)
    BY <1>0, <2>1, BlockShortens DEF SettledInv
  <2> QED
    BY <1>0, <1>2, <2>1, <2>2
<1>8. ASSUME NEW u \in URLs, EditURL(u)
      PROVE  \/ left <= Window /\ now + left <= Late(Window)
             \/ left >= (Wrap \div 2) + due
  <2>1. /\ busy = 0 /\ ~Due /\ source = url
        /\ UNCHANGED <<url, source, fastFor, pollerVars, superviseIn>> /\ now = steady
    BY <1>8 DEF EditURL, Idle, SettledInv, Follows, SourceApplied
  <2>2. due <= Fires(superviseIn)
    BY <1>0, <2>1, BlockShortens DEF SettledInv
  <2> QED
    BY <1>0, <1>2, <2>1, <2>2
<1>9. CASE Update
  <2>1. UNCHANGED <<url, superviseIn, busy, steady>> /\ url # None
    BY <1>9 DEF Update
  <2>2. CASE url = source
    BY <1>0, <1>2, <1>3, <1>9, <2>1, <2>2 DEF Update, ApplyUpdateSource
  <2>3. CASE url # source
    <3>1. left = Window /\ now = steady
      BY <1>9, <2>1, <2>3 DEF Update, ApplyUpdateSource, OpenWindow
    <3>2. steady <= MaxBlock
      <4>1. busy = 0
        BY <1>9 DEF Update
      <4> QED
        BY <1>0, <2>3, <4>1 DEF PendingIsNew
    <3> QED
      BY <1>0, <1>1, <3>1, <3>2
  <2> QED
    BY <2>2, <2>3
<1>10. CASE Reboot
  <2>1. left = Window /\ now = 0
    BY <1>10 DEF Reboot
  <2> QED
    BY <1>0, <1>1, <2>1
<1>11. CASE Elapse
  <2>1. /\ url # None /\ source = url /\ fastFor # NoDeadline
        /\ now <= steady + 1 /\ due <= Fires(superviseIn) - 1
        /\ left = IF fastFor = 0 THEN Wrap - 1 ELSE fastFor - 1
    BY <1>0, <1>11, ElapseShortens, WindowShortens DEF SettledInv, Elapse
  <2>2. \/ fastFor <= Window /\ steady + fastFor <= Late(Window)
        \/ fastFor >= (Wrap \div 2) + Fires(superviseIn)
    BY <2>1 DEF DeadlineIsCleared
  <2> HIDE DEF now, left, due
  <2> QED
    BY <1>0, <1>1, <2>1, <2>2
<1> QED
  BY <1>4, <1>5, <1>6, <1>7, <1>8, <1>9, <1>10, <1>11 DEF Next

(* The longest the fast cadence lasts once the supervisor has come round.  *)
LEMMA FastIsBounded ==
  ASSUME SlowInv, SyncUpdateCadence, Idle, Reachable(url), interval' = Fast
  PROVE  steady <= Larger(Recovery, Late(Window))
<1>1. /\ steady \in Nat /\ Recovery \in Nat /\ Late(Window) \in Nat /\ CheckTimeout <= Recovery
      /\ UntilPoll \in Nat /\ CheckTimeout \in Nat
      /\ task # None => task.age \in 0..CheckTimeout
  BY Times, CheckIs, PanelAssumption
     DEF TimesBounded, SlowInv, AnswerInv, SettledInv, Recovery, Late
<1>2. url # None /\ wifi /\ source = url
  BY Zenon DEF Reachable, Idle, SlowInv, AnswerInv, SettledInv, Follows, SourceApplied
<1>3. NoWord \/ WindowOpen
  <2>1. Want = Fast
    BY <1>2, SyncPolls DEF SlowInv, AnswerInv, SettledInv, Idle
  <2>2. ~Settled
    BY <2>1, PanelAssumption DEF Want
  <2> QED
    BY <2>2, Zenon DEF Settled, NoWord
<1>4. CASE NoWord
  <2>1. CASE StaleCheck
    <3>1. steady <= task.age
      BY <1>2, <2>1 DEF SlowInv, AnswerInv, StaleIsOld
    <3> QED
      BY <1>1, <2>1, <3>1 DEF StaleCheck, Larger
  <2>2. CASE ~StaleCheck
    <3>1. /\ task = None => steady + UntilPoll + CheckTimeout <= Recovery
          /\ task # None => steady + (CheckTimeout - task.age) <= Recovery
      BY <1>4, <2>2 DEF SlowInv, AnswerInv, AnswerComes, Unheard
    <3>2. steady <= Recovery
      BY <1>1, <3>1
    <3> QED
      BY <1>1, <3>2 DEF Larger
  <2> QED
    BY <2>1, <2>2
<1>5. CASE WindowOpen
  <2>1. fastFor \in 1..(Wrap \div 2 - 1) /\ fastFor # NoDeadline
    BY <1>5, PanelAssumption DEF WindowOpen, NoDeadline
  <2>2. Fires(superviseIn) \in Nat /\ Wrap \div 2 \in Nat
    BY Times, PanelAssumption DEF SlowInv, AnswerInv, SettledInv, TimesBounded
  <2>3. \/ fastFor <= Window /\ steady + fastFor <= Late(Window)
        \/ fastFor >= (Wrap \div 2) + Fires(superviseIn)
    BY <1>2, <2>1 DEF SlowInv, DeadlineIsCleared
  <2>4. steady <= Late(Window)
    BY <1>1, <2>1, <2>2, <2>3
  <2> QED
    BY <1>1, <2>4 DEF Larger
<1> QED
  BY <1>3, <1>4, <1>5

(* No step makes the fast cadence last longer than it may.                 *)
LEMMA FastEndsStep ==
  ASSUME SlowInv, [Next]_vars
  PROVE  FastEnds'
<1> DEFINE now == steady'
           due == Fires(superviseIn)'
           limit == Larger(Recovery, Late(Window))
<1>1. /\ TypeOK' /\ TypeOK /\ now \in Nat /\ due \in Nat /\ due <= Supervisor + Held
      /\ steady \in Nat /\ Fires(superviseIn) \in Nat
      /\ Supervisor \in Nat \ {0} /\ Held \in Nat /\ limit \in Nat
  <2>1. TypeOK' /\ TypeOK
    BY TypeStep DEF SlowInv, AnswerInv, SettledInv
  <2>2. Supervisor \in Nat \ {0} /\ Held \in Nat /\ limit \in Nat
    BY HeldIsNat, PanelAssumption DEF Larger, Recovery, Late
  <2>3. Held' = Held
    BY DEF Held, Less, Larger
  <2> QED
    BY <2>1, <2>2, <2>3, Times, TimesNext DEF TimesBounded
<1>2. limit' = limit /\ Supervisor' = Supervisor /\ Held' = Held
  BY DEF Larger, Recovery, Late, Held, Less
<1> SUFFICES ASSUME Reachable(url)', interval' = Fast
             PROVE  now + due <= limit + Supervisor + Held
  BY <1>2 DEF FastEnds
<1>3. CASE now = 0
  <2> HIDE DEF now, due, limit
  <2> QED
    BY <1>1, <1>3
<1>4. CASE Reachable(url) /\ interval' = interval /\ now <= steady /\ due <= Fires(superviseIn)
  <2>1. steady + Fires(superviseIn) <= limit + Supervisor + Held
    BY <1>4 DEF SlowInv, FastEnds
  <2> HIDE DEF now, due, limit
  <2> QED
    BY <1>1, <1>4, <2>1
<1>5. ASSUME UNCHANGED <<superviseIn, busy>> PROVE due = Fires(superviseIn)
  BY <1>5, <1>2 DEF Fires
<1>6. ~OnBoot /\ ~Disconnect /\ ~Reboot
  BY DEF OnBoot, Disconnect, Reboot, Reachable, SlowInv, AnswerInv, BootIsOffline, worldVars
<1>7. CASE AdaptiveUpdatePoll
  <2>1. SyncUpdateCadence /\ Idle /\ now = steady /\ superviseIn' = Supervisor /\ busy' = 0
    BY <1>7 DEF AdaptiveUpdatePoll, loopVars, Idle
  <2>2. Reachable(url)
    BY <1>7 DEF AdaptiveUpdatePoll, worldVars, Reachable
  <2>3. steady <= limit
    BY <2>1, <2>2, FastIsBounded
  <2> HIDE DEF now, due, limit
  <2> QED
    BY <1>1, <2>1, <2>3
<1>8. CASE Poll \/ Update \/ CheckSucceeds \/ CheckFails \/ UNCHANGED vars
  <2>1. /\ Reachable(url) /\ interval' = interval /\ now = steady
        /\ UNCHANGED <<superviseIn, busy>>
    BY <1>8 DEF Poll, Update, ApplyUpdateSource, CheckSucceeds, CheckFails, vars, pollerVars,
                loopVars, worldVars, Reachable
  <2> QED
    BY <1>1, <1>4, <1>5, <2>1
<1>9. CASE Connect
  BY <1>3, <1>9 DEF Connect
<1>10. CASE Press \/ Request
  <2>1. busy' \in 0..MaxBlock
    BY <1>10, PanelAssumption DEF Press, Request
  <2>2. /\ busy = 0 /\ ~Due /\ UNCHANGED <<url, wifi, up, steady, pollerVars, superviseIn>>
    BY <1>10 DEF Press, Request, Idle, worldVars
  <2>3. Reachable(url) /\ now = steady /\ interval' = interval
    BY <2>2 DEF Reachable, pollerVars
  <2>4. due <= Fires(superviseIn)
    BY <1>1, <2>1, <2>2, BlockShortens
  <2> QED
    BY <1>1, <1>4, <2>3, <2>4
<1>11. ASSUME NEW u \in URLs, EditURL(u) PROVE now + due <= limit + Supervisor + Held
  <2>1. CASE u # url
    BY <1>3, <1>11, <2>1 DEF EditURL
  <2>2. CASE u = url
    <3>1. /\ busy = 0 /\ ~Due /\ busy' \in 0..MaxBlock /\ UNCHANGED <<pollerVars, superviseIn>>
          /\ Reachable(url) /\ now = steady /\ interval' = interval
      BY <1>11, <2>2, PanelAssumption DEF EditURL, Idle, worldVars, Reachable, pollerVars
    <3>2. due <= Fires(superviseIn)
      BY <1>1, <3>1, BlockShortens
    <3> QED
      BY <1>1, <1>4, <3>1, <3>2
  <2> QED
    BY <2>1, <2>2
<1>12. ASSUME NEW b \in Bridges, Flip(b) PROVE now + due <= limit + Supervisor + Held
  <2>1. CASE b = url
    BY <1>3, <1>12, <2>1 DEF Flip
  <2>2. CASE b # url
    <3>1. Reachable(url)
      BY <1>1, <1>12, <2>2 DEF Flip, Reachable, TypeOK, CheckTypes, WorldTypes, URLs
    <3>2. interval' = interval /\ now = steady /\ UNCHANGED <<superviseIn, busy>>
      BY <1>12, <2>2 DEF Flip, pollerVars, loopVars
    <3> QED
      BY <1>1, <1>4, <1>5, <3>1, <3>2
  <2> QED
    BY <2>1, <2>2
<1>13. CASE Elapse
  <2>1. Reachable(url) /\ interval = Fast
    BY <1>13 DEF Elapse, worldVars, Reachable
  <2>2. steady + Fires(superviseIn) <= limit + Supervisor + Held
    BY <2>1 DEF SlowInv, FastEnds
  <2>3. now \in {steady, steady + 1} /\ due <= Fires(superviseIn) - 1
    BY <1>1, <1>13, ElapseShortens
  <2> HIDE DEF now, due, limit
  <2> QED
    BY <1>1, <2>2, <2>3
<1> QED
  BY <1>6, <1>7, <1>8, <1>9, <1>10, <1>11, <1>12, <1>13 DEF Next

(* The slow cadence returns within a supervisor's round of the last word   *)
(* to come or of the window's end, whichever is later, and stays: neither  *)
(* the clock's wrapping nor anything else brings the fast one back         *)
(* (SettlesAgain).                                                         *)
THEOREM SettlesInTime == ChainFits /\ ClockFits => (Spec => []SettlesAgain)
<1> SUFFICES ASSUME ChainFits, ClockFits PROVE Spec => []SettlesAgain
  OBVIOUS
<1>1. Init => SlowInv
  <2> SUFFICES ASSUME Init PROVE SlowInv
    OBVIOUS
  <2>1. AnswerInv
    BY CadenceInit DEF CadenceInv
  <2> QED
    BY <2>1 DEF Init, SlowInv, PendingIsNew, DeadlineIsCleared, FastEnds, Reachable
<1>2. SlowInv /\ [Next]_vars => SlowInv'
  <2> SUFFICES ASSUME SlowInv, [Next]_vars PROVE SlowInv'
    OBVIOUS
  <2>1. AnswerInv'
    BY TypeStep, FollowsStep, SettledStep, OfflineStep, AnswerStep
       DEF SlowInv, AnswerInv, SettledInv
  <2> QED
    BY <2>1, PendingStep, DeadlineStep, FastEndsStep DEF SlowInv, AnswerInv
<1>3. SlowInv => SettlesAgain
  <2> SUFFICES ASSUME SlowInv, Reachable(url), steady > Settling, interval # Slow
               PROVE  FALSE
    BY DEF SettlesAgain
  <2> DEFINE limit == Larger(Recovery, Late(Window))
  <2>1. interval = Fast
    BY DEF SlowInv, AnswerInv, SettledInv, TypeOK, PollerTypes
  <2>2. steady + Fires(superviseIn) <= limit + Supervisor + Held
    BY <2>1 DEF SlowInv, FastEnds
  <2>3. /\ steady \in Nat /\ Fires(superviseIn) \in Nat
        /\ Held \in Nat /\ Held <= MaxBlock /\ MaxBlock \in Nat /\ Supervisor \in Nat
        /\ limit \in Nat /\ Settling = limit + (Supervisor + MaxBlock)
    BY Times, HeldIsNat, PanelAssumption
       DEF SlowInv, AnswerInv, SettledInv, TimesBounded, Settling, Larger, Recovery, Late
  <2> HIDE DEF limit
  <2> QED
    BY <2>2, <2>3
<1> QED
  BY <1>1, <1>2, <1>3, PTL DEF Spec
=============================================================================
