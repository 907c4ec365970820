------------------------- MODULE ScanPipelineProofs -------------------------
(***************************************************************************)
(* The safety properties of ScanPipeline for any number of requests,       *)
(* sheets and destinations, every profile and every pattern of kills, and  *)
(* that it implements ScanService.                                         *)
(*                                                                         *)
(* Each group of variables is changed by a few actions only; the ...Moves  *)
(* lemmas say which, and every invariant below argues over those.          *)
(***************************************************************************)
EXTENDS ScanPipeline, FiniteSetTheorems, TLAPS

(* Who touches the feeder. *)
LEMMA FeederMoves ==
  ASSUME [Next]_vars
  PROVE  UNCHANGED feederVars \/ LoadSheet \/ \E r \in Requests : FeedSheet(r)
<1>1. CASE UNCHANGED vars
  BY <1>1 DEF vars, feederVars
<1>2. CASE KillBridge \/ KillSane \/ KillProc
  BY <1>2 DEF KillBridge, KillSane, KillProc
<1>3. ASSUME NEW r \in Requests,
             PostScan(r) \/ Disconnect(r) \/ Expire(r) \/ SaneTryLock(r) \/ NoScanner(r)
               \/ ScanDone(r) \/ ScanFails(r) \/ ScanKilled(r) \/ ScanWritten(r)
      PROVE  UNCHANGED feederVars
  BY <1>3 DEF PostScan, Disconnect, Expire, EndContext, SaneTryLock, NoScanner, ScanDone,
              ScanFails, ScanKilled, ScanWritten, EndScan
<1>4. ASSUME NEW r \in Requests,
             ProcTryLock(r) \/ ProcDone(r) \/ ProcFails(r) \/ ProcKilled(r) \/ ProcWritten(r)
      PROVE  UNCHANGED feederVars
  BY <1>4 DEF ProcTryLock, ProcDone, ProcFails, ProcKilled, ProcWritten, EndProcess
<1>5. ASSUME NEW r \in Requests, Handler(r) \/ CallTimesOut(r)
      PROVE  UNCHANGED feederVars
  BY <1>5 DEF Handler, CallTimesOut, ReadPage, DispatchReturns, DispatchFails, ReadDocument,
              ProcessReturns, ProcessFails, Deliver, Report, AnswerScan, Cleanup, Finish
<1> QED
  BY <1>1, <1>2, <1>3, <1>4, <1>5 DEF Next

(* Who touches sane-runtime's side, and with which replies. *)
LEMMA ScanMoves ==
  ASSUME [Next]_vars
  PROVE  \/ UNCHANGED saneVars
         \/ KillSane
         \/ \E r \in Requests :
              \/ PostScan(r) \/ SaneTryLock(r) \/ ScanDone(r) \/ ScanWritten(r)
              \/ NoScanner(r)
              \/ \E reply \in ScanReply \ {"busy", "no_scanner"} : EndScan(r, reply)
<1>1. CASE UNCHANGED vars
  BY <1>1 DEF vars, saneVars
<1>2. CASE LoadSheet \/ KillBridge \/ KillProc
  BY <1>2 DEF LoadSheet, KillBridge, KillProc
<1>3. ASSUME NEW r \in Requests, Disconnect(r) \/ Expire(r) \/ FeedSheet(r)
      PROVE  UNCHANGED saneVars
  BY <1>3 DEF Disconnect, Expire, EndContext, FeedSheet
<1>4. ASSUME NEW r \in Requests, ScanFails(r) \/ ScanKilled(r)
      PROVE  \E reply \in ScanReply \ {"busy", "no_scanner"} : EndScan(r, reply)
  BY <1>4 DEF ScanFails, ScanKilled, ScanReply
<1>5. ASSUME NEW r \in Requests,
             ProcTryLock(r) \/ ProcDone(r) \/ ProcFails(r) \/ ProcKilled(r) \/ ProcWritten(r)
      PROVE  UNCHANGED saneVars
  BY <1>5 DEF ProcTryLock, ProcDone, ProcFails, ProcKilled, ProcWritten, EndProcess
<1>6. ASSUME NEW r \in Requests, Handler(r) \/ CallTimesOut(r)
      PROVE  UNCHANGED saneVars
  BY <1>6 DEF Handler, CallTimesOut, ReadPage, DispatchReturns, DispatchFails, ReadDocument,
              ProcessReturns, ProcessFails, Deliver, Report, AnswerScan, Cleanup, Finish
<1> QED
  BY <1>1, <1>2, <1>3, <1>4, <1>5, <1>6 DEF Next

(* Who touches scan-processor's side. *)
LEMMA ProcMoves ==
  ASSUME [Next]_vars
  PROVE  \/ UNCHANGED procVars
         \/ KillProc
         \/ \E r \in Requests :
              \/ DispatchReturns(r) \/ ProcTryLock(r) \/ ProcDone(r) \/ ProcWritten(r)
              \/ \E reply \in ProcReply : EndProcess(r, reply)
<1>1. CASE UNCHANGED vars
  BY <1>1 DEF vars, procVars
<1>2. CASE LoadSheet \/ KillBridge \/ KillSane
  BY <1>2 DEF LoadSheet, KillBridge, KillSane
<1>3. ASSUME NEW r \in Requests,
             PostScan(r) \/ Disconnect(r) \/ Expire(r) \/ SaneTryLock(r) \/ NoScanner(r)
               \/ FeedSheet(r) \/ ScanDone(r) \/ ScanFails(r) \/ ScanKilled(r) \/ ScanWritten(r)
      PROVE  UNCHANGED procVars
  BY <1>3 DEF PostScan, Disconnect, Expire, EndContext, SaneTryLock, NoScanner, FeedSheet,
              ScanDone, ScanFails, ScanKilled, ScanWritten, EndScan
<1>4. ASSUME NEW r \in Requests, ProcFails(r) \/ ProcKilled(r)
      PROVE  \E reply \in ProcReply : EndProcess(r, reply)
  BY <1>4 DEF ProcFails, ProcKilled, ProcReply
<1>5. ASSUME NEW r \in Requests, Handler(r) \/ CallTimesOut(r)
      PROVE  UNCHANGED procVars \/ DispatchReturns(r)
  BY <1>5 DEF Handler, CallTimesOut, ReadPage, DispatchFails, ReadDocument,
              ProcessReturns, ProcessFails, Deliver, Report, AnswerScan, Cleanup, Finish
<1> QED
  BY <1>1, <1>2, <1>3, <1>4, <1>5 DEF Next

(* Who touches what a handler has on disk, and what it has delivered. *)
LEMMA OutputMoves ==
  ASSUME [Next]_vars
  PROVE  \/ UNCHANGED <<pages, documents, results, accepted>>
         \/ \E r \in Requests : ReadPage(r) \/ ReadDocument(r) \/ Deliver(r) \/ Cleanup(r)
<1>1. CASE UNCHANGED vars
  BY <1>1 DEF vars
<1>2. CASE LoadSheet \/ KillBridge \/ KillSane \/ KillProc
  BY <1>2 DEF LoadSheet, KillBridge, KillSane, KillProc, bridgeVars
<1>3. ASSUME NEW r \in Requests,
             PostScan(r) \/ Disconnect(r) \/ Expire(r) \/ SaneTryLock(r) \/ NoScanner(r)
               \/ FeedSheet(r) \/ ScanDone(r) \/ ScanFails(r) \/ ScanKilled(r) \/ ScanWritten(r)
      PROVE  UNCHANGED <<pages, documents, results, accepted>>
  BY <1>3 DEF PostScan, Disconnect, Expire, EndContext, SaneTryLock, NoScanner, FeedSheet,
              ScanDone, ScanFails, ScanKilled, ScanWritten, EndScan, bridgeVars
<1>4. ASSUME NEW r \in Requests,
             ProcTryLock(r) \/ ProcDone(r) \/ ProcFails(r) \/ ProcKilled(r) \/ ProcWritten(r)
      PROVE  UNCHANGED <<pages, documents, results, accepted>>
  BY <1>4 DEF ProcTryLock, ProcDone, ProcFails, ProcKilled, ProcWritten, EndProcess, bridgeVars
<1>5. ASSUME NEW r \in Requests, Handler(r) \/ CallTimesOut(r)
      PROVE  \/ UNCHANGED <<pages, documents, results, accepted>>
             \/ ReadPage(r) \/ ReadDocument(r) \/ Deliver(r) \/ Cleanup(r)
  BY <1>5 DEF Handler, CallTimesOut, DispatchReturns, DispatchFails, ProcessReturns, ProcessFails,
              AnswerScan, Finish
<1> QED
  BY <1>1, <1>2, <1>3, <1>4, <1>5 DEF Next

(* The errors a handler may answer, and from which stage: an answer of     *)
(* sane-runtime's kind only while dispatching, of scan-processor's only    *)
(* while processing.                                                       *)
DispatchFailure(r) ==
  /\ stage[r] = "dispatch"
  /\ \E a \in Answer \ {"ok"} :
       /\ Finish(r, a)
       /\ a = "scanner_busy" => scan[r] = "busy"
       /\ a = "no_scanner_detected" => scan[r] = "no_scanner"

ProcessFailure(r) ==
  /\ stage[r] = "process"
  /\ \E a \in Answer \ {"ok", "scanner_busy", "no_scanner_detected"} : Finish(r, a)

(* Who touches the handler itself. *)
LEMMA StageMoves ==
  ASSUME [Next]_vars
  PROVE  \/ UNCHANGED <<stage, answer>>
         \/ KillBridge
         \/ \E r \in Requests :
              \/ PostScan(r) \/ DispatchReturns(r) \/ DispatchFailure(r)
              \/ ProcessReturns(r) \/ ProcessFailure(r) \/ AnswerScan(r) \/ Cleanup(r)
<1>1. CASE UNCHANGED vars
  BY <1>1 DEF vars
<1>2. CASE LoadSheet \/ KillSane \/ KillProc
  BY <1>2 DEF LoadSheet, KillSane, KillProc, bridgeVars
<1>3. ASSUME NEW r \in Requests,
             Disconnect(r) \/ Expire(r) \/ SaneTryLock(r) \/ NoScanner(r)
               \/ FeedSheet(r) \/ ScanDone(r) \/ ScanFails(r) \/ ScanKilled(r) \/ ScanWritten(r)
      PROVE  UNCHANGED <<stage, answer>>
  BY <1>3 DEF Disconnect, Expire, EndContext, SaneTryLock, NoScanner, FeedSheet,
              ScanDone, ScanFails, ScanKilled, ScanWritten, EndScan, bridgeVars
<1>4. ASSUME NEW r \in Requests,
             ProcTryLock(r) \/ ProcDone(r) \/ ProcFails(r) \/ ProcKilled(r) \/ ProcWritten(r)
      PROVE  UNCHANGED <<stage, answer>>
  BY <1>4 DEF ProcTryLock, ProcDone, ProcFails, ProcKilled, ProcWritten, EndProcess, bridgeVars
<1>5. ASSUME NEW r \in Requests, DispatchFails(r) PROVE DispatchFailure(r)
  BY <1>5 DEF DispatchFails, DispatchFailure, DispatchAnswer, CallErrors, ScanReply, Answer, Status
<1>6. ASSUME NEW r \in Requests, ProcessFails(r) PROVE ProcessFailure(r)
  BY <1>6 DEF ProcessFails, ProcessFailure, ProcessAnswer, CallErrors, ProcReply, Answer, Status
<1>7. ASSUME NEW r \in Requests, ReadPage(r) \/ ReadDocument(r) \/ Deliver(r)
      PROVE  UNCHANGED <<stage, answer>>
  BY <1>7 DEF ReadPage, ReadDocument, Deliver, Report
<1>8. ASSUME NEW r \in Requests, CallTimesOut(r) PROVE DispatchFailure(r) \/ ProcessFailure(r)
  BY <1>8 DEF CallTimesOut, DispatchFailure, ProcessFailure, Answer, Status
<1> QED
  BY <1>1, <1>2, <1>3, <1>4, <1>5, <1>6, <1>7, <1>8 DEF Next, Handler

-----------------------------------------------------------------------------
(* Type correctness, part by part. *)

(* The feeder's counters stay in order and its sheets belong to requests.  *)
LEMMA FeederTypesStep == TypeOK /\ [Next]_vars => FeederTypes'
<1> SUFFICES ASSUME TypeOK, [Next]_vars PROVE FeederTypes'
  OBVIOUS
<1> USE ProfileAssumption, NoneAssumption DEF TypeOK, FeederTypes, Sheets
<1>1. CASE UNCHANGED feederVars
  BY <1>1 DEF feederVars
<1>2. CASE LoadSheet
  BY <1>2 DEF LoadSheet
<1>3. ASSUME NEW r \in Requests, FeedSheet(r) PROVE FeederTypes'
  BY <1>3 DEF FeedSheet, FeederEmpty
<1> QED
  BY <1>1, <1>2, <1>3, FeederMoves

(* A call's state on either far side stays one the handlers know.          *)
LEMMA CallTypesStep == TypeOK /\ [Next]_vars => CallTypes'
<1> SUFFICES ASSUME TypeOK, [Next]_vars PROVE CallTypes'
  OBVIOUS
<1> USE ProfileAssumption, NoneAssumption DEF TypeOK, CallTypes
<1>1. scan' \in [Requests -> Call \cup ScanReply] /\ scanLock' \in Requests \cup {None}
  <2> USE DEF Call
  <2>1. CASE UNCHANGED saneVars
    BY <2>1 DEF saneVars
  <2>2. CASE KillSane
    BY <2>2 DEF KillSane
  <2>3. ASSUME NEW r \in Requests,
               PostScan(r) \/ SaneTryLock(r) \/ ScanDone(r) \/ ScanWritten(r)
        PROVE  scan' \in [Requests -> Call \cup ScanReply] /\ scanLock' \in Requests \cup {None}
    BY <2>3 DEF PostScan, SaneTryLock, ScanDone, ScanWritten, ScanReply
  <2>4. ASSUME NEW r \in Requests, NEW reply \in ScanReply, EndScan(r, reply)
        PROVE  scan' \in [Requests -> Call \cup ScanReply] /\ scanLock' \in Requests \cup {None}
    BY <2>4 DEF EndScan
  <2>5. ASSUME NEW r \in Requests, NoScanner(r)
        PROVE  \E reply \in ScanReply : EndScan(r, reply)
    BY <2>5 DEF NoScanner, ScanReply
  <2> QED
    BY <2>1, <2>2, <2>3, <2>4, <2>5, ScanMoves
<1>2. proc' \in [Requests -> Call \cup ProcReply] /\ procLock' \in Requests \cup {None}
  <2> USE DEF Call
  <2>1. CASE UNCHANGED procVars
    BY <2>1 DEF procVars
  <2>2. CASE KillProc
    BY <2>2 DEF KillProc
  <2>3. ASSUME NEW r \in Requests,
               DispatchReturns(r) \/ ProcTryLock(r) \/ ProcDone(r) \/ ProcWritten(r)
        PROVE  proc' \in [Requests -> Call \cup ProcReply] /\ procLock' \in Requests \cup {None}
    BY <2>3 DEF DispatchReturns, ProcTryLock, ProcDone, ProcWritten, ProcReply
  <2>4. ASSUME NEW r \in Requests, NEW reply \in ProcReply, EndProcess(r, reply)
        PROVE  proc' \in [Requests -> Call \cup ProcReply] /\ procLock' \in Requests \cup {None}
    BY <2>4 DEF EndProcess
  <2> QED
    BY <2>1, <2>2, <2>3, <2>4, ProcMoves
<1>3. crashes' \in 0..MaxCrashes
  <2>1. CASE KillBridge \/ KillSane \/ KillProc
    BY <2>1 DEF KillBridge, KillSane, KillProc
  <2>2. CASE UNCHANGED vars \/ LoadSheet
    BY <2>2 DEF vars, LoadSheet
  <2>3. ASSUME NEW r \in Requests,
               PostScan(r) \/ Disconnect(r) \/ Expire(r) \/ SaneTryLock(r) \/ NoScanner(r)
                 \/ FeedSheet(r) \/ ScanDone(r) \/ ScanFails(r) \/ ScanKilled(r) \/ ScanWritten(r)
        PROVE  UNCHANGED crashes
    BY <2>3 DEF PostScan, Disconnect, Expire, EndContext, SaneTryLock, NoScanner, FeedSheet,
                ScanDone, ScanFails, ScanKilled, ScanWritten, EndScan
  <2>4. ASSUME NEW r \in Requests,
               ProcTryLock(r) \/ ProcDone(r) \/ ProcFails(r) \/ ProcKilled(r) \/ ProcWritten(r)
        PROVE  UNCHANGED crashes
    BY <2>4 DEF ProcTryLock, ProcDone, ProcFails, ProcKilled, ProcWritten, EndProcess
  <2>5. ASSUME NEW r \in Requests, Handler(r) \/ CallTimesOut(r)
        PROVE  UNCHANGED crashes
    BY <2>5 DEF Handler, CallTimesOut, ReadPage, DispatchReturns, DispatchFails, ReadDocument,
                ProcessReturns, ProcessFails, Deliver, Report, AnswerScan, Cleanup, Finish
  <2> QED
    BY <2>1, <2>2, <2>3, <2>4, <2>5 DEF Next
<1> QED
  BY <1>1, <1>2, <1>3

(* The handler's stage and answer stay ones the code has.                  *)
LEMMA BridgeTypesStep == TypeOK /\ [Next]_vars => BridgeTypes'
<1> SUFFICES ASSUME TypeOK, [Next]_vars PROVE BridgeTypes'
  OBVIOUS
<1> USE DEF TypeOK, BridgeTypes
<1>1. stage' \in [Requests -> Stage] /\ answer' \in [Requests -> Answer \cup {None}]
  <2>1. CASE UNCHANGED <<stage, answer>>
    BY <2>1
  <2>2. CASE KillBridge
    BY <2>2 DEF KillBridge, Stage
  <2>3. ASSUME NEW r \in Requests,
               PostScan(r) \/ DispatchReturns(r) \/ ProcessReturns(r) \/ Cleanup(r)
        PROVE  stage' \in [Requests -> Stage] /\ answer' \in [Requests -> Answer \cup {None}]
    BY <2>3 DEF PostScan, DispatchReturns, ProcessReturns, Cleanup, Stage
  <2>4. ASSUME NEW r \in Requests, NEW a \in Answer, Finish(r, a)
        PROVE  stage' \in [Requests -> Stage] /\ answer' \in [Requests -> Answer \cup {None}]
    BY <2>4 DEF Finish, Stage
  <2>5. "ok" \in Answer
    BY DEF Answer, Status
  <2>6. ASSUME NEW r \in Requests, DispatchFailure(r) \/ ProcessFailure(r) \/ AnswerScan(r)
        PROVE  \E a \in Answer : Finish(r, a)
    BY <2>5, <2>6 DEF DispatchFailure, ProcessFailure, AnswerScan
  <2> QED
    BY <2>1, <2>2, <2>3, <2>4, <2>6, StageMoves
<1>2. ctx' \in [Requests -> {"live", "expired", "cancelled"}]
  <2>1. CASE UNCHANGED vars \/ LoadSheet \/ KillBridge \/ KillSane \/ KillProc
    BY <2>1 DEF vars, LoadSheet, KillBridge, KillSane, KillProc, bridgeVars
  <2>2. ASSUME NEW r \in Requests,
               PostScan(r) \/ Disconnect(r) \/ Expire(r) \/ SaneTryLock(r) \/ NoScanner(r)
                 \/ FeedSheet(r) \/ ScanDone(r) \/ ScanFails(r) \/ ScanKilled(r) \/ ScanWritten(r)
        PROVE  ctx' \in [Requests -> {"live", "expired", "cancelled"}]
    BY <2>2 DEF PostScan, Disconnect, Expire, EndContext, SaneTryLock, NoScanner, FeedSheet,
                ScanDone, ScanFails, ScanKilled, ScanWritten, EndScan, bridgeVars
  <2>3. ASSUME NEW r \in Requests,
               ProcTryLock(r) \/ ProcDone(r) \/ ProcFails(r) \/ ProcKilled(r) \/ ProcWritten(r)
        PROVE  UNCHANGED ctx
    BY <2>3 DEF ProcTryLock, ProcDone, ProcFails, ProcKilled, ProcWritten, EndProcess, bridgeVars
  <2>4. ASSUME NEW r \in Requests, Handler(r) \/ CallTimesOut(r)
        PROVE  UNCHANGED ctx
    BY <2>4 DEF Handler, CallTimesOut, ReadPage, DispatchReturns, DispatchFails, ReadDocument,
                ProcessReturns, ProcessFails, Deliver, Report, AnswerScan, Cleanup, Finish
  <2> QED
    BY <2>1, <2>2, <2>3, <2>4 DEF Next
<1> QED
  BY <1>1, <1>2

(* A handler's files, reports and deliveries speak of its own sheets.      *)
LEMMA OutputTypesStep == TypeOK /\ [Next]_vars => OutputTypes'
<1> SUFFICES ASSUME TypeOK, [Next]_vars PROVE OutputTypes'
  OBVIOUS
<1> USE DEF TypeOK, OutputTypes
<1>1. CASE UNCHANGED <<pages, documents, results, accepted>>
  BY <1>1
<1>2. ASSUME NEW r \in Requests, ReadPage(r) PROVE OutputTypes'
  <2>1. Fed(r) \subseteq Sheets
    BY DEF Fed
  <2>2. pages' \in [Requests -> SUBSET Sheets]
    BY <1>2, <2>1 DEF ReadPage
  <2> QED
    BY <1>2, <2>2 DEF ReadPage
<1>3. ASSUME NEW r \in Requests PROVE DocumentIds(r) \subseteq Sheets \cup {0}
  BY DEF DocumentIds, Survivors
<1>4. ASSUME NEW r \in Requests, ReadDocument(r) PROVE OutputTypes'
  <2>1. documents' \in [Requests -> SUBSET (Sheets \cup {0})]
    BY <1>3, <1>4 DEF ReadDocument
  <2> QED
    BY <1>4, <2>1 DEF ReadDocument
<1>5. ASSUME NEW r \in Requests, Cleanup(r) PROVE OutputTypes'
  BY <1>5 DEF Cleanup
<1>6. ASSUME NEW r \in Requests, Deliver(r) PROVE OutputTypes'
  <2>1. PICK p \in Pending(r) :
          /\ \E o \in Outcome : Report(r, p, o)
          /\ Take(r, p) \/ UNCHANGED accepted
    BY <1>6 DEF Deliver, Outcome
  <2>2. p \in (Sheets \cup {0}) \X Destinations
    BY <1>3 DEF Pending, Destinations
  <2>3. results' \in [Requests -> SUBSET ((Sheets \cup {0}) \X Destinations \X Outcome)]
    BY <2>1, <2>2 DEF Report
  <2>4. <<Content(r, p[1]), p[2]>> \in (SUBSET Sheets) \X Destinations
    BY <2>2 DEF Pending, Content, DocumentIds, Survivors
  <2>5. accepted' \in [Requests -> SUBSET ((SUBSET Sheets) \X Destinations)]
    BY <2>1, <2>4 DEF Take
  <2>6. pages' = pages /\ documents' = documents
    BY <2>1 DEF Report
  <2> QED
    BY <2>3, <2>5, <2>6
<1> QED
  BY <1>1, <1>2, <1>4, <1>5, <1>6, OutputMoves

(* Nothing has happened yet. *)
LEMMA TypeInit == Init => TypeOK
  BY ProfileAssumption, NoneAssumption DEF Init, TypeOK, BridgeTypes, OutputTypes, FeederTypes, CallTypes,
     Stage, Call, Sheets

(* Every reachable state is well typed: answers, replies and stages are    *)
(* ones the code has, whatever the profile and however many requests.      *)
THEOREM TypeCorrect == Spec => []TypeOK
<1>1. TypeOK /\ [Next]_vars => TypeOK'
  BY FeederTypesStep, CallTypesStep, BridgeTypesStep, OutputTypesStep DEF TypeOK
<1> QED
  BY TypeInit, <1>1, PTL DEF Spec

-----------------------------------------------------------------------------
(* What the properties rest on, beyond the types. *)

(* Nobody answers a call that has not been made. *)
ColdCalls ==
  \A r \in Requests :
    /\ stage[r] = "new" => scan[r] = "none"
    /\ stage[r] \in {"new", "dispatch"} => proc[r] = "none"

(* A sheet still in the tray belongs to no request. *)
TrayIsNobodys == \A i \in Sheets : i > taken => fedBy[i] = None

(* Before a request holds the scanner, and when it was refused it, no      *)
(* sheet has been pulled in for it.                                        *)
NothingFedYet ==
  \A r \in Requests : scan[r] \in {"none", "sent", "busy", "no_scanner"} => Fed(r) = {}

(* The two refusals are given only when sane-runtime gave them.            *)
RefusedBySane ==
  \A r \in Requests :
    /\ answer[r] = "scanner_busy" => scan[r] = "busy"
    /\ answer[r] = "no_scanner_detected" => scan[r] = "no_scanner"

(* The answer is the handler's last word: only the cleanup is left.        *)
AnsweredIsOver ==
  \A r \in Requests : answer[r] # None => stage[r] \in {"cleanup", "done", "dead"}

(* Until the delivery stage no destination has heard of the request.       *)
NothingDeliveredBefore ==
  \A r \in Requests :
    stage[r] \in {"new", "dispatch", "process"} => accepted[r] = {} /\ results[r] = {}

(* From the moment Dispatch returns, the handler has every sheet.          *)
PagesAreComplete ==
  \A r \in Requests :
    stage[r] \in {"process", "deliver"} => scan[r] = "finished" /\ pages[r] = Fed(r)

(* A delivery reported as submitted was taken, with the content it has.    *)
ReportedIsTaken ==
  \A r \in Requests :
    stage[r] = "deliver" =>
      \A x \in results[r] : x[3] = "submitted" => <<Content(r, x[1]), x[2]>> \in accepted[r]

(* A 200 means that the scanner had answered in full.                      *)
OkIsFinished == \A r \in Requests : answer[r] = "ok" => scan[r] = "finished"

-----------------------------------------------------------------------------
(* Calls are made once. *)
LEMMA ColdStep == TypeOK /\ ColdCalls /\ [Next]_vars => ColdCalls'
<1> SUFFICES ASSUME TypeOK, ColdCalls, [Next]_vars, NEW q \in Requests
             PROVE  /\ stage'[q] = "new" => scan'[q] = "none"
                    /\ stage'[q] \in {"new", "dispatch"} => proc'[q] = "none"
  BY DEF ColdCalls
<1> USE DEF TypeOK, CallTypes, BridgeTypes
<1>1. stage'[q] = "new" => stage[q] = "new"
  <2>1. ASSUME NEW r \in Requests,
               PostScan(r) \/ DispatchReturns(r) \/ ProcessReturns(r) \/ Cleanup(r)
        PROVE  stage'[q] = "new" => stage[q] = "new"
    BY <2>1 DEF PostScan, DispatchReturns, ProcessReturns, Cleanup
  <2>2. ASSUME NEW r \in Requests, DispatchFailure(r) \/ ProcessFailure(r) \/ AnswerScan(r)
        PROVE  stage'[q] = "new" => stage[q] = "new"
    BY <2>2 DEF DispatchFailure, ProcessFailure, AnswerScan, Finish
  <2>3. CASE KillBridge
    BY <2>3 DEF KillBridge
  <2> QED
    BY <2>1, <2>2, <2>3, StageMoves
<1>2. stage'[q] \in {"new", "dispatch"} => stage[q] \in {"new", "dispatch"}
  <2>1. ASSUME NEW r \in Requests,
               PostScan(r) \/ DispatchReturns(r) \/ ProcessReturns(r) \/ Cleanup(r)
        PROVE  stage'[q] \in {"new", "dispatch"} => stage[q] \in {"new", "dispatch"}
    BY <2>1 DEF PostScan, DispatchReturns, ProcessReturns, Cleanup
  <2>2. ASSUME NEW r \in Requests, DispatchFailure(r) \/ ProcessFailure(r) \/ AnswerScan(r)
        PROVE  stage'[q] \in {"new", "dispatch"} => stage[q] \in {"new", "dispatch"}
    BY <2>2 DEF DispatchFailure, ProcessFailure, AnswerScan, Finish
  <2>3. CASE KillBridge
    BY <2>3 DEF KillBridge
  <2> QED
    BY <2>1, <2>2, <2>3, StageMoves
<1>3. scan[q] = "none" /\ stage'[q] = "new" => scan'[q] = "none"
  <2>1. CASE UNCHANGED saneVars \/ KillSane
    BY <2>1 DEF saneVars, KillSane, Unfinished
  <2>2. ASSUME NEW r \in Requests, PostScan(r)
        PROVE  scan[q] = "none" /\ stage'[q] = "new" => scan'[q] = "none"
    BY <2>2 DEF PostScan
  <2>3. ASSUME NEW r \in Requests,
               SaneTryLock(r) \/ ScanDone(r) \/ ScanWritten(r) \/ NoScanner(r)
                 \/ \E reply \in ScanReply : EndScan(r, reply)
        PROVE  scan[q] = "none" => scan'[q] = "none"
    BY <2>3 DEF SaneTryLock, ScanDone, ScanWritten, NoScanner, EndScan
  <2> QED
    BY <2>1, <2>2, <2>3, ScanMoves
<1>4. proc[q] = "none" /\ stage'[q] \in {"new", "dispatch"} => proc'[q] = "none"
  <2>1. CASE UNCHANGED procVars \/ KillProc
    BY <2>1 DEF procVars, KillProc, Unfinished
  <2>2. ASSUME NEW r \in Requests, DispatchReturns(r)
        PROVE  proc[q] = "none" /\ stage'[q] \in {"new", "dispatch"} => proc'[q] = "none"
    BY <2>2 DEF DispatchReturns
  <2>3. ASSUME NEW r \in Requests,
               ProcTryLock(r) \/ ProcDone(r) \/ ProcWritten(r)
                 \/ \E reply \in ProcReply : EndProcess(r, reply)
        PROVE  proc[q] = "none" => proc'[q] = "none"
    BY <2>3 DEF ProcTryLock, ProcDone, ProcWritten, EndProcess
  <2> QED
    BY <2>1, <2>2, <2>3, ProcMoves
<1> QED
  BY <1>1, <1>2, <1>3, <1>4 DEF ColdCalls

(* Taking, passing on and freeing a slot all go with the state of the call *)
(* that holds it.                                                          *)
LEMMA SlotsStep == TypeOK /\ ColdCalls /\ SlotsMatchWork /\ [Next]_vars => SlotsMatchWork'
<1> SUFFICES ASSUME TypeOK, ColdCalls, SlotsMatchWork, [Next]_vars PROVE SlotsMatchWork'
  OBVIOUS
<1> USE ProfileAssumption, NoneAssumption DEF TypeOK, CallTypes, SlotsMatchWork
<1>1. \A q \in Requests : scanLock' = q <=> scan'[q] \in {"working", "streaming"}
  <2>1. CASE UNCHANGED saneVars
    BY <2>1 DEF saneVars
  <2>2. CASE KillSane
    BY <2>2 DEF KillSane, Unfinished
  <2>3. ASSUME NEW r \in Requests, PostScan(r)
        PROVE  \A q \in Requests : scanLock' = q <=> scan'[q] \in {"working", "streaming"}
    BY <2>3 DEF PostScan, ColdCalls
  <2>4. ASSUME NEW r \in Requests, SaneTryLock(r) \/ ScanDone(r) \/ ScanWritten(r)
        PROVE  \A q \in Requests : scanLock' = q <=> scan'[q] \in {"working", "streaming"}
    BY <2>4 DEF SaneTryLock, ScanDone, ScanWritten
  <2>5. ASSUME NEW r \in Requests, NEW reply \in ScanReply, EndScan(r, reply)
        PROVE  \A q \in Requests : scanLock' = q <=> scan'[q] \in {"working", "streaming"}
    BY <2>5 DEF EndScan, ScanReply
  <2>6. ASSUME NEW r \in Requests, NoScanner(r)
        PROVE  \E reply \in ScanReply : EndScan(r, reply)
    BY <2>6 DEF NoScanner, ScanReply
  <2> QED
    BY <2>1, <2>2, <2>3, <2>4, <2>5, <2>6, ScanMoves
<1>2. \A q \in Requests : procLock' = q <=> proc'[q] \in {"working", "streaming"}
  <2>1. CASE UNCHANGED procVars
    BY <2>1 DEF procVars
  <2>2. CASE KillProc
    BY <2>2 DEF KillProc, Unfinished
  <2>3. ASSUME NEW r \in Requests, DispatchReturns(r)
        PROVE  \A q \in Requests : procLock' = q <=> proc'[q] \in {"working", "streaming"}
    BY <2>3 DEF DispatchReturns, ColdCalls
  <2>4. ASSUME NEW r \in Requests, ProcTryLock(r) \/ ProcDone(r) \/ ProcWritten(r)
        PROVE  \A q \in Requests : procLock' = q <=> proc'[q] \in {"working", "streaming"}
    BY <2>4 DEF ProcTryLock, ProcDone, ProcWritten
  <2>5. ASSUME NEW r \in Requests, NEW reply \in ProcReply, EndProcess(r, reply)
        PROVE  \A q \in Requests : procLock' = q <=> proc'[q] \in {"working", "streaming"}
    BY <2>5 DEF EndProcess, ProcReply
  <2> QED
    BY <2>1, <2>2, <2>3, <2>4, <2>5, ProcMoves
<1> QED
  BY <1>1, <1>2

(* A slot is held exactly while one handler works (SlotsMatchWork).        *)
THEOREM SlotsHold == Spec => []SlotsMatchWork
<1>1. Init => ColdCalls /\ SlotsMatchWork
  BY ProfileAssumption, NoneAssumption DEF Init, ColdCalls, SlotsMatchWork
<1>2. TypeOK /\ ColdCalls /\ SlotsMatchWork /\ [Next]_vars => (ColdCalls /\ SlotsMatchWork)'
  BY ColdStep, SlotsStep
<1> QED
  BY <1>1, <1>2, TypeCorrect, PTL DEF Spec

-----------------------------------------------------------------------------
(* Whose sheets are whose. *)

(* A call that ended has ended. *)
LEMMA EndedStaysEnded ==
  ASSUME TypeOK, ColdCalls, [Next]_vars, NEW q \in Requests,
         scan[q] \in ScanReply \cup {"finished", "dead"}
  PROVE  scan'[q] = scan[q]
<1> USE DEF TypeOK, CallTypes, ScanReply
<1>1. CASE UNCHANGED saneVars \/ KillSane
  BY <1>1 DEF saneVars, KillSane, Unfinished
<1>2. ASSUME NEW r \in Requests, PostScan(r) PROVE scan'[q] = scan[q]
  BY <1>2 DEF PostScan, ColdCalls
<1>3. ASSUME NEW r \in Requests,
             SaneTryLock(r) \/ ScanDone(r) \/ ScanWritten(r) \/ NoScanner(r)
               \/ \E reply \in ScanReply : EndScan(r, reply)
      PROVE  scan'[q] = scan[q]
  BY <1>3 DEF SaneTryLock, ScanDone, ScanWritten, NoScanner, EndScan
<1> QED
  BY <1>1, <1>2, <1>3, ScanMoves

(* scanimage pulls sheets in for the call at work and for no other.        *)
LEMMA OthersFeedNothing ==
  ASSUME TypeOK, TrayIsNobodys, [Next]_vars, NEW q \in Requests, scan[q] # "working"
  PROVE  Fed(q)' = Fed(q)
<1> USE ProfileAssumption, NoneAssumption DEF TypeOK, FeederTypes, Sheets
<1>1. CASE UNCHANGED feederVars \/ LoadSheet
  BY <1>1 DEF feederVars, LoadSheet, Fed
<1>2. ASSUME NEW r \in Requests, FeedSheet(r) PROVE Fed(q)' = Fed(q)
  <2>1. r # q /\ fedBy[taken + 1] = None
    BY <1>2 DEF FeedSheet, FeederEmpty, TrayIsNobodys
  <2> QED
    BY <1>2, <2>1 DEF FeedSheet, Fed
<1> QED
  BY <1>1, <1>2, FeederMoves

(* Sheets leave the tray one after the other. *)
LEMMA TrayStep == TypeOK /\ TrayIsNobodys /\ [Next]_vars => TrayIsNobodys'
<1> SUFFICES ASSUME TypeOK, TrayIsNobodys, [Next]_vars PROVE TrayIsNobodys'
  OBVIOUS
<1> USE ProfileAssumption, NoneAssumption DEF TypeOK, FeederTypes, Sheets, TrayIsNobodys
<1>1. CASE UNCHANGED feederVars \/ LoadSheet
  BY <1>1 DEF feederVars, LoadSheet
<1>2. ASSUME NEW r \in Requests, FeedSheet(r) PROVE TrayIsNobodys'
  BY <1>2 DEF FeedSheet
<1> QED
  BY <1>1, <1>2, FeederMoves

(* A call is refused before its first sheet, or not at all.                *)
LEMMA NothingFedStep ==
  TypeOK /\ ColdCalls /\ TrayIsNobodys /\ NothingFedYet /\ [Next]_vars => NothingFedYet'
<1> SUFFICES ASSUME TypeOK, ColdCalls, TrayIsNobodys, NothingFedYet, [Next]_vars,
                    NEW q \in Requests, scan'[q] \in {"none", "sent", "busy", "no_scanner"}
             PROVE  Fed(q)' = {}
  BY DEF NothingFedYet
<1>1. scan[q] \in {"none", "sent", "busy", "no_scanner"} \/ (NoScanner(q) /\ scan[q] = "working")
  <2> USE DEF TypeOK, CallTypes
  <2>1. CASE UNCHANGED saneVars \/ KillSane
    BY <2>1 DEF saneVars, KillSane, Unfinished
  <2>2. ASSUME NEW r \in Requests, PostScan(r)
        PROVE  scan[q] \in {"none", "sent", "busy", "no_scanner"}
    BY <2>2 DEF PostScan, ColdCalls
  <2>3. ASSUME NEW r \in Requests,
               SaneTryLock(r) \/ ScanDone(r) \/ ScanWritten(r)
                 \/ \E reply \in ScanReply \ {"busy", "no_scanner"} : EndScan(r, reply)
        PROVE  scan[q] \in {"none", "sent", "busy", "no_scanner"}
    BY <2>3 DEF SaneTryLock, ScanDone, ScanWritten, EndScan, ScanReply
  <2>4. ASSUME NEW r \in Requests, NoScanner(r)
        PROVE  scan[q] \in {"none", "sent", "busy", "no_scanner"} \/ (NoScanner(q) /\ scan[q] = "working")
    BY <2>4 DEF NoScanner, EndScan
  <2> QED
    BY <2>1, <2>2, <2>3, <2>4, ScanMoves
<1>2. CASE scan[q] \in {"none", "sent", "busy", "no_scanner"}
  BY <1>2, OthersFeedNothing DEF NothingFedYet
<1>3. CASE NoScanner(q)
  BY <1>3 DEF NoScanner, EndScan, feederVars, Fed
<1> QED
  BY <1>1, <1>2, <1>3

(* The two refusals come from sane-runtime and from nowhere else.          *)
LEMMA RefusedStep == TypeOK /\ ColdCalls /\ RefusedBySane /\ [Next]_vars => RefusedBySane'
<1> SUFFICES ASSUME TypeOK, ColdCalls, RefusedBySane, [Next]_vars, NEW q \in Requests
             PROVE  /\ answer'[q] = "scanner_busy" => scan'[q] = "busy"
                    /\ answer'[q] = "no_scanner_detected" => scan'[q] = "no_scanner"
  BY DEF RefusedBySane
<1>1. /\ answer'[q] = "scanner_busy" => scan[q] = "busy"
      /\ answer'[q] = "no_scanner_detected" => scan[q] = "no_scanner"
  <2> USE DEF RefusedBySane, TypeOK, BridgeTypes
  <2>1. CASE answer' = answer
    BY <2>1
  <2>2. ASSUME NEW r \in Requests, DispatchFailure(r) PROVE <1>1!1 /\ <1>1!2
    BY <2>2 DEF DispatchFailure, Finish
  <2>3. ASSUME NEW r \in Requests, ProcessFailure(r) \/ AnswerScan(r) PROVE <1>1!1 /\ <1>1!2
    BY <2>3 DEF ProcessFailure, AnswerScan, Finish
  <2>4. ASSUME NEW r \in Requests,
               PostScan(r) \/ DispatchReturns(r) \/ ProcessReturns(r) \/ Cleanup(r)
        PROVE  answer' = answer
    BY <2>4 DEF PostScan, DispatchReturns, ProcessReturns, Cleanup
  <2>5. CASE KillBridge
    BY <2>5 DEF KillBridge
  <2> QED
    BY <2>1, <2>2, <2>3, <2>4, <2>5, StageMoves
<1> QED
  BY <1>1, EndedStaysEnded DEF ScanReply

(* A request turned away by sane-runtime cost its caller no paper          *)
(* (RefusalFeedsNothing): the inductive part is that nothing is fed before *)
(* the slot is held, and that both answers mean the slot never was.        *)
THEOREM RefusalHolds == Spec => []RefusalFeedsNothing
<1> DEFINE IInv == ColdCalls /\ TrayIsNobodys /\ NothingFedYet /\ RefusedBySane
<1>1. Init => IInv
  BY ProfileAssumption, NoneAssumption
     DEF Init, ColdCalls, TrayIsNobodys, NothingFedYet, RefusedBySane, Fed, Answer, Status
<1>2. TypeOK /\ IInv /\ [Next]_vars => IInv'
  BY ColdStep, TrayStep, NothingFedStep, RefusedStep
<1>3. IInv => RefusalFeedsNothing
  BY DEF NothingFedYet, RefusedBySane, RefusalFeedsNothing
<1> HIDE DEF IInv
<1> QED
  BY <1>1, <1>2, <1>3, TypeCorrect, PTL DEF Spec

-----------------------------------------------------------------------------
(* Deliveries and answers. *)

(* A handler delivers in its delivery stage only. *)
LEMMA DeliveriesStay ==
  ASSUME TypeOK, [Next]_vars, NEW q \in Requests, stage[q] # "deliver"
  PROVE  accepted'[q] = accepted[q] /\ results'[q] = results[q]
<1> USE DEF TypeOK, OutputTypes
<1>1. ASSUME NEW r \in Requests, Deliver(r)
      PROVE  accepted'[q] = accepted[q] /\ results'[q] = results[q]
  BY <1>1 DEF Deliver, Report, Take
<1>2. ASSUME NEW r \in Requests, ReadPage(r) \/ ReadDocument(r) \/ Cleanup(r)
      PROVE  accepted'[q] = accepted[q] /\ results'[q] = results[q]
  BY <1>2 DEF ReadPage, ReadDocument, Cleanup
<1> QED
  BY <1>1, <1>2, OutputMoves

(* A handler that has answered, or died, changes neither its answer nor    *)
(* its mind.                                                               *)
LEMMA OverStaysOver ==
  ASSUME TypeOK, [Next]_vars, NEW q \in Requests, stage[q] \in {"cleanup", "done", "dead"}
  PROVE  stage'[q] \in {"cleanup", "done", "dead"} /\ answer'[q] = answer[q]
<1> USE DEF TypeOK, BridgeTypes
<1>1. CASE KillBridge
  BY <1>1 DEF KillBridge
<1>2. ASSUME NEW r \in Requests,
             PostScan(r) \/ DispatchReturns(r) \/ ProcessReturns(r) \/ Cleanup(r)
      PROVE  stage'[q] \in {"cleanup", "done", "dead"} /\ answer'[q] = answer[q]
  BY <1>2 DEF PostScan, DispatchReturns, ProcessReturns, Cleanup
<1>3. ASSUME NEW r \in Requests, DispatchFailure(r) \/ ProcessFailure(r) \/ AnswerScan(r)
      PROVE  stage'[q] \in {"cleanup", "done", "dead"} /\ answer'[q] = answer[q]
  BY <1>3 DEF DispatchFailure, ProcessFailure, AnswerScan, Finish
<1> QED
  BY <1>1, <1>2, <1>3, StageMoves

(* A handler that is not over yet has not answered, and its answer is the  *)
(* step that ends it.                                                      *)
LEMMA AnsweredStep == TypeOK /\ AnsweredIsOver /\ [Next]_vars => AnsweredIsOver'
<1> SUFFICES ASSUME TypeOK, AnsweredIsOver, [Next]_vars, NEW q \in Requests, answer'[q] # None
             PROVE  stage'[q] \in {"cleanup", "done", "dead"}
  BY DEF AnsweredIsOver
<1>1. CASE stage[q] \in {"cleanup", "done", "dead"}
  BY <1>1, OverStaysOver
<1>2. CASE stage[q] \notin {"cleanup", "done", "dead"}
  <2> USE DEF TypeOK, BridgeTypes
  <2>1. answer[q] = None
    BY <1>2 DEF AnsweredIsOver
  <2>2. CASE KillBridge
    BY <2>1, <2>2 DEF KillBridge
  <2>3. ASSUME NEW r \in Requests,
               PostScan(r) \/ DispatchReturns(r) \/ ProcessReturns(r) \/ Cleanup(r)
        PROVE  FALSE
    BY <2>1, <2>3 DEF PostScan, DispatchReturns, ProcessReturns, Cleanup
  <2>4. ASSUME NEW r \in Requests, DispatchFailure(r) \/ ProcessFailure(r) \/ AnswerScan(r)
        PROVE  stage'[q] \in {"cleanup", "done", "dead"}
    BY <2>1, <2>4 DEF DispatchFailure, ProcessFailure, AnswerScan, Finish
  <2> QED
    BY <2>1, <2>2, <2>3, <2>4, StageMoves
<1> QED
  BY <1>1, <1>2

(* The delivery stage is entered with nothing delivered.                   *)
LEMMA UndeliveredStep ==
  TypeOK /\ NothingDeliveredBefore /\ [Next]_vars => NothingDeliveredBefore'
<1> SUFFICES ASSUME TypeOK, NothingDeliveredBefore, [Next]_vars, NEW q \in Requests,
                    stage'[q] \in {"new", "dispatch", "process"}
             PROVE  accepted'[q] = {} /\ results'[q] = {}
  BY DEF NothingDeliveredBefore
<1>1. stage[q] \in {"new", "dispatch", "process"}
  <2> USE DEF TypeOK, BridgeTypes
  <2>1. CASE KillBridge
    BY <2>1 DEF KillBridge
  <2>2. ASSUME NEW r \in Requests,
               PostScan(r) \/ DispatchReturns(r) \/ ProcessReturns(r) \/ Cleanup(r)
        PROVE  stage[q] \in {"new", "dispatch", "process"}
    BY <2>2 DEF PostScan, DispatchReturns, ProcessReturns, Cleanup
  <2>3. ASSUME NEW r \in Requests, DispatchFailure(r) \/ ProcessFailure(r) \/ AnswerScan(r)
        PROVE  stage[q] \in {"new", "dispatch", "process"}
    BY <2>3 DEF DispatchFailure, ProcessFailure, AnswerScan, Finish
  <2> QED
    BY <2>1, <2>2, <2>3, StageMoves
<1> QED
  BY <1>1, DeliveriesStay DEF NothingDeliveredBefore

(* An error is answered before the first delivery, and nothing is          *)
(* delivered after an answer.                                              *)
LEMMA ErrorStep ==
  TypeOK /\ AnsweredIsOver /\ NothingDeliveredBefore /\ ErrorMeansNothingDelivered
    /\ [Next]_vars => ErrorMeansNothingDelivered'
<1> SUFFICES ASSUME TypeOK, AnsweredIsOver, NothingDeliveredBefore,
                    ErrorMeansNothingDelivered, [Next]_vars,
                    NEW q \in Requests, answer'[q] \notin {"ok", None}
             PROVE  accepted'[q] = {}
  BY DEF ErrorMeansNothingDelivered
<1>1. CASE answer[q] # None
  BY <1>1, OverStaysOver, DeliveriesStay DEF AnsweredIsOver, ErrorMeansNothingDelivered
<1>2. CASE answer[q] = None
  <2>1. stage[q] \in {"dispatch", "process"}
    <3> USE DEF TypeOK, BridgeTypes
    <3>1. CASE KillBridge
      BY <3>1, <1>2 DEF KillBridge
    <3>2. ASSUME NEW r \in Requests,
                 PostScan(r) \/ DispatchReturns(r) \/ ProcessReturns(r) \/ Cleanup(r)
          PROVE  FALSE
      BY <3>2, <1>2 DEF PostScan, DispatchReturns, ProcessReturns, Cleanup
    <3>3. ASSUME NEW r \in Requests, DispatchFailure(r) \/ ProcessFailure(r) \/ AnswerScan(r)
          PROVE  stage[q] \in {"dispatch", "process"}
      BY <3>3, <1>2 DEF DispatchFailure, ProcessFailure, AnswerScan, Finish
    <3> QED
      BY <3>1, <3>2, <3>3, <1>2, StageMoves
  <2> QED
    BY <2>1, DeliveriesStay DEF NothingDeliveredBefore
<1> QED
  BY <1>1, <1>2

(* An error status can be retried without duplicating a document           *)
(* (ErrorMeansNothingDelivered).                                           *)
THEOREM ErrorHolds == Spec => []ErrorMeansNothingDelivered
<1> DEFINE IInv == AnsweredIsOver /\ NothingDeliveredBefore /\ ErrorMeansNothingDelivered
<1>1. Init => IInv
  BY DEF Init, AnsweredIsOver, NothingDeliveredBefore, ErrorMeansNothingDelivered
<1>2. TypeOK /\ IInv /\ [Next]_vars => IInv'
  BY AnsweredStep, UndeliveredStep, ErrorStep
<1>3. IInv => ErrorMeansNothingDelivered
  OBVIOUS
<1> HIDE DEF IInv
<1> QED
  BY <1>1, <1>2, <1>3, TypeCorrect, PTL DEF Spec

-----------------------------------------------------------------------------
(* Completeness. *)

(* Files of a handler that is processing or delivering do not change.      *)
LEMMA PagesStay ==
  ASSUME TypeOK, [Next]_vars, NEW q \in Requests, stage[q] \in {"process", "deliver"}
  PROVE  pages'[q] = pages[q]
<1> USE DEF TypeOK, OutputTypes
<1>1. ASSUME NEW r \in Requests, ReadPage(r) \/ ReadDocument(r) \/ Deliver(r) \/ Cleanup(r)
      PROVE  pages'[q] = pages[q]
  BY <1>1 DEF ReadPage, ReadDocument, Deliver, Report, Cleanup
<1> QED
  BY <1>1, OutputMoves

(* Dispatch hands over every sheet that was pulled in, and no more come.   *)
LEMMA PagesStep ==
  TypeOK /\ ColdCalls /\ TrayIsNobodys /\ PagesAreComplete /\ [Next]_vars => PagesAreComplete'
<1> SUFFICES ASSUME TypeOK, ColdCalls, TrayIsNobodys, PagesAreComplete, [Next]_vars,
                    NEW q \in Requests, stage'[q] \in {"process", "deliver"}
             PROVE  scan'[q] = "finished" /\ pages'[q] = Fed(q)'
  BY DEF PagesAreComplete
<1>1. stage[q] \in {"process", "deliver"} \/ DispatchReturns(q)
  <2> USE DEF TypeOK, BridgeTypes
  <2>1. CASE KillBridge
    BY <2>1 DEF KillBridge
  <2>2. ASSUME NEW r \in Requests, PostScan(r) \/ ProcessReturns(r) \/ Cleanup(r)
        PROVE  stage[q] \in {"process", "deliver"}
    BY <2>2 DEF PostScan, ProcessReturns, Cleanup
  <2>3. ASSUME NEW r \in Requests, DispatchReturns(r)
        PROVE  stage[q] \in {"process", "deliver"} \/ DispatchReturns(q)
    BY <2>3 DEF DispatchReturns
  <2>4. ASSUME NEW r \in Requests, DispatchFailure(r) \/ ProcessFailure(r) \/ AnswerScan(r)
        PROVE  stage[q] \in {"process", "deliver"}
    BY <2>4 DEF DispatchFailure, ProcessFailure, AnswerScan, Finish
  <2> QED
    BY <2>1, <2>2, <2>3, <2>4, StageMoves
<1>2. scan[q] = "finished" /\ pages[q] = Fed(q) /\ pages'[q] = pages[q]
  <2>1. CASE stage[q] \in {"process", "deliver"}
    BY <2>1, PagesStay DEF PagesAreComplete
  <2>2. CASE DispatchReturns(q)
    BY <2>2 DEF DispatchReturns
  <2> QED
    BY <1>1, <2>1, <2>2
<1> QED
  BY <1>2, EndedStaysEnded, OthersFeedNothing

(* "submitted" is reported in the step in which the upload was accepted.   *)
LEMMA ReportedStep ==
  TypeOK /\ NothingDeliveredBefore /\ ReportedIsTaken /\ [Next]_vars => ReportedIsTaken'
<1> SUFFICES ASSUME TypeOK, NothingDeliveredBefore, ReportedIsTaken, [Next]_vars,
                    NEW q \in Requests, stage'[q] = "deliver",
                    NEW x \in results'[q], x[3] = "submitted"
             PROVE  <<Content(q, x[1])', x[2]>> \in accepted'[q]
  BY DEF ReportedIsTaken
<1>1. stage[q] \in {"process", "deliver"}
  <2> USE DEF TypeOK, BridgeTypes
  <2>1. CASE KillBridge
    BY <2>1 DEF KillBridge
  <2>2. ASSUME NEW r \in Requests,
               PostScan(r) \/ DispatchReturns(r) \/ ProcessReturns(r) \/ Cleanup(r)
        PROVE  stage[q] \in {"process", "deliver"}
    BY <2>2 DEF PostScan, DispatchReturns, ProcessReturns, Cleanup
  <2>3. ASSUME NEW r \in Requests, DispatchFailure(r) \/ ProcessFailure(r) \/ AnswerScan(r)
        PROVE  stage[q] \in {"process", "deliver"}
    BY <2>3 DEF DispatchFailure, ProcessFailure, AnswerScan, Finish
  <2> QED
    BY <2>1, <2>2, <2>3, StageMoves
<1>2. Content(q, x[1])' = Content(q, x[1])
  BY <1>1, PagesStay DEF Content, Survivors
<1>3. CASE x \in results[q]
  <2>1. stage[q] = "deliver" /\ <<Content(q, x[1]), x[2]>> \in accepted[q]
    BY <1>1, <1>3 DEF NothingDeliveredBefore, ReportedIsTaken
  <2>2. accepted[q] \subseteq accepted'[q]
    <3> USE DEF TypeOK, OutputTypes
    <3>1. ASSUME NEW r \in Requests, Deliver(r) PROVE accepted[q] \subseteq accepted'[q]
      BY <3>1 DEF Deliver, Take
    <3>2. ASSUME NEW r \in Requests, ReadPage(r) \/ ReadDocument(r) \/ Cleanup(r)
          PROVE  accepted' = accepted
      BY <3>2 DEF ReadPage, ReadDocument, Cleanup
    <3> QED
      BY <3>1, <3>2, OutputMoves
  <2> QED
    BY <1>2, <2>1, <2>2
<1>4. CASE x \notin results[q]
  <2> USE DEF TypeOK, OutputTypes
  <2>1. ASSUME NEW r \in Requests, ReadPage(r) \/ ReadDocument(r) \/ Cleanup(r)
        PROVE  results' = results
    BY <2>1 DEF ReadPage, ReadDocument, Cleanup
  <2>2. PICK r \in Requests : Deliver(r)
    BY <1>4, <2>1, OutputMoves
  <2>3. PICK p \in Pending(r) :
          \E o \in Outcome : /\ Report(r, p, o)
                             /\ o = "submitted" => Take(r, p)
    BY <2>2 DEF Deliver, Outcome
  <2>4. r = q /\ x[1] = p[1] /\ x[2] = p[2] /\ Take(q, p)
    BY <1>4, <2>3 DEF Report
  <2>5. <<Content(q, x[1]), x[2]>> \in accepted'[q]
    BY <2>4 DEF Take
  <2> QED
    BY <1>2, <2>5
<1> QED
  BY <1>3, <1>4

(* A 200 comes out of the delivery stage.                                  *)
LEMMA OkStep ==
  TypeOK /\ ColdCalls /\ AnsweredIsOver /\ PagesAreComplete /\ OkIsFinished /\ [Next]_vars
    => OkIsFinished'
<1> SUFFICES ASSUME TypeOK, ColdCalls, AnsweredIsOver, PagesAreComplete, OkIsFinished,
                    [Next]_vars, NEW q \in Requests, answer'[q] = "ok"
             PROVE  scan'[q] = "finished"
  BY DEF OkIsFinished
<1>1. scan[q] = "finished"
  <2> USE DEF TypeOK, BridgeTypes
  <2>1. CASE answer[q] = "ok"
    BY <2>1 DEF OkIsFinished
  <2>2. CASE KillBridge
    BY <2>1, <2>2 DEF KillBridge
  <2>3. ASSUME NEW r \in Requests,
               PostScan(r) \/ DispatchReturns(r) \/ ProcessReturns(r) \/ Cleanup(r)
        PROVE  answer' = answer
    BY <2>3 DEF PostScan, DispatchReturns, ProcessReturns, Cleanup
  <2>4. ASSUME NEW r \in Requests, DispatchFailure(r) \/ ProcessFailure(r)
        PROVE  answer[q] = "ok"
    BY <2>4 DEF DispatchFailure, ProcessFailure, Finish
  <2>5. ASSUME NEW r \in Requests, AnswerScan(r), answer[q] # "ok" PROVE stage[q] = "deliver"
    BY <2>5 DEF AnswerScan, Finish
  <2> QED
    BY <2>1, <2>2, <2>3, <2>4, <2>5, StageMoves DEF PagesAreComplete
<1> QED
  BY <1>1, EndedStaysEnded

(* When the last delivery has been made, every document has been offered   *)
(* to every destination, and the documents hold every sheet.               *)
LEMMA CompleteStep ==
  TypeOK /\ TrayIsNobodys /\ AnsweredIsOver /\ PagesAreComplete /\ ReportedIsTaken
    /\ OkIsFinished /\ SubmittedIsComplete /\ [Next]_vars => SubmittedIsComplete'
<1> SUFFICES ASSUME TypeOK, TrayIsNobodys, AnsweredIsOver, PagesAreComplete, ReportedIsTaken,
                    OkIsFinished, SubmittedIsComplete, [Next]_vars,
                    NEW q \in Requests, answer'[q] = "ok",
                    \A x \in results'[q] : x[3] = "submitted",
                    NEW i \in Fed(q)' \ Blank, NEW dst \in Profile[q].destinations
             PROVE  \E a \in accepted'[q] : i \in a[1] /\ a[2] = dst
  BY DEF SubmittedIsComplete
<1>1. CASE answer[q] = "ok"
  <2>1. accepted'[q] = accepted[q] /\ results'[q] = results[q]
    BY <1>1, DeliveriesStay, NoneAssumption DEF AnsweredIsOver, Answer, Status
  <2>2. Fed(q)' = Fed(q)
    BY <1>1, OthersFeedNothing DEF OkIsFinished
  <2> QED
    BY <1>1, <2>1, <2>2 DEF SubmittedIsComplete
<1>2. CASE answer[q] # "ok"
  <2>1. AnswerScan(q)
    <3> USE DEF TypeOK, BridgeTypes
    <3>1. CASE KillBridge
      BY <3>1, <1>2 DEF KillBridge
    <3>2. ASSUME NEW r \in Requests,
                 PostScan(r) \/ DispatchReturns(r) \/ ProcessReturns(r) \/ Cleanup(r)
          PROVE  FALSE
      BY <3>2, <1>2 DEF PostScan, DispatchReturns, ProcessReturns, Cleanup
    <3>3. ASSUME NEW r \in Requests, DispatchFailure(r) \/ ProcessFailure(r) PROVE FALSE
      BY <3>3, <1>2 DEF DispatchFailure, ProcessFailure, Finish
    <3>4. ASSUME NEW r \in Requests, AnswerScan(r) PROVE r = q
      BY <3>4, <1>2 DEF AnswerScan, Finish
    <3> QED
      BY <3>1, <3>2, <3>3, <3>4, <1>2, StageMoves
  <2>2. /\ stage[q] = "deliver" /\ Pending(q) = {}
        /\ accepted'[q] = accepted[q] /\ results'[q] = results[q]
        /\ Fed(q)' = Fed(q)
    BY <2>1 DEF AnswerScan, Finish, feederVars, Fed
  <2>3. i \in Survivors(q)
    BY <2>2 DEF PagesAreComplete, Survivors
  <2>4. PICK d \in DocumentIds(q) : i \in Content(q, d)
    BY <2>3 DEF DocumentIds, Content
  <2>5. <<d, dst>> \in DocumentIds(q) \X Profile[q].destinations
    BY <2>4
  <2>6. PICK o \in Outcome : <<d, dst, o>> \in results[q]
    BY <2>2, <2>5 DEF Pending
  <2>7. o = "submitted"
    BY <2>2, <2>6
  <2>8. <<Content(q, d), dst>> \in accepted[q]
    BY <2>2, <2>6, <2>7 DEF ReportedIsTaken
  <2> QED
    BY <2>2, <2>4, <2>8
<1> QED
  BY <1>1, <1>2

(* A 200 without a failed delivery accounts for every sheet that was not   *)
(* blank, at every destination (SubmittedIsComplete).  The invariant that  *)
(* carries it follows the pages from the tray to the upload.               *)
THEOREM CompleteHolds == Spec => []SubmittedIsComplete
<1> DEFINE IInv == /\ ColdCalls /\ TrayIsNobodys /\ AnsweredIsOver /\ NothingDeliveredBefore
                   /\ PagesAreComplete /\ ReportedIsTaken /\ OkIsFinished
                   /\ SubmittedIsComplete
<1>1. Init => IInv
  BY NoneAssumption
     DEF Init, ColdCalls, TrayIsNobodys, AnsweredIsOver, NothingDeliveredBefore,
         PagesAreComplete, ReportedIsTaken, OkIsFinished, SubmittedIsComplete, Answer, Status
<1>2. TypeOK /\ IInv /\ [Next]_vars => IInv'
  BY ColdStep, TrayStep, AnsweredStep, UndeliveredStep, PagesStep, ReportedStep, OkStep,
     CompleteStep
<1>3. IInv => SubmittedIsComplete
  OBVIOUS
<1> HIDE DEF IInv
<1> QED
  BY <1>1, <1>2, <1>3, TypeCorrect, PTL DEF Spec

-----------------------------------------------------------------------------
(* The pipeline implements ScanService.  What the refinement needs to know *)
(* of a reachable state, beyond the invariants above.                      *)

(* A destination holds something only of a batch that is complete.         *)
DeliveredIsFinished == \A r \in Requests : accepted[r] # {} => scan[r] = "finished"

(* The sheet pulled in last is of the batch being scanned, if that has any. *)
BatchesDoNotMix ==
  \A r \in Requests : scan[r] = "working" => Fed(r) = {} \/ fedBy[taken] = r

(* scan-processor answers 200 only with a sheet that is worth delivering.  *)
SomethingIsLeft ==
  \A r \in Requests :
    /\ stage[r] = "process" /\ proc[r] \in {"streaming", "finished"} => Survivors(r) # {}
    /\ stage[r] = "deliver" => Survivors(r) # {}

(* What a destination took is a document of the request, and reported,     *)
(* whatever the destination said.                                          *)
TakenIsReported ==
  \A r \in Requests :
    stage[r] = "deliver" =>
      \A a \in accepted[r] :
        \E d \in DocumentIds(r), o \in Outcome :
          a[1] = Content(r, d) /\ <<d, a[2], o>> \in results[r]

(* The handler does not return without having answered.                    *)
OverIsAnswered == \A r \in Requests : stage[r] \in {"cleanup", "done"} => answer[r] # None

(* Deliveries begin when the scanner has answered in full.                 *)
LEMMA DeliveredStep ==
  TypeOK /\ ColdCalls /\ PagesAreComplete /\ DeliveredIsFinished /\ [Next]_vars
    => DeliveredIsFinished'
<1> SUFFICES ASSUME TypeOK, ColdCalls, PagesAreComplete, DeliveredIsFinished, [Next]_vars,
                    NEW q \in Requests, accepted'[q] # {}
             PROVE  scan'[q] = "finished"
  BY DEF DeliveredIsFinished
<1>1. scan[q] = "finished"
  BY DeliveriesStay DEF DeliveredIsFinished, PagesAreComplete
<1> QED
  BY <1>1, EndedStaysEnded

(* A batch that is being scanned goes on where it left off: nobody else    *)
(* holds the scanner in between.                                           *)
LEMMA BatchesStep ==
  TypeOK /\ SlotsMatchWork /\ NothingFedYet /\ BatchesDoNotMix /\ [Next]_vars
    => BatchesDoNotMix'
<1> SUFFICES ASSUME TypeOK, SlotsMatchWork, NothingFedYet, BatchesDoNotMix, [Next]_vars,
                    NEW q \in Requests, scan'[q] = "working"
             PROVE  Fed(q)' = {} \/ fedBy'[taken'] = q
  BY DEF BatchesDoNotMix
<1>1. CASE UNCHANGED feederVars \/ LoadSheet
  <2>1. Fed(q)' = Fed(q) /\ fedBy' = fedBy /\ taken' = taken
    BY <1>1 DEF feederVars, LoadSheet, Fed
  <2>2. scan[q] \in {"sent", "working"}
    <3> USE DEF TypeOK, CallTypes
    <3>1. CASE UNCHANGED saneVars \/ KillSane
      BY <3>1 DEF saneVars, KillSane
    <3>2. ASSUME NEW r \in Requests,
                 PostScan(r) \/ SaneTryLock(r) \/ ScanDone(r) \/ ScanWritten(r)
          PROVE  scan[q] \in {"sent", "working"}
      BY <3>2 DEF PostScan, SaneTryLock, ScanDone, ScanWritten
    <3>3. ASSUME NEW r \in Requests, NEW reply \in ScanReply, EndScan(r, reply)
          PROVE  scan[q] \in {"sent", "working"}
      BY <3>3 DEF EndScan, ScanReply
    <3>4. ASSUME NEW r \in Requests, NoScanner(r)
          PROVE  \E reply \in ScanReply : EndScan(r, reply)
      BY <3>4 DEF NoScanner, ScanReply
    <3> QED
      BY <3>1, <3>2, <3>3, <3>4, ScanMoves
  <2> QED
    BY <2>1, <2>2 DEF NothingFedYet, BatchesDoNotMix
<1>2. ASSUME NEW r \in Requests, FeedSheet(r) PROVE fedBy'[taken'] = q
  <2>1. scan[r] = "working" /\ scan[q] = "working"
    BY <1>2 DEF FeedSheet, saneVars
  <2>2. r = q
    BY <2>1 DEF SlotsMatchWork
  <2> QED
    BY <1>2, <2>2, ProfileAssumption
       DEF FeedSheet, FeederEmpty, TypeOK, FeederTypes, Sheets
<1> QED
  BY <1>1, <1>2, FeederMoves

(* Every page blank is an error of scan-processor, not an empty answer.    *)
LEMMA LeftOverStep ==
  TypeOK /\ ColdCalls /\ SomethingIsLeft /\ [Next]_vars => SomethingIsLeft'
<1> SUFFICES ASSUME TypeOK, ColdCalls, SomethingIsLeft, [Next]_vars, NEW q \in Requests,
                    \/ stage'[q] = "process" /\ proc'[q] \in {"streaming", "finished"}
                    \/ stage'[q] = "deliver"
             PROVE  Survivors(q)' # {}
  BY DEF SomethingIsLeft
<1> USE DEF TypeOK, BridgeTypes, CallTypes
<1>1. \/ stage[q] = stage'[q]
      \/ DispatchReturns(q)
      \/ ProcessReturns(q) /\ stage[q] = "process" /\ proc[q] = "finished"
  <2>1. CASE KillBridge
    BY <2>1 DEF KillBridge
  <2>2. ASSUME NEW r \in Requests, PostScan(r) \/ Cleanup(r) PROVE stage[q] = stage'[q]
    BY <2>2 DEF PostScan, Cleanup
  <2>3. ASSUME NEW r \in Requests, DispatchReturns(r) \/ ProcessReturns(r)
        PROVE  stage[q] = stage'[q] \/ r = q
    BY <2>3 DEF DispatchReturns, ProcessReturns
  <2>4. ASSUME NEW r \in Requests, DispatchFailure(r) \/ ProcessFailure(r) \/ AnswerScan(r)
        PROVE  stage[q] = stage'[q]
    BY <2>4 DEF DispatchFailure, ProcessFailure, AnswerScan, Finish
  <2>5. ProcessReturns(q) => stage[q] = "process" /\ proc[q] = "finished"
    BY DEF ProcessReturns
  <2> QED
    BY <2>1, <2>2, <2>3, <2>4, <2>5, StageMoves
<1>2. CASE DispatchReturns(q)
  BY <1>2 DEF DispatchReturns, ColdCalls
<1>3. ASSUME stage[q] \in {"process", "deliver"}, Survivors(q) # {} PROVE Survivors(q)' # {}
  BY <1>3, PagesStay DEF Survivors
<1>4. CASE stage[q] = "deliver" \/ (ProcessReturns(q) /\ stage[q] = "process" /\ proc[q] = "finished")
  BY <1>3, <1>4 DEF SomethingIsLeft
<1>5. CASE stage[q] = "process" /\ proc'[q] \in {"streaming", "finished"}
  <2>1. proc[q] \in {"streaming", "finished"} \/ ProcDone(q)
    <3>1. CASE UNCHANGED procVars \/ KillProc
      BY <1>5, <3>1 DEF procVars, KillProc
    <3>2. ASSUME NEW r \in Requests, DispatchReturns(r) \/ ProcTryLock(r) \/ ProcWritten(r)
          PROVE  proc[q] \in {"streaming", "finished"}
      BY <1>5, <3>2 DEF DispatchReturns, ProcTryLock, ProcWritten
    <3>3. ASSUME NEW r \in Requests, ProcDone(r)
          PROVE  proc[q] \in {"streaming", "finished"} \/ ProcDone(q)
      BY <1>5, <3>3 DEF ProcDone
    <3>4. ASSUME NEW r \in Requests, NEW reply \in ProcReply, EndProcess(r, reply)
          PROVE  proc[q] \in {"streaming", "finished"}
      BY <1>5, <3>4 DEF EndProcess, ProcReply
    <3> QED
      BY <3>1, <3>2, <3>3, <3>4, ProcMoves
  <2>2. Survivors(q) # {}
    BY <1>5, <2>1 DEF SomethingIsLeft, ProcDone
  <2> QED
    BY <1>3, <1>5, <2>2
<1> QED
  BY <1>1, <1>2, <1>4, <1>5

(* A document is reported in the step in which it was taken.               *)
LEMMA TakenStep ==
  TypeOK /\ NothingDeliveredBefore /\ TakenIsReported /\ [Next]_vars => TakenIsReported'
<1> SUFFICES ASSUME TypeOK, NothingDeliveredBefore, TakenIsReported, [Next]_vars,
                    NEW q \in Requests, stage'[q] = "deliver", NEW a \in accepted'[q]
             PROVE  \E d \in DocumentIds(q)', o \in Outcome :
                      a[1] = Content(q, d)' /\ <<d, a[2], o>> \in results'[q]
  BY DEF TakenIsReported
<1> USE DEF TypeOK, BridgeTypes, OutputTypes
<1>1. stage[q] \in {"process", "deliver"}
  <2>1. CASE KillBridge
    BY <2>1 DEF KillBridge
  <2>2. ASSUME NEW r \in Requests,
               PostScan(r) \/ DispatchReturns(r) \/ ProcessReturns(r) \/ Cleanup(r)
        PROVE  stage[q] \in {"process", "deliver"}
    BY <2>2 DEF PostScan, DispatchReturns, ProcessReturns, Cleanup
  <2>3. ASSUME NEW r \in Requests, DispatchFailure(r) \/ ProcessFailure(r) \/ AnswerScan(r)
        PROVE  stage[q] \in {"process", "deliver"}
    BY <2>3 DEF DispatchFailure, ProcessFailure, AnswerScan, Finish
  <2> QED
    BY <2>1, <2>2, <2>3, StageMoves
<1>2. stage[q] = "deliver"
  BY <1>1, DeliveriesStay DEF NothingDeliveredBefore
<1>3. DocumentIds(q)' = DocumentIds(q) /\ \A d : Content(q, d)' = Content(q, d)
  BY <1>1, PagesStay DEF DocumentIds, Content, Survivors
<1>4. CASE a \in accepted[q]
  <2>1. PICK d \in DocumentIds(q), o \in Outcome :
          a[1] = Content(q, d) /\ <<d, a[2], o>> \in results[q]
    BY <1>2, <1>4 DEF TakenIsReported
  <2>2. results[q] \subseteq results'[q]
    <3>1. ASSUME NEW r \in Requests, Deliver(r) PROVE results[q] \subseteq results'[q]
      BY <3>1 DEF Deliver, Report
    <3>2. ASSUME NEW r \in Requests, ReadPage(r) \/ ReadDocument(r) \/ Cleanup(r)
          PROVE  results' = results
      BY <3>2 DEF ReadPage, ReadDocument, Cleanup
    <3> QED
      BY <3>1, <3>2, OutputMoves
  <2> QED
    BY <1>3, <2>1, <2>2
<1>5. CASE a \notin accepted[q]
  <2>1. ASSUME NEW r \in Requests, ReadPage(r) \/ ReadDocument(r) \/ Cleanup(r)
        PROVE  accepted' = accepted
    BY <2>1 DEF ReadPage, ReadDocument, Cleanup
  <2>2. PICK r \in Requests : Deliver(r)
    BY <1>5, <2>1, OutputMoves
  <2>3. PICK p \in Pending(r), o \in Outcome : Report(r, p, o) /\ Take(r, p)
    BY <1>5, <2>2 DEF Deliver
  <2>4. r = q /\ a = <<Content(q, p[1]), p[2]>>
    BY <1>5, <2>3 DEF Take
  <2>5. p[1] \in DocumentIds(q)
    BY <2>4 DEF Pending
  <2>6. <<p[1], p[2], o>> \in results'[q]
    BY <2>3, <2>4 DEF Report
  <2> QED
    BY <1>3, <2>4, <2>5, <2>6
<1> QED
  BY <1>4, <1>5

(* The cleanup is deferred to after the answer.                            *)
LEMMA OverStep == TypeOK /\ OverIsAnswered /\ [Next]_vars => OverIsAnswered'
<1> SUFFICES ASSUME TypeOK, OverIsAnswered, [Next]_vars, NEW q \in Requests,
                    stage'[q] \in {"cleanup", "done"}
             PROVE  answer'[q] # None
  BY DEF OverIsAnswered
<1> USE DEF TypeOK, BridgeTypes
<1>1. CASE UNCHANGED <<stage, answer>>
  BY <1>1 DEF OverIsAnswered
<1>2. CASE KillBridge
  BY <1>2 DEF KillBridge, OverIsAnswered
<1>3. ASSUME NEW r \in Requests,
             PostScan(r) \/ DispatchReturns(r) \/ ProcessReturns(r) \/ Cleanup(r)
      PROVE  answer'[q] # None
  BY <1>3 DEF PostScan, DispatchReturns, ProcessReturns, Cleanup, OverIsAnswered
<1>4. ASSUME NEW r \in Requests, NEW a \in Answer, Finish(r, a) PROVE answer'[q] # None
  BY <1>4, NoneAssumption DEF Finish, OverIsAnswered
<1>5. ASSUME NEW r \in Requests, DispatchFailure(r) \/ ProcessFailure(r) \/ AnswerScan(r)
      PROVE  \E a \in Answer : Finish(r, a)
  BY <1>5 DEF DispatchFailure, ProcessFailure, AnswerScan, Answer, Status
<1> QED
  BY <1>1, <1>2, <1>3, <1>4, <1>5, StageMoves

(* Under this invariant every step has its counterpart.                    *)
RefinementInv ==
  /\ SlotsMatchWork /\ ColdCalls /\ TrayIsNobodys /\ NothingFedYet /\ RefusedBySane
  /\ AnsweredIsOver /\ NothingDeliveredBefore /\ PagesAreComplete /\ ReportedIsTaken
  /\ OkIsFinished /\ DeliveredIsFinished /\ BatchesDoNotMix /\ SomethingIsLeft
  /\ TakenIsReported /\ OverIsAnswered

(* It holds before the first request ... *)
LEMMA RefinementInvInit == Init => RefinementInv
  BY ProfileAssumption, NoneAssumption
     DEF Init, RefinementInv, SlotsMatchWork, ColdCalls, TrayIsNobodys, NothingFedYet,
         RefusedBySane, AnsweredIsOver, NothingDeliveredBefore, PagesAreComplete,
         ReportedIsTaken, OkIsFinished, DeliveredIsFinished, BatchesDoNotMix,
         SomethingIsLeft, TakenIsReported, OverIsAnswered, Fed, Answer, Status

(* ... and every step preserves it.                                        *)
LEMMA RefinementInvStep == TypeOK /\ RefinementInv /\ [Next]_vars => RefinementInv'
  BY SlotsStep, ColdStep, TrayStep, NothingFedStep, RefusedStep, AnsweredStep,
     UndeliveredStep, PagesStep, ReportedStep, OkStep, DeliveredStep, BatchesStep,
     LeftOverStep, TakenStep, OverStep
     DEF RefinementInv

(* What every caller has been told, as one function of the state.          *)
TellsAll == [r \in Requests |-> ToldOf(r)]

(* The mapping of what a caller was told, case by case.                    *)
LEMMA ToldIs ==
  ASSUME NEW r \in Requests
  PROVE  /\ answer[r] = None =>
              /\ stage[r] = "new" => TellsAll[r] = "nothing"
              /\ stage[r] = "dead" => TellsAll[r] = "hung up"
              /\ stage[r] \notin {"new", "dead"} => TellsAll[r] = "wait"
         /\ answer[r] \in {"scanner_busy", "no_scanner_detected"} => TellsAll[r] = "refused"
         /\ answer[r] = "ok" =>
              TellsAll[r] = IF \A x \in results[r] : x[3] = "submitted"
                           THEN "submitted" ELSE "partly"
         /\ answer[r] \in Answer \ {"ok", "scanner_busy", "no_scanner_detected"} =>
              TellsAll[r] = "failed"
<1>1. /\ None # "ok" /\ None # "scanner_busy" /\ None # "no_scanner_detected"
      /\ None \notin Answer
  BY NoneAssumption DEF Answer, Status
<1>2. "ok" # "scanner_busy" /\ "ok" # "no_scanner_detected"
  OBVIOUS
<1>3. TellsAll[r] = ToldOf(r)
  BY DEF TellsAll
<1> QED
  BY <1>1, <1>2, <1>3, Zenon DEF ToldOf

(* The same of the next state. *)
LEMMA ToldWillBe ==
  ASSUME NEW r \in Requests
  PROVE  /\ answer'[r] = None =>
              /\ stage'[r] = "new" => TellsAll'[r] = "nothing"
              /\ stage'[r] = "dead" => TellsAll'[r] = "hung up"
              /\ stage'[r] \notin {"new", "dead"} => TellsAll'[r] = "wait"
         /\ answer'[r] \in {"scanner_busy", "no_scanner_detected"} => TellsAll'[r] = "refused"
         /\ answer'[r] = "ok" =>
              TellsAll'[r] = IF \A x \in results'[r] : x[3] = "submitted"
                            THEN "submitted" ELSE "partly"
         /\ answer'[r] \in Answer \ {"ok", "scanner_busy", "no_scanner_detected"} =>
              TellsAll'[r] = "failed"
<1>1. /\ None # "ok" /\ None # "scanner_busy" /\ None # "no_scanner_detected"
      /\ None \notin Answer
  BY NoneAssumption DEF Answer, Status
<1>2. "ok" # "scanner_busy" /\ "ok" # "no_scanner_detected"
  OBVIOUS
<1>3. TellsAll'[r] = ToldOf(r)'
  BY DEF TellsAll
<1> QED
  BY <1>1, <1>2, <1>3, Zenon DEF ToldOf

(* A request whose answer, and whose part in the reports, stays as it was  *)
(* has been told nothing new.                                              *)
LEMMA ToldKept ==
  ASSUME TypeOK, NEW q \in Requests,
         answer'[q] = answer[q],
         \/ stage'[q] = stage[q] \/ answer[q] # None
         \/ stage[q] \notin {"new", "dead"} /\ stage'[q] \notin {"new", "dead"},
         results'[q] = results[q] \/ answer[q] = None
  PROVE  TellsAll'[q] = TellsAll[q]
<1>1. answer[q] \in Answer \cup {None}
  BY DEF TypeOK, BridgeTypes
<1>2. CASE answer[q] = None
  <2>1. /\ stage[q] = "new" => TellsAll[q] = "nothing"
        /\ stage[q] = "dead" => TellsAll[q] = "hung up"
        /\ stage[q] \notin {"new", "dead"} => TellsAll[q] = "wait"
    BY <1>2, ToldIs
  <2>2. /\ stage'[q] = "new" => TellsAll'[q] = "nothing"
        /\ stage'[q] = "dead" => TellsAll'[q] = "hung up"
        /\ stage'[q] \notin {"new", "dead"} => TellsAll'[q] = "wait"
    BY <1>2, ToldWillBe
  <2>3. \/ stage'[q] = stage[q]
        \/ stage[q] \notin {"new", "dead"} /\ stage'[q] \notin {"new", "dead"}
    BY <1>2
  <2>4. CASE stage[q] = "new"
    BY <2>1, <2>2, <2>3, <2>4
  <2>5. CASE stage[q] = "dead"
    BY <2>1, <2>2, <2>3, <2>5
  <2>6. CASE stage[q] \notin {"new", "dead"}
    BY <2>1, <2>2, <2>3, <2>6
  <2> QED
    BY <2>4, <2>5, <2>6
<1>3. CASE answer[q] # None
  <2>1. CASE answer[q] = "ok"
    <3>1. /\ results'[q] = results[q] /\ answer'[q] = "ok"
          /\ TellsAll[q] = IF \A x \in results[q] : x[3] = "submitted"
                           THEN "submitted" ELSE "partly"
          /\ TellsAll'[q] = IF \A x \in results'[q] : x[3] = "submitted"
                            THEN "submitted" ELSE "partly"
      BY <1>3, <2>1, ToldIs, ToldWillBe
    <3> QED
      BY <3>1, Zenon
  <2>2. CASE answer[q] # "ok"
    BY <1>1, <1>3, <2>2, ToldIs, ToldWillBe
  <2> QED
    BY <2>1, <2>2
<1> QED
  BY <1>2, <1>3

(* A step in which nobody is told anything, no sheet moves and no          *)
(* destination takes anything is a stutter of the service.                 *)
LEMMA QuietStep ==
  ASSUME UNCHANGED <<loaded, taken, fedBy, accepted>>,
         \A q \in Requests : TellsAll'[q] = TellsAll[q]
  PROVE  UNCHANGED Service!vars
<1>1. TellsAll' = TellsAll
  BY DEF TellsAll
<1> QED
  BY <1>1 DEF Service!vars, TellsAll

(* A step in which one caller is told something.                           *)
LEMMA TellStep ==
  ASSUME UNCHANGED <<loaded, taken, fedBy, accepted>>,
         NEW r \in Requests, NEW what, TellsAll[r] = "wait", TellsAll'[r] = what,
         \A q \in Requests \ {r} : TellsAll'[q] = TellsAll[q]
  PROVE  Service!Tell(r, what)
<1>1. TellsAll' = [TellsAll EXCEPT ![r] = what]
  BY DEF TellsAll
<1> QED
  BY <1>1 DEF Service!Tell, TellsAll

(* The sheets the service speaks of are the handler's.                     *)
LEMMA WorthIs ==
  ASSUME PagesAreComplete, NEW r \in Requests, stage[r] \in {"process", "deliver"}
  PROVE  Service!Worth(r) = Survivors(r)
  BY DEF PagesAreComplete, Service!Worth, Service!FedTo, Service!Sheets, Survivors, Fed, Sheets

-----------------------------------------------------------------------------
(* One lemma for each kind of step: which step of the service it is.       *)

(* Calls and their slots, contexts and files are nothing to the service.   *)
LEMMA InnerStep ==
  ASSUME TypeOK, UNCHANGED <<loaded, taken, fedBy, stage, answer, results, accepted>>
  PROVE  UNCHANGED Service!vars
<1>1. ASSUME NEW q \in Requests PROVE TellsAll'[q] = TellsAll[q]
  BY ToldKept
<1> QED
  BY <1>1, QuietStep

(* Neither is a handler's way from one stage to the next.                  *)
LEMMA StageStep ==
  ASSUME TypeOK, RefinementInv, NEW r \in Requests,
         DispatchReturns(r) \/ ProcessReturns(r) \/ Cleanup(r)
  PROVE  UNCHANGED Service!vars
<1>1. /\ UNCHANGED <<loaded, taken, fedBy, accepted, answer, results>>
      /\ \E s \in {"process", "deliver", "done"} : stage' = [stage EXCEPT ![r] = s]
      /\ stage[r] \in {"dispatch", "process", "cleanup"}
  BY DEF DispatchReturns, ProcessReturns, Cleanup, feederVars
<1>2. ASSUME NEW q \in Requests PROVE TellsAll'[q] = TellsAll[q]
  BY <1>1, ToldKept DEF TypeOK, BridgeTypes
<1> QED
  BY <1>1, <1>2, QuietStep

(* POST /scan begins a request. *)
LEMMA PostScanStep ==
  ASSUME TypeOK, RefinementInv, NEW r \in Requests, PostScan(r)
  PROVE  Service!Begin(r)
<1>1. /\ UNCHANGED <<loaded, taken, fedBy, accepted, answer, results>>
      /\ stage[r] = "new" /\ stage' = [stage EXCEPT ![r] = "dispatch"]
  BY DEF PostScan, feederVars
<1>2. answer[r] = None /\ answer'[r] = None /\ stage'[r] = "dispatch"
  BY <1>1 DEF RefinementInv, AnsweredIsOver, TypeOK, BridgeTypes
<1>3. TellsAll[r] = "nothing" /\ TellsAll'[r] = "wait"
  BY <1>1, <1>2, ToldIs, ToldWillBe
<1>4. ASSUME NEW q \in Requests, q # r PROVE TellsAll'[q] = TellsAll[q]
  BY <1>1, <1>4, ToldKept DEF TypeOK, BridgeTypes
<1>5. TellsAll' = [TellsAll EXCEPT ![r] = "wait"]
  BY <1>3, <1>4 DEF TellsAll
<1> QED
  BY <1>1, <1>3, <1>5 DEF Service!Begin, TellsAll

(* A sheet goes in only for a caller who may still lose one, and behind    *)
(* sheets of the same batch.                                               *)
LEMMA FeedStep ==
  ASSUME TypeOK, RefinementInv, NEW r \in Requests, FeedSheet(r)
  PROVE  Service!Feed(r)
<1>1. /\ UNCHANGED <<loaded, stage, answer, results, accepted>>
      /\ taken' = taken + 1 /\ fedBy' = [fedBy EXCEPT ![taken + 1] = r]
      /\ scan[r] = "working" /\ taken # loaded /\ ~BatchComplete(r)
  BY DEF FeedSheet, FeederEmpty, bridgeVars
<1>2. accepted[r] = {}
  BY <1>1 DEF RefinementInv, DeliveredIsFinished
<1>3. TellsAll[r] \in {"wait", "failed", "hung up"}
  <2>1. stage[r] # "new" /\ answer[r] \notin {"ok", "scanner_busy", "no_scanner_detected"}
    BY <1>1 DEF RefinementInv, ColdCalls, OkIsFinished, RefusedBySane
  <2>2. CASE answer[r] = None
    BY <2>1, <2>2, ToldIs
  <2>3. CASE answer[r] # None
    <3>1. answer[r] \in Answer \ {"ok", "scanner_busy", "no_scanner_detected"}
      BY <2>1, <2>3 DEF TypeOK, BridgeTypes
    <3> QED
      BY <3>1, ToldIs
  <2> QED
    BY <2>2, <2>3
<1>4. TellsAll' = TellsAll
  <2>1. ASSUME NEW q \in Requests PROVE TellsAll'[q] = TellsAll[q]
    BY <1>1, ToldKept
  <2> QED
    BY <2>1 DEF TellsAll
<1>5. taken < loaded
  BY <1>1, ProfileAssumption DEF TypeOK, FeederTypes
<1>6. Service!FedTo(r) = Fed(r)
  BY DEF Service!FedTo, Service!Sheets, Fed, Sheets
<1>7. Fed(r) = {} \/ fedBy[taken] = r
  BY <1>1 DEF RefinementInv, BatchesDoNotMix
<1>8. Profile[r].maxPages > 0 => Cardinality(Fed(r)) < Profile[r].maxPages
  <2>1. Cardinality(Fed(r)) \in Nat
    <3>1. IsFiniteSet(Sheets) /\ Fed(r) \subseteq Sheets
      BY FS_Interval, ProfileAssumption DEF Sheets, Fed
    <3> QED
      BY <3>1, FS_Subset, FS_CardinalityType
  <2>2. Profile[r].maxPages \in Nat
    BY ProfileAssumption
  <2> QED
    BY <1>1, <2>1, <2>2 DEF BatchComplete
<1>9. Service!Cardinality(Fed(r)) = Cardinality(Fed(r))
  BY DEF Service!Cardinality, Cardinality
<1> QED
  BY <1>1, <1>2, <1>3, <1>4, <1>5, <1>6, <1>7, <1>8, <1>9 DEF Service!Feed, TellsAll

(* An upload hands a document to a destination that has none of its        *)
(* sheets, or hands over nothing.                                          *)
LEMMA DeliverStep ==
  ASSUME TypeOK, RefinementInv, NEW r \in Requests, Deliver(r)
  PROVE  Service!Receive(r) \/ UNCHANGED Service!vars
<1>1. /\ UNCHANGED <<loaded, taken, fedBy, stage, answer>> /\ stage[r] = "deliver"
      /\ \A q \in Requests \ {r} : results'[q] = results[q]
  BY DEF Deliver, Report, feederVars, TypeOK, OutputTypes
<1>2. answer[r] = None
  BY <1>1 DEF RefinementInv, AnsweredIsOver
<1>3. ASSUME NEW q \in Requests PROVE TellsAll'[q] = TellsAll[q]
  BY <1>1, <1>2, ToldKept
<1>4. CASE UNCHANGED accepted
  BY <1>1, <1>3, <1>4, QuietStep
<1>5. CASE ~UNCHANGED accepted
  <2>1. PICK p \in Pending(r) : Take(r, p)
    BY <1>5 DEF Deliver
  <2>2. TellsAll[r] = "wait" /\ TellsAll' = TellsAll
    BY <1>1, <1>2, <1>3, ToldIs DEF TellsAll
  <2>3. p[1] \in DocumentIds(r) /\ p[2] \in Profile[r].destinations
    BY DEF Pending
  <2>4. Service!Worth(r) = Survivors(r) /\ Survivors(r) # {}
    BY <1>1, WorthIs DEF RefinementInv, SomethingIsLeft
  <2>5. Content(r, p[1]) \in Service!Documents(r)
    BY <2>3, <2>4 DEF Content, DocumentIds, Service!Documents
  <2>6. ASSUME NEW x \in accepted[r], x[2] = p[2] PROVE x[1] \cap Content(r, p[1]) = {}
    <3>1. PICK d \in DocumentIds(r), o \in Outcome :
            x[1] = Content(r, d) /\ <<d, p[2], o>> \in results[r]
      BY <1>1, <2>6 DEF RefinementInv, TakenIsReported
    <3>2. d # p[1]
      BY <3>1 DEF Pending
    <3> QED
      BY <2>3, <3>1, <3>2 DEF Content, DocumentIds
  <2>7. accepted' = [accepted EXCEPT ![r] = @ \cup {<<Content(r, p[1]), p[2]>>}]
    BY <2>1 DEF Take
  <2> QED
    BY <1>1, <2>2, <2>3, <2>5, <2>6, <2>7 DEF Service!Receive, TellsAll
<1> QED
  BY <1>4, <1>5

-----------------------------------------------------------------------------
(* A 200 says "submitted" only when every destination holds every sheet.   *)
LEMMA AnswerStep ==
  ASSUME TypeOK, RefinementInv, NEW r \in Requests, AnswerScan(r)
  PROVE  Service!Submit(r) \/ Service!SubmitPartly(r)
<1>1. /\ UNCHANGED <<loaded, taken, fedBy, accepted, results>>
      /\ stage[r] = "deliver" /\ Pending(r) = {}
      /\ answer' = [answer EXCEPT ![r] = "ok"] /\ stage' = [stage EXCEPT ![r] = "cleanup"]
  BY DEF AnswerScan, Finish, feederVars
<1>2. answer[r] = None /\ answer'[r] = "ok"
  BY <1>1 DEF RefinementInv, AnsweredIsOver, TypeOK, BridgeTypes
<1>3. TellsAll[r] = "wait"
  BY <1>1, <1>2, ToldIs
<1>4. ASSUME NEW q \in Requests \ {r} PROVE TellsAll'[q] = TellsAll[q]
  <2>1. answer'[q] = answer[q] /\ stage'[q] = stage[q]
    BY <1>1 DEF TypeOK, BridgeTypes
  <2> QED
    BY <1>1, <2>1, ToldKept
<1>5. Service!Worth(r) = Survivors(r) /\ Survivors(r) # {}
  BY <1>1, WorthIs DEF RefinementInv, SomethingIsLeft
<1>6. CASE \A x \in results[r] : x[3] = "submitted"
  <2>1. TellsAll'[r] = "submitted"
    <3>1. TellsAll'[r] = IF \A x \in results'[r] : x[3] = "submitted"
                         THEN "submitted" ELSE "partly"
      BY <1>2, ToldWillBe
    <3>2. results' = results
      BY <1>1
    <3> QED
      BY <1>6, <3>1, <3>2, Zenon
  <2>2. Service!Tell(r, "submitted")
    BY <1>1, <1>3, <1>4, <2>1, TellStep
  <2>3. ASSUME NEW dst \in Profile[r].destinations
        PROVE  UNION {x[1] : x \in {y \in accepted[r] : y[2] = dst}} = Survivors(r)
    <3>1. ASSUME NEW x \in accepted[r] PROVE x[1] \subseteq Survivors(r)
      <4>1. PICK d \in DocumentIds(r) : x[1] = Content(r, d)
        BY <1>1, <3>1 DEF RefinementInv, TakenIsReported
      <4> QED
        BY <4>1 DEF DocumentIds, Content
    <3>2. ASSUME NEW i \in Survivors(r)
          PROVE  \E x \in accepted[r] : x[2] = dst /\ i \in x[1]
      <4>1. PICK d \in DocumentIds(r) : i \in Content(r, d)
        BY DEF DocumentIds, Content
      <4>2. <<d, dst>> \in DocumentIds(r) \X Profile[r].destinations
        BY <4>1
      <4>3. PICK o \in Outcome : <<d, dst, o>> \in results[r]
        BY <1>1, <4>2 DEF Pending
      <4>4. o = "submitted"
        BY <1>6, <4>3
      <4>5. <<Content(r, d), dst>> \in accepted[r]
        BY <1>1, <4>3, <4>4 DEF RefinementInv, ReportedIsTaken
      <4> QED
        BY <4>1, <4>5
    <3> QED
      BY <3>1, <3>2
  <2> QED
    BY <1>5, <2>2, <2>3 DEF Service!Submit
<1>7. CASE ~\A x \in results[r] : x[3] = "submitted"
  <2>1. TellsAll'[r] = "partly"
    <3>1. TellsAll'[r] = IF \A x \in results'[r] : x[3] = "submitted"
                         THEN "submitted" ELSE "partly"
      BY <1>2, ToldWillBe
    <3>2. results' = results
      BY <1>1
    <3> QED
      BY <1>7, <3>1, <3>2, Zenon
  <2>2. Service!Tell(r, "partly")
    BY <1>1, <1>3, <1>4, <2>1, TellStep
  <2> QED
    BY <1>5, <2>2 DEF Service!SubmitPartly
<1> QED
  BY <1>6, <1>7

(* An error is told before anything was delivered, and a refusal before    *)
(* anything was fed.                                                       *)
LEMMA FailStep ==
  ASSUME TypeOK, RefinementInv, NEW r \in Requests, DispatchFailure(r) \/ ProcessFailure(r)
  PROVE  Service!Refuse(r) \/ Service!Fail(r)
<1>1. PICK a \in Answer \ {"ok"} :
         /\ stage[r] \in {"dispatch", "process"}
         /\ Finish(r, a)
         /\ a = "scanner_busy" => scan[r] = "busy"
         /\ a = "no_scanner_detected" => scan[r] = "no_scanner"
  BY DEF DispatchFailure, ProcessFailure
<1>2. /\ UNCHANGED <<loaded, taken, fedBy, accepted, results>>
      /\ answer' = [answer EXCEPT ![r] = a] /\ stage' = [stage EXCEPT ![r] = "cleanup"]
  BY <1>1 DEF Finish, feederVars
<1>3. answer[r] = None /\ answer'[r] = a
  BY <1>1, <1>2 DEF RefinementInv, AnsweredIsOver, TypeOK, BridgeTypes
<1>4. TellsAll[r] = "wait"
  BY <1>1, <1>3, ToldIs
<1>5. ASSUME NEW q \in Requests \ {r} PROVE TellsAll'[q] = TellsAll[q]
  <2>1. answer'[q] = answer[q] /\ stage'[q] = stage[q]
    BY <1>2 DEF TypeOK, BridgeTypes
  <2> QED
    BY <1>2, <2>1, ToldKept
<1>6. accepted[r] = {}
  BY <1>1 DEF RefinementInv, NothingDeliveredBefore
<1>7. CASE a \in {"scanner_busy", "no_scanner_detected"}
  <2>1. TellsAll'[r] = "refused"
    BY <1>3, <1>7, ToldWillBe
  <2>2. Service!FedTo(r) = {}
    BY <1>1, <1>7
       DEF RefinementInv, NothingFedYet, Service!FedTo, Service!Sheets, Fed, Sheets
  <2>3. Service!Tell(r, "refused")
    BY <1>2, <1>4, <1>5, <2>1, TellStep
  <2> QED
    BY <1>6, <2>2, <2>3 DEF Service!Refuse
<1>8. CASE a \notin {"scanner_busy", "no_scanner_detected"}
  <2>1. TellsAll'[r] = "failed"
    BY <1>1, <1>3, <1>8, ToldWillBe
  <2>2. Service!Tell(r, "failed")
    BY <1>2, <1>4, <1>5, <2>1, TellStep
  <2> QED
    BY <1>6, <2>2 DEF Service!Fail
<1> QED
  BY <1>7, <1>8

(* Who waits when the bridge is killed is whoever has a handler that has   *)
(* not answered.                                                           *)
LEMMA KillStep ==
  ASSUME TypeOK, RefinementInv, KillBridge
  PROVE  Service!HangUp
<1>1. UNCHANGED <<loaded, taken, fedBy, accepted, results, answer>>
  BY DEF KillBridge, feederVars
<1>2. ASSUME NEW q \in Requests
      PROVE  TellsAll'[q] = IF TellsAll[q] = "wait" THEN "hung up" ELSE TellsAll[q]
  <2>1. stage[q] \in Stage /\ answer[q] \in Answer \cup {None}
    BY DEF TypeOK, BridgeTypes
  <2>2. CASE InFlight(q) /\ answer[q] = None
    <3>1. TellsAll[q] = "wait"
      BY <2>2, ToldIs DEF InFlight
    <3>2. stage'[q] = "dead"
      BY <2>2 DEF KillBridge
    <3>3. TellsAll'[q] = "hung up"
      BY <1>1, <2>2, <3>2, ToldWillBe
    <3> QED
      BY <3>1, <3>3
  <2>3. CASE answer[q] # None
    <3>1. TellsAll'[q] = TellsAll[q]
      BY <1>1, <2>3, ToldKept
    <3>2. answer[q] \in Answer
      BY <2>1, <2>3
    <3>3. CASE answer[q] = "ok"
      <4>1. TellsAll[q] = IF \A x \in results[q] : x[3] = "submitted"
                          THEN "submitted" ELSE "partly"
        BY <3>3, ToldIs
      <4>2. TellsAll[q] # "wait"
        BY <4>1
      <4> QED
        BY <3>1, <4>2
    <3>4. CASE answer[q] # "ok"
      <4>1. TellsAll[q] \in {"refused", "failed"}
        BY <3>2, <3>4, ToldIs
      <4> QED
        BY <3>1, <4>1
    <3> QED
      BY <3>3, <3>4
  <2>4. CASE ~InFlight(q) /\ answer[q] = None
    <3>1. stage'[q] = stage[q]
      BY <2>4 DEF KillBridge
    <3>2. TellsAll'[q] = TellsAll[q]
      BY <1>1, <3>1, ToldKept
    <3>3. stage[q] \in {"new", "dead"}
      BY <2>1, <2>4 DEF InFlight, Stage, RefinementInv, OverIsAnswered
    <3>4. TellsAll[q] \in {"nothing", "hung up"}
      BY <2>4, <3>3, ToldIs
    <3> QED
      BY <3>2, <3>4
  <2> QED
    BY <2>2, <2>3, <2>4
<1>3. TellsAll' = [q \in Requests |-> IF TellsAll[q] = "wait" THEN "hung up" ELSE TellsAll[q]]
  BY <1>2 DEF TellsAll
<1> QED
  BY <1>1, <1>3 DEF Service!HangUp, TellsAll

(* Nothing has happened, to the service either. *)
LEMMA ServiceInit == Init => Service!Init
  BY NoneAssumption DEF Init, Service!Init, ToldOf, Service!Sheets, Sheets, Answer, Status

(* Every step of the pipeline is a step of the service or none.            *)
LEMMA ServiceStep ==
  TypeOK /\ RefinementInv /\ [Next]_vars => [Service!Next]_(Service!vars)
<1> SUFFICES ASSUME TypeOK, RefinementInv, [Next]_vars
             PROVE  Service!Next \/ UNCHANGED Service!vars
  OBVIOUS
<1>1. CASE UNCHANGED vars \/ KillSane \/ KillProc
  BY <1>1, InnerStep DEF vars, KillSane, KillProc, feederVars, bridgeVars
<1>2. CASE LoadSheet
  <2>1. Service!Load
    <3>1. UNCHANGED <<taken, fedBy, stage, answer, results, accepted>>
      BY <1>2 DEF LoadSheet, bridgeVars
    <3>2. ASSUME NEW q \in Requests PROVE TellsAll'[q] = TellsAll[q]
      BY <3>1, ToldKept
    <3>3. TellsAll' = TellsAll
      BY <3>2 DEF TellsAll
    <3> QED
      BY <1>2, <3>1, <3>3 DEF LoadSheet, Service!Load, TellsAll
  <2> QED
    BY <2>1 DEF Service!Next
<1>3. CASE KillBridge
  BY <1>3, KillStep DEF Service!Next
<1>4. ASSUME NEW r \in Requests, PostScan(r) \/ FeedSheet(r)
      PROVE  Service!Next
  BY <1>4, PostScanStep, FeedStep DEF Service!Next
<1>5. ASSUME NEW r \in Requests,
             Disconnect(r) \/ Expire(r) \/ SaneTryLock(r) \/ NoScanner(r)
               \/ ScanDone(r) \/ ScanFails(r) \/ ScanKilled(r) \/ ScanWritten(r)
      PROVE  UNCHANGED Service!vars
  BY <1>5, InnerStep
     DEF Disconnect, Expire, EndContext, SaneTryLock, NoScanner, ScanDone, ScanFails,
         ScanKilled, ScanWritten, EndScan, feederVars, bridgeVars
<1>6. ASSUME NEW r \in Requests,
             ProcTryLock(r) \/ ProcDone(r) \/ ProcFails(r) \/ ProcKilled(r) \/ ProcWritten(r)
               \/ ReadPage(r) \/ ReadDocument(r)
      PROVE  UNCHANGED Service!vars
  BY <1>6, InnerStep
     DEF ProcTryLock, ProcDone, ProcFails, ProcKilled, ProcWritten, EndProcess, ReadPage,
         ReadDocument, feederVars, bridgeVars
<1>7. ASSUME NEW r \in Requests, DispatchReturns(r) \/ ProcessReturns(r) \/ Cleanup(r)
      PROVE  UNCHANGED Service!vars
  BY <1>7, StageStep
<1>8. ASSUME NEW r \in Requests, DispatchFails(r) \/ ProcessFails(r) \/ CallTimesOut(r)
      PROVE  Service!Next
  <2>1. DispatchFails(r) => DispatchFailure(r)
    BY DEF DispatchFails, DispatchFailure, DispatchAnswer, CallErrors, ScanReply, Answer, Status
  <2>2. ProcessFails(r) => ProcessFailure(r)
    BY DEF ProcessFails, ProcessFailure, ProcessAnswer, CallErrors, ProcReply, Answer, Status
  <2>3. CallTimesOut(r) => DispatchFailure(r) \/ ProcessFailure(r)
    BY DEF CallTimesOut, DispatchFailure, ProcessFailure, Answer, Status
  <2> QED
    BY <1>8, <2>1, <2>2, <2>3, FailStep DEF Service!Next
<1>9. ASSUME NEW r \in Requests, Deliver(r) \/ AnswerScan(r)
      PROVE  Service!Next \/ UNCHANGED Service!vars
  BY <1>9, DeliverStep, AnswerStep DEF Service!Next
<1> QED
  BY <1>1, <1>2, <1>3, <1>4, <1>5, <1>6, <1>7, <1>8, <1>9 DEF Next, Handler

(* The pipeline implements the service (ImplementsService): whatever the   *)
(* handlers, calls, slots and kills do in between, callers, paper and      *)
(* destinations see a behaviour of ScanService.                            *)
THEOREM ServiceImplemented == Spec => ImplementsService
<1>1. Spec => []RefinementInv
  BY RefinementInvInit, RefinementInvStep, TypeCorrect, PTL DEF Spec
<1>2. TypeOK /\ RefinementInv /\ [Next]_vars
        => [Service!vars' # Service!vars /\ Service!Next]_(Service!vars)
  BY ServiceStep
<1> QED
  BY <1>1, <1>2, ServiceInit, TypeCorrect, PTL DEF Spec, ImplementsService, Service!Spec

=============================================================================
