---------------------------- MODULE ScanPipeline ----------------------------
(***************************************************************************)
(* POST /scan end to end: scan-bridge's handler drives sane-runtime (one   *)
(* scanner, one slot), then scan-processor (one slot), then every          *)
(* destination, under one context that the caller's connection and the     *)
(* profile's timeout end.  Each request names a profile.                   *)
(*                                                                         *)
(* A sheet is a number, in feeding order; a page, and a page's share of an *)
(* assembled document, is the sheet it came from.                          *)
(***************************************************************************)
EXTENDS Naturals, FiniteSets

CONSTANTS
  Requests,         \* POST /scan calls
  Profile,          \* the profile each names, see ProfileAssumption
  NumSheets,        \* bound on the sheets anyone puts into the feeder
  Blank,            \* sheets that identify(1) reports as blank
  KeepScanOutput,   \* paths.keep_scan_output
  MaxCrashes,       \* bound on containers killed
  None

Sheets == 1..NumSheets

(* perPage: assembly.page_grouping is per_page.  image: the format is jpeg *)
(* or png, one image to a file.  maxPages: 0 for no limit.  destinations:  *)
(* numbered in delivery order.  long: timeout_seconds, which has no upper  *)
(* limit, lies above the five minutes of the bridge's own HTTP clients.    *)
ASSUME ProfileAssumption ==
  /\ Profile \in [Requests -> [perPage : BOOLEAN, image : BOOLEAN, long : BOOLEAN,
                              maxPages : Nat, destinations : SUBSET Nat]]
  /\ \A r \in Requests : IsFiniteSet(Profile[r].destinations)
  /\ NumSheets \in Nat /\ MaxCrashes \in Nat
  /\ Blank \subseteq Sheets /\ KeepScanOutput \in BOOLEAN

Destinations == UNION {Profile[r].destinations : r \in Requests}

VARIABLES
  loaded, taken, fedBy,      \* the feeder: sheets put in, pulled out, and for whom
  stage, ctx, answer,        \* scan-bridge: where the handler is, its context, its answer
  pages, documents,          \* files under OutputDir/<scan_id>
  results, accepted,         \* per destination: what is reported, what it really took
  scan, scanLock,            \* sane-runtime: its side of each call, scanMu
  proc, procLock,            \* scan-processor: its side of each call, processMu
  crashes

feederVars == <<loaded, taken, fedBy>>
bridgeVars == <<stage, ctx, answer, pages, documents, results, accepted>>
saneVars   == <<scan, scanLock>>
procVars   == <<proc, procLock>>
vars == <<loaded, taken, fedBy, stage, ctx, answer, pages, documents, results,
          accepted, scan, scanLock, proc, procLock, crashes>>

Stage == {"new", "dispatch", "process", "deliver", "cleanup", "done", "dead"}

(* A call's progress on the far side; ScanReply and ProcReply are the      *)
(* answers other than 200 it may end with.                                 *)
ScanReply == {"busy", "no_scanner", "no_documents", "device_error", "timed_out", "failed"}
ProcReply == {"busy", "unsupported", "failed", "timed_out", "internal"}
Call      == {"none", "sent", "working", "streaming", "finished", "dead"}

DispatchAnswer ==
  [busy |-> "scanner_busy", no_scanner |-> "no_scanner_detected",
   no_documents |-> "no_documents", device_error |-> "no_documents",
   timed_out |-> "timeout", failed |-> "dispatch_failed"]

(* Mutant: scan-processor's 409 is answered with the scanner's error code. *)
ProcessAnswerReused ==
  [unsupported |-> "unsupported_output", busy |-> "scanner_busy",
   failed |-> "processing_failed", timed_out |-> "timeout",
   internal |-> "processing_dispatch_failed"]

ProcessAnswer ==
  [unsupported |-> "unsupported_output", busy |-> "processor_busy",
   failed |-> "processing_failed", timed_out |-> "timeout",
   internal |-> "processing_dispatch_failed"]

Status == [scanner_busy |-> 409, processor_busy |-> 409, no_scanner_detected |-> 503,
           no_documents |-> 422, processing_failed |-> 422, timeout |-> 504,
           unsupported_output |-> 500, dispatch_failed |-> 502,
           processing_dispatch_failed |-> 502, ok |-> 200]

Answer == DOMAIN Status
ASSUME NoneAssumption == None \notin Requests \cup Answer

Outcome == {"submitted", "failed", "timed_out"}

(* The deadline is doubled for the one profile shape that delivers many    *)
(* documents to several destinations; sane-runtime and scan-processor are  *)
(* still given timeout_seconds, so there their own timers fire first.      *)
Headroom(r) == Profile[r].perPage /\ Cardinality(Profile[r].destinations) > 1

Fed(r) == {i \in Sheets : fedBy[i] = r}
FeederEmpty == taken = loaded
BatchComplete(r) == Profile[r].maxPages > 0 /\ Cardinality(Fed(r)) >= Profile[r].maxPages

(* What scan-processor makes of the pages it was sent: blanks go, and the  *)
(* rest become one document each or one together.                          *)
Survivors(r) == pages[r] \ Blank
DocumentIds(r) == IF Profile[r].perPage THEN Survivors(r) ELSE {0}
Content(r, d)  == IF Profile[r].perPage THEN {d} ELSE Survivors(r)

(* Deliveries go document by document, and for each destination by destination. *)
Before(p, q) == p[1] < q[1] \/ (p[1] = q[1] /\ p[2] <= q[2])
Pending(r) == {p \in DocumentIds(r) \X Profile[r].destinations :
                 \A o \in Outcome : <<p[1], p[2], o>> \notin results[r]}

InFlight(r) == stage[r] \in {"dispatch", "process", "deliver", "cleanup"}

BridgeTypes ==
  /\ stage \in [Requests -> Stage]
  /\ ctx \in [Requests -> {"live", "expired", "cancelled"}]
  /\ answer \in [Requests -> Answer \cup {None}]

OutputTypes ==
  /\ pages \in [Requests -> SUBSET Sheets]
  /\ documents \in [Requests -> SUBSET (Sheets \cup {0})]
  /\ results \in [Requests -> SUBSET ((Sheets \cup {0}) \X Destinations \X Outcome)]
  /\ accepted \in [Requests -> SUBSET ((SUBSET Sheets) \X Destinations)]

FeederTypes ==
  /\ loaded \in 0..NumSheets /\ taken \in 0..loaded
  /\ fedBy \in [Sheets -> Requests \cup {None}]

CallTypes ==
  /\ scan \in [Requests -> Call \cup ScanReply] /\ scanLock \in Requests \cup {None}
  /\ proc \in [Requests -> Call \cup ProcReply] /\ procLock \in Requests \cup {None}
  /\ crashes \in 0..MaxCrashes

TypeOK == BridgeTypes /\ OutputTypes /\ FeederTypes /\ CallTypes

Init ==
  /\ loaded = 0 /\ taken = 0 /\ fedBy = [i \in Sheets |-> None]
  /\ stage = [r \in Requests |-> "new"] /\ ctx = [r \in Requests |-> "live"]
  /\ answer = [r \in Requests |-> None]
  /\ pages = [r \in Requests |-> {}] /\ documents = [r \in Requests |-> {}]
  /\ results = [r \in Requests |-> {}] /\ accepted = [r \in Requests |-> {}]
  /\ scan = [r \in Requests |-> "none"] /\ scanLock = None
  /\ proc = [r \in Requests |-> "none"] /\ procLock = None
  /\ crashes = 0

-----------------------------------------------------------------------------
(* The caller, the feeder and time. *)

LoadSheet ==
  /\ loaded < NumSheets
  /\ loaded' = loaded + 1
  /\ UNCHANGED <<taken, fedBy, bridgeVars, saneVars, procVars, crashes>>

PostScan(r) ==
  /\ stage[r] = "new"
  /\ stage' = [stage EXCEPT ![r] = "dispatch"]
  /\ scan' = [scan EXCEPT ![r] = "sent"]
  /\ UNCHANGED <<feederVars, ctx, answer, pages, documents, results, accepted,
                 scanLock, procVars, crashes>>

(* Mutant: the request's context has no deadline.                          *)
EndContextOnHangUp(r, why) ==
  /\ InFlight(r) /\ ctx[r] = "live" /\ why = "cancelled"
  /\ ctx' = [ctx EXCEPT ![r] = why]
  /\ UNCHANGED <<feederVars, stage, answer, pages, documents, results, accepted,
                 saneVars, procVars, crashes>>

(* The caller hangs up, or the deadline of the whole request passes.       *)
EndContext(r, why) ==
  /\ InFlight(r) /\ ctx[r] = "live"
  /\ ctx' = [ctx EXCEPT ![r] = why]
  /\ UNCHANGED <<feederVars, stage, answer, pages, documents, results, accepted,
                 saneVars, procVars, crashes>>

Disconnect(r) == EndContext(r, "cancelled")
Expire(r)     == EndContext(r, "expired")

-----------------------------------------------------------------------------
(* sane-runtime.  The slot is held until the handler has written its last  *)
(* page or its error.                                                      *)

(* Mutant: scanimage is started without the context.                       *)
ScanIgnoresContext(r) == FALSE

(* Its own context ends with the bridge's connection, or by its own timer, *)
(* which was set after the bridge's.                                       *)
ScanContextDone(r) == ctx[r] # "live" \/ stage[r] # "dispatch" \/ Headroom(r)

EndScan(r, reply) ==
  /\ scan[r] = "working"
  /\ scan' = [scan EXCEPT ![r] = reply]
  /\ scanLock' = None
  /\ UNCHANGED <<feederVars, bridgeVars, procVars, crashes>>

SaneTryLock(r) ==
  /\ scan[r] = "sent"
  /\ \/ /\ scanLock = None
        /\ scanLock' = r
        /\ scan' = [scan EXCEPT ![r] = "working"]
     \/ /\ scanLock # None
        /\ scan' = [scan EXCEPT ![r] = "busy"]
        /\ UNCHANGED scanLock
  /\ UNCHANGED <<feederVars, bridgeVars, procVars, crashes>>

NoScanner(r) ==
  /\ Fed(r) = {}
  /\ EndScan(r, "no_scanner")

(* scanimage pulls a sheet in; from here on the tray no longer has it.     *)
FeedSheet(r) ==
  /\ scan[r] = "working"
  /\ ~FeederEmpty /\ ~BatchComplete(r)
  /\ taken' = taken + 1
  /\ fedBy' = [fedBy EXCEPT ![taken + 1] = r]
  /\ UNCHANGED <<loaded, bridgeVars, saneVars, procVars, crashes>>

ScanDone(r) ==
  /\ scan[r] = "working"
  /\ Fed(r) # {}
  /\ FeederEmpty \/ BatchComplete(r)
  /\ scan' = [scan EXCEPT ![r] = "streaming"]
  /\ UNCHANGED <<feederVars, bridgeVars, scanLock, procVars, crashes>>

(* scanimage ends with an error: which one is told from its last output,   *)
(* however many sheets it has pulled in by then.                           *)
ScanFails(r) ==
  \E reply \in {"no_documents", "device_error", "failed"} : EndScan(r, reply)

(* Mutant: the slot is given back with the context, not when scanimage has *)
(* ended.                                                                  *)
ScanKilledSlotFirst(r) ==
  /\ ScanContextDone(r) /\ scan[r] = "working" /\ scanLock = r
  /\ scanLock' = None
  /\ UNCHANGED <<feederVars, bridgeVars, scan, procVars, crashes>>

(* scanimage is killed with the context: 504 when the timer did it, 500    *)
(* when the connection went away.                                          *)
ScanKilled(r) ==
  /\ ScanContextDone(r)
  /\ \E reply \in {"timed_out", "failed"} : EndScan(r, reply)

ScanWritten(r) ==
  /\ scan[r] = "streaming"
  /\ scan' = [scan EXCEPT ![r] = "finished"]
  /\ scanLock' = None
  /\ UNCHANGED <<feederVars, bridgeVars, procVars, crashes>>

-----------------------------------------------------------------------------
(* scan-processor. *)

ProcContextDone(r) == ctx[r] # "live" \/ stage[r] # "process" \/ Headroom(r)

(* Mutant: the slot is not given back on the error paths.                  *)
EndProcessKeepsSlot(r, reply) ==
  /\ proc[r] = "working"
  /\ proc' = [proc EXCEPT ![r] = reply]
  /\ UNCHANGED <<feederVars, bridgeVars, procLock, saneVars, crashes>>

EndProcess(r, reply) ==
  /\ proc[r] = "working"
  /\ proc' = [proc EXCEPT ![r] = reply]
  /\ procLock' = None
  /\ UNCHANGED <<feederVars, bridgeVars, saneVars, crashes>>

(* The body is read and checked before the slot is tried: one beyond the   *)
(* size limit is refused with 413, one that cannot be read or asks for an  *)
(* output nobody knows with 400.                                           *)
ProcTryLock(r) ==
  /\ proc[r] = "sent"
  /\ \/ /\ procLock = None
        /\ procLock' = r
        /\ proc' = [proc EXCEPT ![r] = "working"]
     \/ /\ procLock # None
        /\ proc' = [proc EXCEPT ![r] = "busy"]
        /\ UNCHANGED procLock
     \/ /\ \E reply \in {"internal", "unsupported"} : proc' = [proc EXCEPT ![r] = reply]
        /\ UNCHANGED procLock
  /\ UNCHANGED <<feederVars, bridgeVars, saneVars, crashes>>

CannotCombine(r) ==
  Profile[r].image /\ ~Profile[r].perPage /\ Cardinality(Survivors(r)) > 1

ProcDone(r) ==
  /\ proc[r] = "working"
  /\ Survivors(r) # {} /\ ~CannotCombine(r)
  /\ proc' = [proc EXCEPT ![r] = "streaming"]
  /\ UNCHANGED <<feederVars, bridgeVars, saneVars, procLock, crashes>>

ProcFails(r) ==
  \/ \E reply \in {"failed", "internal"} : EndProcess(r, reply)
  \/ /\ CannotCombine(r)
     /\ EndProcess(r, "unsupported")

(* A deadline that passes inside a tool of a hard stage carries both       *)
(* ErrTimeout and ErrOCRFailed, and the latter is looked for first.        *)
ProcKilled(r) ==
  /\ ProcContextDone(r)
  /\ \E reply \in {"timed_out", "failed"} : EndProcess(r, reply)

ProcWritten(r) ==
  /\ proc[r] = "streaming"
  /\ proc' = [proc EXCEPT ![r] = "finished"]
  /\ procLock' = None
  /\ UNCHANGED <<feederVars, bridgeVars, saneVars, crashes>>

-----------------------------------------------------------------------------
(* scan-bridge's handler. *)

Finish(r, a) ==
  /\ answer' = [answer EXCEPT ![r] = a]
  /\ stage' = [stage EXCEPT ![r] = "cleanup"]
  /\ UNCHANGED <<feederVars, ctx, pages, documents, results, accepted, saneVars,
                 procVars, crashes>>

(* What ending the context, losing the far side mid-answer, or failing to  *)
(* write a file makes of a call in progress.                               *)
CallErrors(r, call, other) ==
  (IF ctx[r] = "expired" THEN {"timeout"} ELSE {})
    \cup (IF ctx[r] = "cancelled" \/ call \in {"dead", "streaming", "finished"}
          THEN {other} ELSE {})

ReadPage(r) ==
  /\ stage[r] = "dispatch" /\ scan[r] \in {"streaming", "finished"}
  /\ \E i \in Fed(r) \ pages[r] :
       /\ \A j \in Fed(r) \ pages[r] : i <= j
       /\ pages' = [pages EXCEPT ![r] = @ \cup {i}]
  /\ UNCHANGED <<feederVars, stage, ctx, answer, documents, results, accepted,
                 saneVars, procVars, crashes>>

(* Mutant: a response cut short is taken for one that ended.               *)
DispatchReturnsTruncated(r) ==
  /\ stage[r] = "dispatch" /\ scan[r] \in {"finished", "dead"} /\ pages[r] # {}
  /\ stage' = [stage EXCEPT ![r] = "process"]
  /\ proc' = IF ctx[r] = "live" THEN [proc EXCEPT ![r] = "sent"] ELSE proc
  /\ UNCHANGED <<feederVars, ctx, answer, pages, documents, results, accepted,
                 saneVars, procLock, crashes>>

(* The closing boundary was read.  Process opens the page files and posts  *)
(* them, unless the context has ended.                                     *)
DispatchReturns(r) ==
  /\ stage[r] = "dispatch" /\ scan[r] = "finished" /\ pages[r] = Fed(r)
  /\ stage' = [stage EXCEPT ![r] = "process"]
  /\ proc' = IF ctx[r] = "live" THEN [proc EXCEPT ![r] = "sent"] ELSE proc
  /\ UNCHANGED <<feederVars, ctx, answer, pages, documents, results, accepted,
                 saneVars, procLock, crashes>>

DispatchFails(r) ==
  /\ stage[r] = "dispatch"
  /\ \/ /\ scan[r] \in ScanReply
        /\ Finish(r, DispatchAnswer[scan[r]])
     \/ \E a \in CallErrors(r, scan[r], "dispatch_failed") : Finish(r, a)

ReadDocument(r) ==
  /\ stage[r] = "process" /\ proc[r] \in {"streaming", "finished"}
  /\ \E d \in DocumentIds(r) \ documents[r] :
       /\ \A e \in DocumentIds(r) \ documents[r] : d <= e
       /\ documents' = [documents EXCEPT ![r] = @ \cup {d}]
  /\ UNCHANGED <<feederVars, stage, ctx, answer, pages, results, accepted,
                 saneVars, procVars, crashes>>

ProcessReturns(r) ==
  /\ stage[r] = "process" /\ proc[r] = "finished" /\ documents[r] = DocumentIds(r)
  /\ stage' = [stage EXCEPT ![r] = "deliver"]
  /\ UNCHANGED <<feederVars, ctx, answer, pages, documents, results, accepted,
                 saneVars, procVars, crashes>>

ProcessFails(r) ==
  /\ stage[r] = "process"
  /\ \/ /\ proc[r] \in ProcReply
        /\ Finish(r, ProcessAnswer[proc[r]])
     \/ \E a \in CallErrors(r, proc[r], "processing_dispatch_failed") : Finish(r, a)

(* The bridge's own HTTP client allows a call five minutes, which is less  *)
(* than some requests have.                                                *)
CallTimesOut(r) ==
  /\ Profile[r].long
  /\ stage[r] = "dispatch" \/ (stage[r] = "process" /\ proc[r] # "none")
  /\ Finish(r, "timeout")

Report(r, p, o) ==
  /\ results' = [results EXCEPT ![r] = @ \cup {<<p[1], p[2], o>>}]
  /\ UNCHANGED <<feederVars, stage, ctx, answer, pages, documents, saneVars,
                 procVars, crashes>>

(* The destination has the document, whatever it answers.                  *)
Take(r, p) == accepted' = [accepted EXCEPT ![r] = @ \cup {<<Content(r, p[1]), p[2]>>}]

(* One upload.  It may be refused, or accepted without an answer that says *)
(* so, in particular when the deadline or the upload's own timer comes in  *)
(* between; once the context has ended no upload starts.                   *)
Deliver(r) ==
  /\ stage[r] = "deliver"
  /\ \E p \in Pending(r) :
       /\ \A q \in Pending(r) : Before(p, q)
       /\ \/ /\ ctx[r] = "live"
             /\ \E o \in Outcome : Report(r, p, o)
             /\ Take(r, p)
          \/ /\ \E o \in Outcome \ {"submitted"} : Report(r, p, o)
             /\ UNCHANGED accepted

(* Mutant: a deadline passed during the deliveries becomes a 504.          *)
AnswerScanOrTimeout(r) ==
  /\ stage[r] = "deliver"
  /\ IF ctx[r] = "expired" THEN Finish(r, "timeout")
                           ELSE Pending(r) = {} /\ Finish(r, "ok")

AnswerScan(r) ==
  /\ stage[r] = "deliver" /\ Pending(r) = {}
  /\ Finish(r, "ok")

(* The deferred cleanupScanOutput, on every way out of the handler.  A     *)
(* removal that fails is logged and the files stay: nothing tries again.   *)
(* One that fails part way is not told from one that fails at once.        *)
Cleanup(r) ==
  /\ stage[r] = "cleanup"
  /\ stage' = [stage EXCEPT ![r] = "done"]
  /\ \/ /\ ~KeepScanOutput
        /\ pages' = [pages EXCEPT ![r] = {}]
        /\ documents' = [documents EXCEPT ![r] = {}]
     \/ UNCHANGED <<pages, documents>>
  /\ UNCHANGED <<feederVars, ctx, answer, results, accepted, saneVars, procVars, crashes>>

-----------------------------------------------------------------------------
(* A container is killed.  The bridge takes its handlers with it; the far  *)
(* sides break the calls they had not finished answering.                  *)

KillBridge ==
  /\ crashes < MaxCrashes
  /\ \E r \in Requests : InFlight(r)
  /\ stage' = [r \in Requests |-> IF InFlight(r) THEN "dead" ELSE stage[r]]
  /\ ctx' = [r \in Requests |-> IF InFlight(r) THEN "cancelled" ELSE ctx[r]]
  /\ crashes' = crashes + 1
  /\ UNCHANGED <<feederVars, answer, pages, documents, results, accepted, saneVars, procVars>>

Unfinished == {"sent", "working", "streaming"}

KillSane ==
  /\ crashes < MaxCrashes
  /\ \E r \in Requests : scan[r] \in Unfinished
  /\ scan' = [r \in Requests |-> IF scan[r] \in Unfinished THEN "dead" ELSE scan[r]]
  /\ scanLock' = None
  /\ crashes' = crashes + 1
  /\ UNCHANGED <<feederVars, bridgeVars, procVars>>

KillProc ==
  /\ crashes < MaxCrashes
  /\ \E r \in Requests : proc[r] \in Unfinished
  /\ proc' = [r \in Requests |-> IF proc[r] \in Unfinished THEN "dead" ELSE proc[r]]
  /\ procLock' = None
  /\ crashes' = crashes + 1
  /\ UNCHANGED <<feederVars, bridgeVars, saneVars>>

-----------------------------------------------------------------------------

Handler(r) ==
  \/ ReadPage(r) \/ DispatchReturns(r) \/ DispatchFails(r)
  \/ ReadDocument(r) \/ ProcessReturns(r) \/ ProcessFails(r)
  \/ Deliver(r) \/ AnswerScan(r) \/ Cleanup(r)

Next ==
  \/ LoadSheet
  \/ \E r \in Requests :
       \/ PostScan(r) \/ Disconnect(r) \/ Expire(r)
       \/ SaneTryLock(r) \/ NoScanner(r) \/ FeedSheet(r) \/ ScanDone(r)
       \/ ScanFails(r) \/ ScanKilled(r) \/ ScanWritten(r)
       \/ ProcTryLock(r) \/ ProcDone(r) \/ ProcFails(r) \/ ProcKilled(r) \/ ProcWritten(r)
       \/ Handler(r) \/ CallTimesOut(r)
  \/ KillBridge \/ KillSane \/ KillProc

Spec == Init /\ [][Next]_vars

(* Timers fire, goroutines run, killed commands end: as long as one of     *)
(* these can happen, one of them will.  Neither the scanner nor the tools  *)
(* of scan-processor are assumed ever to come back on their own: ScanDone, *)
(* ScanFails, ProcDone and ProcFails have no fairness, and the client's    *)
(* five minutes are not relied on either.                                  *)
Running(r) ==
  \/ Expire(r) \/ Handler(r) \/ SaneTryLock(r) \/ ScanKilled(r) \/ ScanWritten(r)
  \/ ProcTryLock(r) \/ ProcKilled(r) \/ ProcWritten(r)

Fairness == WF_vars(\E r \in Requests : Running(r))

FairSpec == Spec /\ Fairness

-----------------------------------------------------------------------------
(* Properties. *)

(* A slot is held exactly while one handler is scanning or writing its     *)
(* pages (handlers.go:173-178), whichever way the handlers end and whoever *)
(* is killed: never by nobody, never past its request, never by two.       *)
SlotsMatchWork ==
  /\ \A r \in Requests : scanLock = r <=> scan[r] \in {"working", "streaming"}
  /\ \A r \in Requests : procLock = r <=> proc[r] \in {"working", "streaming"}

(* A 200 in which no destination failed means that every destination took, *)
(* within some document, every sheet the scanner pulled in for the request *)
(* that was not blank: no page is lost to a stream cut short, a killed     *)
(* container, a deadline or a document left out of the loop.               *)
SubmittedIsComplete ==
  \A r \in Requests :
    (answer[r] = "ok" /\ \A x \in results[r] : x[3] = "submitted")
      => \A i \in Fed(r) \ Blank, dst \in Profile[r].destinations :
           \E a \in accepted[r] : i \in a[1] /\ a[2] = dst

(* "The scanner is busy" and "no scanner" are answered only if not a sheet *)
(* was pulled in for the request: the caller may simply try again with the *)
(* paper where it was (mapDispatchError, mapProcessError).                 *)
RefusalFeedsNothing ==
  \A r \in Requests :
    answer[r] \in {"scanner_busy", "no_scanner_detected"} => Fed(r) = {}

(* An error status means that nothing of the request reached a destination *)
(* -- scanning the paper again duplicates nothing.                         *)
ErrorMeansNothingDelivered ==
  \A r \in Requests : answer[r] \notin {"ok", None} => accepted[r] = {}

(* What each caller has been told so far, in the words of ScanService.     *)
ToldOf(r) ==
  CASE answer[r] = None -> IF stage[r] = "new" THEN "nothing"
                           ELSE IF stage[r] = "dead" THEN "hung up" ELSE "wait"
    [] answer[r] \in {"scanner_busy", "no_scanner_detected"} -> "refused"
    [] answer[r] = "ok" -> IF \A x \in results[r] : x[3] = "submitted"
                           THEN "submitted" ELSE "partly"
    [] OTHER -> "failed"

Service == INSTANCE ScanService
             WITH told <- [r \in Requests |-> ToldOf(r)], received <- accepted

(* The pipeline implements the service: two batches never mix though one   *)
(* caller has given up, no sheet goes in for a caller that was refused or  *)
(* answered, no destination is sent a sheet twice, and the answer agrees   *)
(* with what went in and what came out.                                    *)
ImplementsService == Service!Spec

(* Every accepted call ends, whether or not the scanner, a tool or the     *)
(* other container ever comes back: once callers have stopped coming, no   *)
(* request is in flight any more.                                          *)
EveryRequestEnds == <>[](\A r \in Requests : ~InFlight(r))

(* A request that is given up frees the scanner and the processor for      *)
(* others, though nobody tells them to stop.                               *)
SlotsFreed == <>[](scanLock = None /\ procLock = None)
=============================================================================
