---------------------------- MODULE ProcPipeline ----------------------------
(***************************************************************************)
(* One Process call of scan-processor's ExecPipeline: every page is        *)
(* cleaned (deskew, blank check, rotation), the survivors are OCRed and    *)
(* converted, and what is left is assembled into documents.  Every tool is *)
(* a child process that may fail or be killed with the context, which may  *)
(* end at any moment.                                                      *)
(*                                                                         *)
(* Pages are numbered from 1 in the order they were sent.  A page's file   *)
(* is the page; its OCR confidence is the pass it came from, <<page, 0>>   *)
(* when it could not be read.                                              *)
(***************************************************************************)
EXTENDS Naturals, Sequences

CONSTANTS
  NumPages,   \* pages in the request
  None        \* no reply yet

ASSUME PagesAssumption == NumPages \in Nat \ {0}

Page == 1..NumPages

(* format: pdf and tiff hold several pages per file, image (jpeg, png) one. *)
Request == [perPage : BOOLEAN, format : {"pdf", "tiff", "image"},
            ocr : {"off", "fixed", "auto"},
            deskew : BOOLEAN, removeBlank : BOOLEAN, rotate : BOOLEAN]

(* What handleProcess answers: ok, or the first sentinel that matches.     *)
Reply == {"ok", "timed_out", "failed", "unsupported", "internal"}

ASSUME NoneAssumption == None \notin Reply

VARIABLES
  req,          \* the request
  ctxDone,      \* the context has ended: deadline or the caller gone
  pc, at,       \* the step, and the loops' index
  survivors,    \* pages that were not blank
  assembled,    \* assembledPages and assembledOriginalIndexes
  confidences,
  warnings,     \* <<page, what>>
  documents, reply,
  killed,       \* history: a tool failed because the context had ended
  softened      \* history: pages for which that was taken for a soft failure

locals == <<survivors, assembled, confidences, warnings>>
history == <<killed, softened>>
vars == <<req, ctxDone, pc, at, survivors, assembled, confidences, warnings,
          documents, reply, killed, softened>>

CleanStep == {"clean", "deskew", "blank", "orient", "rotate"}
OCRStep   == {"ocr", "pass1", "pass2", "convert"}
Step      == {"setup"} \cup CleanStep \cup OCRStep \cup {"assemble", "done"}

Warning == {"deskew", "blank_check", "removed_blank", "orientation", "rotation",
            "confidence", "no_words", "pass2"}

Document == [pages : SUBSET Page, warnings : SUBSET (Page \X Warning),
             confidences : Seq(Page \X {0, 1, 2})]

(* Types, and the slices Process keeps in step: a confidence per assembled *)
(* page when OCR ran, one more while that page is being converted.         *)
TypeOK ==
  /\ req \in Request /\ ctxDone \in BOOLEAN /\ killed \in BOOLEAN
  /\ pc \in Step /\ at \in 1..(NumPages + 1)
  /\ survivors \in Seq(Page) /\ assembled \in Seq(Page)
  /\ confidences \in Seq(Page \X {0, 1, 2})
  /\ warnings \in SUBSET (Page \X Warning)
  /\ documents \in Seq(Document)
  /\ reply \in Reply \cup {None}
  /\ softened \in SUBSET Page
  /\ req.ocr = "off" => confidences = <<>>
  /\ req.ocr # "off" =>
       Len(confidences) = Len(assembled) + (IF pc = "convert" THEN 1 ELSE 0) \/ reply # None

Init ==
  /\ req \in Request
  /\ ctxDone = FALSE /\ killed = FALSE /\ softened = {}
  /\ pc = "setup" /\ at = 1
  /\ survivors = <<>> /\ assembled = <<>> /\ confidences = <<>> /\ warnings = {}
  /\ documents = <<>> /\ reply = None

-----------------------------------------------------------------------------

EndContext ==
  /\ ~ctxDone /\ pc # "done"
  /\ ctxDone' = TRUE
  /\ UNCHANGED <<req, pc, at, locals, documents, reply, history>>

Finish(r) ==
  /\ pc' = "done" /\ reply' = r
  /\ UNCHANGED <<req, ctxDone, at, locals, documents>>

(* A tool that has failed: the context's doing, once it has ended.         *)
ToolFailed == killed' = (killed \/ ctxDone)

(* A tool runs to its end only if the context still lives when it starts.  *)
ToolRan == ~ctxDone /\ UNCHANGED killed

Warn(p, what) == warnings' = warnings \cup {<<p, what>>}

(* The failure is noted and the page goes on as it was.                    *)
SoftFailure(p, what) ==
  /\ ToolFailed /\ Warn(p, what)
  /\ softened' = IF ctxDone THEN softened \cup {p} ELSE softened

(* Every step that keeps the loop on the page, or ends the call there.     *)
Goto(step) ==
  /\ pc' = step
  /\ UNCHANGED <<req, ctxDone, at, survivors, assembled, confidences, documents, reply>>

-----------------------------------------------------------------------------

(* The tools are found and the pages written to a scratch directory, or    *)
(* the call ends there.                                                    *)
Setup ==
  /\ pc = "setup"
  /\ UNCHANGED history
  /\ \/ Finish("internal")
     \/ Goto("clean") /\ UNCHANGED warnings

(* The first loop: clean each page. *)

(* Mutant: a request whose pages were all blank is carried on with.        *)
CleanTopUnguarded ==
  /\ pc = "clean"
  /\ UNCHANGED history
  /\ \/ /\ at <= NumPages /\ ctxDone
        /\ Finish("timed_out")
     \/ /\ at <= NumPages /\ ~ctxDone
        /\ Goto("deskew") /\ UNCHANGED warnings
     \/ /\ at > NumPages
        /\ pc' = "ocr" /\ at' = 1
        /\ UNCHANGED <<req, ctxDone, locals, documents, reply>>

CleanTop ==
  /\ pc = "clean"
  /\ UNCHANGED history
  /\ \/ /\ at <= NumPages /\ ctxDone
        /\ Finish("timed_out")
     \/ /\ at <= NumPages /\ ~ctxDone
        /\ Goto("deskew") /\ UNCHANGED warnings
     \/ /\ at > NumPages /\ survivors = <<>>
        /\ Finish("failed")
     \/ /\ at > NumPages /\ survivors # <<>>
        /\ pc' = "ocr" /\ at' = 1
        /\ UNCHANGED <<req, ctxDone, locals, documents, reply>>

Deskew ==
  /\ pc = "deskew"
  /\ Goto("blank")
  /\ \/ ~req.deskew /\ UNCHANGED <<warnings, history>>
     \/ req.deskew /\ ToolRan /\ UNCHANGED <<warnings, softened>>
     \/ req.deskew /\ SoftFailure(at, "deskew")

(* The page is dropped, or goes on to the rotation.                        *)
BlankCheck ==
  /\ pc = "blank"
  /\ \/ /\ ~req.removeBlank
        /\ Goto("orient") /\ UNCHANGED <<warnings, history>>
     \/ /\ req.removeBlank /\ ToolRan
        /\ Goto("orient") /\ UNCHANGED <<warnings, softened>>
     \/ /\ req.removeBlank /\ SoftFailure(at, "blank_check")
        /\ Goto("orient")
     \/ /\ req.removeBlank /\ ToolRan
        /\ Warn(at, "removed_blank")
        /\ pc' = "clean" /\ at' = at + 1
        /\ UNCHANGED <<req, ctxDone, survivors, assembled, confidences, documents, reply, softened>>

Keep ==
  /\ survivors' = Append(survivors, at)
  /\ pc' = "clean" /\ at' = at + 1
  /\ UNCHANGED <<req, ctxDone, assembled, confidences, documents, reply>>

Orient ==
  /\ pc = "orient"
  /\ \/ /\ ~req.rotate
        /\ Keep /\ UNCHANGED <<warnings, history>>
     \/ /\ req.rotate /\ ToolRan
        /\ Keep /\ UNCHANGED <<warnings, softened>>
     \/ /\ req.rotate /\ SoftFailure(at, "orientation")
        /\ Keep
     \/ /\ req.rotate /\ ToolRan
        /\ Goto("rotate") /\ UNCHANGED <<warnings, softened>>

Rotate ==
  /\ pc = "rotate"
  /\ Keep
  /\ \/ ToolRan /\ UNCHANGED <<warnings, softened>>
     \/ SoftFailure(at, "rotation")

-----------------------------------------------------------------------------
(* The second loop: OCR and convert each survivor. *)

ThisPage == survivors[at]

(* A hard stage wraps the tool's error and ErrOCRFailed together, whatever *)
(* the cause; writeProcessError looks for ErrOCRFailed first.              *)
HardFailure == ToolFailed /\ UNCHANGED softened /\ Finish("failed")

OCRTop ==
  /\ pc = "ocr"
  /\ UNCHANGED history
  /\ \/ /\ at > Len(survivors)
        /\ Goto("assemble") /\ UNCHANGED warnings
     \/ /\ at <= Len(survivors) /\ ctxDone
        /\ Finish("timed_out")
     \/ /\ at <= Len(survivors) /\ ~ctxDone
        /\ Goto(IF req.ocr = "off" THEN "convert" ELSE "pass1")
        /\ UNCHANGED warnings

NextPage ==
  /\ assembled' = Append(assembled, ThisPage)
  /\ pc' = "ocr" /\ at' = at + 1

(* The page's OCR is over; a searchable PDF needs no conversion.           *)
Record(pass) ==
  /\ confidences' = Append(confidences, <<ThisPage, pass>>)
  /\ \/ req.format = "pdf" /\ NextPage
     \/ req.format # "pdf" /\ pc' = "convert" /\ UNCHANGED <<assembled, at>>
  /\ UNCHANGED <<req, ctxDone, survivors, documents, reply>>

MaybeNoWords == UNCHANGED warnings \/ Warn(ThisPage, "no_words")

(* With auto, a guess at another language leads to the second pass.        *)
Pass1 ==
  /\ pc = "pass1"
  /\ \/ HardFailure
     \/ /\ ToolRan /\ UNCHANGED softened
        /\ \/ Warn(ThisPage, "confidence") /\ Record(0)
           \/ MaybeNoWords /\ Record(1)
           \/ req.ocr = "auto" /\ UNCHANGED warnings /\ Goto("pass2")

(* Mutant: a deadline in the second pass is taken for a failed guess.      *)
Pass2Soft ==
  /\ pc = "pass2"
  /\ \/ SoftFailure(ThisPage, "pass2") /\ Record(1)
     \/ /\ ToolRan /\ UNCHANGED softened
        /\ \/ Warn(ThisPage, "confidence") /\ Record(1)
           \/ \E pass \in {1, 2} : MaybeNoWords /\ Record(pass)

(* The better of the two passes is kept; a failed guess costs nothing, an  *)
(* ended context the call.                                                 *)
Pass2 ==
  /\ pc = "pass2"
  /\ \/ /\ ctxDone /\ ToolFailed /\ UNCHANGED softened
        /\ Finish("timed_out")
     \/ /\ ~ctxDone /\ SoftFailure(ThisPage, "pass2")
        /\ Record(1)
     \/ /\ ToolRan /\ UNCHANGED softened
        /\ \/ Warn(ThisPage, "confidence") /\ Record(1)
           \/ \E pass \in {1, 2} : MaybeNoWords /\ Record(pass)

Convert ==
  /\ pc = "convert"
  /\ \/ HardFailure
     \/ /\ ToolRan /\ UNCHANGED softened
        /\ NextPage
        /\ UNCHANGED <<req, ctxDone, survivors, confidences, warnings, documents, reply>>

-----------------------------------------------------------------------------
(* Assembly. *)

(* Mutant: warnings are looked up by the document's position.              *)
PageDocumentByPosition(i) ==
  [pages       |-> {assembled[i]},
   warnings    |-> {w \in warnings : w[1] = i},
   confidences |-> IF req.ocr = "off" THEN <<>> ELSE <<confidences[i]>>]

(* One page: its own warnings, its own entry of the confidences.           *)
PageDocument(i) ==
  [pages       |-> {assembled[i]},
   warnings    |-> {w \in warnings : w[1] = assembled[i]},
   confidences |-> IF req.ocr = "off" THEN <<>> ELSE <<confidences[i]>>]

CombinedDocument ==
  [pages       |-> {assembled[i] : i \in DOMAIN assembled},
   warnings    |-> warnings,
   confidences |-> confidences]

Succeed(docs) ==
  /\ documents' = docs
  /\ pc' = "done" /\ reply' = "ok"
  /\ UNCHANGED <<req, ctxDone, at, locals, history>>

Assemble ==
  /\ pc = "assemble"
  /\ \/ /\ req.perPage
        /\ Succeed([i \in DOMAIN assembled |-> PageDocument(i)])
     \/ /\ ~req.perPage /\ Len(assembled) = 1
        /\ Succeed(<<CombinedDocument>>)
     \/ /\ ~req.perPage /\ Len(assembled) # 1 /\ req.format = "image"
        /\ Finish("unsupported") /\ UNCHANGED history
     \/ /\ ~req.perPage /\ Len(assembled) # 1 /\ req.format # "image"
        /\ \/ HardFailure
           \/ ToolRan /\ Succeed(<<CombinedDocument>>)
     \/ Finish("internal") /\ UNCHANGED history

-----------------------------------------------------------------------------

Next ==
  \/ EndContext \/ Setup
  \/ CleanTop \/ Deskew \/ BlankCheck \/ Orient \/ Rotate
  \/ OCRTop \/ Pass1 \/ Pass2 \/ Convert \/ Assemble

Spec == Init /\ [][Next]_vars

-----------------------------------------------------------------------------
(* Properties. *)

(* No page of a result the caller is told is good was left crooked, kept   *)
(* blank, unrotated or badly read only because time ran out: a deadline    *)
(* ends the call, it does not degrade it (exec_pipeline.go:389-403).       *)
TimeoutNeverSoft == reply = "ok" => softened = {}

(* Every page that was not removed as blank is in exactly one document,    *)
(* documents follow the order of the pages, and there is at least one.     *)
DocumentsHoldSurvivors ==
  reply = "ok" =>
    /\ documents # <<>>
    /\ \A p \in Page :
         LET holders == {i \in DOMAIN documents : p \in documents[i].pages}
         IN  IF <<p, "removed_blank">> \in warnings
             THEN holders = {}
             ELSE \E i \in holders : holders = {i}
    /\ \A i, j \in DOMAIN documents : i < j =>
         \A p \in documents[i].pages, q \in documents[j].pages : p < q

(* What a document says of its pages it says of its own: its confidences   *)
(* are those of its pages, and a single page's document carries all the    *)
(* warnings of that page and of no other, whatever was dropped before it.  *)
ReportsBelong ==
  reply = "ok" => \A i \in DOMAIN documents :
    LET d == documents[i] IN
      /\ req.ocr # "off" => {d.confidences[k][1] : k \in DOMAIN d.confidences} = d.pages
      /\ req.perPage => d.warnings = {w \in warnings : w[1] \in d.pages}

-----------------------------------------------------------------------------
(* What the documents say, and the code does not do. *)

(* Processing that does not finish because its time is up is a 504.        *)
DeadlineIs504 == killed /\ reply # None => reply = "timed_out"

=============================================================================
