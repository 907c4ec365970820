------------------------- MODULE ProcPipelineProofs -------------------------
(***************************************************************************)
(* A deadline never degrades a document that is returned, and a document's *)
(* confidences and warnings are those of its own pages, for every number   *)
(* of pages.                                                               *)
(***************************************************************************)
EXTENDS ProcPipeline, TLAPS

(* The loops' index and the slices they walk; an OCR step is at a survivor. *)
LoopTypes ==
  /\ at \in Nat \ {0}
  /\ survivors \in Seq(Nat) /\ assembled \in Seq(Nat)
  /\ pc \in {"pass1", "pass2", "convert"} => at \in DOMAIN survivors

(* There is no reply before the end.                                       *)
RepliesLast == pc # "done" => reply = None

(* A page goes on with its OCR, or to the conversion that is left.         *)
LEMMA RecordTypes ==
  ASSUME LoopTypes, NEW pass, Record(pass), pc \in {"pass1", "pass2"}
  PROVE  LoopTypes'
<1>1. ThisPage \in Nat
  BY DEF LoopTypes, ThisPage
<1>2. CASE NextPage
  BY <1>1, <1>2 DEF LoopTypes, NextPage, Record
<1>3. CASE pc' = "convert" /\ UNCHANGED <<assembled, at>>
  BY <1>3 DEF LoopTypes, Record
<1> QED
  BY <1>2, <1>3 DEF Record

(* The loops step through the pages and through the survivors.             *)
LEMMA LoopTypesStep ==
  ASSUME LoopTypes, [Next]_vars
  PROVE  LoopTypes'
<1>1. ASSUME NEW r, Finish(r) PROVE LoopTypes'
  BY <1>1 DEF LoopTypes, Finish, locals
<1>2. ASSUME NEW step, Goto(step),
             step \in {"pass1", "pass2", "convert"} => at \in DOMAIN survivors
      PROVE  LoopTypes'
  BY <1>2 DEF LoopTypes, Goto
<1>3. ASSUME Keep PROVE LoopTypes'
  BY <1>3 DEF LoopTypes, Keep
<1>4. CASE EndContext \/ UNCHANGED vars
  BY <1>4 DEF EndContext, LoopTypes, locals, vars
<1>5. CASE Setup
  BY <1>1, <1>2, <1>5 DEF Setup
<1>6. CASE CleanTop
  <2>1. CASE pc' = "ocr" /\ at' = 1 /\ UNCHANGED locals
    BY <2>1 DEF LoopTypes, locals
  <2> QED
    BY <1>1, <1>2, <1>6, <2>1 DEF CleanTop
<1>7. CASE Deskew
  BY <1>2, <1>7 DEF Deskew
<1>8. CASE BlankCheck
  <2>1. CASE pc' = "clean" /\ at' = at + 1 /\ UNCHANGED <<survivors, assembled>>
    BY <2>1 DEF LoopTypes
  <2> QED
    BY <1>2, <1>8, <2>1 DEF BlankCheck
<1>9. CASE Orient \/ Rotate
  BY <1>2, <1>3, <1>9, Zenon DEF Orient, Rotate
<1>10. CASE OCRTop
  <2>1. at <= Len(survivors) => at \in DOMAIN survivors
    BY DEF LoopTypes
  <2> QED
    BY <1>1, <1>2, <1>10, <2>1 DEF OCRTop
<1>11. CASE Pass1
  <2>1. pc = "pass1" /\ at \in DOMAIN survivors
    BY <1>11 DEF Pass1, LoopTypes
  <2> QED
    BY <1>1, <1>2, <1>11, <2>1, RecordTypes, Zenon DEF Pass1, HardFailure
<1>12. CASE Pass2
  <2>1. pc = "pass2"
    BY <1>12 DEF Pass2
  <2> QED
    BY <1>1, <1>12, <2>1, RecordTypes, Zenon DEF Pass2
<1>13. CASE Convert
  <2>1. ThisPage \in Nat
    BY <1>13 DEF Convert, LoopTypes, ThisPage
  <2>2. CASE NextPage /\ UNCHANGED survivors
    BY <2>1, <2>2 DEF LoopTypes, NextPage
  <2> QED
    BY <1>1, <1>13, <2>2 DEF Convert, HardFailure
<1>14. CASE Assemble
  <2>1. ASSUME NEW docs, Succeed(docs) PROVE LoopTypes'
    BY <2>1 DEF Succeed, LoopTypes, locals
  <2> QED
    BY <1>1, <1>14, <2>1 DEF Assemble, HardFailure
<1> QED
  BY <1>4, <1>5, <1>6, <1>7, <1>8, <1>9, <1>10, <1>11, <1>12, <1>13, <1>14, Zenon DEF Next

(* A reply is given by the step that ends the call, and once.              *)
LEMMA RepliesStep == ASSUME RepliesLast, [Next]_vars PROVE RepliesLast'
<1> USE DEF RepliesLast
<1>1. CASE EndContext \/ UNCHANGED vars
  BY <1>1 DEF EndContext, vars
<1>2. CASE Setup \/ CleanTop \/ OCRTop
  BY <1>2 DEF Setup, CleanTop, OCRTop, Finish, Goto
<1>3. CASE Deskew \/ BlankCheck \/ Orient \/ Rotate
  BY <1>3 DEF Deskew, BlankCheck, Orient, Rotate, Goto, Keep
<1>4. CASE Pass1 \/ Pass2 \/ Convert
  BY <1>4 DEF Pass1, Pass2, Convert, HardFailure, Finish, Goto, Record, NextPage
<1>5. CASE Assemble
  BY <1>5 DEF Assemble, HardFailure, Finish, Succeed
<1> QED
  BY <1>1, <1>2, <1>3, <1>4, <1>5, Zenon DEF Next

(* Once time has run out for a page, the call is still cleaning, or about  *)
(* to look at the context, or over without a document.                     *)
SoftIsLate ==
  softened # {} =>
    /\ ctxDone /\ reply # "ok"
    /\ \/ pc \in CleanStep
       \/ pc = "ocr" /\ at = 1 /\ survivors # <<>>
       \/ pc = "done"

(* The context stays ended, and no step after it degrades a page unseen.   *)
LEMMA SoftStep ==
  ASSUME LoopTypes, RepliesLast, SoftIsLate, [Next]_vars
  PROVE  SoftIsLate'
<1> USE DEF CleanStep
<1>1. ASSUME NEW r \in Reply, r # "ok", Finish(r), UNCHANGED softened
      PROVE  SoftIsLate'
  BY <1>1 DEF SoftIsLate, Finish
<1>2. ASSUME pc' \in CleanStep, UNCHANGED <<ctxDone, reply>>, pc \in CleanStep,
             UNCHANGED softened \/ \E p, w : SoftFailure(p, w)
      PROVE  SoftIsLate'
  <2>1. reply' # "ok"
    <3>1. reply = None
      BY <1>2 DEF RepliesLast
    <3>2. reply' = reply
      BY <1>2
    <3>3. None # "ok"
      BY NoneAssumption DEF Reply
    <3> QED
      BY <3>1, <3>2, <3>3
  <2>2. softened' = softened \/ ctxDone
    BY <1>2 DEF SoftFailure
  <2>3. softened # {} => ctxDone
    BY DEF SoftIsLate
  <2> QED
    BY <1>2, <2>1, <2>2, <2>3, Zenon DEF SoftIsLate
<1>3. ASSUME softened = {}, UNCHANGED softened
      PROVE  SoftIsLate'
  BY <1>3 DEF SoftIsLate
<1>4. CASE EndContext \/ UNCHANGED vars
  BY <1>4 DEF EndContext, SoftIsLate, locals, history, vars
<1>5. CASE Setup
  BY <1>5, <1>3 DEF Setup, SoftIsLate, history
<1>6. CASE CleanTop
  <2>1. CASE at > NumPages /\ survivors # <<>>
    <3>1. pc' = "ocr" /\ at' = 1 /\ UNCHANGED <<survivors, ctxDone, softened, reply>>
      BY <1>6, <2>1, PagesAssumption DEF CleanTop, locals, history, LoopTypes
    <3> QED
      BY <2>1, <3>1 DEF SoftIsLate
  <2> QED
    BY <1>1, <1>2, <1>6, <2>1 DEF CleanTop, Goto, history, Reply
<1>7. CASE Deskew
  BY <1>2, <1>7 DEF Deskew, Goto, history
<1>8. CASE BlankCheck
  BY <1>2, <1>8 DEF BlankCheck, Goto, history
<1>9. CASE Orient
  BY <1>2, <1>9 DEF Orient, Keep, Goto, history
<1>10. CASE Rotate
  BY <1>2, <1>10 DEF Rotate, Keep
<1>11. CASE OCRTop
  <2>1. UNCHANGED softened /\ pc = "ocr"
    BY <1>11 DEF OCRTop, history
  <2>2. CASE softened = {}
    BY <2>1, <2>2, <1>3
  <2>3. CASE softened # {}
    <3>1. ctxDone /\ at = 1 /\ survivors # <<>>
      BY <2>1, <2>3 DEF SoftIsLate
    <3>2. at <= Len(survivors)
      BY <3>1 DEF LoopTypes
    <3>3. Finish("timed_out")
      BY <1>11, <3>1, <3>2 DEF OCRTop, LoopTypes
    <3> QED
      BY <1>1, <2>1, <3>3 DEF Reply
  <2> QED
    BY <2>2, <2>3
<1>12. CASE Pass1 \/ Pass2 \/ Convert \/ Assemble
  <2>1. softened = {}
    BY <1>12 DEF Pass1, Pass2, Convert, Assemble, SoftIsLate
  <2>2. UNCHANGED softened
    BY <1>12 DEF Pass1, Pass2, Convert, Assemble, HardFailure, SoftFailure, Succeed, history
  <2> QED
    BY <2>1, <2>2, <1>3
<1> QED
  BY <1>4, <1>5, <1>6, <1>7, <1>8, <1>9, <1>10, <1>11, <1>12, Zenon DEF Next

(* A document that is returned was never degraded by a deadline: whatever  *)
(* the number of pages and whenever the context ends.                      *)
THEOREM TimeoutsAreHard == Spec => []TimeoutNeverSoft
<1> DEFINE IInv == LoopTypes /\ RepliesLast /\ SoftIsLate
<1>1. Init => IInv
  BY DEF Init, LoopTypes, RepliesLast, SoftIsLate
<1>2. IInv /\ [Next]_vars => IInv'
  BY LoopTypesStep, RepliesStep, SoftStep
<1>3. IInv => TimeoutNeverSoft
  BY DEF SoftIsLate, TimeoutNeverSoft
<1> QED
  BY <1>1, <1>2, <1>3, PTL DEF Spec

-----------------------------------------------------------------------------

(* Until the call is over there is a confidence for every assembled page,  *)
(* at its place, and one for the page being converted.                     *)
Parallel ==
  pc # "done" /\ req.ocr # "off" =>
    /\ confidences \in Seq(Nat \X {0, 1, 2})
    /\ Len(confidences) = Len(assembled) + (IF pc = "convert" THEN 1 ELSE 0)
    /\ \A k \in DOMAIN assembled : confidences[k][1] = assembled[k]
    /\ pc = "convert" => confidences[Len(confidences)][1] = ThisPage

(* The page whose pass is recorded gets the entry at its own place.        *)
LEMMA RecordParallel ==
  ASSUME LoopTypes, Parallel, NEW pass \in {0, 1, 2}, Record(pass),
         pc \in {"pass1", "pass2"}
  PROVE  Parallel'
<1> SUFFICES ASSUME req.ocr # "off" PROVE Parallel'
  BY DEF Record, Parallel
<1> DEFINE entry == <<ThisPage, pass>>
<1>1. /\ confidences \in Seq(Nat \X {0, 1, 2}) /\ Len(confidences) = Len(assembled)
      /\ \A k \in DOMAIN assembled : confidences[k][1] = assembled[k]
  BY DEF Parallel
<1>2. ThisPage \in Nat /\ assembled \in Seq(Nat)
  BY DEF LoopTypes, ThisPage
<1>3. confidences' = Append(confidences, entry) /\ UNCHANGED <<req, survivors>>
  BY DEF Record
<1>4. entry \in Nat \X {0, 1, 2} /\ entry[1] = ThisPage
  BY <1>2
<1> HIDE DEF entry
<1>5. /\ confidences' \in Seq(Nat \X {0, 1, 2}) /\ Len(confidences') = Len(confidences) + 1
      /\ confidences'[Len(confidences')] = entry
      /\ \A k \in DOMAIN assembled : confidences'[k] = confidences[k]
  BY <1>1, <1>2, <1>3, <1>4
<1>6. CASE NextPage
  <2>1. assembled' = Append(assembled, ThisPage) /\ pc' = "ocr"
    BY <1>6 DEF NextPage
  <2>2. Len(assembled') = Len(assembled) + 1
    BY <1>2, <2>1
  <2>3. ASSUME NEW k \in DOMAIN assembled' PROVE confidences'[k][1] = assembled'[k]
    <3>1. CASE k \in DOMAIN assembled
      BY <1>1, <1>2, <1>5, <2>1, <3>1
    <3>2. CASE k \notin DOMAIN assembled
      <4>1. k = Len(assembled) + 1
        BY <1>2, <2>1, <2>3, <3>2
      <4>2. assembled'[k] = ThisPage
        BY <1>2, <2>1, <4>1
      <4>3. confidences'[k] = entry
        BY <1>1, <1>5, <4>1
      <4> QED
        BY <1>4, <4>2, <4>3
    <3> QED
      BY <3>1, <3>2
  <2> QED
    BY <1>1, <1>5, <2>1, <2>2, <2>3 DEF Parallel
<1>7. CASE pc' = "convert" /\ UNCHANGED <<assembled, at>>
  <2>1. ThisPage' = ThisPage
    BY <1>3, <1>7 DEF ThisPage
  <2> QED
    BY <1>1, <1>4, <1>5, <1>7, <2>1 DEF Parallel
<1> QED
  BY <1>6, <1>7 DEF Record

(* No step of the loops lets the two slices drift apart.                   *)
LEMMA ParallelStep ==
  ASSUME LoopTypes, Parallel, [Next]_vars
  PROVE  Parallel'
<1>1. ASSUME NEW r, Finish(r) PROVE Parallel'
  BY <1>1 DEF Parallel, Finish
<1>2. ASSUME pc \notin {"convert", "done"}, UNCHANGED <<req, confidences, assembled>>,
             pc' = "convert" => req.ocr = "off"
      PROVE  Parallel'
  BY <1>2 DEF Parallel
<1>3. CASE EndContext \/ UNCHANGED vars
  BY <1>3 DEF EndContext, Parallel, ThisPage, locals, vars
<1>4. CASE Setup
  BY <1>1, <1>2, <1>4 DEF Setup, Goto
<1>5. CASE CleanTop
  BY <1>1, <1>2, <1>5 DEF CleanTop, Goto, locals
<1>6. CASE Deskew \/ BlankCheck
  BY <1>2, <1>6 DEF Deskew, BlankCheck, Goto
<1>7. CASE Orient \/ Rotate
  BY <1>2, <1>7 DEF Orient, Rotate, Goto, Keep
<1>8. CASE OCRTop
  BY <1>1, <1>2, <1>8 DEF OCRTop, Goto
<1>9. CASE Pass1
  <2>1. ASSUME Goto("pass2") PROVE Parallel'
    BY <1>2, <1>9, <2>1 DEF Pass1, Goto
  <2> QED
    BY <1>1, <1>9, <2>1, RecordParallel, Zenon DEF Pass1, HardFailure
<1>10. CASE Pass2
  BY <1>1, <1>10, RecordParallel, Zenon DEF Pass2
<1>11. CASE Convert
  <2>1. CASE NextPage /\ UNCHANGED <<req, confidences>>
    <3>1. pc = "convert" /\ ThisPage \in Nat /\ assembled \in Seq(Nat)
      BY <1>11 DEF Convert, LoopTypes, ThisPage
    <3>2. assembled' = Append(assembled, ThisPage) /\ pc' = "ocr"
      BY <2>1 DEF NextPage
    <3>3. ASSUME req.ocr # "off", NEW k \in DOMAIN assembled'
          PROVE  confidences[k][1] = assembled'[k]
      <4>1. Len(confidences) = Len(assembled) + 1 /\ confidences[Len(confidences)][1] = ThisPage
        BY <3>1, <3>3 DEF Parallel
      <4>2. CASE k \in DOMAIN assembled
        BY <3>1, <3>2, <3>3, <4>2 DEF Parallel
      <4>3. CASE k \notin DOMAIN assembled
        BY <3>1, <3>2, <3>3, <4>1, <4>3
      <4> QED
        BY <4>2, <4>3
    <3>4. Len(assembled') = Len(assembled) + 1
      BY <3>1, <3>2
    <3> QED
      BY <2>1, <3>1, <3>2, <3>3, <3>4 DEF Parallel
  <2> QED
    BY <1>1, <1>11, <2>1 DEF Convert, HardFailure
<1>12. CASE Assemble
  <2>1. ASSUME NEW docs, Succeed(docs) PROVE Parallel'
    BY <2>1 DEF Parallel, Succeed
  <2> QED
    BY <1>1, <1>12, <2>1 DEF Assemble, HardFailure
<1> QED
  BY <1>3, <1>4, <1>5, <1>6, <1>7, <1>8, <1>9, <1>10, <1>11, <1>12, Zenon DEF Next

(* What Assemble returns speaks of its own pages only.                     *)
LEMMA ReportsStep ==
  ASSUME LoopTypes, RepliesLast, Parallel, ReportsBelong, [Next]_vars
  PROVE  ReportsBelong'
<1>1. CASE UNCHANGED vars
  BY <1>1 DEF ReportsBelong, vars, locals
<1>2. CASE reply' # "ok"
  BY <1>2 DEF ReportsBelong
<1>3. CASE Next /\ reply' = "ok"
  <2>1. Assemble
    <3>1. reply # "ok" \/ pc = "done"
      BY NoneAssumption DEF RepliesLast, Reply
    <3> QED
      BY <1>3, <3>1 DEF Next, EndContext, Setup, CleanTop, Deskew, BlankCheck, Orient, Rotate,
            OCRTop, Pass1, Pass2, Convert, HardFailure, Finish, Goto, Keep, Record, NextPage
  <2>2. /\ UNCHANGED <<req, warnings>>
        /\ \/ req.perPage /\ documents' = [i \in DOMAIN assembled |-> PageDocument(i)]
           \/ ~req.perPage /\ documents' = <<CombinedDocument>>
    BY <1>3, <2>1 DEF Assemble, HardFailure, Finish, Succeed, locals
  <2>3. ASSUME req.ocr # "off"
        PROVE  /\ DOMAIN confidences = DOMAIN assembled
               /\ \A k \in DOMAIN assembled : confidences[k][1] = assembled[k]
    BY <2>1, <2>3 DEF Assemble, Parallel, LoopTypes
  <2>4. CASE req.perPage /\ documents' = [i \in DOMAIN assembled |-> PageDocument(i)]
    <3> SUFFICES ASSUME NEW i \in DOMAIN documents'
                 PROVE  LET d == documents'[i] IN
                          /\ req.ocr # "off" =>
                               {d.confidences[k][1] : k \in DOMAIN d.confidences} = d.pages
                          /\ d.warnings = {w \in warnings : w[1] \in d.pages}
      BY <2>2, Zenon DEF ReportsBelong
    <3>1. i \in DOMAIN assembled /\ documents'[i] = PageDocument(i)
      BY <2>4
    <3>2. /\ PageDocument(i).pages = {assembled[i]}
          /\ PageDocument(i).warnings = {w \in warnings : w[1] = assembled[i]}
      BY DEF PageDocument
    <3>3. req.ocr # "off" => PageDocument(i).confidences = <<confidences[i]>>
      BY DEF PageDocument
    <3>4. req.ocr # "off" =>
            {<<confidences[i]>>[k][1] : k \in DOMAIN <<confidences[i]>>} = {assembled[i]}
      BY <2>3, <3>1
    <3> QED
      BY <3>1, <3>2, <3>3, <3>4
  <2>5. CASE ~req.perPage /\ documents' = <<CombinedDocument>>
    <3>1. CombinedDocument.pages = {assembled[i] : i \in DOMAIN assembled}
          /\ CombinedDocument.confidences = confidences
      BY DEF CombinedDocument
    <3>2. req.ocr # "off" =>
            {confidences[k][1] : k \in DOMAIN confidences} = {assembled[k] : k \in DOMAIN assembled}
      BY <2>3
    <3>3. ASSUME NEW i \in DOMAIN documents' PROVE documents'[i] = CombinedDocument
      BY <2>5, <3>3
    <3> QED
      BY <2>2, <2>5, <3>1, <3>2, <3>3 DEF ReportsBelong
  <2> QED
    BY <2>2, <2>4, <2>5
<1> QED
  BY <1>1, <1>2, <1>3

(* A document's confidences are those of its pages, and a single page's    *)
(* document carries that page's warnings and no other's, however many      *)
(* pages were dropped as blank before it.                                  *)
THEOREM ReportsHold == Spec => []ReportsBelong
<1> DEFINE IInv == LoopTypes /\ RepliesLast /\ Parallel /\ ReportsBelong
<1>1. Init => IInv
  <2>1. Init => LoopTypes /\ RepliesLast
    BY DEF Init, LoopTypes, RepliesLast
  <2>2. Init => Parallel
    BY DEF Init, Parallel
  <2>3. Init => ReportsBelong
    BY NoneAssumption DEF Init, ReportsBelong, Reply
  <2> QED
    BY <2>1, <2>2, <2>3
<1>2. IInv /\ [Next]_vars => IInv'
  BY LoopTypesStep, RepliesStep, ParallelStep, ReportsStep
<1> QED
  BY <1>1, <1>2, PTL DEF Spec

-----------------------------------------------------------------------------

Dropped(p)   == <<p, "removed_blank">> \in warnings
Keeps(s, p)  == \E i \in DOMAIN s : s[i] = p
Ascending(s) == \A i, j \in DOMAIN s : i < j => s[i] < s[j]

(* The survivors are pages of the request, each once and in order.          *)
SurvivorsFit ==
  /\ at \in 1..(NumPages + 1)
  /\ survivors \in Seq(Page) /\ Len(survivors) <= NumPages
  /\ Ascending(survivors)

(* The first loop keeps or drops every page it has been through.           *)
Cleaned ==
  pc \in {"setup"} \cup CleanStep =>
    /\ pc \in {"deskew", "blank", "orient", "rotate"} => at <= NumPages
    /\ Len(survivors) < at /\ \A i \in DOMAIN survivors : survivors[i] < at
    /\ \A p \in Page : IF p < at THEN Dropped(p) <=> ~Keeps(survivors, p)
                                 ELSE ~Dropped(p)
    /\ assembled = <<>>

(* The second takes the survivors one by one, and leaves none out.         *)
Taken ==
  pc \in OCRStep \cup {"assemble"} =>
    /\ survivors # <<>> /\ at <= Len(survivors) + 1
    /\ \A p \in Page : Dropped(p) <=> ~Keeps(survivors, p)
    /\ Len(assembled) = at - 1
    /\ \A i \in DOMAIN assembled : assembled[i] = survivors[i]
    /\ pc = "assemble" => at = Len(survivors) + 1

PagesInv == SurvivorsFit /\ Cleaned /\ Taken

(* The step that ends the call leaves the survivors as they are.           *)
LEMMA FinishKeepsPages == ASSUME PagesInv, NEW r, Finish(r) PROVE PagesInv'
  BY DEF PagesInv, SurvivorsFit, Cleaned, Taken, Finish, locals, CleanStep, OCRStep

(* A warning other than "removed_blank" drops no page.                     *)
LEMMA WarnDropsNothing ==
  ASSUME NEW q, NEW what, what # "removed_blank", Warn(q, what)
  PROVE  \A p : Dropped(p)' <=> Dropped(p)
<1> SUFFICES ASSUME NEW p PROVE Dropped(p)' <=> Dropped(p)
  OBVIOUS
<1>1. warnings' = warnings \cup {<<q, what>>}
  BY DEF Warn
<1>2. <<p, "removed_blank">> # <<q, what>>
  OBVIOUS
<1> QED
  BY <1>1, <1>2 DEF Dropped

(* From one step of a page's cleaning to the next.                         *)
LEMMA CleanGoesOn ==
  ASSUME PagesInv, pc \in CleanStep, NEW step \in {"deskew", "blank", "orient", "rotate"},
         Goto(step), at <= NumPages, \A p : Dropped(p)' <=> Dropped(p)
  PROVE  PagesInv'
<1>1. UNCHANGED <<at, survivors, assembled>> /\ pc' = step
  BY DEF Goto
<1>2. SurvivorsFit' /\ Taken'
  BY <1>1 DEF PagesInv, SurvivorsFit, Taken, OCRStep
<1>3. Cleaned'
  BY <1>1 DEF PagesInv, Cleaned, Keeps
<1> QED
  BY <1>2, <1>3 DEF PagesInv

(* The page is kept: it comes after all the others.                        *)
LEMMA KeepIsInOrder ==
  ASSUME PagesInv, pc \in {"orient", "rotate"}, Keep, \A p : Dropped(p)' <=> Dropped(p)
  PROVE  PagesInv'
<1>1. at \in Page /\ at + 1 \in 1..(NumPages + 1)
  BY PagesAssumption DEF PagesInv, SurvivorsFit, Cleaned, CleanStep, Page
<1>2. survivors' = Append(survivors, at) /\ at' = at + 1 /\ pc' = "clean" /\ UNCHANGED assembled
  BY DEF Keep
<1>3. survivors \in Seq(Page) /\ Len(survivors) < at /\ assembled = <<>>
      /\ \A i \in DOMAIN survivors : survivors[i] < at
  BY DEF PagesInv, SurvivorsFit, Cleaned, CleanStep
<1>4. /\ survivors' \in Seq(Page) /\ Len(survivors') = Len(survivors) + 1
      /\ survivors'[Len(survivors) + 1] = at
      /\ \A i \in DOMAIN survivors : survivors'[i] = survivors[i]
      /\ DOMAIN survivors' = DOMAIN survivors \cup {Len(survivors) + 1}
  BY <1>1, <1>2, <1>3
<1>5. Ascending(survivors')
  <2> SUFFICES ASSUME NEW i \in DOMAIN survivors', NEW j \in DOMAIN survivors', i < j
               PROVE  survivors'[i] < survivors'[j]
    BY DEF Ascending
  <2>1. i \in DOMAIN survivors
    BY <1>3, <1>4
  <2>2. CASE j \in DOMAIN survivors
    BY <1>4, <2>1, <2>2 DEF PagesInv, SurvivorsFit, Ascending
  <2>3. CASE j = Len(survivors) + 1
    BY <1>3, <1>4, <2>1, <2>3
  <2> QED
    BY <1>4, <2>2, <2>3
<1>6. ASSUME NEW i \in DOMAIN survivors' PROVE survivors'[i] < at'
  <2>1. CASE i \in DOMAIN survivors
    <3>1. survivors'[i] < at /\ survivors'[i] \in Nat
      BY <1>3, <1>4, <2>1, PagesAssumption DEF Page
    <3> QED
      BY <1>1, <1>2, <3>1 DEF Page
  <2>2. CASE i = Len(survivors) + 1
    BY <1>1, <1>2, <1>4, <2>2 DEF Page
  <2> QED
    BY <1>4, <1>6, <2>1, <2>2
<1>7. ASSUME NEW p \in Page
      PROVE  IF p < at' THEN Dropped(p)' <=> ~Keeps(survivors', p) ELSE ~Dropped(p)'
  <2>1. Keeps(survivors', p) <=> Keeps(survivors, p) \/ p = at
    BY <1>4 DEF Keeps
  <2>2. IF p < at THEN Dropped(p) <=> ~Keeps(survivors, p) ELSE ~Dropped(p)
    BY DEF PagesInv, Cleaned, CleanStep
  <2>3. p < at' <=> p < at \/ p = at
    BY <1>1, <1>2 DEF Page
  <2>4. ~(p < at /\ p = at)
    BY <1>1 DEF Page
  <2>5. Dropped(p)' <=> Dropped(p)
    OBVIOUS
  <2> QED
    BY <2>1, <2>2, <2>3, <2>4, <2>5
<1>8. SurvivorsFit'
  BY <1>1, <1>2, <1>3, <1>4, <1>5, PagesAssumption DEF SurvivorsFit, Page
<1>9. Cleaned'
  BY <1>1, <1>2, <1>3, <1>4, <1>6, <1>7 DEF Cleaned, Page
<1>10. Taken'
  BY <1>2 DEF Taken, OCRStep
<1> QED
  BY <1>8, <1>9, <1>10 DEF PagesInv

(* The first loop and the step into the second.                            *)
LEMMA CleaningKeepsPages ==
  ASSUME PagesInv, CleanTop \/ Deskew \/ BlankCheck \/ Orient \/ Rotate
  PROVE  PagesInv'
<1>1. ASSUME NEW step \in {"deskew", "blank", "orient", "rotate"}, pc \in CleanStep, Goto(step),
             at <= NumPages, UNCHANGED warnings
      PROVE  PagesInv'
  <2>1. \A p : Dropped(p)' <=> Dropped(p)
    BY <1>1 DEF Dropped
  <2> QED
    BY <1>1, <2>1, CleanGoesOn
<1>2. ASSUME NEW step \in {"deskew", "blank", "orient", "rotate"}, pc \in CleanStep, Goto(step),
             at <= NumPages, NEW what, what # "removed_blank", Warn(at, what)
      PROVE  PagesInv'
  <2>1. \A p : Dropped(p)' <=> Dropped(p)
    BY <1>2, WarnDropsNothing
  <2> QED
    BY <1>2, <2>1, CleanGoesOn
<1>3. ASSUME pc \in {"orient", "rotate"}, Keep, UNCHANGED warnings PROVE PagesInv'
  <2>1. \A p : Dropped(p)' <=> Dropped(p)
    BY <1>3 DEF Dropped
  <2> QED
    BY <1>3, <2>1, KeepIsInOrder
<1>4. ASSUME pc \in {"orient", "rotate"}, Keep, NEW what, what # "removed_blank", Warn(at, what)
      PROVE  PagesInv'
  <2>1. \A p : Dropped(p)' <=> Dropped(p)
    BY <1>4, WarnDropsNothing
  <2> QED
    BY <1>4, <2>1, KeepIsInOrder
<1>5. pc \in {"deskew", "blank", "orient", "rotate"} => at <= NumPages
  BY DEF PagesInv, Cleaned, CleanStep
<1>6. CASE CleanTop
  <2>1. CASE pc' = "ocr" /\ at' = 1 /\ UNCHANGED locals /\ at > NumPages /\ survivors # <<>>
    <3>1. pc = "clean"
      BY <1>6 DEF CleanTop
    <3>2. \A p \in Page : p < at
      BY <2>1, PagesAssumption DEF PagesInv, SurvivorsFit, Page
    <3>3. \A p \in Page : Dropped(p) <=> ~Keeps(survivors, p)
      BY <3>1, <3>2 DEF PagesInv, Cleaned, CleanStep
    <3>4. \A p \in Page : Dropped(p)' <=> ~Keeps(survivors, p)'
      BY <2>1, <3>3 DEF Dropped, Keeps, locals
    <3>5. assembled' = <<>>
      BY <2>1, <3>1 DEF PagesInv, Cleaned, CleanStep, locals
    <3>6. SurvivorsFit' /\ Cleaned'
      BY <2>1, PagesAssumption DEF PagesInv, SurvivorsFit, Cleaned, CleanStep, locals
    <3>7. Taken'
      BY <2>1, <3>4, <3>5 DEF PagesInv, SurvivorsFit, Taken, locals
    <3> QED
      BY <3>6, <3>7 DEF PagesInv
  <2> QED
    BY <1>1, <1>6, <2>1, FinishKeepsPages DEF CleanTop, CleanStep
<1>7. CASE Deskew
  <2>1. CASE UNCHANGED warnings
    BY <1>1, <1>5, <1>7, <2>1 DEF Deskew, CleanStep
  <2>2. CASE Warn(at, "deskew")
    BY <1>2, <1>5, <1>7, <2>2 DEF Deskew, CleanStep
  <2> QED
    BY <1>7, <2>1, <2>2 DEF Deskew, SoftFailure
<1>8. CASE BlankCheck
  <2>1. CASE Goto("orient") /\ UNCHANGED warnings
    BY <1>1, <1>5, <1>8, <2>1 DEF BlankCheck, CleanStep
  <2>2. CASE Goto("orient") /\ Warn(at, "blank_check")
    BY <1>2, <1>5, <1>8, <2>2 DEF BlankCheck, CleanStep
  <2>3. CASE /\ Warn(at, "removed_blank") /\ pc' = "clean" /\ at' = at + 1
             /\ UNCHANGED <<survivors, assembled>>
    <3>1. pc = "blank" /\ at \in Page
      BY <1>5, <1>8 DEF BlankCheck, PagesInv, SurvivorsFit, Page
    <3>2. SurvivorsFit' /\ Taken'
      BY <2>3, <3>1, PagesAssumption DEF PagesInv, SurvivorsFit, Taken, OCRStep, Page
    <3>3. ASSUME NEW p \in Page
          PROVE  IF p < at' THEN Dropped(p)' <=> ~Keeps(survivors, p)' ELSE ~Dropped(p)'
      <4>1. Dropped(p)' <=> Dropped(p) \/ p = at
        BY <2>3 DEF Warn, Dropped
      <4>2. IF p < at THEN Dropped(p) <=> ~Keeps(survivors, p) ELSE ~Dropped(p)
        BY <3>1 DEF PagesInv, Cleaned, CleanStep
      <4>3. p = at => ~Keeps(survivors, p)
        BY <3>1 DEF PagesInv, Cleaned, CleanStep, Keeps, Page
      <4>4. p < at' <=> p < at \/ p = at
        BY <2>3, <3>1 DEF Page
      <4>5. Keeps(survivors, p)' <=> Keeps(survivors, p)
        BY <2>3 DEF Keeps
      <4> QED
        BY <4>1, <4>2, <4>3, <4>4, <4>5
    <3>4. Len(survivors') < at' /\ assembled' = <<>>
          /\ \A i \in DOMAIN survivors' : survivors'[i] < at'
      BY <2>3, <3>1, PagesAssumption DEF PagesInv, SurvivorsFit, Cleaned, CleanStep, Page
    <3>5. Cleaned'
      BY <2>3, <3>3, <3>4 DEF Cleaned
    <3> QED
      BY <3>2, <3>5 DEF PagesInv
  <2> QED
    BY <1>8, <2>1, <2>2, <2>3 DEF BlankCheck, SoftFailure
<1>9. CASE Orient
  <2>1. CASE Keep /\ UNCHANGED warnings
    BY <1>3, <1>9, <2>1 DEF Orient
  <2>2. CASE Keep /\ Warn(at, "orientation")
    BY <1>4, <1>9, <2>2 DEF Orient
  <2>3. CASE Goto("rotate") /\ UNCHANGED warnings
    BY <1>1, <1>5, <1>9, <2>3 DEF Orient, CleanStep
  <2> QED
    BY <1>9, <2>1, <2>2, <2>3 DEF Orient, SoftFailure
<1>10. CASE Rotate
  <2>1. CASE Keep /\ UNCHANGED warnings
    BY <1>3, <1>10, <2>1 DEF Rotate
  <2>2. CASE Keep /\ Warn(at, "rotation")
    BY <1>4, <1>10, <2>2 DEF Rotate
  <2> QED
    BY <1>10, <2>1, <2>2 DEF Rotate, SoftFailure
<1> QED
  BY <1>6, <1>7, <1>8, <1>9, <1>10

(* A page that has been read goes to the end of what is assembled.         *)
LEMMA NextIsTheNextSurvivor ==
  ASSUME PagesInv, LoopTypes, pc \in {"pass1", "pass2", "convert"}, NextPage,
         UNCHANGED survivors, \A p : Dropped(p)' <=> Dropped(p)
  PROVE  PagesInv'
<1>1. at \in DOMAIN survivors /\ ThisPage = survivors[at] /\ ThisPage \in Nat
  BY DEF LoopTypes, ThisPage
<1>2. /\ survivors # <<>> /\ assembled \in Seq(Nat) /\ Len(assembled) = at - 1
      /\ \A p \in Page : Dropped(p) <=> ~Keeps(survivors, p)
      /\ \A i \in DOMAIN assembled : assembled[i] = survivors[i]
  BY DEF PagesInv, Taken, OCRStep, LoopTypes
<1>3. assembled' = Append(assembled, ThisPage) /\ at' = at + 1 /\ pc' = "ocr"
  BY DEF NextPage
<1>4. survivors \in Seq(Page) /\ Len(survivors) <= NumPages /\ at \in 1..Len(survivors)
  BY <1>1 DEF PagesInv, SurvivorsFit
<1>5. SurvivorsFit' /\ Cleaned'
  BY <1>3, <1>4, PagesAssumption DEF PagesInv, SurvivorsFit, Cleaned, CleanStep
<1>6. Len(assembled') = at' - 1 /\ \A i \in DOMAIN assembled' : assembled'[i] = survivors[i]
  BY <1>1, <1>2, <1>3, <1>4
<1>7. \A p \in Page : Dropped(p)' <=> ~Keeps(survivors, p)'
  BY <1>2 DEF Keeps
<1>8. Taken'
  BY <1>2, <1>3, <1>4, <1>6, <1>7 DEF Taken
<1> QED
  BY <1>5, <1>8 DEF PagesInv

(* The second loop's other steps move nothing.                             *)
LEMMA ReadGoesOn ==
  ASSUME PagesInv, pc \in OCRStep, pc' \in OCRStep \cup {"assemble"},
         pc' = "assemble" => at > Len(survivors),
         UNCHANGED <<at, survivors, assembled>>, \A p : Dropped(p)' <=> Dropped(p)
  PROVE  PagesInv'
<1>1. SurvivorsFit' /\ Cleaned'
  BY DEF PagesInv, SurvivorsFit, Cleaned, CleanStep, OCRStep
<1>2. \A p \in Page : Dropped(p)' <=> ~Keeps(survivors, p)'
  BY DEF PagesInv, Taken, Keeps
<1>3. Taken'
  BY <1>2 DEF PagesInv, SurvivorsFit, Taken
<1> QED
  BY <1>1, <1>3 DEF PagesInv

(* Recording a page's confidence leaves the pages alone.                   *)
LEMMA RecordKeepsPages ==
  ASSUME PagesInv, LoopTypes, pc \in {"pass1", "pass2"}, NEW pass, Record(pass),
         \A p : Dropped(p)' <=> Dropped(p)
  PROVE  PagesInv'
<1>1. UNCHANGED survivors
  BY DEF Record
<1>2. CASE NextPage
  BY <1>1, <1>2, NextIsTheNextSurvivor
<1>3. CASE pc' = "convert" /\ UNCHANGED <<assembled, at>>
  BY <1>1, <1>3, ReadGoesOn DEF OCRStep
<1> QED
  BY <1>2, <1>3 DEF Record

(* Every step of the call.                                                 *)
LEMMA PagesStep == ASSUME PagesInv, LoopTypes, [Next]_vars PROVE PagesInv'
<1>1. ASSUME UNCHANGED <<pc, at, survivors, assembled, warnings>> PROVE PagesInv'
  BY <1>1 DEF PagesInv, SurvivorsFit, Cleaned, Taken, Dropped, Keeps
<1>2. CASE EndContext \/ UNCHANGED vars
  BY <1>1, <1>2 DEF EndContext, locals, vars
<1>3. CASE Setup
  <2>1. CASE pc' = "clean" /\ UNCHANGED <<at, survivors, assembled, warnings>>
    <3>1. pc = "setup"
      BY <1>3 DEF Setup
    <3>2. SurvivorsFit' /\ Taken'
      BY <2>1 DEF PagesInv, SurvivorsFit, Taken, OCRStep
    <3>3. Cleaned'
      BY <2>1, <3>1 DEF PagesInv, Cleaned, Dropped, Keeps
    <3> QED
      BY <3>2, <3>3 DEF PagesInv
  <2> QED
    BY <1>3, <2>1, FinishKeepsPages DEF Setup, Goto
<1>4. CASE CleanTop \/ Deskew \/ BlankCheck \/ Orient \/ Rotate
  BY <1>4, CleaningKeepsPages
<1>5. ASSUME UNCHANGED warnings PROVE \A p : Dropped(p)' <=> Dropped(p)
  BY <1>5 DEF Dropped
<1>6. ASSUME NEW what, what # "removed_blank", UNCHANGED warnings \/ Warn(ThisPage, what),
             pc \in {"pass1", "pass2"}, NEW pass, Record(pass)
      PROVE  PagesInv'
  <2>1. \A p : Dropped(p)' <=> Dropped(p)
    BY <1>5, <1>6, WarnDropsNothing
  <2> QED
    BY <1>6, <2>1, RecordKeepsPages
<1>7. CASE OCRTop
  <2>1. ASSUME NEW step, step \in OCRStep \/ (step = "assemble" /\ at > Len(survivors)),
               Goto(step), UNCHANGED warnings
        PROVE  PagesInv'
    BY <1>5, <1>7, <2>1, ReadGoesOn DEF OCRTop, Goto, OCRStep
  <2> QED
    BY <1>7, <2>1, FinishKeepsPages DEF OCRTop, OCRStep
<1>8. CASE Pass1
  <2>1. CASE Goto("pass2") /\ UNCHANGED warnings
    BY <1>5, <1>8, <2>1, ReadGoesOn DEF Pass1, Goto, OCRStep
  <2>2. CASE Warn(ThisPage, "confidence") /\ Record(0)
    BY <1>6, <1>8, <2>2 DEF Pass1
  <2>3. CASE MaybeNoWords /\ Record(1)
    BY <1>6, <1>8, <2>3 DEF Pass1, MaybeNoWords
  <2> QED
    BY <1>8, <2>1, <2>2, <2>3, FinishKeepsPages DEF Pass1, HardFailure
<1>9. CASE Pass2
  <2>1. CASE Warn(ThisPage, "pass2") /\ Record(1)
    BY <1>6, <1>9, <2>1 DEF Pass2
  <2>2. CASE Warn(ThisPage, "confidence") /\ Record(1)
    BY <1>6, <1>9, <2>2 DEF Pass2
  <2>3. ASSUME NEW pass, MaybeNoWords /\ Record(pass) PROVE PagesInv'
    BY <1>6, <1>9, <2>3 DEF Pass2, MaybeNoWords
  <2> QED
    BY <1>9, <2>1, <2>2, <2>3, FinishKeepsPages DEF Pass2, SoftFailure
<1>10. CASE Convert
  <2>1. CASE NextPage /\ UNCHANGED <<survivors, warnings>>
    BY <1>5, <1>10, <2>1, NextIsTheNextSurvivor DEF Convert
  <2> QED
    BY <1>10, <2>1, FinishKeepsPages DEF Convert, HardFailure
<1>11. CASE Assemble
  <2>1. ASSUME NEW docs, Succeed(docs) PROVE PagesInv'
    BY <2>1 DEF Succeed, PagesInv, SurvivorsFit, Cleaned, Taken, CleanStep, OCRStep, locals
  <2> QED
    BY <1>11, <2>1, FinishKeepsPages DEF Assemble, HardFailure
<1> QED
  BY <1>2, <1>3, <1>4, <1>7, <1>8, <1>9, <1>10, <1>11, Zenon DEF Next

(* Only Assemble answers "ok".                                             *)
LEMMA OnlyAssembleSucceeds ==
  ASSUME RepliesLast, Next, reply' = "ok", reply # "ok" \/ pc # "done"
  PROVE  Assemble
<1>1. reply # "ok"
  BY NoneAssumption DEF RepliesLast, Reply
<1> QED
  BY <1>1 DEF Next, EndContext, Setup, CleanTop, Deskew, BlankCheck, Orient, Rotate,
     OCRTop, Pass1, Pass2, Convert, HardFailure, Finish, Goto, Keep, Record, NextPage

(* What is assembled are the survivors, and each is in one document.       *)
LEMMA DocumentsStep ==
  ASSUME LoopTypes, RepliesLast, PagesInv, DocumentsHoldSurvivors, [Next]_vars
  PROVE  DocumentsHoldSurvivors'
<1>1. CASE UNCHANGED vars
  BY <1>1 DEF DocumentsHoldSurvivors, vars, locals
<1>2. CASE reply' # "ok"
  BY <1>2 DEF DocumentsHoldSurvivors
<1>3. CASE Next /\ reply' = "ok"
  <2>1. Assemble
    <3>1. ASSUME pc = "done" PROVE FALSE
      BY <1>3, <3>1 DEF Next, EndContext, Setup, CleanTop, Deskew, BlankCheck, Orient, Rotate,
         OCRTop, Pass1, Pass2, Convert, Assemble
    <3> QED
      BY <1>3, <3>1, OnlyAssembleSucceeds
  <2>2. /\ UNCHANGED warnings
        /\ \/ documents' = [i \in DOMAIN assembled |-> PageDocument(i)]
           \/ documents' = <<CombinedDocument>>
    BY <1>3, <2>1 DEF Assemble, HardFailure, Finish, Succeed, locals
  <2>3. /\ survivors \in Seq(Page) /\ Ascending(survivors) /\ survivors # <<>>
        /\ \A p \in Page : Dropped(p) <=> ~Keeps(survivors, p)
        /\ DOMAIN assembled = DOMAIN survivors
        /\ \A i \in DOMAIN survivors : assembled[i] = survivors[i]
    <3>1. pc = "assemble"
      BY <2>1 DEF Assemble
    <3>2. Len(assembled) = Len(survivors) /\ assembled \in Seq(Nat) /\ survivors \in Seq(Page)
      BY <3>1 DEF PagesInv, SurvivorsFit, Taken, LoopTypes
    <3> QED
      BY <3>1, <3>2 DEF PagesInv, SurvivorsFit, Taken
  <2> DEFINE holders(p) == {i \in DOMAIN documents' : p \in documents'[i].pages}
  <2> SUFFICES /\ documents' # <<>>
               /\ \A p \in Page : IF Dropped(p) THEN holders(p) = {}
                                                ELSE \E i \in holders(p) : holders(p) = {i}
               /\ \A i, j \in DOMAIN documents' : i < j =>
                    \A p \in documents'[i].pages, q \in documents'[j].pages : p < q
    BY <2>2 DEF DocumentsHoldSurvivors, Dropped
  <2>4. CASE documents' = [i \in DOMAIN assembled |-> PageDocument(i)]
    <3>1. DOMAIN documents' = DOMAIN survivors
          /\ \A i \in DOMAIN survivors : documents'[i].pages = {survivors[i]}
      BY <2>3, <2>4 DEF PageDocument
    <3>2. documents' # <<>>
      BY <2>3, <3>1
    <3>3. ASSUME NEW i \in DOMAIN survivors, NEW j \in DOMAIN survivors,
                 survivors[i] = survivors[j]
          PROVE  i = j
      <4>1. ~(i < j) /\ ~(j < i)
        BY <2>3, <3>3, PagesAssumption DEF Ascending, Page
      <4> QED
        BY <2>3, <4>1
    <3>4. ASSUME NEW p \in Page
          PROVE  IF Dropped(p) THEN holders(p) = {} ELSE \E i \in holders(p) : holders(p) = {i}
      <4>1. holders(p) = {i \in DOMAIN survivors : survivors[i] = p}
        BY <3>1
      <4> QED
        BY <2>3, <3>3, <4>1 DEF Keeps
    <3>5. \A i, j \in DOMAIN documents' : i < j =>
            \A p \in documents'[i].pages, q \in documents'[j].pages : p < q
      BY <2>3, <3>1 DEF Ascending
    <3> QED
      BY <3>2, <3>4, <3>5
  <2>5. CASE documents' = <<CombinedDocument>>
    <3>1. DOMAIN documents' = {1} /\ documents'[1] = CombinedDocument /\ documents' # <<>>
      BY <2>5
    <3>2. \A p : p \in CombinedDocument.pages <=> Keeps(survivors, p)
      BY <2>3 DEF CombinedDocument, Keeps
    <3>3. \A p : holders(p) = IF Keeps(survivors, p) THEN {1} ELSE {}
      BY <3>1, <3>2
    <3> QED
      BY <2>3, <3>1, <3>3
  <2> QED
    BY <2>2, <2>4, <2>5
<1> QED
  BY <1>1, <1>2, <1>3

(* Every page that is not blank is in exactly one document, in the order   *)
(* of the pages, for any number of them.                                   *)
THEOREM DocumentsHold == Spec => []DocumentsHoldSurvivors
<1> DEFINE IInv == LoopTypes /\ RepliesLast /\ PagesInv /\ DocumentsHoldSurvivors
<1>1. Init => IInv
  <2>1. Init => LoopTypes /\ RepliesLast
    BY DEF Init, LoopTypes, RepliesLast
  <2>2. Init => PagesInv
    BY PagesAssumption DEF Init, PagesInv, SurvivorsFit, Ascending, Cleaned, Taken, OCRStep,
       Dropped, Keeps, Page
  <2>3. Init => DocumentsHoldSurvivors
    BY NoneAssumption DEF Init, DocumentsHoldSurvivors, Reply
  <2> QED
    BY <2>1, <2>2, <2>3
<1>2. IInv /\ [Next]_vars => IInv'
  BY LoopTypesStep, RepliesStep, PagesStep, DocumentsStep
<1> QED
  BY <1>1, <1>2, PTL DEF Spec

-----------------------------------------------------------------------------

(* The types that do not follow from the loops; OCR is on where it runs.   *)
ValueTypes ==
  /\ req \in Request /\ ctxDone \in BOOLEAN /\ killed \in BOOLEAN
  /\ pc \in Step /\ reply \in Reply \cup {None}
  /\ assembled \in Seq(Page) /\ confidences \in Seq(Page \X {0, 1, 2})
  /\ warnings \in SUBSET (Page \X Warning) /\ softened \in SUBSET Page
  /\ documents \in Seq(Document)
  /\ req.ocr = "off" => confidences = <<>> /\ pc \notin {"pass1", "pass2"}
  /\ pc = "done" => reply # None

(* A page's document and the combined one have the types of their parts.   *)
LEMMA DocumentTypes ==
  ASSUME ValueTypes, req.ocr # "off" => DOMAIN confidences = DOMAIN assembled
  PROVE  /\ CombinedDocument \in Document
         /\ \A i \in DOMAIN assembled : PageDocument(i) \in Document
<1>1. \A i \in DOMAIN assembled : assembled[i] \in Page
  BY DEF ValueTypes
<1>2. CombinedDocument \in Document
  BY <1>1 DEF ValueTypes, CombinedDocument, Document
<1>3. ASSUME NEW i \in DOMAIN assembled PROVE PageDocument(i) \in Document
  <2>1. {assembled[i]} \in SUBSET Page
    BY <1>1
  <2>2. {w \in warnings : w[1] = assembled[i]} \in SUBSET (Page \X Warning)
    BY DEF ValueTypes
  <2>3. (IF req.ocr = "off" THEN <<>> ELSE <<confidences[i]>>) \in Seq(Page \X {0, 1, 2})
    <3>1. req.ocr # "off" => confidences[i] \in Page \X {0, 1, 2}
      BY DEF ValueTypes
    <3> DEFINE entries == Page \X {0, 1, 2}
    <3> HIDE DEF entries
    <3>2. req.ocr # "off" => <<confidences[i]>> \in Seq(entries)
      BY <3>1 DEF entries
    <3>3. <<>> \in Seq(entries)
      OBVIOUS
    <3> QED
      BY <3>2, <3>3 DEF entries
  <2> QED
    BY <2>1, <2>2, <2>3 DEF PageDocument, Document
<1> QED
  BY <1>2, <1>3

(* Every step keeps the values of a call within their types.               *)
LEMMA ValueTypesStep ==
  ASSUME LoopTypes, PagesInv, Parallel, ValueTypes, [Next]_vars
  PROVE  ValueTypes'
<1>1. ASSUME NEW r \in Reply, Finish(r), killed' \in BOOLEAN, softened' \in SUBSET Page
      PROVE  ValueTypes'
  BY <1>1, NoneAssumption DEF ValueTypes, Finish, locals, Step
<1>2. ASSUME NEW step \in Step, step # "done", Goto(step), killed' \in BOOLEAN,
             step \in {"pass1", "pass2"} => req.ocr # "off",
             softened' \in SUBSET Page, warnings' \in SUBSET (Page \X Warning)
      PROVE  ValueTypes'
  BY <1>2 DEF ValueTypes, Goto
<1>3. ASSUME Keep, killed' \in BOOLEAN, softened' \in SUBSET Page,
             warnings' \in SUBSET (Page \X Warning)
      PROVE  ValueTypes'
  BY <1>3 DEF ValueTypes, Keep, Step, CleanStep
<1>4. ASSUME NEW p \in Page, NEW what \in Warning, Warn(p, what)
      PROVE  warnings' \in SUBSET (Page \X Warning)
  BY <1>4 DEF ValueTypes, Warn
<1>5. ASSUME NEW p \in Page, NEW what \in Warning, SoftFailure(p, what)
      PROVE  /\ killed' \in BOOLEAN /\ softened' \in SUBSET Page
             /\ warnings' \in SUBSET (Page \X Warning)
  BY <1>4, <1>5 DEF SoftFailure, ToolFailed, ValueTypes
<1>6. ASSUME ToolRan \/ ToolFailed \/ UNCHANGED history PROVE killed' \in BOOLEAN
  BY <1>6 DEF ToolRan, ToolFailed, history, ValueTypes
<1>7. ASSUME UNCHANGED softened \/ UNCHANGED history PROVE softened' \in SUBSET Page
  BY <1>7 DEF history, ValueTypes
<1>8. ASSUME UNCHANGED warnings PROVE warnings' \in SUBSET (Page \X Warning)
  BY <1>8 DEF ValueTypes
<1>9. pc \in {"deskew", "blank", "orient", "rotate"} => at \in Page
  BY PagesAssumption DEF PagesInv, SurvivorsFit, Cleaned, CleanStep, Page
<1>10. pc \in {"pass1", "pass2", "convert"} => ThisPage \in Page
  BY DEF LoopTypes, PagesInv, SurvivorsFit, ThisPage
<1>11. ASSUME NEW pass \in {0, 1, 2}, Record(pass), pc \in {"pass1", "pass2"},
              killed' \in BOOLEAN, softened' \in SUBSET Page,
              warnings' \in SUBSET (Page \X Warning)
       PROVE  ValueTypes'
  <2>1. confidences' \in Seq(Page \X {0, 1, 2}) /\ req.ocr # "off" /\ UNCHANGED req
    BY <1>10, <1>11 DEF Record, ValueTypes
  <2>2. assembled' \in Seq(Page) /\ pc' \in {"ocr", "convert"}
    <3>1. CASE NextPage
      BY <1>10, <1>11, <3>1 DEF NextPage, ValueTypes
    <3>2. CASE pc' = "convert" /\ UNCHANGED <<assembled, at>>
      BY <3>2 DEF ValueTypes
    <3> QED
      BY <1>11, <3>1, <3>2 DEF Record
  <2> QED
    BY <1>11, <2>1, <2>2 DEF Record, ValueTypes, Step, OCRStep
<1>12. CASE EndContext \/ UNCHANGED vars
  BY <1>12 DEF EndContext, ValueTypes, locals, history, vars
<1>13. CASE Setup
  BY <1>1, <1>2, <1>6, <1>7, <1>8, <1>13 DEF Setup, Reply, Step, CleanStep
<1>14. CASE CleanTop
  <2>1. CASE pc' = "ocr" /\ UNCHANGED <<req, ctxDone, locals, documents, reply, history>>
    BY <2>1 DEF ValueTypes, locals, history, Step, OCRStep
  <2> QED
    BY <1>1, <1>2, <1>6, <1>7, <1>8, <1>14, <2>1 DEF CleanTop, Reply, Step, CleanStep
<1>15. CASE Deskew
  <2>1. CASE SoftFailure(at, "deskew")
    BY <1>2, <1>5, <1>9, <1>15, <2>1 DEF Deskew, Warning, Step, CleanStep
  <2> QED
    BY <1>2, <1>6, <1>7, <1>8, <1>15, <2>1 DEF Deskew, Step, CleanStep, history
<1>16. CASE BlankCheck
  <2>1. CASE SoftFailure(at, "blank_check") /\ Goto("orient")
    BY <1>2, <1>5, <1>9, <1>16, <2>1 DEF BlankCheck, Warning, Step, CleanStep
  <2>2. CASE /\ ToolRan /\ Warn(at, "removed_blank") /\ pc' = "clean"
             /\ UNCHANGED <<req, ctxDone, assembled, confidences, documents, reply, softened>>
    BY <1>4, <1>6, <1>9, <1>16, <2>2 DEF BlankCheck, ValueTypes, Warning, Step, CleanStep
  <2>3. CASE Goto("orient") /\ UNCHANGED <<warnings, softened>> /\ killed' \in BOOLEAN
    BY <1>2, <1>7, <1>8, <2>3 DEF Step, CleanStep
  <2> QED
    BY <1>6, <1>16, <2>1, <2>2, <2>3 DEF BlankCheck, history
<1>17. CASE Orient
  <2>1. CASE SoftFailure(at, "orientation") /\ Keep
    BY <1>3, <1>5, <1>9, <1>17, <2>1 DEF Orient, Warning
  <2> QED
    BY <1>2, <1>3, <1>6, <1>7, <1>8, <1>17, <2>1 DEF Orient, Step, CleanStep, history
<1>18. CASE Rotate
  <2>1. CASE SoftFailure(at, "rotation") /\ Keep
    BY <1>3, <1>5, <1>9, <1>18, <2>1 DEF Rotate, Warning
  <2> QED
    BY <1>3, <1>6, <1>7, <1>8, <1>18, <2>1 DEF Rotate
<1>19. CASE OCRTop
  BY <1>1, <1>2, <1>6, <1>7, <1>8, <1>19 DEF OCRTop, Reply, Step, OCRStep
<1>20. CASE Pass1
  <2>1. MaybeNoWords => warnings' \in SUBSET (Page \X Warning)
    BY <1>4, <1>8, <1>10, <1>20 DEF Pass1, MaybeNoWords, Warning
  <2>2. CASE HardFailure
    BY <1>1, <1>6, <1>7, <2>2 DEF HardFailure, Reply
  <2>3. CASE ToolRan /\ UNCHANGED softened /\ Warn(ThisPage, "confidence") /\ Record(0)
    BY <1>4, <1>6, <1>7, <1>10, <1>11, <1>20, <2>3 DEF Pass1, Warning
  <2>4. CASE ToolRan /\ UNCHANGED softened /\ MaybeNoWords /\ Record(1)
    BY <1>6, <1>7, <1>11, <1>20, <2>1, <2>4 DEF Pass1
  <2>5. CASE ToolRan /\ UNCHANGED <<softened, warnings>> /\ req.ocr = "auto" /\ Goto("pass2")
    BY <1>2, <1>6, <1>7, <1>8, <2>5 DEF Step, OCRStep
  <2> QED
    BY <1>20, <2>2, <2>3, <2>4, <2>5 DEF Pass1
<1>21. CASE Pass2
  <2>1. MaybeNoWords => warnings' \in SUBSET (Page \X Warning)
    BY <1>4, <1>8, <1>10, <1>21 DEF Pass2, MaybeNoWords, Warning
  <2>2. CASE ToolFailed /\ UNCHANGED softened /\ Finish("timed_out")
    BY <1>1, <1>6, <1>7, <2>2 DEF Reply
  <2>3. CASE SoftFailure(ThisPage, "pass2") /\ Record(1)
    BY <1>5, <1>10, <1>11, <1>21, <2>3 DEF Pass2, Warning
  <2>4. CASE ToolRan /\ UNCHANGED softened /\ Warn(ThisPage, "confidence") /\ Record(1)
    BY <1>4, <1>6, <1>7, <1>10, <1>11, <1>21, <2>4 DEF Pass2, Warning
  <2>5. ASSUME NEW pass \in {1, 2}, ToolRan /\ UNCHANGED softened /\ MaybeNoWords /\ Record(pass)
        PROVE  ValueTypes'
    BY <1>6, <1>7, <1>11, <1>21, <2>1, <2>5 DEF Pass2
  <2> QED
    BY <1>21, <2>2, <2>3, <2>4, <2>5 DEF Pass2
<1>22. CASE Convert
  <2>1. CASE HardFailure
    BY <1>1, <1>6, <1>7, <2>1 DEF HardFailure, Reply
  <2>2. CASE ToolRan /\ NextPage
             /\ UNCHANGED <<req, ctxDone, confidences, warnings, documents, reply, softened>>
    <3>1. assembled' \in Seq(Page) /\ pc' = "ocr"
      BY <1>10, <1>22, <2>2 DEF Convert, NextPage, ValueTypes
    <3> QED
      BY <1>6, <2>2, <3>1 DEF ValueTypes, Step, OCRStep
  <2> QED
    BY <1>22, <2>1, <2>2 DEF Convert
<1>23. CASE Assemble
  <2>1. req.ocr # "off" => DOMAIN confidences = DOMAIN assembled
    BY <1>23 DEF Assemble, Parallel, LoopTypes
  <2>2. ASSUME NEW docs \in Seq(Document), Succeed(docs) PROVE ValueTypes'
    BY <2>2, NoneAssumption DEF Succeed, ValueTypes, locals, history, Step, Reply
  <2>3. [i \in DOMAIN assembled |-> PageDocument(i)] \in Seq(Document)
    <3>1. DOMAIN assembled = 1..Len(assembled) /\ Len(assembled) \in Nat
      BY DEF LoopTypes
    <3> QED
      BY <2>1, <3>1, DocumentTypes
  <2>4. <<CombinedDocument>> \in Seq(Document)
    BY <2>1, DocumentTypes
  <2>5. CASE HardFailure
    BY <1>1, <1>6, <1>7, <2>5 DEF HardFailure, Reply
  <2>6. ASSUME NEW r \in {"unsupported", "internal"}, Finish(r), UNCHANGED history
        PROVE  ValueTypes'
    BY <1>1, <1>6, <1>7, <2>6 DEF Reply
  <2> QED
    BY <1>23, <2>2, <2>3, <2>4, <2>5, <2>6 DEF Assemble
<1> QED
  BY <1>12, <1>13, <1>14, <1>15, <1>16, <1>17, <1>18, <1>19, <1>20, <1>21, <1>22, <1>23,
     Zenon DEF Next

(* Type correctness, with the slices Process keeps in step.                *)
THEOREM TypeCorrect == Spec => []TypeOK
<1> DEFINE IInv == LoopTypes /\ RepliesLast /\ PagesInv /\ Parallel /\ ValueTypes
<1>1. Init => IInv
  <2>1. Init => LoopTypes /\ RepliesLast
    BY DEF Init, LoopTypes, RepliesLast
  <2>2. Init => PagesInv
    BY PagesAssumption DEF Init, PagesInv, SurvivorsFit, Ascending, Cleaned, Taken, OCRStep,
       Dropped, Keeps, Page
  <2>3. Init => Parallel
    BY DEF Init, Parallel
  <2>4. Init => ValueTypes
    <3> SUFFICES ASSUME Init PROVE ValueTypes
      OBVIOUS
    <3>1. \A S : <<>> \in Seq(S)
      OBVIOUS
    <3>2. pc = "setup" /\ reply = None /\ softened = {} /\ warnings = {}
      BY DEF Init
    <3>3. assembled = <<>> /\ confidences = <<>> /\ documents = <<>>
      BY DEF Init
    <3>4. req \in Request /\ ctxDone \in BOOLEAN /\ killed \in BOOLEAN
      BY DEF Init
    <3> QED
      BY <3>1, <3>2, <3>3, <3>4 DEF ValueTypes, Step
  <2> QED
    BY <2>1, <2>2, <2>3, <2>4
<1>2. IInv /\ [Next]_vars => IInv'
  BY LoopTypesStep, RepliesStep, PagesStep, ParallelStep, ValueTypesStep
<1>3. IInv => TypeOK
  BY DEF PagesInv, SurvivorsFit, Parallel, ValueTypes, TypeOK
<1> QED
  BY <1>1, <1>2, <1>3, PTL DEF Spec

=============================================================================
