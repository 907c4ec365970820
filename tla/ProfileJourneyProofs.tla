------------------------ MODULE ProfileJourneyProofs ------------------------
(***************************************************************************)
(* The properties of ProfileJourney for every profiles.yaml and request,   *)
(* whatever tags a destination block or a caller names and however often.  *)
(***************************************************************************)
EXTENDS ProfileJourney, SequenceTheorems, FiniteSetTheorems, TLAPS

(* A profile that Parse lets through. *)
Usable(p) == p \in ProfileSpec /\ ProfileValid(p) /\ p.grouping # ""

(* What was read is what a file holds, and what is served was let through. *)
OnlyUsable ==
  /\ file \in Seq(ProfileSpec) /\ request \in ScanRequest
  /\ \A n \in DOMAIN set : Usable(set[n])
  /\ profile = None \/ Usable(profile)
  /\ at \in {"dispatch", "process", "build", "deliver"} => Usable(profile)

(* The request passes its stages in order, and nothing of a later one has  *)
(* happened in an earlier one.                                             *)
InOrder ==
  /\ at # "answered" => answer = None
  /\ at \in {"parse", "exited", "serving", "dispatch"} => images = 0
  /\ at \in {"parse", "exited", "serving", "dispatch", "process"} => documents = 0
  /\ at \in {"process", "build", "deliver"} => images \in 1..MaxImages
  /\ at \in {"build", "deliver"} => documents \in 1..images
  /\ at \in {"parse", "exited", "serving", "dispatch", "process", "build"} =>
       built = <<>> /\ doc = 1 /\ dst = 1 /\ results = <<>> /\ stored = {} /\ pc = "idle"

(* What does not concern the deliveries. *)
PlainTypes ==
  /\ parsed \in 0..Len(file)
  /\ at \in {"parse", "exited", "serving", "dispatch", "process", "build", "deliver", "answered"}
  /\ images \in 0..MaxImages /\ documents \in 0..images
  /\ answer \in Reply \cup {None}

(* Everything before the deliveries. *)
Before == OnlyUsable /\ InOrder /\ PlainTypes

(* Filling in the defaults makes no profile unusable, and leaves none      *)
(* without a grouping.                                                     *)
LEMMA DefaultedIs ==
  ASSUME NEW p \in ProfileSpec
  PROVE  Defaulted(p) \in ProfileSpec /\ Defaulted(p).grouping # ""
<1> DEFINE grouping  == IF p.grouping = "" THEN "combined" ELSE p.grouping
           languages == IF p.ocr /\ p.languages = <<>> THEN <<"deu", "eng">> ELSE p.languages
           minConfidence == IF p.ocr /\ p.minConfidence = 0 THEN 80 ELSE p.minConfidence
           one == [p EXCEPT !.grouping = grouping]
           two == [one EXCEPT !.languages = languages]
           three == [two EXCEPT !.minConfidence = minConfidence]
<1>1. p.grouping \in Text /\ p.languages \in Seq(Text) /\ p.minConfidence \in Int
  BY DEF ProfileSpec
<1>2. "combined" \in Text /\ <<"deu", "eng">> \in Seq(Text)
  BY ScenariosAssumption
<1>3. grouping \in Text /\ grouping # ""
  BY <1>1, <1>2
<1>4. languages \in Seq(Text)
  BY <1>1, <1>2
<1>5. minConfidence \in Int
  BY <1>1
<1>6. Defaulted(p) = three
  BY Zenon DEF Defaulted
<1> HIDE DEF grouping, languages, minConfidence
<1>7. one \in ProfileSpec /\ one.grouping = grouping
  BY <1>3 DEF ProfileSpec
<1> HIDE DEF one
<1>8. two \in ProfileSpec /\ two.grouping = grouping
  BY <1>4, <1>7 DEF ProfileSpec
<1> HIDE DEF two
<1>9. three \in ProfileSpec /\ three.grouping = grouping
  BY <1>5, <1>8 DEF ProfileSpec
<1> QED
  BY <1>3, <1>6, <1>9

(* The steps of the deliveries touch nothing but their own variables.      *)
LEMMA DeliveryFrame ==
  ASSUME SkipUnbuilt \/ OpenDocument \/ ResolveMetadata \/ Upload
  PROVE  UNCHANGED <<daemonVars, at, pipelineVars, answer>> /\ at = "deliver"
  BY DEF SkipUnbuilt, OpenDocument, ResolveMetadata, Upload, Report, Delivering

(* At the start there is no profile and no request.                        *)
LEMMA BeforeInit == Init => Before
  BY ScenariosAssumption, ReplyAssumption
     DEF Init, MetadataInit, Before, OnlyUsable, InOrder, PlainTypes

(* Something is assembled, and at most a document for each image.          *)
LEMMA Assembled ==
  ASSUME Before, Process
  PROVE  documents' \in 1..images /\ images \in Nat
<1>1. images \in Nat /\ images > 0
  BY ScenariosAssumption DEF Process, Before, InOrder
<1>2. PICK n \in Survivors :
        n > 0 /\ documents' = IF WireGrouping(profile) = "per_page" THEN n ELSE 1
  BY DEF Process
<1>3. n \in 1..images
  BY <1>1, <1>2 DEF Survivors
<1> QED
  BY <1>1, <1>2, <1>3

(* Every step keeps what is known before the deliveries.                   *)
LEMMA BeforeStep == Before /\ [Next]_vars => Before'
<1> SUFFICES ASSUME Before, [Next]_vars PROVE Before'
  OBVIOUS
<1> USE DEF Before
<1>1. CASE UNCHANGED vars
  BY <1>1 DEF vars, daemonVars, pipelineVars, deliveryVars, metadataVars, OnlyUsable, InOrder,
              PlainTypes
<1>2. CASE ParseProfile
  <2>1. ProfileRead \in ProfileSpec /\ ProfileRead.grouping # ""
    <3>1. file[parsed + 1] \in ProfileSpec
      BY <1>2 DEF ParseProfile, OnlyUsable, PlainTypes
    <3> QED
      BY <3>1, DefaultedIs DEF ProfileRead
  <2>2. Usable(ProfileRead)
    BY <1>2, <2>1 DEF ParseProfile, Acceptable, Usable
  <2>3. \A n \in DOMAIN set' : Usable(set'[n])
    BY <1>2, <2>2 DEF ParseProfile, OnlyUsable
  <2>4. parsed' \in 0..Len(file) /\ file' = file
    BY <1>2 DEF ParseProfile, PlainTypes, OnlyUsable
  <2> QED
    BY <1>2, <2>3, <2>4
       DEF ParseProfile, OnlyUsable, InOrder, PlainTypes, pipelineVars, deliveryVars, metadataVars
<1>3. CASE ParseRefuses \/ ParseReturns
  BY <1>3 DEF ParseRefuses, ParseReturns, ParseEnds, OnlyUsable, InOrder, PlainTypes,
              daemonVars, pipelineVars, deliveryVars, metadataVars
<1>4. ASSUME NEW error \in Reply, Finish(error) PROVE Before'
  BY <1>4 DEF Finish, OnlyUsable, InOrder, PlainTypes, daemonVars, pipelineVars, deliveryVars,
              metadataVars
<1>5. CASE RefuseRequest \/ DispatchRefused \/ ProcessRefused \/ Answer
  <2>1. \E error \in Reply : Finish(error)
    BY <1>5 DEF RefuseRequest, DispatchRefused, ProcessRefused, Answer, Reply, OnlyUsable,
                ScanRequest
  <2> QED
    BY <1>4, <2>1
<1>6. CASE AcceptRequest
  BY <1>6 DEF AcceptRequest, OnlyUsable, InOrder, PlainTypes, daemonVars, deliveryVars, metadataVars
<1>7. CASE Dispatch
  BY <1>7, ScenariosAssumption
     DEF Dispatch, OnlyUsable, InOrder, PlainTypes, daemonVars, deliveryVars, metadataVars
<1>8. CASE Process
  <2>1. documents' \in 1..images /\ images \in Nat
    BY <1>8, Assembled
  <2> QED
    BY <1>8, <2>1
       DEF Process, OnlyUsable, InOrder, PlainTypes, daemonVars, deliveryVars, metadataVars
<1>9. CASE BuildDestinations
  BY <1>9 DEF BuildDestinations, OnlyUsable, InOrder, PlainTypes, daemonVars, deliveryVars,
              metadataVars
<1>10. CASE SkipUnbuilt \/ OpenDocument \/ ResolveMetadata \/ Upload
  BY <1>10, DeliveryFrame DEF OnlyUsable, InOrder, PlainTypes, daemonVars, pipelineVars
<1> QED
  BY <1>1, <1>2, <1>3, <1>5, <1>6, <1>7, <1>8, <1>9, <1>10 DEF Next

-----------------------------------------------------------------------------
(* Types, the deliveries included. *)

(* resolveMetadata has been given something to work on.                    *)
MetadataIsSet == pc # "idle" => config \in Config /\ call \in Call

(* The tag lists a delivery works on are sequences of tags.                *)
LEMMA TagsAreSeqs ==
  /\ \A c \in Config : /\ c.tagIDs \in Seq(TagIds) /\ c.typeID \in TypeIds \cup {None}
                       /\ c.mapping # None => /\ c.mapping.tagIDs \in Seq(TagIds)
                                             /\ c.mapping.typeID \in TypeIds \cup {None}
  /\ \A c \in Call : c.tagIDs \in Seq(TagIds)
  BY TagsAssumption DEF Config, Call, Mapping

(* A step of Deliver keeps its variables within their types.               *)
LEMMA MetadataTypes ==
  ASSUME MetadataTypeOK, MetadataIsSet, MetadataStep
  PROVE  MetadataTypeOK' /\ MetadataIsSet' /\ pc # "idle"
<1> USE DEF MetadataTypeOK, MetadataIsSet
<1>1. CASE Resolve
  <2>1. tagIDs' \in Seq(TagIds) /\ documentType' \in TypeIds \cup {None}
    BY <1>1, TagsAreSeqs, ConcatProperties DEF Resolve
  <2> QED
    BY <1>1, <2>1 DEF Resolve, loopVars
<1>2. CASE MergeNothing
  BY <1>2 DEF MergeNothing
<1>3. CASE Merge
  <2>1. call.tagIDs \in Seq(TagIds)
    BY <1>3, TagsAreSeqs DEF Merge
  <2>2. DedupIDs(Effective) \in Seq(TagIds)
    BY <2>1, ConcatProperties DEF DedupIDs
  <2>3. ToSet(call.tagIDs) \subseteq TagIds
    BY <2>1 DEF ToSet
  <2>4. ids' \in Seq(TagIds) /\ seen' \subseteq TagIds /\ i' = 1 /\ out' = <<>>
    BY <1>3, <2>2, <2>3 DEF Merge
  <2> QED
    BY <1>3, <2>4 DEF Merge
<1>4. CASE Dedup \/ RemoveTag
  <2>1. ids[i] \in TagIds /\ i + 1 \in 1..(Len(ids) + 1)
    BY <1>4 DEF Dedup, RemoveTag
  <2>2. out' \in Seq(TagIds)
    <3>1. out' = out \/ out' = Append(out, ids[i])
      BY <1>4 DEF Dedup, RemoveTag
    <3>2. Append(out, ids[i]) \in Seq(TagIds)
      BY <2>1, AppendProperties
    <3> QED
      BY <3>1, <3>2
  <2>3. seen' \subseteq TagIds /\ i' = i + 1
    BY <1>4, <2>1 DEF Dedup, RemoveTag
  <2>4. UNCHANGED <<config, call, pc, tagIDs, documentType, ids>> /\ pc # "idle"
    BY <1>4 DEF Dedup, RemoveTag
  <2> QED
    BY <2>1, <2>2, <2>3, <2>4
<1>5. CASE Return
  BY <1>5 DEF Return, loopVars
<1> QED
  BY <1>1, <1>2, <1>3, <1>4, <1>5 DEF MetadataStep

(* And so does its beginning.                                              *)
LEMMA BeginTypes ==
  ASSUME NEW block \in Config, NEW tags \in Call, BeginMetadata(block, tags)
  PROVE  MetadataTypeOK' /\ MetadataIsSet'
  BY EmptySeq DEF BeginMetadata, MetadataTypeOK, MetadataIsSet

Results == Seq([doc : Nat, dst : Nat, status : {"submitted", "failed"}])

(* The delivery loops: where they are, and that they work on what is       *)
(* there, with metadata only for a destination that was built.             *)
LoopTypes ==
  /\ built \in Seq(BOOLEAN) /\ results \in Results
  /\ doc \in 1..(documents + 1) /\ dst \in 1..(Len(built) + 1)
  /\ built # <<>> => dst \in 1..Len(built)
  /\ doc = documents + 1 => dst = 1

InLoop ==
  /\ at = "deliver" => Len(built) = Len(profile.destinations)
  /\ at = "deliver" => \A k \in 1..Len(built) :
       built[k] <=> /\ profile.destinations[k].target \in Targets
                    /\ Configured(profile.destinations[k])
  /\ pc # "idle" => Delivering /\ built[dst]

Deliveries == MetadataTypeOK /\ MetadataIsSet /\ LoopTypes /\ InLoop

(* At the start nothing is being delivered.                                *)
LEMMA DeliveriesInit == Init => Deliveries
  BY EmptySeq
     DEF Init, MetadataInit, Deliveries, MetadataTypeOK, MetadataIsSet, LoopTypes, InLoop, Results

(* One result more, and on to the next destination or the next document.   *)
LEMMA ReportTypes ==
  ASSUME Before, LoopTypes, Delivering, NEW status \in {"submitted", "failed"}, Report(status)
  PROVE  LoopTypes'
<1>1. documents \in Nat /\ Len(built) \in Nat /\ built' = built /\ documents' = documents
  BY DEF Before, PlainTypes, LoopTypes, Report, pipelineVars
<1>2. results' \in Results
  BY <1>1 DEF LoopTypes, Report, Results
<1> QED
  BY <1>1, <1>2 DEF LoopTypes, Report, Delivering

(* A sequence that is not empty has a first place.                         *)
LEMMA FirstPlace == \A n \in Nat : 1 \in 1..(n + 1)
  OBVIOUS

(* Every step keeps the deliveries within their types.                     *)
LEMMA DeliveriesStep == Before /\ Deliveries /\ [Next]_vars => Deliveries'
<1> SUFFICES ASSUME Before, Deliveries, [Next]_vars PROVE Deliveries'
  OBVIOUS
<1> USE DEF Deliveries
<1>1. CASE /\ UNCHANGED <<profile, documents, built, deliveryVars, metadataVars>>
           /\ at' = "deliver" => at = "deliver"
           /\ pc # "idle" => at' = at
  BY <1>1 DEF deliveryVars, metadataVars, MetadataTypeOK, MetadataIsSet, LoopTypes, InLoop,
              Delivering
<1>2. CASE UNCHANGED vars \/ ParseProfile \/ ParseRefuses \/ ParseReturns \/ RefuseRequest
             \/ DispatchRefused \/ ProcessRefused \/ Dispatch
  <2>1. UNCHANGED <<profile, documents, built, deliveryVars, metadataVars>>
    BY <1>2 DEF vars, pipelineVars, ParseProfile, ParseRefuses, ParseReturns, ParseEnds,
                RefuseRequest, DispatchRefused, ProcessRefused, Dispatch, Finish
  <2>2. at' = at \/ (at # "deliver" /\ at' # "deliver")
    <3>1. CASE UNCHANGED vars \/ ParseProfile
      BY <3>1 DEF vars, ParseProfile
    <3>2. CASE ParseRefuses \/ ParseReturns
      BY <3>2 DEF ParseRefuses, ParseReturns, ParseEnds
    <3>3. CASE RefuseRequest \/ DispatchRefused \/ ProcessRefused \/ Dispatch
      BY <3>3 DEF RefuseRequest, DispatchRefused, ProcessRefused, Dispatch, Finish
    <3> QED
      BY <1>2, <3>1, <3>2, <3>3
  <2>3. pc # "idle" => at = "deliver"
    BY DEF InLoop, Delivering
  <2> QED
    BY <1>1, <2>1, <2>2, <2>3
<1>3. CASE Answer
  <2>1. UNCHANGED <<profile, documents, built, deliveryVars, metadataVars>> /\ at' = "answered"
    BY <1>3 DEF Answer, Finish, pipelineVars
  <2>2. pc = "idle"
    BY <1>3 DEF Answer, InLoop
  <2> QED
    BY <1>1, <2>1, <2>2
<1>4. CASE AcceptRequest \/ Process
  <2>1. UNCHANGED <<built, deliveryVars, metadataVars>> /\ at' # "deliver" /\ documents' \in Nat
    <3>1. CASE AcceptRequest
      BY <3>1 DEF AcceptRequest, Before, PlainTypes
    <3>2. CASE Process
      BY <3>2, Assembled DEF Process
    <3> QED
      BY <1>4, <3>1, <3>2
  <2>2. built = <<>> /\ doc = 1 /\ dst = 1 /\ pc = "idle"
    BY <1>4 DEF AcceptRequest, Process, Before, InOrder
  <2>3. documents' = documents \/ documents' \in 1..images
    BY <1>4, Assembled DEF AcceptRequest
  <2>4. MetadataTypeOK' /\ MetadataIsSet'
    BY <2>1 DEF metadataVars, MetadataTypeOK, MetadataIsSet
  <2>5. LoopTypes'
    <3>1. built' = <<>> /\ Len(built') = 0 /\ doc' = 1 /\ dst' = 1 /\ results' = results
      BY <2>1, <2>2 DEF deliveryVars
    <3>2. documents' \in Nat
      BY <2>1
    <3>3. built' \in Seq(BOOLEAN) /\ results' \in Results
      BY <3>1, <2>1 DEF LoopTypes
    <3>4. doc' \in 1..(documents' + 1) /\ dst' \in 1..(Len(built') + 1)
      BY <3>1, <3>2, FirstPlace
    <3>5. dst' = 1 /\ (built' # <<>> => FALSE)
      BY <3>1
    <3> HIDE DEF Deliveries
    <3> QED
      BY <3>3, <3>4, <3>5 DEF LoopTypes
  <2>6. InLoop'
    BY <2>1, <2>2 DEF metadataVars, InLoop
  <2> QED
    BY <2>4, <2>5, <2>6
<1>5. CASE BuildDestinations
  <2>1. Usable(profile) /\ doc = 1 /\ dst = 1 /\ pc = "idle"
    BY <1>5 DEF BuildDestinations, Before, OnlyUsable, InOrder
  <2>2. profile.destinations \in Seq(DestinationSpec)
    BY <2>1 DEF Usable, ProfileSpec
  <2>3. UNCHANGED <<profile, documents, deliveryVars, metadataVars>>
    BY <1>5 DEF BuildDestinations
  <2>4. /\ built' \in Seq(BOOLEAN) /\ Len(built') = Len(profile.destinations)
        /\ \A k \in 1..Len(built') :
             built'[k] <=> /\ profile.destinations[k].target \in Targets
                           /\ Configured(profile.destinations[k])
    <3> DEFINE n == Len(profile.destinations)
               good(k) == /\ profile.destinations[k].target \in Targets
                          /\ Configured(profile.destinations[k])
    <3>1. n \in Nat /\ DOMAIN profile.destinations = 1..n
      BY <2>2
    <3>2. built' = [k \in 1..n |-> good(k)]
      BY <1>5, <3>1 DEF BuildDestinations
    <3>3. \A k : good(k) \in BOOLEAN
      BY DEF Configured
    <3> HIDE DEF n, good
    <3>4. built' \in Seq(BOOLEAN) /\ Len(built') = n
      BY <3>1, <3>2, <3>3, IsASeq
    <3>5. \A k \in 1..n : built'[k] <=> good(k)
      BY <3>2, Zenon
    <3> QED
      BY <3>4, <3>5 DEF n, good
  <2>5. doc \in 1..(documents + 1) /\ (doc = documents + 1 => dst = 1)
    BY <2>1 DEF Before, LoopTypes
  <2> QED
    BY <2>1, <2>3, <2>4, <2>5
       DEF deliveryVars, metadataVars, MetadataTypeOK, MetadataIsSet, LoopTypes, InLoop
<1>6. ASSUME NEW status \in {"submitted", "failed"}, Delivering, Report(status),
             pc' = "idle", UNCHANGED <<config, call, tagIDs, documentType, loopVars>>
      PROVE  Deliveries'
  <2>1. LoopTypes'
    BY <1>6, ReportTypes
  <2>2. MetadataTypeOK' /\ MetadataIsSet'
    BY <1>6 DEF MetadataTypeOK, MetadataIsSet, loopVars
  <2>3. InLoop'
    BY <1>6 DEF InLoop, Report, pipelineVars
  <2> QED
    BY <2>1, <2>2, <2>3
<1>7. CASE SkipUnbuilt
  BY <1>6, <1>7 DEF SkipUnbuilt, metadataVars, loopVars
<1>8. CASE Upload
  <2>1. \A u \in DOMAIN Uploads : Uploads[u].status \in {"submitted", "failed"}
    BY DEF Uploads
  <2> QED
    BY <1>6, <1>8, <2>1 DEF Upload
<1>9. CASE OpenDocument
  <2>1. CASE Report("failed") /\ UNCHANGED metadataVars
    BY <1>6, <1>9, <2>1 DEF OpenDocument, metadataVars, loopVars
  <2>2. CASE BeginMetadata(Block.block, request.tags) /\ UNCHANGED <<results, stored, doc, dst>>
    <3>1. Block.block \in Config /\ request.tags \in Call
      <4>1. Usable(profile) /\ dst \in 1..Len(profile.destinations) /\ request \in ScanRequest
        <5>1. at = "deliver" /\ dst <= Len(built)
          BY <1>9 DEF OpenDocument, Delivering
        <5>2. Usable(profile) /\ request \in ScanRequest
          BY <5>1 DEF Before, OnlyUsable
        <5>3. Len(built) = Len(profile.destinations)
          BY <5>1 DEF InLoop
        <5>4. dst \in 1..Len(built)
          BY <5>1 DEF LoopTypes
        <5> QED
          BY <5>2, <5>3, <5>4
      <4>2. Block \in DestinationSpec
        BY <4>1, ElementOfSeq DEF Block, Usable, ProfileSpec
      <4> QED
        BY <4>1, <4>2 DEF ScanRequest, DestinationSpec
    <3>2. UNCHANGED <<at, profile, documents, built, results, doc, dst>>
      BY <1>9, <2>2 DEF OpenDocument, pipelineVars
    <3>3. LoopTypes' /\ InLoop'
      BY <1>9, <3>2 DEF OpenDocument, LoopTypes, InLoop, Delivering
    <3> QED
      BY <2>2, <3>1, <3>3, BeginTypes
  <2> QED
    BY <1>9, <2>1, <2>2 DEF OpenDocument
<1>10. CASE ResolveMetadata
  <2>1. MetadataTypeOK' /\ MetadataIsSet' /\ pc # "idle"
    BY <1>10, MetadataTypes DEF ResolveMetadata
  <2>2. UNCHANGED <<at, profile, documents, built, results, doc, dst>>
    BY <1>10 DEF ResolveMetadata, pipelineVars, deliveryVars
  <2>3. LoopTypes' /\ InLoop'
    BY <2>1, <2>2 DEF LoopTypes, InLoop, Delivering
  <2> QED
    BY <2>1, <2>3
<1> QED
  BY <1>2, <1>3, <1>4, <1>5, <1>7, <1>8, <1>9, <1>10 DEF Next

(* The journey never leaves its types, and no profile that Parse refuses   *)
(* is ever scanned with (TypeOK).                                          *)
THEOREM TypeCorrect == Spec => []TypeOK
<1>1. Before /\ Deliveries => TypeOK
  <2> SUFFICES ASSUME Before, Deliveries PROVE TypeOK
    OBVIOUS
  <2>1. profile = None \/ (ProfileValid(profile) /\ profile.grouping # "")
    BY DEF Before, OnlyUsable, Usable
  <2>2. built # <<>> => dst \in DOMAIN built
    BY DEF Deliveries, LoopTypes
  <2>3. doc \in 1..(documents + 1) /\ dst \in 1..(Len(built) + 1) /\ MetadataTypeOK
    BY DEF Deliveries, LoopTypes
  <2> QED
    BY <2>1, <2>2, <2>3 DEF Before, PlainTypes, TypeOK
<1> QED
  BY BeforeInit, BeforeStep, DeliveriesInit, DeliveriesStep, <1>1, PTL DEF Spec

-----------------------------------------------------------------------------
(* What each answer means. *)

(* An answer is given once, by the step that ends the request, and nothing *)
(* it speaks of changes in that step or after it.                          *)
LEMMA Answers ==
  ASSUME Before, [Next]_vars, answer' # None
  PROVE  /\ UNCHANGED <<daemonVars, pipelineVars, deliveryVars>>
         /\ \/ UNCHANGED answer
            \/ RefuseRequest \/ DispatchRefused \/ ProcessRefused \/ Answer
<1>1. CASE UNCHANGED vars
  BY <1>1 DEF vars
<1>2. CASE RefuseRequest \/ DispatchRefused \/ ProcessRefused \/ Answer
  BY <1>2 DEF RefuseRequest, DispatchRefused, ProcessRefused, Answer, Finish
<1>3. CASE ParseProfile \/ ParseRefuses \/ ParseReturns
  BY <1>3 DEF ParseProfile, ParseRefuses, ParseReturns, ParseEnds, Before, InOrder
<1>4. CASE AcceptRequest \/ Dispatch \/ Process \/ BuildDestinations
  BY <1>4 DEF AcceptRequest, Dispatch, Process, BuildDestinations, Before, InOrder
<1>5. CASE SkipUnbuilt \/ OpenDocument \/ ResolveMetadata \/ Upload
  BY <1>5, DeliveryFrame DEF Before, InOrder
<1> QED
  BY <1>1, <1>2, <1>3, <1>4, <1>5 DEF Next

(* The numbers of a profile that was let through.                          *)
LEMMA UsableNumbers ==
  ASSUME NEW p, Usable(p)
  PROVE  /\ p.resolution \in Nat /\ 100 <= p.resolution
         /\ p.timeout \in Int /\ p.timeout >= 0
         /\ p.maxPages \in Int /\ p.maxPages >= 0
<1>1. p.resolution \in Int /\ p.timeout \in Int /\ p.maxPages \in Int
  BY DEF Usable, ProfileSpec
<1>2. p.resolution \in 100..1200 /\ p.timeout > 0 /\ p.maxPages >= 0
  BY Zenon DEF Usable, ProfileValid
<1> QED
  BY <1>1, <1>2

(* No step refuses but for a known reason.                                 *)
LEMMA RefusalsStep == Before /\ RefusalsAreKnown /\ [Next]_vars => RefusalsAreKnown'
<1> SUFFICES ASSUME Before, RefusalsAreKnown, [Next]_vars, answer' # None
             PROVE  RefusalsAreKnown'
  BY ReplyAssumption DEF RefusalsAreKnown, Reply
<1>1. CASE UNCHANGED answer
  BY <1>1, Answers DEF RefusalsAreKnown, pipelineVars
<1>2. CASE RefuseRequest \/ Answer
  <2>1. request.body \in {"good", "request_too_large", "invalid_body"}
    BY DEF Before, OnlyUsable, ScanRequest
  <2>2. answer' \notin {"dispatch_failed", "unsupported_output", "processing_failed"}
    BY <1>2, <2>1 DEF RefuseRequest, Answer, Finish
  <2> QED
    BY <2>2 DEF RefusalsAreKnown
<1>3. CASE DispatchRefused
  <2>1. Usable(profile) /\ ~SaneAccepts(profile)
    BY <1>3 DEF DispatchRefused, Before, OnlyUsable
  <2>2. /\ profile.source \in {"ADF Front", "ADF Duplex", "Flatbed"}
        /\ profile.mode \in {"Lineart", "Gray", "Color"}
    BY <2>1 DEF Usable, ProfileValid
  <2>3. profile.resolution \notin 75..600
    BY <2>1, <2>2, UsableNumbers DEF SaneAccepts
  <2>4. profile.resolution > 600
    BY <2>1, <2>3, UsableNumbers
  <2>5. answer' = "dispatch_failed" /\ profile' = profile
    BY <1>3 DEF DispatchRefused, Finish, pipelineVars
  <2> QED
    BY <2>4, <2>5 DEF RefusalsAreKnown
<1>4. CASE ProcessRefused
  <2>1. Usable(profile) /\ images \in Nat /\ images > 0
    BY <1>4, ScenariosAssumption DEF ProcessRefused, Before, OnlyUsable, InOrder
  <2>2. UNCHANGED <<profile, images>>
    BY <1>4 DEF ProcessRefused, Finish, pipelineVars
  <2>3. CASE ~ProcAccepts(profile) /\ Finish("unsupported_output")
    <3>1. ProfileValid(profile)
      BY <2>1 DEF Usable
    <3>2. profile.timeout >= 0
      BY <2>1, UsableNumbers
    <3>3. /\ WireGrouping(profile) \in {"combined", "per_page"}
          /\ WireFormat(profile) \in {"pdf", "jpeg", "tiff", "png"}
      BY DEF WireGrouping, WireFormat
    <3>4. profile.ocr /\ ~(ToSet(profile.languages) \subseteq Installed)
      BY <2>3, <3>1, <3>2, <3>3 DEF ProcAccepts, ProfileValid
    <3> QED
      BY <2>2, <2>3, <3>4 DEF Finish, RefusalsAreKnown
  <2>4. CASE 0 \in Survivors /\ Finish("processing_failed")
    <3>1. profile.removeBlank
      BY <2>1, <2>4 DEF Survivors
    <3> QED
      BY <2>2, <2>4, <3>1 DEF Finish, RefusalsAreKnown
  <2>5. CASE /\ OneImagePerFile(profile) /\ \E n \in Survivors : n > 1
             /\ Finish("unsupported_output")
    <3>1. profile.format \in {"jpeg", "png"} /\ profile.grouping = "combined"
      BY <2>1, <2>5 DEF Usable, ProfileValid, OneImagePerFile, WireGrouping, WireFormat
    <3>2. images > 1
      BY <2>1, <2>5 DEF Survivors
    <3> QED
      BY <2>2, <2>5, <3>1, <3>2 DEF Finish, RefusalsAreKnown
  <2> QED
    BY <1>4, <2>3, <2>4, <2>5 DEF ProcessRefused
<1> QED
  BY <1>1, <1>2, <1>3, <1>4, Answers

(* No profile that loads is refused later for anything but a resolution    *)
(* above 600 DPI, a missing language pack, several pages in one image or   *)
(* a batch of nothing but blank pages it has dropped (RefusalsAreKnown).   *)
THEOREM RefusalsHold == Spec => []RefusalsAreKnown
<1>1. Init => RefusalsAreKnown
  BY ReplyAssumption DEF Init, RefusalsAreKnown, Reply
<1> QED
  BY BeforeInit, BeforeStep, RefusalsStep, <1>1, PTL DEF Spec

-----------------------------------------------------------------------------
(* Every document at every destination. *)

(* n documents' worth of rows of m, and where an index falls in them.      *)
LEMMA RowsGrow ==
  ASSUME NEW m \in Nat, NEW a \in Nat, NEW b \in Nat, a < b
  PROVE  a * m + m <= b * m
<1>1. PICK c \in Nat : b = a + 1 + c
  <2>1. b - a - 1 \in Nat /\ b = a + 1 + (b - a - 1)
    OBVIOUS
  <2> QED
    BY <2>1
<1>2. b * m = a * m + m + c * m
  BY <1>1
<1>3. c * m \in Nat /\ a * m \in Nat
  OBVIOUS
<1> QED
  BY <1>2, <1>3

(* The row and the column of a place counted through, row by row.          *)
LEMMA RowAndColumn ==
  ASSUME NEW m \in Nat \ {0}, NEW row \in Nat, NEW col \in 0..(m - 1), NEW k,
         k = row * m + col
  PROVE  k \div m = row /\ k % m = col
<1>1. row * m \in Nat /\ k \in Nat
  OBVIOUS
<1>2. k = ((k \div m) * m) + (k % m) /\ k % m \in 0..(m - 1) /\ k \div m \in Nat
  BY <1>1
<1>3. PICK q \in Nat, r \in 0..(m - 1) :
        k \div m = q /\ k % m = r /\ q * m + r = row * m + col
  BY <1>2
<1>4. q * m \in Nat
  OBVIOUS
<1>5. ~(q < row)
  <2>1. q < row => q * m + m <= row * m
    BY RowsGrow
  <2> QED
    BY <1>1, <1>3, <1>4, <2>1
<1>6. ~(row < q)
  <2>1. row < q => row * m + m <= q * m
    BY RowsGrow
  <2> QED
    BY <1>1, <1>3, <1>4, <2>1
<1>7. q = row
  BY <1>5, <1>6
<1>8. r = col
  BY <1>1, <1>3, <1>7
<1> QED
  BY <1>3, <1>7, <1>8

(* The results so far are the rows before doc and this one's before dst,   *)
(* and no destination that could not be reached is among the submitted.    *)
RightlyFailed(k) ==
  LET d == profile.destinations[results[k].dst] IN
  ~(d.target \in Targets /\ Configured(d) /\ d.secret) => results[k].status = "failed"

InRows ==
  at = "deliver" =>
    /\ Len(built) = 0 => results = <<>>
    /\ Len(built) > 0 => Len(results) = (doc - 1) * Len(built) + (dst - 1)
    /\ \A k \in 1..Len(results) :
         /\ results[k].doc = ((k - 1) \div Len(built)) + 1
         /\ results[k].dst = ((k - 1) % Len(built)) + 1
         /\ RightlyFailed(k)

(* A report added at the place the loops have reached keeps the rows.      *)
LEMMA InRowsReport ==
  ASSUME Before, Deliveries, InRows, Delivering,
         NEW status \in {"submitted", "failed"}, Report(status),
         status = "submitted" => built[dst] /\ Block.secret
  PROVE  InRows'
<1> DEFINE n == Len(built)
           new == [doc |-> doc, dst |-> dst, status |-> status]
<1>1. n \in Nat \ {0} /\ dst \in 1..n /\ doc \in Nat \ {0} /\ at = "deliver"
  BY DEF Deliveries, LoopTypes, Delivering, Before, PlainTypes
<1>2. Len(results) = (doc - 1) * n + (dst - 1) /\ results \in Results
  BY <1>1 DEF InRows, Deliveries, LoopTypes
<1>3. /\ results' = Append(results, new)
      /\ UNCHANGED <<at, profile, built>>
      /\ dst' = IF dst < n THEN dst + 1 ELSE 1
      /\ doc' = IF dst < n THEN doc ELSE doc + 1
  BY DEF Report, pipelineVars
<1>4. /\ Len(results') = Len(results) + 1
      /\ \A k \in 1..Len(results) : results'[k] = results[k]
      /\ results'[Len(results) + 1] = new
  BY <1>1, <1>2, <1>3, AppendProperties DEF Results
<1>5. Len(results') = (doc' - 1) * n + (dst' - 1)
  <2>1. CASE dst < n
    BY <1>1, <1>2, <1>3, <1>4, <2>1
  <2>2. CASE dst = n
    <3>1. (doc - 1) * n + (n - 1) + 1 = doc * n
      BY <1>1
    <3>2. doc' - 1 = doc /\ dst' - 1 = 0
      BY <1>1, <1>3, <2>2
    <3>3. doc * n \in Nat
      BY <1>1
    <3> QED
      BY <1>2, <1>4, <2>2, <3>1, <3>2, <3>3
  <2> QED
    BY <1>1, <2>1, <2>2
<1>6. ASSUME NEW k \in 1..Len(results')
      PROVE  /\ results'[k].doc = ((k - 1) \div n) + 1
             /\ results'[k].dst = ((k - 1) % n) + 1
             /\ RightlyFailed(k)'
  <2>1. Len(results) \in Nat
    BY <1>2 DEF Results
  <2>2. CASE k \in 1..Len(results)
    <3>1. results'[k] = results[k]
      BY <1>4, <2>2
    <3>2. RightlyFailed(k)
      BY <1>1, <2>2 DEF InRows
    <3> QED
      BY <1>1, <1>3, <2>2, <3>1, <3>2 DEF InRows, RightlyFailed, Configured
  <2>3. CASE k = Len(results) + 1
    <3>1. results'[k] = new
      BY <1>4, <2>3
    <3>2. k - 1 = (doc - 1) * n + (dst - 1) /\ doc - 1 \in Nat /\ dst - 1 \in 0..(n - 1)
      BY <1>1, <1>2, <2>1, <2>3
    <3>3. (k - 1) \div n = doc - 1 /\ (k - 1) % n = dst - 1
      <4> DEFINE row == doc - 1
                 col == dst - 1
                 j == k - 1
      <4>1. n \in Nat \ {0} /\ row \in Nat /\ col \in 0..(n - 1) /\ j = row * n + col
        BY <1>1, <3>2
      <4> HIDE DEF n, row, col, j
      <4>2. j \div n = row /\ j % n = col
        BY <4>1, RowAndColumn
      <4> QED
        BY <4>2 DEF row, col, j
    <3>4. RightlyFailed(k)'
      <4>1. built[dst] => Block.target \in Targets /\ Configured(Block)
        BY <1>1 DEF Deliveries, InLoop, Block
      <4> QED
        BY <1>3, <3>1, <4>1 DEF RightlyFailed, Configured, Block
    <3> QED
      BY <1>1, <3>1, <3>3, <3>4
  <2> QED
    BY <1>4, <2>1, <2>2, <2>3
<1> QED
  BY <1>1, <1>3, <1>5, <1>6 DEF InRows

(* Every step keeps the report in the order of the two loops.              *)
LEMMA InRowsStep == Before /\ Deliveries /\ InRows /\ [Next]_vars => InRows'
<1> SUFFICES ASSUME Before, Deliveries, InRows, [Next]_vars, at' = "deliver" PROVE InRows'
  BY DEF InRows
<1>1. CASE UNCHANGED <<profile, built, doc, dst, results, at>>
  BY <1>1 DEF InRows, RightlyFailed, Configured
<1>2. CASE UNCHANGED vars \/ ResolveMetadata
  BY <1>1, <1>2 DEF vars, pipelineVars, deliveryVars, ResolveMetadata
<1>3. CASE BuildDestinations
  <2>1. results' = <<>> /\ doc' = 1 /\ dst' = 1
    BY <1>3 DEF BuildDestinations, Before, InOrder, deliveryVars
  <2>2. Len(built') \in Nat
    BY DeliveriesStep DEF Deliveries, LoopTypes
  <2> QED
    BY <2>1, <2>2 DEF InRows
<1>4. CASE SkipUnbuilt
  BY <1>4, InRowsReport DEF SkipUnbuilt
<1>5. CASE OpenDocument
  <2>1. CASE Report("failed")
    BY <1>5, <2>1, InRowsReport DEF OpenDocument
  <2>2. CASE UNCHANGED <<results, stored, doc, dst>>
    BY <1>1, <1>5, <2>2 DEF OpenDocument, pipelineVars
  <2> QED
    BY <1>5, <2>1, <2>2 DEF OpenDocument
<1>6. CASE Upload
  <2>1. \A u \in DOMAIN Uploads : Uploads[u].status \in {"submitted", "failed"}
    BY DEF Uploads
  <2>2. built[dst]
    BY <1>6 DEF Upload, Deliveries, InLoop
  <2> QED
    BY <1>6, <2>1, <2>2, InRowsReport DEF Upload
<1>7. CASE ParseProfile \/ ParseRefuses \/ ParseReturns \/ RefuseRequest \/ AcceptRequest
             \/ DispatchRefused \/ Dispatch \/ ProcessRefused \/ Process \/ Answer
  BY <1>7 DEF ParseProfile, ParseRefuses, ParseReturns, ParseEnds, RefuseRequest, AcceptRequest,
              DispatchRefused, Dispatch, ProcessRefused, Process, Answer, Finish
<1> QED
  BY <1>2, <1>3, <1>4, <1>5, <1>6, <1>7 DEF Next

(* No answer leaves a destination out.                                     *)
LEMMA AnsweredStep ==
  Before /\ Deliveries /\ InRows /\ EveryDestinationAnswered /\ [Next]_vars
    => EveryDestinationAnswered'
<1> SUFFICES ASSUME Before, Deliveries, InRows, EveryDestinationAnswered, [Next]_vars,
                    answer' = "ok"
             PROVE  EveryDestinationAnswered'
  BY DEF EveryDestinationAnswered
<1>1. UNCHANGED <<profile, documents, results>>
  BY ReplyAssumption, Answers DEF Reply, pipelineVars, deliveryVars
<1>2. CASE UNCHANGED answer
  BY <1>1, <1>2 DEF EveryDestinationAnswered, Configured
<1>3. CASE RefuseRequest \/ DispatchRefused \/ ProcessRefused
  <2>1. request.body \in {"good", "request_too_large", "invalid_body"}
    BY DEF Before, OnlyUsable, ScanRequest
  <2> QED
    BY <1>3, <2>1 DEF RefuseRequest, DispatchRefused, ProcessRefused, Finish
<1>4. CASE Answer
  <2> DEFINE n == Len(profile.destinations)
  <2>1. at = "deliver" /\ ~Delivering
    BY <1>4 DEF Answer
  <2>2. n = Len(built) /\ n \in Nat /\ documents \in Nat /\ Len(results) \in Nat
    BY <2>1 DEF Deliveries, LoopTypes, InLoop, Before, PlainTypes, Results
  <2>3. Len(results) = documents * n
    <3>1. CASE n = 0
      BY <2>1, <2>2, <3>1 DEF InRows
    <3>2. CASE n > 0
      <4>1. dst \in 1..n /\ doc \in 1..(documents + 1)
        BY <2>2, <3>2 DEF Deliveries, LoopTypes
      <4>2. doc = documents + 1 /\ dst = 1
        BY <2>1, <2>2, <4>1 DEF Delivering, Deliveries, LoopTypes
      <4>3. Len(results) = (doc - 1) * n + (dst - 1)
        BY <2>1, <2>2, <3>2 DEF InRows
      <4>4. doc - 1 = documents /\ dst - 1 = 0 /\ documents * n \in Nat
        BY <2>2, <4>2
      <4> QED
        BY <4>3, <4>4
    <3> QED
      BY <2>2, <3>1, <3>2
  <2>4. ASSUME NEW k \in DOMAIN results
        PROVE  /\ results[k].doc = ((k - 1) \div n) + 1
               /\ results[k].dst = ((k - 1) % n) + 1
               /\ RightlyFailed(k)
    <3>1. k \in 1..Len(results)
      BY DEF Deliveries, LoopTypes, Results
    <3> QED
      BY <2>1, <2>2, <3>1 DEF InRows
  <2> HIDE DEF n
  <2>5. n' = n /\ documents' = documents /\ results' = results
    BY <1>1 DEF n
  <2>6. Len(results') = documents' * n'
    BY <2>3, <2>5
  <2>7. ASSUME NEW k \in DOMAIN results'
        PROVE  /\ results'[k].doc = ((k - 1) \div n') + 1
               /\ results'[k].dst = ((k - 1) % n') + 1
               /\ RightlyFailed(k)'
    BY <1>1, <2>4, <2>5 DEF RightlyFailed, Configured
  <2> QED
    BY <2>6, <2>7 DEF EveryDestinationAnswered, RightlyFailed, n
<1> QED
  BY <1>2, <1>3, <1>4, ReplyAssumption, Answers DEF Reply

(* A 200 reports every document at every destination, once and in order,   *)
(* and none that could not be reached as submitted                         *)
(* (EveryDestinationAnswered).                                             *)
THEOREM AnsweredHolds == Spec => []EveryDestinationAnswered
<1>1. Init => InRows /\ EveryDestinationAnswered
  BY ReplyAssumption DEF Init, InRows, EveryDestinationAnswered, Reply
<1> QED
  BY BeforeInit, BeforeStep, DeliveriesInit, DeliveriesStep, InRowsStep, AnsweredStep, <1>1, PTL
     DEF Spec

-----------------------------------------------------------------------------
(* What a destination keeps. *)

(* o is what s has at the places K so far, and each place has its own rank.*)
Rank(K, k) == Cardinality({j \in K : j <= k})
IsPicked(s, K, o) ==
  /\ IsFiniteSet(K) /\ Len(o) = Cardinality(K)
  /\ \A k \in K : Rank(K, k) \in 1..Len(o) /\ o[Rank(K, k)] = s[k]
  /\ \A n \in 1..Len(o) : \E k \in K : Rank(K, k) = n

(* Nothing picked yet.                                                     *)
LEMMA PickedNone ==
  ASSUME NEW s
  PROVE  IsPicked(s, {}, <<>>)
  BY FS_EmptySet DEF IsPicked

(* One place more, behind all the others.                                  *)
LEMMA PickedOneMore ==
  ASSUME NEW s, NEW o \in Seq(TagIds), NEW m \in Nat, NEW K \in SUBSET (1..m),
         IsPicked(s, K, o), s[m + 1] \in TagIds
  PROVE  IsPicked(s, K \cup {m + 1}, Append(o, s[m + 1]))
<1> DEFINE L == K \cup {m + 1}
           p == Append(o, s[m + 1])
<1>1. IsFiniteSet(L) /\ Cardinality(L) = Cardinality(K) + 1 /\ Cardinality(K) \in Nat
  BY FS_AddElement, FS_CardinalityType DEF IsPicked
<1>2. /\ Len(p) = Len(o) + 1 /\ Len(o) = Cardinality(K)
      /\ \A n \in 1..Len(o) : p[n] = o[n]
      /\ p[Len(o) + 1] = s[m + 1]
  BY AppendProperties DEF IsPicked
<1>3. ASSUME NEW k \in K PROVE Rank(L, k) = Rank(K, k)
  <2>1. {j \in L : j <= k} = {j \in K : j <= k}
    OBVIOUS
  <2> QED
    BY <2>1 DEF Rank
<1>4. Rank(L, m + 1) = Cardinality(L)
  <2>1. \A j \in L : j <= m + 1
    OBVIOUS
  <2>2. {j \in L : j <= m + 1} = L
    BY <2>1
  <2> QED
    BY <2>2 DEF Rank
<1> HIDE DEF L, p
<1>5. ASSUME NEW k \in L PROVE Rank(L, k) \in 1..Len(p) /\ p[Rank(L, k)] = s[k]
  <2>1. CASE k \in K
    <3>1. Rank(K, k) \in 1..Len(o) /\ o[Rank(K, k)] = s[k]
      BY <2>1 DEF IsPicked
    <3> QED
      BY <1>1, <1>2, <1>3, <2>1, <3>1
  <2>2. CASE k = m + 1
    BY <1>1, <1>2, <1>4, <2>2
  <2> QED
    BY <2>1, <2>2 DEF L
<1>6. ASSUME NEW n \in 1..Len(p) PROVE \E k \in L : Rank(L, k) = n
  <2>1. CASE n \in 1..Len(o)
    <3>1. PICK k \in K : Rank(K, k) = n
      BY <2>1 DEF IsPicked
    <3> QED
      BY <1>3, <3>1 DEF L
  <2>2. CASE n = Len(p)
    BY <1>1, <1>2, <1>4, <2>2 DEF L
  <2>3. n \in 1..Len(o) \/ n = Len(p)
    BY <1>1, <1>2
  <2> QED
    BY <2>1, <2>2, <2>3
<1>7. IsPicked(s, L, p)
  BY <1>1, <1>2, <1>5, <1>6 DEF IsPicked
<1> QED
  BY <1>7 DEF L, p

(* All picked: what the description asks for.                              *)
LEMMA PickedAll ==
  ASSUME NEW s, NEW K, NEW o \in Seq(TagIds), IsPicked(s, K, o)
  PROVE  o = Picked(s, K)
<1> DEFINE nth(n) == CHOOSE k \in K : Cardinality({j \in K : j <= k}) = n
<1>1. Picked(s, K) = [n \in 1..Cardinality(K) |-> s[nth(n)]]
  BY DEF Picked
<1>2. ASSUME NEW n \in 1..Cardinality(K) PROVE o[n] = s[nth(n)]
  <2>1. \E k \in K : Cardinality({j \in K : j <= k}) = n
    BY DEF IsPicked, Rank
  <2>2. nth(n) \in K /\ Rank(K, nth(n)) = n
    BY <2>1 DEF Rank
  <2> HIDE DEF nth
  <2> QED
    BY <2>2 DEF IsPicked
<1>3. o = [n \in 1..Cardinality(K) |-> o[n]]
  BY LenProperties DEF IsPicked
<1> QED
  BY <1>1, <1>2, <1>3

(* The places before i that dedup, and those that remove, has kept.        *)
FirstBefore(s, n) == {k \in 1..(n - 1) : \A j \in 1..(k - 1) : s[j] # s[k]}
LeftBefore(s, T, n) == {k \in 1..(n - 1) : s[k] \notin T}

(* resolveMetadata so far: what it has merged, picked and, at the end, has *)
(* to return, is what the block and the caller it was given describe.      *)
SoFarDescribed ==
  /\ pc \in {"merge", "dedup", "remove", "done"} =>
       tagIDs = Defaults(config) /\ documentType = TypeOf(config)
  /\ pc \in {"dedup", "remove"} => call.tagIDs # <<>>
  /\ pc = "dedup" =>
       /\ Effective # "remove" /\ ids = DedupIDs(Effective)
       /\ seen = {ids[k] : k \in 1..(i - 1)}
       /\ IsPicked(ids, FirstBefore(ids, i), out)
  /\ pc = "remove" =>
       /\ Effective = "remove" /\ ids = tagIDs
       /\ seen = ToSet(call.tagIDs)
       /\ IsPicked(ids, LeftBefore(ids, seen, i), out)
  /\ pc = "done" => out = Described(config, call)

(* One element more for dedup.                                             *)
LEMMA DedupPicks ==
  ASSUME NEW s \in Seq(TagIds), NEW o \in Seq(TagIds), NEW n \in 1..Len(s),
         IsPicked(s, FirstBefore(s, n), o)
  PROVE  IsPicked(s, FirstBefore(s, n + 1),
                  IF s[n] \in {s[k] : k \in 1..(n - 1)} THEN o ELSE Append(o, s[n]))
<1> DEFINE K == FirstBefore(s, n)
<1>1. CASE s[n] \in {s[k] : k \in 1..(n - 1)}
  <2>1. FirstBefore(s, n + 1) = K
    BY <1>1 DEF FirstBefore
  <2> QED
    BY <1>1, <2>1
<1>2. CASE s[n] \notin {s[k] : k \in 1..(n - 1)}
  <2>1. FirstBefore(s, n + 1) = K \cup {(n - 1) + 1}
    BY <1>2 DEF FirstBefore
  <2>2. n - 1 \in Nat /\ K \in SUBSET (1..(n - 1)) /\ s[(n - 1) + 1] = s[n] /\ s[n] \in TagIds
    BY DEF FirstBefore
  <2> HIDE DEF K
  <2>3. IsPicked(s, K \cup {(n - 1) + 1}, Append(o, s[(n - 1) + 1]))
    BY <2>2, PickedOneMore DEF K
  <2> QED
    BY <1>2, <2>1, <2>2, <2>3
<1> QED
  BY <1>1, <1>2

(* One element more for remove.                                            *)
LEMMA RemovePicks ==
  ASSUME NEW s \in Seq(TagIds), NEW o \in Seq(TagIds), NEW n \in 1..Len(s), NEW T,
         IsPicked(s, LeftBefore(s, T, n), o)
  PROVE  IsPicked(s, LeftBefore(s, T, n + 1), IF s[n] \in T THEN o ELSE Append(o, s[n]))
<1> DEFINE K == LeftBefore(s, T, n)
<1>1. CASE s[n] \in T
  <2>1. LeftBefore(s, T, n + 1) = K
    BY <1>1 DEF LeftBefore
  <2> QED
    BY <1>1, <2>1
<1>2. CASE s[n] \notin T
  <2>1. LeftBefore(s, T, n + 1) = K \cup {(n - 1) + 1}
    BY <1>2 DEF LeftBefore
  <2>2. n - 1 \in Nat /\ K \in SUBSET (1..(n - 1)) /\ s[(n - 1) + 1] = s[n] /\ s[n] \in TagIds
    BY DEF LeftBefore
  <2> HIDE DEF K
  <2>3. IsPicked(s, K \cup {(n - 1) + 1}, Append(o, s[(n - 1) + 1]))
    BY <2>2, PickedOneMore DEF K
  <2> QED
    BY <1>2, <2>1, <2>2, <2>3
<1> QED
  BY <1>1, <1>2

(* At the end of a loop out is the whole list described.                   *)
LEMMA LoopEnds ==
  ASSUME MetadataTypeOK, MetadataIsSet, SoFarDescribed, Return
  PROVE  out = Described(config, call)
<1> DEFINE T == ToSet(call.tagIDs)
<1>1. call.tagIDs # <<>> /\ tagIDs = Defaults(config) /\ pc \in {"dedup", "remove"}
  BY DEF Return, SoFarDescribed
<1>2. ids \in Seq(TagIds) /\ out \in Seq(TagIds) /\ i = Len(ids) + 1 /\ 1..(i - 1) = DOMAIN ids
  BY DEF Return, MetadataTypeOK
<1>3. CASE pc = "dedup"
  <2>1. out = FirstOccurrences(ids)
    <3>1. IsPicked(ids, FirstBefore(ids, i), out)
      BY <1>3 DEF SoFarDescribed
    <3>2. FirstBefore(ids, i) = {k \in DOMAIN ids : \A j \in 1..(k - 1) : ids[j] # ids[k]}
      BY <1>2 DEF FirstBefore
    <3> QED
      BY <1>2, <3>1, <3>2, PickedAll DEF FirstOccurrences
  <2>2. Effective # "remove" /\ ids = DedupIDs(Effective)
    BY <1>3 DEF SoFarDescribed
  <2>3. CASE Effective = "override"
    <3>1. Described(config, call) = FirstOccurrences(call.tagIDs)
      BY <1>1, <2>3, Zenon DEF Described, Effective
    <3> QED
      BY <2>1, <2>2, <2>3, <3>1 DEF DedupIDs
  <2>4. CASE Effective # "override"
    <3>1. Described(config, call) = FirstOccurrences(Defaults(config) \o call.tagIDs)
      BY <1>1, <2>2, <2>4, Zenon DEF Described, Effective
    <3> QED
      BY <1>1, <2>1, <2>2, <2>4, <3>1 DEF DedupIDs
  <2> QED
    BY <2>3, <2>4
<1>4. CASE pc = "remove"
  <2>1. Effective = "remove" /\ ids = tagIDs /\ seen = T /\ IsPicked(ids, LeftBefore(ids, T, i), out)
    BY <1>4 DEF SoFarDescribed
  <2>2. LeftBefore(ids, T, i) = {k \in DOMAIN ids : ids[k] \notin T}
    BY <1>2 DEF LeftBefore
  <2>3. out = Without(ids, T)
    BY <1>2, <2>1, <2>2, PickedAll DEF Without
  <2>4. Described(config, call) = Without(Defaults(config), ToSet(call.tagIDs))
    BY <1>1, <2>1, Zenon DEF Described, Effective
  <2> QED
    BY <1>1, <2>1, <2>3, <2>4
<1> QED
  BY <1>1, <1>3, <1>4

(* Every step of resolveMetadata keeps to the description.                 *)
LEMMA DescribedStep ==
  ASSUME MetadataTypeOK, MetadataIsSet, SoFarDescribed, MetadataStep
  PROVE  SoFarDescribed'
<1>1. CASE Resolve
  BY <1>1 DEF Resolve, SoFarDescribed, Defaults, TypeOf, loopVars
<1>2. CASE MergeNothing
  <2>1. Described(config, call) = Defaults(config)
    BY <1>2, Zenon DEF MergeNothing, Described
  <2> QED
    BY <1>2, <2>1 DEF MergeNothing, SoFarDescribed
<1>3. CASE Merge
  <2>1. FirstBefore(ids', i') = {} /\ LeftBefore(ids', seen', i') = {} /\ out' = <<>>
    BY <1>3 DEF Merge, FirstBefore, LeftBefore
  <2>2. IsPicked(ids', {}, <<>>)
    BY PickedNone
  <2>3. {ids'[k] : k \in 1..(i' - 1)} = {}
    BY <1>3 DEF Merge
  <2>4. Effective' = Effective /\ DedupIDs(Effective)' = DedupIDs(Effective)
    BY <1>3 DEF Merge, Effective, DedupIDs
  <2> QED
    BY <1>3, <2>1, <2>2, <2>3, <2>4 DEF Merge, SoFarDescribed
<1>4. CASE Dedup
  <2>1. /\ pc = "dedup" /\ i \in 1..Len(ids) /\ ids \in Seq(TagIds) /\ out \in Seq(TagIds)
        /\ i' = i + 1 /\ seen' = seen \cup {ids[i]}
        /\ out' = IF ids[i] \in seen THEN out ELSE Append(out, ids[i])
        /\ UNCHANGED <<config, call, pc, tagIDs, documentType, ids>>
    BY <1>4 DEF Dedup, MetadataTypeOK
  <2>2. seen = {ids[k] : k \in 1..(i - 1)} /\ IsPicked(ids, FirstBefore(ids, i), out)
    BY <2>1 DEF SoFarDescribed
  <2>3. IsPicked(ids, FirstBefore(ids, i + 1), out')
    BY <2>1, <2>2, DedupPicks
  <2>4. seen' = {ids[k] : k \in 1..((i + 1) - 1)}
    BY <2>1, <2>2
  <2>5. Effective' = Effective /\ DedupIDs(Effective)' = DedupIDs(Effective)
    BY <2>1 DEF Effective, DedupIDs
  <2> QED
    BY <2>1, <2>3, <2>4, <2>5 DEF SoFarDescribed
<1>5. CASE RemoveTag
  <2>1. /\ pc = "remove" /\ i \in 1..Len(ids) /\ ids \in Seq(TagIds) /\ out \in Seq(TagIds)
        /\ i' = i + 1
        /\ out' = IF ids[i] \in seen THEN out ELSE Append(out, ids[i])
        /\ UNCHANGED <<config, call, pc, tagIDs, documentType, ids, seen>>
    BY <1>5 DEF RemoveTag, MetadataTypeOK
  <2>2. IsPicked(ids, LeftBefore(ids, seen, i), out)
    BY <2>1 DEF SoFarDescribed
  <2>3. IsPicked(ids, LeftBefore(ids, seen, i + 1), out')
    BY <2>1, <2>2, RemovePicks
  <2>4. Effective' = Effective
    BY <2>1 DEF Effective
  <2> QED
    BY <2>1, <2>3, <2>4 DEF SoFarDescribed
<1>6. CASE Return
  <2>1. out = Described(config, call) /\ UNCHANGED <<config, call, tagIDs, documentType, out>>
    BY <1>6, LoopEnds DEF Return, loopVars
  <2>2. tagIDs = Defaults(config) /\ documentType = TypeOf(config) /\ pc' = "done"
    BY <1>6 DEF Return, SoFarDescribed
  <2>3. Described(config, call)' = Described(config, call)
    BY <2>1
  <2> QED
    BY <2>1, <2>2, <2>3 DEF SoFarDescribed
<1> QED
  BY <1>1, <1>2, <1>3, <1>4, <1>5, <1>6 DEF MetadataStep

(* What is being resolved is for this destination and this caller, and     *)
(* what has been resolved is as they say.                                  *)
ForThisDelivery ==
  /\ pc # "idle" => config = Block.block /\ call = request.tags
  /\ SoFarDescribed

(* Every step keeps what Deliver works on that of this delivery.           *)
LEMMA ForThisDeliveryStep ==
  Before /\ Deliveries /\ ForThisDelivery /\ [Next]_vars => ForThisDelivery'
<1> SUFFICES ASSUME Before, Deliveries, ForThisDelivery, [Next]_vars PROVE ForThisDelivery'
  OBVIOUS
<1>1. CASE pc' = "idle"
  BY <1>1 DEF ForThisDelivery, SoFarDescribed
<1>2. CASE UNCHANGED <<profile, request, dst, metadataVars>>
  BY <1>2 DEF ForThisDelivery, SoFarDescribed, Block, metadataVars, Effective, DedupIDs
<1>3. CASE at' \in {"parse", "exited", "serving", "dispatch", "process", "build"}
  BY <1>1, <1>3, BeforeStep DEF Before, InOrder
<1>4. CASE UNCHANGED vars \/ RefuseRequest \/ DispatchRefused \/ ProcessRefused \/ Answer
  BY <1>2, <1>4 DEF vars, RefuseRequest, DispatchRefused, ProcessRefused, Answer, Finish,
                    daemonVars, pipelineVars, deliveryVars
<1>5. CASE ParseProfile \/ ParseRefuses \/ ParseReturns \/ AcceptRequest \/ Dispatch \/ Process
  BY <1>3, <1>5 DEF ParseProfile, ParseRefuses, ParseReturns, ParseEnds, AcceptRequest, Dispatch,
                    Process
<1>6. CASE BuildDestinations \/ SkipUnbuilt \/ Upload
  <2>1. BuildDestinations => pc = "idle" /\ UNCHANGED pc
    BY DEF BuildDestinations, metadataVars, Before, InOrder
  <2> QED
    BY <1>1, <1>6, <2>1 DEF SkipUnbuilt, Upload, metadataVars
<1>7. CASE OpenDocument
  <2>1. CASE BeginMetadata(Block.block, request.tags) /\ UNCHANGED <<results, stored, doc, dst>>
    <3>1. pc' = "resolve" /\ config' = Block.block /\ call' = request.tags
      BY <2>1 DEF BeginMetadata
    <3>2. UNCHANGED <<profile, request, dst>>
      BY <1>7, <2>1 DEF OpenDocument, daemonVars, pipelineVars
    <3> QED
      BY <3>1, <3>2 DEF ForThisDelivery, SoFarDescribed, Block
  <2>2. CASE Report("failed") /\ UNCHANGED <<stored, metadataVars>>
    BY <1>1, <1>7, <2>2 DEF OpenDocument, metadataVars
  <2> QED
    BY <1>7, <2>1, <2>2 DEF OpenDocument
<1>8. CASE ResolveMetadata
  <2>1. UNCHANGED <<profile, request, dst>> /\ MetadataStep
    BY <1>8 DEF ResolveMetadata, daemonVars, pipelineVars, deliveryVars
  <2>2. SoFarDescribed'
    BY <2>1, DescribedStep DEF ForThisDelivery, Deliveries
  <2>3. pc # "idle" /\ UNCHANGED <<config, call>>
    BY <2>1 DEF MetadataStep, Resolve, MergeNothing, Merge, Dedup, RemoveTag, Return
  <2> QED
    BY <2>1, <2>2, <2>3 DEF ForThisDelivery, Block
<1> QED
  BY <1>4, <1>5, <1>6, <1>7, <1>8 DEF Next

(* A delivery that keeps nothing, and is not reported submitted, leaves    *)
(* what was stored as asked.                                               *)
LEMMA NothingKept ==
  ASSUME Deliveries, StoredAsAsked, Report("failed"), UNCHANGED stored
  PROVE  StoredAsAsked'
<1>1. /\ UNCHANGED <<profile, request, stored>>
      /\ results' = Append(results, [doc |-> doc, dst |-> dst, status |-> "failed"])
  BY DEF Report, daemonVars, pipelineVars
<1>2. results \in Results
  BY DEF Deliveries, LoopTypes
<1>3. ASSUME NEW k \in DOMAIN results', results'[k].status = "submitted"
      PROVE  k \in DOMAIN results /\ results'[k] = results[k]
  BY <1>1, <1>2, <1>3, AppendProperties DEF Results
<1> QED
  BY <1>1, <1>3 DEF StoredAsAsked

(* Nothing is stored that was not asked for so.                            *)
LEMMA StoredStep ==
  Before /\ Deliveries /\ ForThisDelivery /\ StoredAsAsked /\ [Next]_vars => StoredAsAsked'
<1> SUFFICES ASSUME Before, Deliveries, ForThisDelivery, StoredAsAsked, [Next]_vars
             PROVE  StoredAsAsked'
  OBVIOUS
<1>1. CASE UNCHANGED <<profile, request, stored, results>>
  BY <1>1 DEF StoredAsAsked
<1>2. CASE at' \in {"parse", "exited", "serving", "dispatch", "process", "build"}
  BY <1>2, BeforeStep DEF Before, InOrder, StoredAsAsked
<1>3. CASE UNCHANGED vars \/ RefuseRequest \/ DispatchRefused \/ ProcessRefused \/ Answer
             \/ ResolveMetadata
  BY <1>1, <1>3 DEF vars, RefuseRequest, DispatchRefused, ProcessRefused, Answer, Finish,
                    ResolveMetadata, daemonVars, pipelineVars, deliveryVars
<1>4. CASE ParseProfile \/ ParseRefuses \/ ParseReturns \/ AcceptRequest \/ Dispatch \/ Process
  BY <1>2, <1>4 DEF ParseProfile, ParseRefuses, ParseReturns, ParseEnds, AcceptRequest, Dispatch,
                    Process
<1>5. CASE BuildDestinations
  BY <1>5 DEF BuildDestinations, deliveryVars, Before, InOrder, StoredAsAsked
<1>6. CASE SkipUnbuilt
  BY <1>6, NothingKept DEF SkipUnbuilt
<1>7. CASE OpenDocument
  <2>1. CASE BeginMetadata(Block.block, request.tags) /\ UNCHANGED <<results, stored, doc, dst>>
    BY <1>1, <1>7, <2>1 DEF OpenDocument, daemonVars, pipelineVars
  <2> QED
    BY <1>7, <2>1, NothingKept DEF OpenDocument
<1>8. CASE Upload
  <2>1. CASE ~Block.secret /\ Report("failed") /\ UNCHANGED stored
    BY <2>1, NothingKept
  <2>2. ASSUME NEW u \in DOMAIN Uploads, Report(Uploads[u].status), NEW kept \in Uploads[u].stored,
               stored' = IF kept THEN stored \cup {Document} ELSE stored
        PROVE  StoredAsAsked'
    <3>1. /\ UNCHANGED <<profile, request>>
          /\ results' = Append(results, [doc |-> doc, dst |-> dst, status |-> Uploads[u].status])
      BY <2>2 DEF Report, daemonVars, pipelineVars
    <3>2. Uploads[u].status = "submitted" => kept = TRUE
      <4>1. Uploads[u].status = "submitted" => u = "task_id"
        BY DEF Uploads
      <4>2. Uploads["task_id"].stored = {TRUE}
        BY DEF Uploads
      <4> HIDE DEF Uploads
      <4> QED
        BY <4>1, <4>2, Zenon
    <3>3. /\ Document.doc = doc /\ Document.dst = dst
          /\ Document.tags = Described(profile.destinations[dst].block, request.tags)
          /\ Document.type = TypeOf(profile.destinations[dst].block)
      <4>1. pc = "done" /\ config = profile.destinations[dst].block /\ call = request.tags
        BY <1>8 DEF Upload, ForThisDelivery, Block
      <4>2. out = Described(config, call) /\ documentType = TypeOf(config)
        BY <4>1 DEF ForThisDelivery, SoFarDescribed
      <4> QED
        BY <4>1, <4>2 DEF Document
    <3>4. ASSUME NEW k \in DOMAIN results', results'[k].status = "submitted"
          PROVE  \E s \in stored' : s.doc = results'[k].doc /\ s.dst = results'[k].dst
      <4>1. results \in Results
        BY DEF Deliveries, LoopTypes
      <4>2. CASE k \in DOMAIN results
        <5>1. results'[k] = results[k]
          BY <3>1, <4>1, <4>2, AppendProperties DEF Results
        <5>2. stored \subseteq stored'
          BY <2>2
        <5> QED
          BY <3>4, <4>2, <5>1, <5>2 DEF StoredAsAsked
      <4>3. CASE k \notin DOMAIN results
        <5>1. results'[k] = [doc |-> doc, dst |-> dst, status |-> Uploads[u].status]
          BY <3>1, <4>1, <4>3, AppendProperties DEF Results
        <5>2. Document \in stored'
          BY <2>2, <3>2, <3>4, <5>1
        <5> QED
          BY <3>3, <5>1, <5>2
      <4> QED
        BY <4>2, <4>3
    <3>5. ASSUME NEW s \in stored'
          PROVE  /\ s.tags = Described(profile.destinations[s.dst].block, request.tags)
                 /\ s.type = TypeOf(profile.destinations[s.dst].block)
      <4>1. CASE s \in stored
        BY <4>1 DEF StoredAsAsked
      <4>2. CASE s = Document
        BY <3>3, <4>2
      <4> QED
        BY <2>2, <4>1, <4>2
    <3> QED
      BY <3>1, <3>4, <3>5 DEF StoredAsAsked
  <2> QED
    BY <1>8, <2>1, <2>2 DEF Upload
<1> QED
  BY <1>3, <1>4, <1>5, <1>6, <1>7, <1>8 DEF Next

(* Whatever tags a block and a caller name and however often, a kept       *)
(* document carries the labels described for its own destination, and one  *)
(* reported submitted is kept (StoredAsAsked).                             *)
THEOREM StoredHolds == Spec => []StoredAsAsked
<1>1. Init => ForThisDelivery /\ StoredAsAsked
  BY DEF Init, MetadataInit, ForThisDelivery, SoFarDescribed, StoredAsAsked
<1> QED
  BY BeforeInit, BeforeStep, DeliveriesInit, DeliveriesStep, ForThisDeliveryStep, StoredStep, <1>1,
     PTL DEF Spec
=============================================================================
