--------------------------- MODULE ProfileJourney ---------------------------
(***************************************************************************)
(* What becomes of a profile: Parse accepts it when the daemon starts, one *)
(* POST /scan names it, sane-runtime and scan-processor each check again   *)
(* what they are sent against lists of their own, its destinations are     *)
(* built after the paper has been fed, and each document goes to each of   *)
(* them with metadata that DeliveryMetadata works out.                     *)
(*                                                                         *)
(* Here neither the scanner nor a tool fails and no deadline passes before *)
(* the deliveries: ScanPipeline and ProcPipeline are about that.           *)
(***************************************************************************)
EXTENDS DeliveryMetadata, Integers

CONSTANTS
  Scenarios,   \* pairs of a profiles.yaml and a POST /scan
  Targets,     \* names under which a destination is registered
  Installed,   \* language packs scan-processor has
  Text,        \* strings
  MaxImages    \* bound on the page images of a batch

(* What the fields of a profiles.yaml and of a request can hold once they  *)
(* are decoded: the rest is for Parse and the handler to refuse.           *)
DestinationSpec ==
  [target : Text, url : {"absolute", "relative", "missing"},
   token : {"default", "named", "malformed"}, secret : BOOLEAN, block : Config]
ProfileSpec ==
  [name : Text, source : Text, resolution : Int, mode : Text, format : Text,
   maxPages : Int, pageSize : Text, timeout : Int, grouping : Text,
   removeBlank : BOOLEAN, ocr : BOOLEAN, languages : Seq(Text), minConfidence : Int,
   destinations : Seq(DestinationSpec)]
ScanRequest ==
  [body : {"good", "request_too_large", "invalid_body"}, profile : Text, tags : Call]

ASSUME ScenariosAssumption ==
  /\ Scenarios \subseteq [file : Seq(ProfileSpec), request : ScanRequest]
  /\ {"combined", "deu", "eng"} \subseteq Text
  /\ MaxImages \in Nat

(* The error codes, "ok" for a 200.                                        *)
Reply == {"request_too_large", "invalid_body", "profile_not_found", "internal",
          "dispatch_failed", "unsupported_output", "processing_failed", "ok"}
ASSUME ReplyAssumption == None \notin Reply

VARIABLES
  file, request,       \* the profiles.yaml, a sequence, and the one request
  parsed, set,         \* Parse: profiles read so far, byName
  at,                  \* how far the daemon, then the handler, is
  profile,             \* handleScan's copy of the profile
  images, documents,   \* page images scanned, documents assembled
  built,               \* per destination: did Build succeed
  doc, dst,            \* the delivery loops
  results, stored,     \* what is reported, what Paperless keeps
  answer

daemonVars   == <<file, request, parsed, set>>
pipelineVars == <<profile, images, documents, built>>
deliveryVars == <<doc, dst, results, stored>>
vars == <<daemonVars, at, pipelineVars, deliveryVars, answer, metadataVars>>

Defaulted(p) ==
  [p EXCEPT !.grouping  = IF @ = "" THEN "combined" ELSE @,
            !.languages = IF p.ocr /\ @ = <<>> THEN <<"deu", "eng">> ELSE @,
            !.minConfidence = IF p.ocr /\ @ = 0 THEN 80 ELSE @]

LanguagesValid(p) ==
  /\ "" \notin ToSet(p.languages)
  /\ "auto" \in ToSet(p.languages) => Len(p.languages) = 1

ProfileValid(p) ==
  /\ p.name # ""
  /\ p.source \in {"ADF Front", "ADF Duplex", "Flatbed"}
  /\ p.resolution \in 100..1200
  /\ p.mode \in {"Color", "Gray", "Lineart"}
  /\ p.format \in {"pdf", "jpeg", "tiff", "png"}
  /\ p.maxPages >= 0
  /\ p.pageSize \in {"A4", "Letter", "A5", "auto"}
  /\ p.timeout > 0
  /\ p.grouping \in {"", "combined", "per_page"}
  /\ p.ocr => LanguagesValid(p) /\ p.minConfidence \in 0..100
  /\ \A k \in DOMAIN p.destinations : p.destinations[k].target # ""

SaneAccepts(p) ==
  /\ p.source \in {"ADF Front", "ADF Duplex", "Flatbed"}
  /\ p.resolution \in 75..600
  /\ p.mode \in {"Lineart", "Gray", "Color"}
  /\ p.maxPages >= 0 /\ p.timeout >= 0

WireGrouping(p) == IF p.grouping = "per_page" THEN "per_page" ELSE "combined"
WireFormat(p)   == IF p.format \in {"jpeg", "tiff", "png"} THEN p.format ELSE "pdf"

(* Mutant: the processor's list of formats was not brought up to date.     *)
ProcAcceptsNoPNG(p) ==
  /\ WireGrouping(p) \in {"combined", "per_page"}
  /\ WireFormat(p) \in {"pdf", "jpeg", "tiff"}
  /\ p.timeout >= 0
  /\ p.ocr => /\ p.minConfidence \in 0..100
              /\ p.languages = <<"auto">> \/ ToSet(p.languages) \subseteq Installed

(* A list that mixes "auto" with languages fails the last conjunct as      *)
(* well: no pack has that name.                                            *)
ProcAccepts(p) ==
  /\ WireGrouping(p) \in {"combined", "per_page"}
  /\ WireFormat(p) \in {"pdf", "jpeg", "tiff", "png"}
  /\ p.timeout >= 0
  /\ p.ocr => /\ p.minConfidence \in 0..100
              /\ p.languages = <<"auto">> \/ ToSet(p.languages) \subseteq Installed

OneImagePerFile(p) == WireFormat(p) \in {"jpeg", "png"} /\ WireGrouping(p) = "combined"

Init ==
  /\ \E s \in Scenarios : file = s.file /\ request = s.request
  /\ parsed = 0 /\ set = <<>> /\ at = "parse"
  /\ profile = None /\ images = 0 /\ documents = 0 /\ built = <<>>
  /\ doc = 1 /\ dst = 1 /\ results = <<>> /\ stored = {} /\ answer = None
  /\ MetadataInit

-----------------------------------------------------------------------------
(* The daemon starts. *)

ParseEnds(where) ==
  /\ at = "parse"
  /\ at' = where
  /\ UNCHANGED <<daemonVars, pipelineVars, deliveryVars, answer, metadataVars>>

ProfileRead == Defaulted(file[parsed + 1])

Acceptable == ProfileValid(ProfileRead) /\ ProfileRead.name \notin DOMAIN set

ParseProfile ==
  /\ at = "parse" /\ parsed < Len(file) /\ Acceptable
  /\ parsed' = parsed + 1
  /\ set' = [n \in DOMAIN set \cup {ProfileRead.name} |->
               IF n = ProfileRead.name THEN ProfileRead ELSE set[n]]
  /\ UNCHANGED <<file, request, at, pipelineVars, deliveryVars, answer, metadataVars>>

(* Any profile that will not do, or none at all, and the daemon is off.    *)
ParseRefuses ==
  /\ file = <<>> \/ (parsed < Len(file) /\ ~Acceptable)
  /\ ParseEnds("exited")

ParseReturns == file # <<>> /\ parsed = Len(file) /\ ParseEnds("serving")

-----------------------------------------------------------------------------
(* handleScan. *)

Finish(error) ==
  /\ at' = "answered" /\ answer' = error
  /\ UNCHANGED <<daemonVars, pipelineVars, deliveryVars, metadataVars>>

(* 413, 400, 404; 500 when there is no randomness for an identifier.       *)
RefuseRequest ==
  /\ at = "serving"
  /\ \/ /\ request.body # "good"
        /\ Finish(request.body)
     \/ /\ request.body = "good" /\ request.profile \notin DOMAIN set
        /\ Finish("profile_not_found")
     \/ /\ request.body = "good" /\ request.profile \in DOMAIN set
        /\ Finish("internal")

AcceptRequest ==
  /\ at = "serving" /\ request.body = "good" /\ request.profile \in DOMAIN set
  /\ at' = "dispatch" /\ profile' = set[request.profile]
  /\ UNCHANGED <<daemonVars, images, documents, built, deliveryVars, answer, metadataVars>>

(* sane-runtime checks, then scanimage feeds what there is: one image for  *)
(* a sheet, two in duplex.                                                 *)
DispatchRefused == at = "dispatch" /\ ~SaneAccepts(profile) /\ Finish("dispatch_failed")

Dispatch ==
  /\ at = "dispatch" /\ SaneAccepts(profile)
  /\ at' = "process"
  /\ \E n \in 1..MaxImages :
       /\ profile.maxPages > 0 => n <= profile.maxPages
       /\ images' = n
  /\ UNCHANGED <<daemonVars, profile, documents, built, deliveryVars, answer, metadataVars>>

(* How many pages are left when the blank ones are dropped: any number,    *)
(* for which of them are blank is the paper's business.                    *)
Survivors == IF profile.removeBlank THEN 0..images ELSE {images}

(* scan-processor checks, drops blank pages, then assembles: several pages *)
(* do not go into one image, which it finds out last.                      *)
ProcessRefused ==
  /\ at = "process"
  /\ \/ /\ ~ProcAccepts(profile)
        /\ Finish("unsupported_output")
     \/ /\ ProcAccepts(profile) /\ 0 \in Survivors
        /\ Finish("processing_failed")
     \/ /\ ProcAccepts(profile) /\ OneImagePerFile(profile) /\ \E n \in Survivors : n > 1
        /\ Finish("unsupported_output")

Process ==
  /\ at = "process" /\ ProcAccepts(profile)
  /\ at' = "build"
  /\ \E n \in Survivors :
       /\ n > 0 /\ (OneImagePerFile(profile) => n = 1)
       /\ documents' = IF WireGrouping(profile) = "per_page" THEN n ELSE 1
  /\ UNCHANGED <<daemonVars, profile, images, built, deliveryVars, answer, metadataVars>>

(* decodeConfig: base_url is needed; token_secret may be left out.         *)
Configured(d) == d.url = "absolute" /\ d.token \in {"default", "named"}

(* An unknown target or a configuration that does not decode is remembered *)
(* and reported for each document, not returned.                           *)
BuildDestinations ==
  /\ at = "build"
  /\ at' = "deliver"
  /\ built' = [k \in DOMAIN profile.destinations |->
                 /\ profile.destinations[k].target \in Targets
                 /\ Configured(profile.destinations[k])]
  /\ UNCHANGED <<daemonVars, profile, images, documents, deliveryVars, answer, metadataVars>>

-----------------------------------------------------------------------------
(* deliverDocument, for each document in turn. *)

Delivering == at = "deliver" /\ doc <= documents /\ dst <= Len(built)
Block == profile.destinations[dst]

(* Mutant: one destination too many.                                       *)
ReportPastEnd(status) ==
  /\ results' = Append(results, [doc |-> doc, dst |-> dst, status |-> status])
  /\ dst' = IF dst <= Len(built) THEN dst + 1 ELSE 1
  /\ doc' = IF dst <= Len(built) THEN doc ELSE doc + 1
  /\ UNCHANGED <<daemonVars, at, pipelineVars, answer>>

(* The result of one document at one destination, and on to the next.      *)
Report(status) ==
  /\ results' = Append(results, [doc |-> doc, dst |-> dst, status |-> status])
  /\ dst' = IF dst < Len(built) THEN dst + 1 ELSE 1
  /\ doc' = IF dst < Len(built) THEN doc ELSE doc + 1
  /\ UNCHANGED <<daemonVars, at, pipelineVars, answer>>

(* Mutant: the first destination that was not built ends the loop.         *)
SkipUnbuiltAndRest ==
  /\ Delivering /\ pc = "idle" /\ ~built[dst]
  /\ results' = Append(results, [doc |-> doc, dst |-> dst, status |-> "failed"])
  /\ dst' = 1 /\ doc' = doc + 1
  /\ UNCHANGED <<daemonVars, at, pipelineVars, stored, answer, metadataVars>>

SkipUnbuilt ==
  /\ Delivering /\ pc = "idle" /\ ~built[dst]
  /\ Report("failed")
  /\ UNCHANGED <<stored, metadataVars>>

(* The assembled file is opened anew for every destination.                *)
OpenDocument ==
  /\ Delivering /\ pc = "idle" /\ built[dst]
  /\ \/ BeginMetadata(Block.block, request.tags) /\ UNCHANGED <<results, stored, doc, dst>>
     \/ Report("failed") /\ UNCHANGED <<stored, metadataVars>>
  /\ UNCHANGED <<daemonVars, at, pipelineVars, answer>>

ResolveMetadata ==
  /\ Delivering /\ MetadataStep
  /\ UNCHANGED <<daemonVars, at, pipelineVars, deliveryVars, answer>>

(* What Paperless, or what stands between, makes of an upload: whether the *)
(* document is stored, and what the bridge concludes.  A task_id counts,   *)
(* bare or in an object.                                                   *)
Uploads ==
  [task_id     |-> [stored |-> {TRUE},         status |-> "submitted"],
   no_task_id  |-> [stored |-> {TRUE, FALSE},  status |-> "failed"],
   rejected    |-> [stored |-> {FALSE},        status |-> "failed"],
   server_error |-> [stored |-> {TRUE, FALSE}, status |-> "failed"],
   unreachable |-> [stored |-> {TRUE, FALSE},  status |-> "failed"],
   timed_out   |-> [stored |-> {TRUE, FALSE},  status |-> "failed"]]

Document == [doc |-> doc, dst |-> dst, tags |-> out, type |-> documentType]

(* No upload without the token.                                            *)
Upload ==
  /\ Delivering /\ pc = "done"
  /\ \/ /\ ~Block.secret /\ Report("failed") /\ UNCHANGED stored
     \/ /\ Block.secret
        /\ \E u \in DOMAIN Uploads :
             /\ Report(Uploads[u].status)
             /\ \E kept \in Uploads[u].stored :
                  stored' = IF kept THEN stored \cup {Document} ELSE stored
  /\ pc' = "idle"
  /\ UNCHANGED <<config, call, tagIDs, documentType, loopVars>>

Answer ==
  /\ at = "deliver" /\ ~Delivering
  /\ Finish("ok")

Next ==
  \/ ParseProfile \/ ParseRefuses \/ ParseReturns
  \/ RefuseRequest \/ AcceptRequest
  \/ DispatchRefused \/ Dispatch \/ ProcessRefused \/ Process
  \/ BuildDestinations \/ SkipUnbuilt \/ OpenDocument \/ ResolveMetadata \/ Upload
  \/ Answer

Spec == Init /\ [][Next]_vars

-----------------------------------------------------------------------------
TypeOK ==
  /\ MetadataTypeOK
  /\ parsed \in 0..Len(file)
  /\ at \in {"parse", "exited", "serving", "dispatch", "process", "build", "deliver", "answered"}
  /\ profile = None \/ (ProfileValid(profile) /\ profile.grouping # "")
  /\ images \in 0..MaxImages /\ documents \in 0..images
  /\ doc \in 1..(documents + 1) /\ dst \in 1..(Len(built) + 1)
  /\ built # <<>> => dst \in DOMAIN built
  /\ answer \in Reply \cup {None}

(* The allow-lists of the three programs agree but for what is listed      *)
(* here: a profile that loads is refused by sane-runtime only above 600    *)
(* DPI, and by scan-processor, when the paper is through, only for a       *)
(* language pack it has not, for several pages in one image, or because    *)
(* the profile has blank pages dropped and nothing was left.               *)
RefusalsAreKnown ==
  /\ answer = "dispatch_failed" => profile.resolution > 600
  /\ answer = "unsupported_output" =>
       \/ profile.ocr /\ ~(ToSet(profile.languages) \subseteq Installed)
       \/ profile.format \in {"jpeg", "png"} /\ profile.grouping = "combined" /\ images > 1
  /\ answer = "processing_failed" => profile.removeBlank

(* A 200 reports each document at each destination, once and in order: a   *)
(* destination that cannot be built, has no token or refuses costs the     *)
(* others nothing, and is not taken for one that got the document.         *)
EveryDestinationAnswered ==
  answer = "ok" =>
    LET n == Len(profile.destinations) IN
    /\ Len(results) = documents * n
    /\ \A k \in DOMAIN results :
         /\ results[k].doc = ((k - 1) \div n) + 1 /\ results[k].dst = ((k - 1) % n) + 1
         /\ LET d == profile.destinations[results[k].dst] IN
            ~(d.target \in Targets /\ Configured(d) /\ d.secret) => results[k].status = "failed"

TypeOf(block) == IF block.mapping = None \/ block.mapping.typeID = None
                 THEN block.typeID ELSE block.mapping.typeID

(* What a destination keeps, reported or not, is labelled as its own block *)
(* and the caller say -- never with another destination's labels or with   *)
(* those of the document before -- and what is reported submitted is kept. *)
StoredAsAsked ==
  /\ \A s \in stored :
       LET block == profile.destinations[s.dst].block IN
       s.tags = Described(block, request.tags) /\ s.type = TypeOf(block)
  /\ \A k \in DOMAIN results : results[k].status = "submitted" =>
       \E s \in stored : s.doc = results[k].doc /\ s.dst = results[k].dst
=============================================================================
