-------------------------- MODULE DeliveryMetadata --------------------------
(***************************************************************************)
(* What scan-bridge tells a destination about a document: the destination  *)
(* block's tags and document type, the entry its document_type_map has for *)
(* the profile's document_type, and the caller's tags (scan_metadata.go,   *)
(* resolveMetadata), merged by one of three strategies (tag/merge.go).     *)
(*                                                                         *)
(* dedup and remove are the loops they are in the code, one action per     *)
(* element, over sequences that may repeat themselves.  ProfileJourney     *)
(* runs them once for each document and destination.                       *)
(***************************************************************************)
EXTENDS Naturals, SequencesExt

CONSTANTS
  TagIds,          \* Paperless tag IDs
  TypeIds,         \* Paperless document types
  ConfiguredTags,  \* the tag lists configurations name
  CallerTags,      \* the tag lists callers send
  None

ASSUME TagsAssumption ==
  ConfiguredTags \subseteq Seq(TagIds) /\ CallerTags \subseteq Seq(TagIds)

VARIABLES
  config,      \* the destination block, None before the first delivery
  call,        \* the caller's tag_ids and tag_strategy
  pc,
  tagIDs,      \* configured, then with the mapped ones
  documentType,
  ids, i, seen, out   \* the loops' locals

loopVars == <<ids, i, seen, out>>
metadataVars == <<config, call, pc, tagIDs, documentType, ids, i, seen, out>>

Strategy == {"add", "override", "remove", "", "unheard_of"}

(* The entry document_type_map has for the profile's document_type, or     *)
(* None: no document_type, no map, or a miss.                              *)
Mapping == [typeID : TypeIds \cup {None}, tagIDs : ConfiguredTags]
Config  == [tagIDs : ConfiguredTags, strategy : Strategy,
            typeID : TypeIds \cup {None}, mapping : Mapping \cup {None}]
Call    == [tagIDs : CallerTags, strategy : Strategy]

MetadataTypeOK ==
  /\ config \in Config \cup {None} /\ call \in Call \cup {None}
  /\ pc \in {"idle", "resolve", "merge", "dedup", "remove", "done"}
  /\ tagIDs \in Seq(TagIds) /\ documentType \in TypeIds \cup {None}
  /\ ids \in Seq(TagIds) /\ i \in 1..(Len(ids) + 1)
  /\ seen \subseteq TagIds /\ out \in Seq(TagIds)

MetadataInit ==
  /\ config = None /\ call = None
  /\ pc = "idle" /\ tagIDs = <<>> /\ documentType = None
  /\ ids = <<>> /\ i = 1 /\ seen = {} /\ out = <<>>

-----------------------------------------------------------------------------
(* Mutant: what was found for the first destination serves them all.       *)
BeginMetadataOnce(block, tags) ==
  /\ pc = "idle"
  /\ config' = block /\ call' = tags
  /\ pc' = IF config = None THEN "resolve" ELSE "done"
  /\ UNCHANGED <<tagIDs, documentType, loopVars>>

(* resolveMetadata is called for one document and one destination.         *)
BeginMetadata(block, tags) ==
  /\ pc = "idle"
  /\ pc' = "resolve" /\ config' = block /\ call' = tags
  /\ tagIDs' = <<>> /\ documentType' = None
  /\ ids' = <<>> /\ i' = 1 /\ seen' = {} /\ out' = <<>>

(* A map entry's type overrides, its tags are added.                       *)
Resolve ==
  /\ pc = "resolve"
  /\ pc' = "merge"
  /\ tagIDs' = IF config.mapping = None THEN config.tagIDs
                                        ELSE config.tagIDs \o config.mapping.tagIDs
  /\ documentType' = IF config.mapping = None \/ config.mapping.typeID = None
                     THEN config.typeID ELSE config.mapping.typeID
  /\ UNCHANGED <<config, call, loopVars>>

Effective == IF call.strategy # "" THEN call.strategy ELSE config.strategy

(* No tags from the caller: the configured list as it is.                  *)
MergeNothing ==
  /\ pc = "merge" /\ call.tagIDs = <<>>
  /\ pc' = "done" /\ out' = tagIDs
  /\ UNCHANGED <<config, call, tagIDs, documentType, ids, i, seen>>

(* What dedup is given: anything but override and remove adds.             *)
DedupIDs(strategy) == IF strategy = "override" THEN call.tagIDs ELSE tagIDs \o call.tagIDs

Merge ==
  /\ pc = "merge" /\ call.tagIDs # <<>>
  /\ \/ /\ Effective # "remove"
        /\ pc' = "dedup" /\ ids' = DedupIDs(Effective) /\ seen' = {}
     \/ /\ Effective = "remove"
        /\ pc' = "remove" /\ ids' = tagIDs /\ seen' = ToSet(call.tagIDs)
  /\ i' = 1 /\ out' = <<>>
  /\ UNCHANGED <<config, call, tagIDs, documentType>>

Dedup ==
  /\ pc = "dedup" /\ i <= Len(ids)
  /\ i' = i + 1 /\ seen' = seen \cup {ids[i]}
  /\ out' = IF ids[i] \in seen THEN out ELSE Append(out, ids[i])
  /\ UNCHANGED <<config, call, pc, tagIDs, documentType, ids>>

RemoveTag ==
  /\ pc = "remove" /\ i <= Len(ids)
  /\ i' = i + 1
  /\ out' = IF ids[i] \in seen THEN out ELSE Append(out, ids[i])
  /\ UNCHANGED <<config, call, pc, tagIDs, documentType, ids, seen>>

Return ==
  /\ pc \in {"dedup", "remove"} /\ i > Len(ids)
  /\ pc' = "done"
  /\ UNCHANGED <<config, call, tagIDs, documentType, loopVars>>

MetadataStep == Resolve \/ MergeNothing \/ Merge \/ Dedup \/ RemoveTag \/ Return

-----------------------------------------------------------------------------
(* The elements of s at the places K, in order.                            *)
Picked(s, K) ==
  LET nth(n) == CHOOSE k \in K : Cardinality({j \in K : j <= k}) = n
  IN  [n \in 1..Cardinality(K) |-> s[nth(n)]]

(* Each element of s where it first occurs, and the elements not in T.     *)
FirstOccurrences(s) == Picked(s, {k \in DOMAIN s : \A j \in 1..(k - 1) : s[j] # s[k]})
Without(s, T) == Picked(s, {k \in DOMAIN s : s[k] \notin T})

(* Everything configured for the document, in order.                       *)
Defaults(block) == IF block.mapping = None THEN block.tagIDs
                   ELSE block.tagIDs \o block.mapping.tagIDs

(* The list the comment on Merge describes, whatever repeats where.        *)
Described(block, tags) ==
  LET strategy == IF tags.strategy # "" THEN tags.strategy ELSE block.strategy
  IN  CASE tags.tagIDs = <<>> -> Defaults(block)
        [] tags.tagIDs # <<>> /\ strategy = "override" -> FirstOccurrences(tags.tagIDs)
        [] tags.tagIDs # <<>> /\ strategy = "remove" ->
             Without(Defaults(block), ToSet(tags.tagIDs))
        [] OTHER -> FirstOccurrences(Defaults(block) \o tags.tagIDs)
=============================================================================
