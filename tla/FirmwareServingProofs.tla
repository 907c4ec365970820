------------------------ MODULE FirmwareServingProofs ------------------------
(***************************************************************************)
(* The firmware routes beside a refresh, for every number of generations,  *)
(* faults and crashes: the handlers leave the mirror alone, and what a     *)
(* panel or a slow handler holds is no further behind than the generations *)
(* it saw published.                                                       *)
(***************************************************************************)
EXTENDS FirmwareServing, FirmwareMirrorProofs, FiniteSetTheorems

(* The handlers only read, so that the mirror's own theorems hold here.    *)
LEMMA MirrorUndisturbed == [ServingNext]_<<vars, servingVars>> => [Next]_vars
BY DEF ServingNext, MirrorStep, CrashServing, Handlers, LookUpManifest, ReadManifest,
       LookUpFile, OpenFile, ProbeCurrent, InstallHeld, Respond, Next

(* What handlers and panels do is, for the mirror, a stutter: with them it *)
(* is still the mirror (firmware.go behind api/firmware.go).               *)
THEOREM RoutesOnlyRead == ServingSpec => Spec
<1>1. ServingInit => Init
  BY DEF ServingInit
<1> QED
  BY <1>1, MirrorUndisturbed, PTL DEF ServingSpec, Spec

(* So that the mirror's invariant holds behind the routes.                 *)
LEMMA MirrorInv == ServingSpec => []IInv
BY RoutesOnlyRead, IInvariance, PTL

-----------------------------------------------------------------------------
(* What is published: the pointer moves to what is served last, or is lost *)
(* with the process, and only a restart with nothing to adopt forgets.     *)
Moves ==
  \/ UNCHANGED <<served, prior>> /\ (current' # None => current' = served)
  \/ /\ current' \in Gens /\ served' = current' /\ prior' = served
     /\ served' # served /\ current' # current
  \/ Forgets /\ served' = None /\ prior' = None

(* A step publishes one generation at most, and it is the new current one. *)
LEMMA HistoryMoves ==
  ASSUME IInv, [Next]_vars
  PROVE  Moves
<1> USE DEF historyVars
<1>1. /\ current # None => current = served
      /\ rel \in GenOrNone /\ (pc = "publish" => rel \in Gens)
      /\ None \notin Gens /\ stateFile \in GenOrNone
  BY GensAssumption DEF IInv, PointerInv, TypeOK, DaemonTypes, CacheTypes, KnowsRelease, Step
<1>2. CASE Publish
  BY <1>1, <1>2, Zenon DEF Publish, Serve, Moves
<1>3. CASE Load
  <2>1. Adopted \in GenOrNone /\ current' = Adopted /\ pc = "down" /\ pc' = "idle"
    BY <1>1, <1>3 DEF Load, Adopted, GenOrNone
  <2>2. CASE Adopted = None
    BY <1>3, <2>1, <2>2 DEF Load, Moves, Forgets
  <2>3. CASE Adopted # None
    BY <1>1, <1>3, <2>1, <2>3 DEF Load, Serve, Moves, GenOrNone
  <2> QED
    BY <2>2, <2>3
<1>4. CASE Crash
  BY <1>4 DEF Crash, Moves
<1>5. CASE RefreshStep /\ ~Publish
  BY <1>1, <1>5
     DEF RefreshStep, BeginRefresh, CompareSameTag, FetchChecksums, DownloadAndVerify,
         AbandonDownload, ClearParkingSlot, SetAside, SwapIn, SwapFails, Restore,
         DiscardParked, ChmodDest, RecordState, Prune, FailRefresh, Moves
<1>6. CASE Environment
  BY <1>1, <1>6 DEF Environment, CreateRelease, ClobberAssets, UploadAssets, DamageFile, Moves
<1>7. CASE UNCHANGED vars
  BY <1>1, <1>7 DEF vars, Moves
<1> QED
  BY <1>2, <1>3, <1>4, <1>5, <1>6, <1>7 DEF Next

(* More than one generation, without counting.                             *)
Many(S) == \E x, y \in S : x # y

(* Many are more than one.                                                 *)
LEMMA ManyIsMore ==
  ASSUME IsFiniteSet(Gens), NEW S \in SUBSET Gens, Many(S)
  PROVE  Cardinality(S) > 1
<1>1. PICK x \in S, y \in S : x # y
  BY DEF Many
<1>2. IsFiniteSet(S)
  BY FS_Subset
<1>3. Cardinality(S) \in Nat /\ Cardinality(S) # 0 /\ Cardinality(S) # 1
  BY <1>1, <1>2, FS_EmptySet, FS_Singleton, FS_CardinalityType
<1> QED
  BY <1>3

(* With more than two generations, many are others than a given one.       *)
LEMMA ManyOthers ==
  ASSUME IsFiniteSet(Gens), Cardinality(Gens) > 2, NEW g
  PROVE  Many(Gens \ {g})
<1>1. IsFiniteSet(Gens \ {g}) /\ Cardinality(Gens \ {g}) > 1
  <2>1. Cardinality(Gens) \in Nat
    BY FS_CardinalityType
  <2>2. /\ IsFiniteSet(Gens \ {g})
        /\ \/ Cardinality(Gens \ {g}) = Cardinality(Gens) - 1
           \/ Cardinality(Gens \ {g}) = Cardinality(Gens)
    BY FS_RemoveElement
  <2> QED
    BY <2>1, <2>2
<1>2. PICK x \in Gens \ {g} : TRUE
  BY <1>1, FS_EmptySet
<1>3. Gens \ {g} # {x}
  BY <1>1, FS_Singleton
<1> QED
  BY <1>2, <1>3 DEF Many

(* How far behind a generation can be that was looked up when it was the   *)
(* latest, if S are the ones published since: it is retained, or the world *)
(* has moved on by two.                                                    *)
Behind(g, S) ==
  \/ g = served
  \/ g = prior /\ served \in S /\ served # g
  \/ Many(S \ {g})

(* A generation looked up falls behind by what is published, no more.      *)
LEMMA BehindStep ==
  ASSUME IInv, [Next]_vars, NEW g \in Gens, NEW S, NEW T, Behind(g, S),
         S \cup NewlyPublished \subseteq T, ~Forgets
  PROVE  \/ g = served'
         \/ g = prior' /\ served' \in T /\ served' # g
         \/ Many(T \ {g})
<1>1. CASE Many(S \ {g})
  BY <1>1 DEF Many
<1>2. CASE UNCHANGED <<served, prior>>
  BY <1>1, <1>2 DEF Behind
<1>3. CASE /\ current' \in Gens /\ served' = current' /\ prior' = served
           /\ served' # served /\ current' # current
  <2>1. current' \in T
    BY <1>3, GensAssumption DEF NewlyPublished
  <2>2. CASE g = served
    BY <1>3, <2>1, <2>2
  <2>3. CASE g = prior /\ served \in S /\ served # g
    BY <1>3, <2>1, <2>3 DEF Many
  <2> QED
    BY <1>1, <2>2, <2>3 DEF Behind
<1> QED
  BY <1>2, <1>3, HistoryMoves DEF Moves

(* What is neither behind nor servable has a reason.                       *)
LEMMA MissingIsExplained ==
  ASSUME IInv, NEW g \in Gens, NEW S \in SUBSET Gens, Behind(g, S), Missing(g),
         IsFiniteSet(Gens)
  PROVE  Cardinality(S \ {g}) > 1 \/ InSwap(g) \/ g \in harmed
<1>1. CASE g \in {served, prior}
  BY <1>1, GensAssumption DEF IInv, TwoGenerations, Servable, Missing
<1>2. CASE Many(S \ {g})
  BY <1>2, ManyIsMore
<1> QED
  BY <1>1, <1>2 DEF Behind

-----------------------------------------------------------------------------
(* What moves bytes on the disk keeps them within their types.             *)
LEMMA BytesTyped ==
  ASSUME TypeOK, ServingTypeOK, BytesMove
  PROVE  staged' \in GenOrNone /\ content' \in [DirNames -> GenOrNone]
<1>1. (pc = "download" => assets[tag] \in GenOrNone) /\ staged \in GenOrNone
  BY DEF TypeOK, UpstreamTypes, DaemonTypes, ServingTypeOK
<1>2. staged' \in GenOrNone
  BY <1>1 DEF BytesMove, GenOrNone
<1>3. ASSUME NEW n \in DirNames
      PROVE  (IF SwappedIn /\ n = Dir(rel) THEN staged
              ELSE IF IsThere(n)' THEN content[n] ELSE None) \in GenOrNone
  BY <1>1 DEF ServingTypeOK, GenOrNone
<1> QED
  BY <1>2, <1>3 DEF BytesMove

(* Handlers and panels begin within their types.                           *)
LEMMA ServingTypesInit == ServingInit => ServingTypeOK
BY DEF ServingInit, ServingTypeOK, GenOrNone, DirNames

(* And stay within them.                                                   *)
LEMMA ServingTypesStep ==
  ASSUME TypeOK, TypeOK', ServingTypeOK, [ServingNext]_<<vars, servingVars>>
  PROVE  ServingTypeOK'
<1>a. MirrorStep \/ CrashServing => staged' \in GenOrNone /\ content' \in [DirNames -> GenOrNone]
  BY BytesTyped DEF MirrorStep, CrashServing
<1>b. ASSUME NEW g \in Gens PROVE content[Dir(g)] \in GenOrNone
  BY DEF ServingTypeOK, DirNames
<1> USE DEF ServingTypeOK, GenOrNone
<1>1. current \in GenOrNone /\ current' \in GenOrNone
  BY DEF TypeOK, DaemonTypes
<1>2. CASE MirrorStep
  BY <1>a, <1>1, <1>2 DEF MirrorStep, readerVars, NewlyPublished
<1>3. CASE CrashServing
  BY <1>a, <1>3 DEF CrashServing
<1>4. CASE LookUpManifest
  <2>1. CASE current = None
    BY <1>4, <2>1 DEF LookUpManifest, Respond, bytesVars, Answer, Route, Status
  <2>2. CASE current # None
    BY <1>1, <1>4, <2>2 DEF LookUpManifest, bytesVars
  <2> QED
    BY <2>1, <2>2
<1>5. CASE ReadManifest
  <2>1. seen \in Gens
    BY <1>5 DEF ReadManifest
  <2>2. CASE Respond("manifest", 200, seen, content[Dir(seen)]) /\ held' = seen /\ since' = passed
    BY <1>b, <2>1, <2>2 DEF Respond, bytesVars, Answer, Route, Status
  <2>3. CASE Respond("manifest", 500, None, None) /\ UNCHANGED <<held, since>>
    BY <2>3 DEF Respond, bytesVars, Answer, Route, Status
  <2> QED
    BY <1>5, <2>2, <2>3 DEF ReadManifest
<1>6. CASE LookUpFile
  BY <1>1, <1>6 DEF LookUpFile, bytesVars
<1>7. CASE OpenFile
  <2>1. seen \in Gens /\ UNCHANGED <<held, since>>
    BY <1>7 DEF OpenFile
  <2>2. CASE Respond("file", 200, seen, content[Dir(seen)])
    BY <1>b, <2>1, <2>2 DEF Respond, bytesVars, Answer, Route, Status
  <2>3. CASE Respond("file", 500, None, None)
    BY <2>1, <2>3 DEF Respond, bytesVars, Answer, Route, Status
  <2> QED
    BY <1>7, <2>2, <2>3 DEF OpenFile
<1>8. CASE ProbeCurrent
  BY <1>8 DEF ProbeCurrent, Respond, bytesVars, Answer, Route, Status
<1>9. CASE InstallHeld
  <2>1. held \in Gens /\ UNCHANGED <<held, since>>
    BY <1>9 DEF InstallHeld
  <2>2. CASE Respond("versioned", 200, held, content[Dir(held)])
    BY <1>b, <2>1, <2>2 DEF Respond, bytesVars, Answer, Route, Status
  <2>3. CASE Respond("versioned", 404, None, None)
    BY <2>1, <2>3 DEF Respond, bytesVars, Answer, Route, Status
  <2>4. CASE Respond("versioned", 500, None, None)
    BY <2>1, <2>4 DEF Respond, bytesVars, Answer, Route, Status
  <2> QED
    BY <1>9, <2>2, <2>3, <2>4 DEF InstallHeld
<1>10. CASE UNCHANGED <<vars, servingVars>>
  BY <1>10 DEF servingVars, bytesVars
<1> QED
  BY <1>2, <1>3, <1>4, <1>5, <1>6, <1>7, <1>8, <1>9, <1>10 DEF ServingNext, Handlers

(* Types of the handler and of what it answers.                            *)
THEOREM ServingTypes == ServingSpec => []ServingTypeOK
<1>1. IInv => TypeOK
  BY DEF IInv
<1> QED
  BY <1>1, ServingTypesInit, ServingTypesStep, MirrorInv, PTL DEF ServingSpec

-----------------------------------------------------------------------------
(* A release's directory name is its own: what lies under it, in place or  *)
(* set aside, are its bytes, and so is what a refresh has staged.          *)
IsStored(g) == disk[g] # "absent" \/ parked[g] # "absent"

NamesHold ==
  /\ pc \in Holding => staged = rel
  /\ \A g \in Gens : IsStored(g) => content[Dir(g)] = g

(* The checksums tell releases under one tag apart.                        *)
LEMMA DirIsInjective == \A g, h : Dir(g) = Dir(h) => g = h
BY DEF Dir

(* Only a swap brings in a directory that was not there, and it is the one *)
(* of the release being refreshed.                                         *)
LEMMA StoredMoves ==
  ASSUME TypeOK, [Next]_vars, NEW g \in Gens, IsStored(g)'
  PROVE  IsStored(g) \/ (SwappedIn /\ g = rel)
<1> USE DEF IsStored, TypeOK, CacheTypes
<1>1. CASE Load \/ Prune \/ CompareSameTag \/ ClearParkingSlot \/ DiscardParked
  BY <1>1 DEF Load, Prune, CompareSameTag, ClearParkingSlot, DiscardParked, PruneStaging,
              PruneGenerations, RemoveStaging, Leftovers, NoDirs
<1>2. CASE SetAside \/ SwapIn \/ Restore
  BY <1>2 DEF SetAside, SwapIn, Restore, SwappedIn
<1>3. CASE BeginRefresh \/ FetchChecksums \/ DownloadAndVerify \/ AbandonDownload \/ SwapFails
            \/ ChmodDest \/ Publish \/ RecordState
  BY <1>3 DEF BeginRefresh, FetchChecksums, DownloadAndVerify, AbandonDownload, SwapFails,
              ChmodDest, Publish, RecordState
<1>4. CASE Environment \/ Crash \/ UNCHANGED vars
  BY <1>4 DEF Environment, CreateRelease, ClobberAssets, UploadAssets, DamageFile, Crash, vars
<1> QED
  BY <1>1, <1>2, <1>3, <1>4 DEF Next, RefreshStep

(* From the download to the swap, a refresh is about one release.          *)
LEMMA HoldingMoves ==
  ASSUME [Next]_vars, pc' \in Holding
  PROVE  rel' = rel /\ (pc \in Holding \/ (pc = "download" /\ pc' = "clear" /\ assets[tag] = rel))
<1> USE DEF Holding
<1>1. CASE DownloadAndVerify
  BY <1>1 DEF DownloadAndVerify, Downloaded, localVars
<1>2. CASE ClearParkingSlot \/ SetAside \/ SwapFails
  BY <1>2 DEF ClearParkingSlot, SetAside, SwapFails, FailRefresh, localVars
<1>3. CASE Environment \/ UNCHANGED vars
  BY <1>3 DEF Environment, CreateRelease, ClobberAssets, UploadAssets, DamageFile, vars, localVars
<1>4. ~Load /\ ~Crash
  BY DEF Load, Crash
<1>5. RefreshStep => DownloadAndVerify \/ ClearParkingSlot \/ SetAside \/ SwapFails
  BY DEF RefreshStep, BeginRefresh, CompareSameTag, FetchChecksums, AbandonDownload, SwapIn,
         Restore, DiscardParked, ChmodDest, Publish, RecordState, Prune, FailRefresh
<1> QED
  BY <1>1, <1>2, <1>3, <1>4, <1>5 DEF Next

(* A refresh, a crash or a restart keeps every name to its own bytes.      *)
LEMMA NamesStep ==
  ASSUME TypeOK, NamesHold, [ServingNext]_<<vars, servingVars>>
  PROVE  NamesHold'
<1>1. CASE UNCHANGED <<vars, bytesVars>>
  BY <1>1 DEF NamesHold, IsStored, vars, localVars, bytesVars
<1>2. CASE BytesMove
  <2>1. [Next]_vars
    BY MirrorUndisturbed
  <2>2. ASSUME pc' \in Holding PROVE staged' = rel'
    BY <1>2, <2>1, <2>2, HoldingMoves DEF BytesMove, NamesHold
  <2>3. ASSUME NEW g \in Gens, IsStored(g)' PROVE content'[Dir(g)] = g
    <3>1. Dir(g) \in DirNames /\ IsThere(Dir(g))'
      BY <2>3 DEF DirNames, IsThere, IsStored
    <3>2. CASE SwappedIn
      <4>1. staged = rel /\ (Dir(g) = Dir(rel) <=> g = rel)
        BY <3>2, DirIsInjective DEF NamesHold, Holding, SwappedIn
      <4>2. CASE g = rel
        BY <1>2, <3>1, <3>2, <4>1, <4>2 DEF BytesMove
      <4>3. CASE g # rel
        BY <1>2, <2>1, <2>3, <3>1, <4>1, <4>3, StoredMoves DEF BytesMove, NamesHold
      <4> QED
        BY <4>2, <4>3
    <3>3. CASE ~SwappedIn
      BY <1>2, <2>1, <2>3, <3>1, <3>3, StoredMoves DEF BytesMove, NamesHold
    <3> QED
      BY <3>2, <3>3
  <2> QED
    BY <2>2, <2>3 DEF NamesHold
<1>3. UNCHANGED <<vars, bytesVars>> \/ BytesMove
  BY DEF ServingNext, MirrorStep, CrashServing, Handlers, LookUpManifest, ReadManifest,
         LookUpFile, OpenFile, ProbeCurrent, InstallHeld, Respond, servingVars
<1> QED
  BY <1>1, <1>2, <1>3

(* What a handler sends under a label is what lies under that label's name.*)
LEMMA LabelsStep ==
  ASSUME ServingTypeOK, NamesHold, OneGeneration, [ServingNext]_<<vars, servingVars>>
  PROVE  OneGeneration'
<1>1. CASE UNCHANGED answer
  BY <1>1 DEF OneGeneration
<1>2. ASSUME NEW g \in Gens, NEW route, Present(g), Respond(route, 200, g, content[Dir(g)])
      PROVE  OneGeneration'
  BY <1>2 DEF Present, Respond, NamesHold, IsStored, OneGeneration
<1>3. ASSUME NEW route, NEW status, status # 200, Respond(route, status, None, None)
      PROVE  OneGeneration'
  BY <1>3 DEF Respond, OneGeneration
<1>4. CASE LookUpManifest \/ LookUpFile \/ ProbeCurrent
  BY <1>4 DEF LookUpManifest, LookUpFile, ProbeCurrent, Respond, OneGeneration
<1>5. CASE ReadManifest \/ OpenFile
  <2>1. seen \in Gens
    BY <1>5 DEF ReadManifest, OpenFile, ServingTypeOK
  <2> QED
    BY <1>2, <1>3, <1>5, <2>1 DEF ReadManifest, OpenFile
<1>6. CASE InstallHeld
  <2>1. held \in Gens
    BY <1>6 DEF InstallHeld, ServingTypeOK, GenOrNone
  <2> QED
    BY <1>2, <1>3, <1>6, <2>1 DEF InstallHeld
<1>7. CASE MirrorStep \/ CrashServing \/ UNCHANGED <<vars, servingVars>>
  BY <1>1, <1>7 DEF MirrorStep, CrashServing, servingVars
<1> QED
  BY <1>4, <1>5, <1>6, <1>7 DEF ServingNext, Handlers

(* The bytes of an answer are those of the generation it is labelled with  *)
(* (OneGeneration): a directory name never comes to hold another release's *)
(* bytes, though upstream replaces the assets under a tag, refreshes fail  *)
(* at any step and the process is killed at any step.                      *)
THEOREM LabelsMatch == ServingSpec => []OneGeneration
<1>1. ServingInit => NamesHold /\ OneGeneration
  BY DEF ServingInit, Init, NoDirs, Holding, NamesHold, IsStored, OneGeneration
<1>2. TypeOK /\ ServingTypeOK /\ NamesHold /\ OneGeneration /\ [ServingNext]_<<vars, servingVars>>
        => NamesHold' /\ OneGeneration'
  BY NamesStep, LabelsStep
<1>3. IInv => TypeOK
  BY DEF IInv
<1> QED
  BY <1>1, <1>2, <1>3, MirrorInv, ServingTypes, PTL DEF ServingSpec

-----------------------------------------------------------------------------
(* A handler lives no longer than its process; the pointer it read is no   *)
(* further behind than what was published since; one that found nothing    *)
(* mirrored has seen the first publication by the time there is one.       *)
HandlerInv ==
  /\ pc = "down" => at = "idle"
  /\ at \in {"manifest", "file"} => Behind(seen, passed)
  /\ at = "probe" => ~carried \/ seen = None
  /\ at = "probe" /\ seen = None /\ current # None => passed # {}

(* Every step keeps what a handler has looked up explained.                *)
LEMMA HandlerStep ==
  ASSUME IInv, IInv', ServingTypeOK, HandlerInv, [ServingNext]_<<vars, servingVars>>
  PROVE  HandlerInv'
<1> USE DEF HandlerInv
<1>1. CASE MirrorStep
  <2>1. UNCHANGED <<at, seen, carried>> /\ [Next]_vars
    BY <1>1, MirrorUndisturbed DEF MirrorStep, readerVars
  <2>2. pc' = "down" => pc = "down"
    BY <1>1
       DEF MirrorStep, RefreshStep, BeginRefresh, CompareSameTag, FetchChecksums,
           DownloadAndVerify, AbandonDownload, ClearParkingSlot, SetAside, SwapIn, SwapFails,
           Restore, DiscardParked, ChmodDest, Publish, RecordState, Prune, FailRefresh,
           Environment, CreateRelease, ClobberAssets, UploadAssets, DamageFile, Load
  <2>3. CASE at = "idle"
    BY <2>1, <2>3
  <2>4. CASE at # "idle"
    <3>1. ~Forgets /\ passed' = passed \cup NewlyPublished
      BY <1>1, <2>4 DEF MirrorStep, Forgets
    <3>2. at \in {"manifest", "file"} => Behind(seen, passed)'
      <4> SUFFICES ASSUME at \in {"manifest", "file"} PROVE Behind(seen, passed)'
        OBVIOUS
      <4>1. seen \in Gens /\ Behind(seen, passed) /\ seen' = seen
        BY <2>1 DEF ServingTypeOK
      <4> QED
        BY <2>1, <3>1, <4>1, BehindStep DEF Behind
    <3>3. at = "probe" /\ seen = None /\ current' # None => passed' # {}
      <4>1. CASE current' = current
        BY <3>1, <4>1
      <4>2. CASE current' # current
        BY <3>1, <4>2 DEF NewlyPublished
      <4> QED
        BY <4>1, <4>2
    <3> QED
      BY <2>1, <2>2, <2>4, <3>2, <3>3
  <2> QED
    BY <2>3, <2>4
<1>2. CASE CrashServing
  BY <1>2 DEF CrashServing
<1>3. CASE LookUpManifest
  <2>1. current # None => current = served
    BY DEF IInv, PointerInv
  <2> QED
    BY <1>3, <2>1 DEF LookUpManifest, Respond, vars, historyVars, Behind
<1>4. CASE LookUpFile
  <2>1. current # None => current = served
    BY DEF IInv, PointerInv
  <2> QED
    BY <1>4, <2>1 DEF LookUpFile, vars, historyVars, Behind
<1>5. CASE ReadManifest \/ OpenFile \/ ProbeCurrent \/ InstallHeld
  BY <1>5 DEF ReadManifest, OpenFile, ProbeCurrent, InstallHeld, Respond
<1>6. CASE UNCHANGED <<vars, servingVars>>
  BY <1>6 DEF vars, historyVars, servingVars, Behind
<1> QED
  BY <1>1, <1>2, <1>3, <1>4, <1>5, <1>6 DEF ServingNext, Handlers

(* The handlers' invariant, on top of the mirror's.                        *)
LEMMA HandlerHolds == ServingSpec => [](IInv /\ ServingTypeOK /\ HandlerInv)
<1>1. ServingInit => HandlerInv
  BY DEF ServingInit, Init, HandlerInv
<1> QED
  BY <1>1, HandlerStep, MirrorInv, ServingTypes, PTL DEF ServingSpec

(* A 500 is answered for harm, in the middle of a swap, or to a handler    *)
(* that two publications have overtaken: the generation whose pointer it   *)
(* read is retained across any one of them.                                *)
THEOREM UnreadableExplained == IsFiniteSet(Gens) => (ServingSpec => UnreadableIsReal)
<1> SUFFICES ASSUME IsFiniteSet(Gens) PROVE ServingSpec => UnreadableIsReal
  OBVIOUS
<1>1. ASSUME IInv, ServingTypeOK, HandlerInv, [ServingNext]_<<vars, servingVars>>,
             Answers({"manifest", "file"}, {500})
      PROVE  Cardinality(passed \ {seen}) > 1 \/ InSwap(seen) \/ seen \in harmed
  <2>1. at \in {"manifest", "file"} /\ Missing(seen)
    BY <1>1 DEF Answers, ServingNext, MirrorStep, CrashServing, Handlers, LookUpManifest,
                ReadManifest, LookUpFile, OpenFile, ProbeCurrent, InstallHeld, Respond,
                servingVars
  <2> QED
    BY <1>1, <2>1, MissingIsExplained DEF ServingTypeOK, HandlerInv
<1> QED
  BY <1>1, HandlerHolds, PTL DEF ServingSpec, UnreadableIsReal

(* A file the releases carry is not found only by a request in whose       *)
(* middle the first generation was published.                              *)
THEOREM NotFoundExplained == ServingSpec => NotFoundIsNotCarried
<1>1. ASSUME HandlerInv, [ServingNext]_<<vars, servingVars>>, Answers({"file"}, {404})
      PROVE  ~carried \/ (seen = None /\ passed # {})
  <2>1. at = "probe" /\ current # None
    BY <1>1 DEF Answers, ServingNext, MirrorStep, CrashServing, Handlers, LookUpManifest,
                ReadManifest, LookUpFile, OpenFile, ProbeCurrent, InstallHeld, Respond,
                servingVars
  <2> QED
    BY <1>1, <2>1 DEF HandlerInv
<1> QED
  BY <1>1, HandlerHolds, PTL DEF ServingSpec, NotFoundIsNotCarried

-----------------------------------------------------------------------------
(* The manifest the panel holds is no further behind than what was         *)
(* published since it was looked up.                                       *)
PanelInv == held # None => held \in Gens /\ Behind(held, since)

(* Every step keeps what a panel holds explained.                          *)
LEMMA PanelStep ==
  ASSUME IInv, ServingTypeOK, HandlerInv, PanelInv, [ServingNext]_<<vars, servingVars>>,
         IsFiniteSet(Gens), Cardinality(Gens) > 2
  PROVE  PanelInv'
<1>1. CASE MirrorStep
  <2> SUFFICES ASSUME held # None PROVE held \in Gens /\ Behind(held, since)'
    BY <1>1 DEF PanelInv, MirrorStep
  <2>1. held \in Gens /\ held' = held /\ Behind(held, since) /\ [Next]_vars
    BY <1>1, MirrorUndisturbed DEF PanelInv, MirrorStep
  <2>2. CASE Forgets
    <3>1. since' = Gens
      BY <1>1, <2>2 DEF MirrorStep
    <3> QED
      BY <2>1, <3>1, ManyOthers DEF Behind
  <2>3. CASE ~Forgets
    <3>1. since \cup NewlyPublished \subseteq since'
      BY <1>1, <2>3 DEF MirrorStep
    <3> QED
      BY <2>1, <2>3, <3>1, BehindStep DEF Behind
  <2> QED
    BY <2>2, <2>3
<1>2. CASE CrashServing
  BY <1>2 DEF CrashServing, Crash, historyVars, PanelInv, Behind
<1>3. CASE ReadManifest
  BY <1>3 DEF ReadManifest, Respond, vars, historyVars, PanelInv, Behind, HandlerInv,
              ServingTypeOK
<1>4. CASE LookUpManifest \/ LookUpFile \/ OpenFile \/ ProbeCurrent \/ InstallHeld
  BY <1>4 DEF LookUpManifest, LookUpFile, OpenFile, ProbeCurrent, InstallHeld, Respond,
              vars, historyVars, PanelInv, Behind
<1>5. CASE UNCHANGED <<vars, servingVars>>
  BY <1>5 DEF vars, historyVars, servingVars, PanelInv, Behind
<1> QED
  BY <1>1, <1>2, <1>3, <1>4, <1>5 DEF ServingNext, Handlers

(* ADR 0025 rule 3 for every number of generations: an install finds the   *)
(* file its manifest names, whatever one publication has done since, any   *)
(* number of failed or repeated refreshes and restarts in between.         *)
THEOREM InstallsFind ==
  IsFiniteSet(Gens) /\ Cardinality(Gens) > 2 => (ServingSpec => InstallFindsItsFile)
<1> SUFFICES ASSUME IsFiniteSet(Gens), Cardinality(Gens) > 2
             PROVE  ServingSpec => InstallFindsItsFile
  OBVIOUS
<1>1. ServingInit => PanelInv
  BY DEF ServingInit, PanelInv
<1>2. ASSUME IInv, ServingTypeOK, PanelInv, [ServingNext]_<<vars, servingVars>>,
             Answers({"versioned"}, {404, 500})
      PROVE  Cardinality(since \ {held}) > 1 \/ InSwap(held) \/ held \in harmed
  <2>1. held # None /\ Missing(held)
    BY <1>2 DEF Missing, Answers, ServingNext, MirrorStep, CrashServing, Handlers, LookUpManifest,
                ReadManifest, LookUpFile, OpenFile, ProbeCurrent, InstallHeld, Respond,
                servingVars
  <2> QED
    BY <1>2, <2>1, MissingIsExplained DEF ServingTypeOK, PanelInv
<1> QED
  BY <1>1, <1>2, PanelStep, HandlerHolds, PTL DEF ServingSpec, InstallFindsItsFile
==============================================================================
