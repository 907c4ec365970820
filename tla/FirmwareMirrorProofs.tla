------------------------ MODULE FirmwareMirrorProofs ------------------------
(***************************************************************************)
(* Proofs about FirmwareMirror for every set of tags and generations and   *)
(* every number of faults, crashes and damaged files.                      *)
(***************************************************************************)
EXTENDS FirmwareMirror, FiniteSetTheorems, TLAPS

(* Sweeping entries out of the cache costs at most one failed operation.   *)
LEMMA SweepFaults ==
  ASSUME BoundsAssumption, faults \in 0..MaxFaults, NEW keep,
         RemoveStaging \/ PruneGenerations(keep)
  PROVE  faults' \in 0..MaxFaults
<1>1. faults' = faults \/ (FileError /\ faults' = faults + 1)
  BY Zenon DEF RemoveStaging, PruneGenerations
<1>2. QED
  BY <1>1 DEF FileError, BoundsAssumption

(* Failed operations are only ever added to, one at a time.                *)
LEMMA SweepFaultsGrow ==
  ASSUME NEW keep, RemoveStaging \/ PruneGenerations(keep)
  PROVE  faults' = faults \/ faults' = faults + 1
BY Zenon DEF RemoveStaging, PruneGenerations

(* Every step keeps the types: the published pointer, the state file and   *)
(* the locals of Refresh name generations, and a step that needs a release *)
(* or its checksums has one.                                               *)
LEMMA TypeStep == TypeOK /\ [Next]_vars => TypeOK'
<1> SUFFICES ASSUME TypeOK, [Next]_vars PROVE TypeOK'
  OBVIOUS
<1> USE GensAssumption, BoundsAssumption
    DEF TypeOK, upstreamVars, localVars, historyVars
<1>1. ASSUME NEW t \in Tags, CreateRelease(t) PROVE TypeOK'
  <2>1. UpstreamTypes'
    BY <1>1 DEF CreateRelease, UpstreamTypes, GenOrNone
  <2>2. CacheTypes'
    BY <1>1
       DEF CreateRelease, CacheTypes, DaemonTypes, KnowsRelease, Step, DirState,
           GenOrNone, NoDirs
  <2>3. DaemonTypes'
    BY <1>1
       DEF CreateRelease, DaemonTypes, UpstreamTypes, CacheTypes, KnowsRelease, Step,
           GenOrNone, TagOrNone
  <2>4. EnvironmentTypes'
    BY <1>1 DEF CreateRelease, EnvironmentTypes
  <2>5. HistoryTypes'
    BY <1>1 DEF CreateRelease, HistoryTypes, DaemonTypes, KnowsRelease, Step, GenOrNone
  <2> QED
    BY <2>1, <2>2, <2>3, <2>4, <2>5
<1>2. ASSUME NEW t \in Tags, ClobberAssets(t) PROVE TypeOK'
  <2>1. UpstreamTypes'
    BY <1>2 DEF ClobberAssets, UpstreamTypes, GenOrNone
  <2>2. CacheTypes'
    BY <1>2
       DEF ClobberAssets, CacheTypes, DaemonTypes, KnowsRelease, Step, DirState,
           GenOrNone, NoDirs
  <2>3. DaemonTypes'
    BY <1>2
       DEF ClobberAssets, DaemonTypes, UpstreamTypes, CacheTypes, KnowsRelease, Step,
           GenOrNone, TagOrNone
  <2>4. EnvironmentTypes'
    BY <1>2 DEF ClobberAssets, EnvironmentTypes
  <2>5. HistoryTypes'
    BY <1>2 DEF ClobberAssets, HistoryTypes, DaemonTypes, KnowsRelease, Step, GenOrNone
  <2> QED
    BY <2>1, <2>2, <2>3, <2>4, <2>5
<1>3. ASSUME NEW g \in Gens, UploadAssets(g) PROVE TypeOK'
  <2>1. UpstreamTypes'
    BY <1>3 DEF UploadAssets, UpstreamTypes, GenOrNone
  <2>2. CacheTypes'
    BY <1>3
       DEF UploadAssets, CacheTypes, DaemonTypes, KnowsRelease, Step, DirState,
           GenOrNone, NoDirs
  <2>3. DaemonTypes'
    BY <1>3
       DEF UploadAssets, DaemonTypes, UpstreamTypes, CacheTypes, KnowsRelease, Step,
           GenOrNone, TagOrNone
  <2>4. EnvironmentTypes'
    BY <1>3 DEF UploadAssets, EnvironmentTypes
  <2>5. HistoryTypes'
    BY <1>3 DEF UploadAssets, HistoryTypes, DaemonTypes, KnowsRelease, Step, GenOrNone
  <2> QED
    BY <2>1, <2>2, <2>3, <2>4, <2>5
<1>4. ASSUME NEW g \in Gens, DamageFile(g) PROVE TypeOK'
  <2>1. UpstreamTypes'
    BY <1>4 DEF DamageFile, UpstreamTypes, GenOrNone
  <2>2. CacheTypes'
    BY <1>4
       DEF DamageFile, CacheTypes, DaemonTypes, KnowsRelease, Step, DirState, GenOrNone,
           NoDirs
  <2>3. DaemonTypes'
    BY <1>4
       DEF DamageFile, DaemonTypes, UpstreamTypes, CacheTypes, KnowsRelease, Step,
           GenOrNone, TagOrNone
  <2>4. EnvironmentTypes'
    BY <1>4 DEF DamageFile, EnvironmentTypes
  <2>5. HistoryTypes'
    BY <1>4 DEF DamageFile, HistoryTypes, DaemonTypes, KnowsRelease, Step, GenOrNone
  <2> QED
    BY <2>1, <2>2, <2>3, <2>4, <2>5
<1>5. CASE BeginRefresh
  <2>1. UpstreamTypes'
    BY <1>5 DEF BeginRefresh, UpstreamTypes, GenOrNone
  <2>2. CacheTypes'
    BY <1>5
       DEF BeginRefresh, CacheTypes, DaemonTypes, KnowsRelease, Step, DirState,
           GenOrNone, NoDirs
  <2>3. DaemonTypes'
    BY <1>5
       DEF BeginRefresh, DaemonTypes, UpstreamTypes, CacheTypes, KnowsRelease, Step,
           GenOrNone, TagOrNone
  <2>4. EnvironmentTypes'
    BY <1>5 DEF BeginRefresh, EnvironmentTypes
  <2>5. HistoryTypes'
    BY <1>5 DEF BeginRefresh, HistoryTypes, DaemonTypes, KnowsRelease, Step, GenOrNone
  <2> QED
    BY <2>1, <2>2, <2>3, <2>4, <2>5
<1>6. CASE CompareSameTag
  <2>1. UpstreamTypes'
    BY <1>6 DEF CompareSameTag, UpstreamTypes, GenOrNone
  <2>2. CacheTypes'
    BY <1>6
       DEF CompareSameTag, PruneStaging, RemoveStaging, Leftovers, FileError,
           CacheTypes, DaemonTypes, KnowsRelease, Step, DirState, GenOrNone, NoDirs
  <2>3. DaemonTypes'
    BY <1>6
       DEF CompareSameTag, ResetLocals, DaemonTypes, UpstreamTypes, CacheTypes,
           KnowsRelease, Step, GenOrNone, TagOrNone
  <2>4. EnvironmentTypes'
    BY <1>6, SweepFaults DEF CompareSameTag, PruneStaging, EnvironmentTypes
  <2>5. HistoryTypes'
    BY <1>6 DEF CompareSameTag, HistoryTypes, DaemonTypes, KnowsRelease, Step, GenOrNone
  <2> QED
    BY <2>1, <2>2, <2>3, <2>4, <2>5
<1>7. CASE FetchChecksums
  <2>1. UpstreamTypes'
    BY <1>7 DEF FetchChecksums, UpstreamTypes, GenOrNone
  <2>2. CacheTypes'
    BY <1>7
       DEF FetchChecksums, CacheTypes, DaemonTypes, KnowsRelease, Step, DirState,
           GenOrNone, NoDirs
  <2>3. DaemonTypes'
    BY <1>7
       DEF FetchChecksums, DaemonTypes, UpstreamTypes, CacheTypes, KnowsRelease, Step,
           GenOrNone, TagOrNone
  <2>4. EnvironmentTypes'
    BY <1>7 DEF FetchChecksums, EnvironmentTypes
  <2>5. HistoryTypes'
    BY <1>7 DEF FetchChecksums, HistoryTypes, DaemonTypes, KnowsRelease, Step, GenOrNone
  <2> QED
    BY <2>1, <2>2, <2>3, <2>4, <2>5
<1>8. CASE DownloadAndVerify
  <2>1. UpstreamTypes'
    BY <1>8 DEF DownloadAndVerify, UpstreamTypes, GenOrNone
  <2>2. CacheTypes'
    BY <1>8
       DEF DownloadAndVerify, CacheTypes, DaemonTypes, KnowsRelease, Step, DirState,
           GenOrNone, NoDirs
  <2>3. DaemonTypes'
    BY <1>8
       DEF DownloadAndVerify, DaemonTypes, UpstreamTypes, CacheTypes, KnowsRelease,
           Step, GenOrNone, TagOrNone
  <2>4. EnvironmentTypes'
    BY <1>8 DEF DownloadAndVerify, EnvironmentTypes
  <2>5. HistoryTypes'
    BY <1>8
       DEF DownloadAndVerify, HistoryTypes, DaemonTypes, KnowsRelease, Step, GenOrNone
  <2> QED
    BY <2>1, <2>2, <2>3, <2>4, <2>5
<1>9. CASE AbandonDownload
  <2>1. UpstreamTypes'
    BY <1>9 DEF AbandonDownload, FailRefresh, UpstreamTypes, GenOrNone
  <2>2. CacheTypes'
    BY <1>9
       DEF AbandonDownload, FailRefresh, CacheTypes, DaemonTypes, KnowsRelease, Step,
           DirState, GenOrNone, NoDirs
  <2>3. DaemonTypes'
    BY <1>9
       DEF AbandonDownload, FailRefresh, ResetLocals, DaemonTypes, UpstreamTypes,
           CacheTypes, KnowsRelease, Step, GenOrNone, TagOrNone
  <2>4. EnvironmentTypes'
    BY <1>9 DEF AbandonDownload, FailRefresh, FileError, EnvironmentTypes
  <2>5. HistoryTypes'
    BY <1>9
       DEF AbandonDownload, FailRefresh, HistoryTypes, DaemonTypes, KnowsRelease, Step,
           GenOrNone
  <2> QED
    BY <2>1, <2>2, <2>3, <2>4, <2>5
<1>10. CASE ClearParkingSlot
  <2>1. UpstreamTypes'
    BY <1>10 DEF ClearParkingSlot, FailRefresh, UpstreamTypes, GenOrNone
  <2>2. CacheTypes'
    BY <1>10
       DEF ClearParkingSlot, FailRefresh, CacheTypes, DaemonTypes, KnowsRelease, Step,
           DirState, GenOrNone, NoDirs
  <2>3. DaemonTypes'
    BY <1>10
       DEF ClearParkingSlot, FailRefresh, ResetLocals, DaemonTypes, UpstreamTypes,
           CacheTypes, KnowsRelease, Step, GenOrNone, TagOrNone
  <2>4. EnvironmentTypes'
    BY <1>10 DEF ClearParkingSlot, FailRefresh, FileError, EnvironmentTypes
  <2>5. HistoryTypes'
    BY <1>10
       DEF ClearParkingSlot, FailRefresh, HistoryTypes, DaemonTypes, KnowsRelease, Step,
           GenOrNone
  <2> QED
    BY <2>1, <2>2, <2>3, <2>4, <2>5
<1>11. CASE SetAside
  <2>1. UpstreamTypes'
    BY <1>11 DEF SetAside, FailRefresh, UpstreamTypes, GenOrNone
  <2>2. CacheTypes'
    BY <1>11
       DEF SetAside, FailRefresh, CacheTypes, DaemonTypes, KnowsRelease, Step, DirState,
           GenOrNone, NoDirs
  <2>3. DaemonTypes'
    BY <1>11
       DEF SetAside, FailRefresh, ResetLocals, DaemonTypes, UpstreamTypes, CacheTypes,
           KnowsRelease, Step, GenOrNone, TagOrNone
  <2>4. EnvironmentTypes'
    BY <1>11 DEF SetAside, FailRefresh, FileError, EnvironmentTypes
  <2>5. HistoryTypes'
    BY <1>11
       DEF SetAside, FailRefresh, HistoryTypes, DaemonTypes, KnowsRelease, Step,
           GenOrNone
  <2> QED
    BY <2>1, <2>2, <2>3, <2>4, <2>5
<1>12. CASE SwapIn
  <2>1. UpstreamTypes'
    BY <1>12 DEF SwapIn, UpstreamTypes, GenOrNone
  <2>2. CacheTypes'
    BY <1>12
       DEF SwapIn, CacheTypes, DaemonTypes, KnowsRelease, Step, DirState, GenOrNone,
           NoDirs
  <2>3. DaemonTypes'
    BY <1>12
       DEF SwapIn, DaemonTypes, UpstreamTypes, CacheTypes, KnowsRelease, Step,
           GenOrNone, TagOrNone
  <2>4. EnvironmentTypes'
    BY <1>12 DEF SwapIn, EnvironmentTypes
  <2>5. HistoryTypes'
    BY <1>12 DEF SwapIn, HistoryTypes, DaemonTypes, KnowsRelease, Step, GenOrNone
  <2> QED
    BY <2>1, <2>2, <2>3, <2>4, <2>5
<1>13. CASE SwapFails
  <2>1. UpstreamTypes'
    BY <1>13 DEF SwapFails, FailRefresh, UpstreamTypes, GenOrNone
  <2>2. CacheTypes'
    BY <1>13
       DEF SwapFails, FailRefresh, CacheTypes, DaemonTypes, KnowsRelease, Step,
           DirState, GenOrNone, NoDirs
  <2>3. DaemonTypes'
    BY <1>13
       DEF SwapFails, FailRefresh, ResetLocals, DaemonTypes, UpstreamTypes, CacheTypes,
           KnowsRelease, Step, GenOrNone, TagOrNone
  <2>4. EnvironmentTypes'
    BY <1>13 DEF SwapFails, FailRefresh, FileError, EnvironmentTypes
  <2>5. HistoryTypes'
    BY <1>13
       DEF SwapFails, FailRefresh, HistoryTypes, DaemonTypes, KnowsRelease, Step,
           GenOrNone
  <2> QED
    BY <2>1, <2>2, <2>3, <2>4, <2>5
<1>14. CASE Restore
  <2>1. UpstreamTypes'
    BY <1>14 DEF Restore, FailRefresh, UpstreamTypes, GenOrNone
  <2>2. CacheTypes'
    BY <1>14
       DEF Restore, FailRefresh, CacheTypes, DaemonTypes, KnowsRelease, Step, DirState,
           GenOrNone, NoDirs
  <2>3. DaemonTypes'
    BY <1>14
       DEF Restore, FailRefresh, ResetLocals, DaemonTypes, UpstreamTypes, CacheTypes,
           KnowsRelease, Step, GenOrNone, TagOrNone
  <2>4. EnvironmentTypes'
    BY <1>14 DEF Restore, FailRefresh, FileError, EnvironmentTypes
  <2>5. HistoryTypes'
    BY <1>14
       DEF Restore, FailRefresh, HistoryTypes, DaemonTypes, KnowsRelease, Step,
           GenOrNone
  <2> QED
    BY <2>1, <2>2, <2>3, <2>4, <2>5
<1>15. CASE DiscardParked
  <2>1. UpstreamTypes'
    BY <1>15 DEF DiscardParked, UpstreamTypes, GenOrNone
  <2>2. CacheTypes'
    BY <1>15
       DEF DiscardParked, CacheTypes, DaemonTypes, KnowsRelease, Step, DirState,
           GenOrNone, NoDirs
  <2>3. DaemonTypes'
    BY <1>15
       DEF DiscardParked, DaemonTypes, UpstreamTypes, CacheTypes, KnowsRelease, Step,
           GenOrNone, TagOrNone
  <2>4. EnvironmentTypes'
    BY <1>15 DEF DiscardParked, FileError, EnvironmentTypes
  <2>5. HistoryTypes'
    BY <1>15 DEF DiscardParked, HistoryTypes, DaemonTypes, KnowsRelease, Step, GenOrNone
  <2> QED
    BY <2>1, <2>2, <2>3, <2>4, <2>5
<1>16. CASE ChmodDest
  <2>1. UpstreamTypes'
    BY <1>16 DEF ChmodDest, FailRefresh, UpstreamTypes, GenOrNone
  <2>2. CacheTypes'
    BY <1>16
       DEF ChmodDest, FailRefresh, CacheTypes, DaemonTypes, KnowsRelease, Step,
           DirState, GenOrNone, NoDirs
  <2>3. DaemonTypes'
    BY <1>16
       DEF ChmodDest, FailRefresh, ResetLocals, DaemonTypes, UpstreamTypes, CacheTypes,
           KnowsRelease, Step, GenOrNone, TagOrNone
  <2>4. EnvironmentTypes'
    BY <1>16 DEF ChmodDest, FailRefresh, FileError, EnvironmentTypes
  <2>5. HistoryTypes'
    BY <1>16
       DEF ChmodDest, FailRefresh, HistoryTypes, DaemonTypes, KnowsRelease, Step,
           GenOrNone
  <2> QED
    BY <2>1, <2>2, <2>3, <2>4, <2>5
<1>17. CASE Publish
  <2>1. UpstreamTypes'
    BY <1>17 DEF Publish, UpstreamTypes, GenOrNone
  <2>2. CacheTypes'
    BY <1>17
       DEF Publish, CacheTypes, DaemonTypes, KnowsRelease, Step, DirState, GenOrNone,
           NoDirs
  <2>3. DaemonTypes'
    BY <1>17
       DEF Publish, DaemonTypes, UpstreamTypes, CacheTypes, KnowsRelease, Step,
           GenOrNone, TagOrNone
  <2>4. EnvironmentTypes'
    BY <1>17 DEF Publish, EnvironmentTypes
  <2>5. HistoryTypes'
    BY <1>17 DEF Publish, Serve, HistoryTypes, DaemonTypes, KnowsRelease, Step, GenOrNone
  <2> QED
    BY <2>1, <2>2, <2>3, <2>4, <2>5
<1>18. CASE RecordState
  <2>1. UpstreamTypes'
    BY <1>18 DEF RecordState, UpstreamTypes, GenOrNone
  <2>2. CacheTypes'
    BY <1>18
       DEF RecordState, CacheTypes, DaemonTypes, KnowsRelease, Step, DirState,
           GenOrNone, NoDirs
  <2>3. DaemonTypes'
    BY <1>18
       DEF RecordState, DaemonTypes, UpstreamTypes, CacheTypes, KnowsRelease, Step,
           GenOrNone, TagOrNone
  <2>4. EnvironmentTypes'
    BY <1>18 DEF RecordState, FileError, EnvironmentTypes
  <2>5. HistoryTypes'
    BY <1>18 DEF RecordState, HistoryTypes, DaemonTypes, KnowsRelease, Step, GenOrNone
  <2> QED
    BY <2>1, <2>2, <2>3, <2>4, <2>5
<1>19. CASE Prune
  <2>1. UpstreamTypes'
    BY <1>19 DEF Prune, UpstreamTypes, GenOrNone
  <2>2. CacheTypes'
    BY <1>19
       DEF Prune, PruneStaging, RemoveStaging, Leftovers, FileError, PruneGenerations,
           CacheTypes, DaemonTypes, KnowsRelease, Step, DirState, GenOrNone, NoDirs
  <2>3. DaemonTypes'
    BY <1>19
       DEF Prune, ResetLocals, DaemonTypes, UpstreamTypes, CacheTypes, KnowsRelease,
           Step, GenOrNone, TagOrNone
  <2>4. EnvironmentTypes'
    BY <1>19, SweepFaults DEF Prune, PruneStaging, EnvironmentTypes
  <2>5. HistoryTypes'
    BY <1>19 DEF Prune, HistoryTypes, DaemonTypes, KnowsRelease, Step, GenOrNone
  <2> QED
    BY <2>1, <2>2, <2>3, <2>4, <2>5
<1>20. CASE Crash
  <2>1. UpstreamTypes'
    BY <1>20 DEF Crash, UpstreamTypes, GenOrNone
  <2>2. CacheTypes'
    BY <1>20
       DEF Crash, Staged, CacheTypes, DaemonTypes, KnowsRelease, Step, DirState,
           GenOrNone, NoDirs
  <2>3. DaemonTypes'
    BY <1>20
       DEF Crash, ResetLocals, DaemonTypes, UpstreamTypes, CacheTypes, KnowsRelease,
           Step, GenOrNone, TagOrNone
  <2>4. EnvironmentTypes'
    BY <1>20 DEF Crash, EnvironmentTypes
  <2>5. HistoryTypes'
    BY <1>20 DEF Crash, HistoryTypes, DaemonTypes, KnowsRelease, Step, GenOrNone
  <2> QED
    BY <2>1, <2>2, <2>3, <2>4, <2>5
<1>21. CASE Load
  <2>1. UpstreamTypes'
    BY <1>21 DEF Load, UpstreamTypes, GenOrNone
  <2>2. CacheTypes'
    BY <1>21
       DEF Load, PruneStaging, RemoveStaging, Leftovers, FileError, CacheTypes,
           DaemonTypes, KnowsRelease, Step, DirState, GenOrNone, NoDirs
  <2>3. DaemonTypes'
    BY <1>21
       DEF Load, Adopted, DaemonTypes, UpstreamTypes, CacheTypes, KnowsRelease, Step,
           GenOrNone, TagOrNone
  <2>4. EnvironmentTypes'
    BY <1>21, SweepFaults DEF Load, PruneStaging, EnvironmentTypes
  <2>5. HistoryTypes'
    BY <1>21
       DEF Load, Serve, Adopted, HistoryTypes, DaemonTypes, KnowsRelease, Step,
           GenOrNone
  <2> QED
    BY <2>1, <2>2, <2>3, <2>4, <2>5
<1>22. CASE UNCHANGED vars
  BY <1>22
     DEF vars, UpstreamTypes, CacheTypes, DaemonTypes, EnvironmentTypes, HistoryTypes
<1> QED
  BY <1>1, <1>2, <1>3, <1>4, <1>5, <1>6, <1>7, <1>8, <1>9, <1>10, <1>11, <1>12, <1>13,
     <1>14, <1>15, <1>16, <1>17, <1>18, <1>19, <1>20, <1>21, <1>22
     DEF Next, RefreshStep, Environment

(* The empty volume and the cold daemon are of their types.                *)
LEMMA TypeInit == Init => TypeOK
<1> SUFFICES ASSUME Init PROVE TypeOK
  OBVIOUS
<1>1. UpstreamTypes /\ HistoryTypes
  BY DEF Init, UpstreamTypes, HistoryTypes, GenOrNone
<1>2. CacheTypes
  BY DEF Init, CacheTypes, GenOrNone, DirState, NoDirs
<1>3. DaemonTypes
  BY DEF Init, DaemonTypes, GenOrNone, TagOrNone, Step, KnowsRelease
<1>4. EnvironmentTypes
  BY BoundsAssumption DEF Init, EnvironmentTypes
<1> QED
  BY <1>1, <1>2, <1>3, <1>4 DEF TypeOK

(* Type correctness of the mirror.                                         *)
THEOREM TypeCorrect == Spec => []TypeOK
BY TypeInit, TypeStep, PTL DEF Spec

-----------------------------------------------------------------------------
(* The published pointer is the last publication; a running daemon without *)
(* one starts a fresh history.                                             *)
PointerInv ==
  /\ current # None => current = served
  /\ pc # "down" /\ current = None => served = None /\ prior = None

(* previousDir is the pointer Refresh will replace, then the predecessor   *)
(* its own publication made.                                               *)
LocalsInv ==
  /\ pc \notin {"down", "idle", "record", "prune"} => previousDir = current
  /\ pc \in {"record", "prune"} =>
       /\ current = rel
       /\ previousDir = None => prior = None
       /\ previousDir \notin {None, rel} => prior = previousDir

(* Only a rendered manifest gets past the download.                        *)
VettedInv ==
  /\ pc \in KnowsRelease \ {"download"} => rel \in Renderable
  /\ served # None => served \in Renderable
  /\ stateFile # None => stateFile \in Renderable

(* What a swap has to put back is in the parking slot, and what it put in  *)
(* place is intact.                                                        *)
SwapInv ==
  /\ pc \in {"discard", "chmod", "publish"} => disk[rel] = "intact" \/ rel \in harmed
  /\ pc \in {"swap", "restore"} /\ rel \in {served, prior} =>
       rel \in harmed \/ (hadOld /\ parked[rel] = "intact")

IInv == TypeOK /\ PointerInv /\ LocalsInv /\ VettedInv /\ SwapInv /\ TwoGenerations

(* Whatever prune fails to remove, it leaves the generations it was told  *)
(* to keep alone.                                                          *)
LEMMA PruneKeeps ==
  ASSUME NEW keep \in SUBSET Gens, PruneGenerations(keep), NEW g \in keep
  PROVE  disk'[g] = disk[g]
BY DEF PruneGenerations, Leftovers

(* The invariant is inductive: one step per action, each part of IInv below. *)
LEMMA IInvStep == IInv /\ [Next]_vars => IInv'
<1> SUFFICES ASSUME IInv, [Next]_vars PROVE IInv'
  OBVIOUS
<1>t. TypeOK /\ TypeOK'
  BY TypeStep DEF IInv
<1> USE <1>t, GensAssumption
    DEF IInv, TypeOK, DaemonTypes, CacheTypes, KnowsRelease, Step, GenOrNone,
        upstreamVars, localVars, historyVars
<1>1. ASSUME NEW t \in Tags, CreateRelease(t) PROVE IInv'
  <2>1. PointerInv'
    BY <1>1 DEF CreateRelease, PointerInv, LocalsInv
  <2>2. LocalsInv'
    BY <1>1 DEF CreateRelease, LocalsInv, PointerInv
  <2>3. VettedInv'
    BY <1>1 DEF CreateRelease, VettedInv, LocalsInv, PointerInv
  <2>4. SwapInv'
    BY <1>1 DEF CreateRelease, SwapInv, TwoGenerations, Servable, InSwap, HistoryTypes
  <2>5. TwoGenerations'
    BY <1>1
       DEF CreateRelease, SwapInv, TwoGenerations, Servable, InSwap, LocalsInv,
           PointerInv, HistoryTypes
  <2> QED
    BY <2>1, <2>2, <2>3, <2>4, <2>5
<1>2. ASSUME NEW t \in Tags, ClobberAssets(t) PROVE IInv'
  <2>1. PointerInv'
    BY <1>2 DEF ClobberAssets, PointerInv, LocalsInv
  <2>2. LocalsInv'
    BY <1>2 DEF ClobberAssets, LocalsInv, PointerInv
  <2>3. VettedInv'
    BY <1>2 DEF ClobberAssets, VettedInv, LocalsInv, PointerInv
  <2>4. SwapInv'
    BY <1>2 DEF ClobberAssets, SwapInv, TwoGenerations, Servable, InSwap, HistoryTypes
  <2>5. TwoGenerations'
    BY <1>2
       DEF ClobberAssets, SwapInv, TwoGenerations, Servable, InSwap, LocalsInv,
           PointerInv, HistoryTypes
  <2> QED
    BY <2>1, <2>2, <2>3, <2>4, <2>5
<1>3. ASSUME NEW g \in Gens, UploadAssets(g) PROVE IInv'
  <2>1. PointerInv'
    BY <1>3 DEF UploadAssets, PointerInv, LocalsInv
  <2>2. LocalsInv'
    BY <1>3 DEF UploadAssets, LocalsInv, PointerInv
  <2>3. VettedInv'
    BY <1>3 DEF UploadAssets, VettedInv, LocalsInv, PointerInv
  <2>4. SwapInv'
    BY <1>3 DEF UploadAssets, SwapInv, TwoGenerations, Servable, InSwap, HistoryTypes
  <2>5. TwoGenerations'
    BY <1>3
       DEF UploadAssets, SwapInv, TwoGenerations, Servable, InSwap, LocalsInv,
           PointerInv, HistoryTypes
  <2> QED
    BY <2>1, <2>2, <2>3, <2>4, <2>5
<1>4. ASSUME NEW g \in Gens, DamageFile(g) PROVE IInv'
  <2>1. PointerInv'
    BY <1>4 DEF DamageFile, PointerInv, LocalsInv
  <2>2. LocalsInv'
    BY <1>4 DEF DamageFile, LocalsInv, PointerInv
  <2>3. VettedInv'
    BY <1>4 DEF DamageFile, VettedInv, LocalsInv, PointerInv
  <2>4. SwapInv'
    BY <1>4 DEF DamageFile, SwapInv, TwoGenerations, Servable, InSwap, HistoryTypes
  <2>5. TwoGenerations'
    BY <1>4
       DEF DamageFile, SwapInv, TwoGenerations, Servable, InSwap, LocalsInv, PointerInv,
           HistoryTypes
  <2> QED
    BY <2>1, <2>2, <2>3, <2>4, <2>5
<1>5. CASE BeginRefresh
  <2>1. PointerInv'
    BY <1>5 DEF BeginRefresh, PointerInv, LocalsInv
  <2>2. LocalsInv'
    BY <1>5 DEF BeginRefresh, LocalsInv, PointerInv
  <2>3. VettedInv'
    BY <1>5 DEF BeginRefresh, VettedInv, LocalsInv, PointerInv
  <2>4. SwapInv'
    BY <1>5 DEF BeginRefresh, SwapInv, TwoGenerations, Servable, InSwap, HistoryTypes
  <2>5. TwoGenerations'
    BY <1>5
       DEF BeginRefresh, SwapInv, TwoGenerations, Servable, InSwap, LocalsInv,
           PointerInv, HistoryTypes
  <2> QED
    BY <2>1, <2>2, <2>3, <2>4, <2>5
<1>6. CASE CompareSameTag
  <2>1. PointerInv'
    BY <1>6 DEF CompareSameTag, PruneStaging, ResetLocals, PointerInv, LocalsInv
  <2>2. LocalsInv'
    BY <1>6 DEF CompareSameTag, PruneStaging, ResetLocals, LocalsInv, PointerInv
  <2>3. VettedInv'
    BY <1>6
       DEF CompareSameTag, PruneStaging, ResetLocals, VettedInv, LocalsInv, PointerInv
  <2>4. SwapInv'
    BY <1>6
       DEF CompareSameTag, PruneStaging, ResetLocals, SwapInv, TwoGenerations, Servable,
           InSwap, HistoryTypes
  <2>5. TwoGenerations'
    BY <1>6
       DEF CompareSameTag, PruneStaging, ResetLocals, SwapInv, TwoGenerations, Servable,
           InSwap, LocalsInv, PointerInv, HistoryTypes
  <2> QED
    BY <2>1, <2>2, <2>3, <2>4, <2>5
<1>7. CASE FetchChecksums
  <2>1. PointerInv'
    BY <1>7 DEF FetchChecksums, PointerInv, LocalsInv
  <2>2. LocalsInv'
    BY <1>7 DEF FetchChecksums, LocalsInv, PointerInv
  <2>3. VettedInv'
    BY <1>7 DEF FetchChecksums, VettedInv, LocalsInv, PointerInv
  <2>4. SwapInv'
    BY <1>7 DEF FetchChecksums, SwapInv, TwoGenerations, Servable, InSwap, HistoryTypes
  <2>5. TwoGenerations'
    BY <1>7
       DEF FetchChecksums, SwapInv, TwoGenerations, Servable, InSwap, LocalsInv,
           PointerInv, HistoryTypes
  <2> QED
    BY <2>1, <2>2, <2>3, <2>4, <2>5
<1>8. CASE DownloadAndVerify
  <2>1. PointerInv'
    BY <1>8 DEF DownloadAndVerify, Downloaded, PointerInv, LocalsInv
  <2>2. LocalsInv'
    BY <1>8 DEF DownloadAndVerify, Downloaded, LocalsInv, PointerInv
  <2>3. VettedInv'
    BY <1>8 DEF DownloadAndVerify, Downloaded, VettedInv, LocalsInv, PointerInv
  <2>4. SwapInv'
    BY <1>8
       DEF DownloadAndVerify, Downloaded, SwapInv, TwoGenerations, Servable, InSwap,
           HistoryTypes
  <2>5. TwoGenerations'
    BY <1>8
       DEF DownloadAndVerify, Downloaded, SwapInv, TwoGenerations, Servable, InSwap,
           LocalsInv, PointerInv, HistoryTypes
  <2> QED
    BY <2>1, <2>2, <2>3, <2>4, <2>5
<1>9. CASE AbandonDownload
  <2>1. PointerInv'
    BY <1>9 DEF AbandonDownload, FailRefresh, ResetLocals, PointerInv, LocalsInv
  <2>2. LocalsInv'
    BY <1>9 DEF AbandonDownload, FailRefresh, ResetLocals, LocalsInv, PointerInv
  <2>3. VettedInv'
    BY <1>9
       DEF AbandonDownload, FailRefresh, ResetLocals, VettedInv, LocalsInv, PointerInv
  <2>4. SwapInv'
    BY <1>9
       DEF AbandonDownload, FailRefresh, ResetLocals, SwapInv, TwoGenerations, Servable,
           InSwap, HistoryTypes
  <2>5. TwoGenerations'
    BY <1>9
       DEF AbandonDownload, FailRefresh, ResetLocals, SwapInv, TwoGenerations, Servable,
           InSwap, LocalsInv, PointerInv, HistoryTypes
  <2> QED
    BY <2>1, <2>2, <2>3, <2>4, <2>5
<1>10. CASE ClearParkingSlot
  <2>1. PointerInv'
    BY <1>10 DEF ClearParkingSlot, FailRefresh, ResetLocals, PointerInv, LocalsInv
  <2>2. LocalsInv'
    BY <1>10 DEF ClearParkingSlot, FailRefresh, ResetLocals, LocalsInv, PointerInv
  <2>3. VettedInv'
    BY <1>10
       DEF ClearParkingSlot, FailRefresh, ResetLocals, VettedInv, LocalsInv, PointerInv
  <2>4. SwapInv'
    BY <1>10
       DEF ClearParkingSlot, FailRefresh, ResetLocals, SwapInv, TwoGenerations,
           Servable, InSwap, HistoryTypes
  <2>5. TwoGenerations'
    BY <1>10
       DEF ClearParkingSlot, FailRefresh, ResetLocals, SwapInv, TwoGenerations,
           Servable, InSwap, LocalsInv, PointerInv, HistoryTypes
  <2> QED
    BY <2>1, <2>2, <2>3, <2>4, <2>5
<1>11. CASE SetAside
  <2>1. PointerInv'
    BY <1>11 DEF SetAside, FailRefresh, ResetLocals, PointerInv, LocalsInv
  <2>2. LocalsInv'
    BY <1>11 DEF SetAside, FailRefresh, ResetLocals, LocalsInv, PointerInv
  <2>3. VettedInv'
    BY <1>11 DEF SetAside, FailRefresh, ResetLocals, VettedInv, LocalsInv, PointerInv
  <2>4. SwapInv'
    BY <1>11
       DEF SetAside, FailRefresh, ResetLocals, SwapInv, TwoGenerations, Servable,
           InSwap, HistoryTypes
  <2>5. TwoGenerations'
    BY <1>11
       DEF SetAside, FailRefresh, ResetLocals, SwapInv, TwoGenerations, Servable,
           InSwap, LocalsInv, PointerInv, HistoryTypes
  <2> QED
    BY <2>1, <2>2, <2>3, <2>4, <2>5
<1>12. CASE SwapIn
  <2>1. PointerInv'
    BY <1>12 DEF SwapIn, PointerInv, LocalsInv
  <2>2. LocalsInv'
    BY <1>12 DEF SwapIn, LocalsInv, PointerInv
  <2>3. VettedInv'
    BY <1>12 DEF SwapIn, VettedInv, LocalsInv, PointerInv
  <2>4. SwapInv'
    BY <1>12 DEF SwapIn, SwapInv, TwoGenerations, Servable, InSwap, HistoryTypes
  <2>5. TwoGenerations'
    BY <1>12
       DEF SwapIn, SwapInv, TwoGenerations, Servable, InSwap, LocalsInv, PointerInv,
           HistoryTypes
  <2> QED
    BY <2>1, <2>2, <2>3, <2>4, <2>5
<1>13. CASE SwapFails
  <2>1. PointerInv'
    BY <1>13 DEF SwapFails, FailRefresh, ResetLocals, PointerInv, LocalsInv
  <2>2. LocalsInv'
    BY <1>13 DEF SwapFails, FailRefresh, ResetLocals, LocalsInv, PointerInv
  <2>3. VettedInv'
    BY <1>13 DEF SwapFails, FailRefresh, ResetLocals, VettedInv, LocalsInv, PointerInv
  <2>4. SwapInv'
    BY <1>13
       DEF SwapFails, FailRefresh, ResetLocals, SwapInv, TwoGenerations, Servable,
           InSwap, HistoryTypes
  <2>5. TwoGenerations'
    BY <1>13
       DEF SwapFails, FailRefresh, ResetLocals, SwapInv, TwoGenerations, Servable,
           InSwap, LocalsInv, PointerInv, HistoryTypes
  <2> QED
    BY <2>1, <2>2, <2>3, <2>4, <2>5
<1>14. CASE Restore
  <2>1. PointerInv'
    BY <1>14 DEF Restore, FailRefresh, ResetLocals, PointerInv, LocalsInv
  <2>2. LocalsInv'
    BY <1>14 DEF Restore, FailRefresh, ResetLocals, LocalsInv, PointerInv
  <2>3. VettedInv'
    BY <1>14 DEF Restore, FailRefresh, ResetLocals, VettedInv, LocalsInv, PointerInv
  <2>4. SwapInv'
    BY <1>14
       DEF Restore, FailRefresh, ResetLocals, SwapInv, TwoGenerations, Servable, InSwap,
           HistoryTypes
  <2>5. TwoGenerations'
    BY <1>14
       DEF Restore, FailRefresh, ResetLocals, SwapInv, TwoGenerations, Servable, InSwap,
           LocalsInv, PointerInv, HistoryTypes
  <2> QED
    BY <2>1, <2>2, <2>3, <2>4, <2>5
<1>15. CASE DiscardParked
  <2>1. PointerInv'
    BY <1>15 DEF DiscardParked, PointerInv, LocalsInv
  <2>2. LocalsInv'
    BY <1>15 DEF DiscardParked, LocalsInv, PointerInv
  <2>3. VettedInv'
    BY <1>15 DEF DiscardParked, VettedInv, LocalsInv, PointerInv
  <2>4. SwapInv'
    BY <1>15 DEF DiscardParked, SwapInv, TwoGenerations, Servable, InSwap, HistoryTypes
  <2>5. TwoGenerations'
    BY <1>15
       DEF DiscardParked, SwapInv, TwoGenerations, Servable, InSwap, LocalsInv,
           PointerInv, HistoryTypes
  <2> QED
    BY <2>1, <2>2, <2>3, <2>4, <2>5
<1>16. CASE ChmodDest
  <2>1. PointerInv'
    BY <1>16 DEF ChmodDest, FailRefresh, ResetLocals, PointerInv, LocalsInv
  <2>2. LocalsInv'
    BY <1>16 DEF ChmodDest, FailRefresh, ResetLocals, LocalsInv, PointerInv
  <2>3. VettedInv'
    BY <1>16 DEF ChmodDest, FailRefresh, ResetLocals, VettedInv, LocalsInv, PointerInv
  <2>4. SwapInv'
    BY <1>16
       DEF ChmodDest, FailRefresh, ResetLocals, SwapInv, TwoGenerations, Servable,
           InSwap, HistoryTypes
  <2>5. TwoGenerations'
    BY <1>16
       DEF ChmodDest, FailRefresh, ResetLocals, SwapInv, TwoGenerations, Servable,
           InSwap, LocalsInv, PointerInv, HistoryTypes
  <2> QED
    BY <2>1, <2>2, <2>3, <2>4, <2>5
<1>17. CASE Publish
  <2>1. PointerInv'
    BY <1>17 DEF Publish, Serve, PointerInv, LocalsInv
  <2>2. LocalsInv'
    BY <1>17 DEF Publish, Serve, LocalsInv, PointerInv
  <2>3. VettedInv'
    BY <1>17 DEF Publish, Serve, VettedInv, LocalsInv, PointerInv
  <2>4. SwapInv'
    BY <1>17 DEF Publish, Serve, SwapInv, TwoGenerations, Servable, InSwap, HistoryTypes
  <2>5. TwoGenerations'
    BY <1>17
       DEF Publish, Serve, SwapInv, TwoGenerations, Servable, InSwap, LocalsInv,
           PointerInv, HistoryTypes
  <2> QED
    BY <2>1, <2>2, <2>3, <2>4, <2>5
<1>18. CASE RecordState
  <2>1. PointerInv'
    BY <1>18 DEF RecordState, PointerInv, LocalsInv
  <2>2. LocalsInv'
    BY <1>18 DEF RecordState, LocalsInv, PointerInv
  <2>3. VettedInv'
    BY <1>18 DEF RecordState, VettedInv, LocalsInv, PointerInv
  <2>4. SwapInv'
    BY <1>18 DEF RecordState, SwapInv, TwoGenerations, Servable, InSwap, HistoryTypes
  <2>5. TwoGenerations'
    BY <1>18
       DEF RecordState, SwapInv, TwoGenerations, Servable, InSwap, LocalsInv,
           PointerInv, HistoryTypes
  <2> QED
    BY <2>1, <2>2, <2>3, <2>4, <2>5
<1>19. CASE Prune
  <2>1. PointerInv'
    BY <1>19 DEF Prune, PruneStaging, ResetLocals, Survivors, PointerInv, LocalsInv
  <2>2. LocalsInv'
    BY <1>19 DEF Prune, PruneStaging, ResetLocals, Survivors, LocalsInv, PointerInv
  <2>3. VettedInv'
    BY <1>19
       DEF Prune, PruneStaging, ResetLocals, Survivors, VettedInv, LocalsInv, PointerInv
  <2>4. SwapInv'
    BY <1>19
       DEF Prune, PruneStaging, ResetLocals, Survivors, SwapInv, TwoGenerations,
           Servable, InSwap, HistoryTypes
  <2>5. TwoGenerations'
    BY <1>19, PruneKeeps
       DEF Prune, PruneStaging, ResetLocals, Survivors, SwapInv, TwoGenerations,
           Servable, InSwap, LocalsInv, PointerInv, HistoryTypes
  <2> QED
    BY <2>1, <2>2, <2>3, <2>4, <2>5
<1>20. CASE Crash
  <2>1. PointerInv'
    BY <1>20 DEF Crash, ResetLocals, PointerInv, LocalsInv
  <2>2. LocalsInv'
    BY <1>20 DEF Crash, ResetLocals, LocalsInv, PointerInv
  <2>3. VettedInv'
    BY <1>20 DEF Crash, ResetLocals, VettedInv, LocalsInv, PointerInv
  <2>4. SwapInv'
    BY <1>20
       DEF Crash, ResetLocals, SwapInv, TwoGenerations, Servable, InSwap, HistoryTypes
  <2>5. TwoGenerations'
    BY <1>20
       DEF Crash, ResetLocals, SwapInv, TwoGenerations, Servable, InSwap, LocalsInv,
           PointerInv, HistoryTypes
  <2> QED
    BY <2>1, <2>2, <2>3, <2>4, <2>5
<1>21. CASE Load
  <2>1. PointerInv'
    BY <1>21 DEF Load, PruneStaging, Serve, Adopted, PointerInv, LocalsInv
  <2>2. LocalsInv'
    BY <1>21 DEF Load, PruneStaging, Serve, Adopted, LocalsInv, PointerInv
  <2>3. VettedInv'
    BY <1>21 DEF Load, PruneStaging, Serve, Adopted, VettedInv, LocalsInv, PointerInv
  <2>4. SwapInv'
    BY <1>21
       DEF Load, PruneStaging, Serve, Adopted, SwapInv, TwoGenerations, Servable,
           InSwap, HistoryTypes
  <2>5. TwoGenerations'
    BY <1>21
       DEF Load, PruneStaging, Serve, Adopted, SwapInv, TwoGenerations, Servable,
           InSwap, LocalsInv, PointerInv, HistoryTypes
  <2> QED
    BY <2>1, <2>2, <2>3, <2>4, <2>5
<1>22. CASE UNCHANGED vars
  BY <1>22
     DEF vars, PointerInv, LocalsInv, VettedInv, SwapInv, TwoGenerations, Servable,
         InSwap, KnowsRelease
<1> QED
  BY <1>1, <1>2, <1>3, <1>4, <1>5, <1>6, <1>7, <1>8, <1>9, <1>10, <1>11, <1>12, <1>13,
     <1>14, <1>15, <1>16, <1>17, <1>18, <1>19, <1>20, <1>21, <1>22
     DEF Next, RefreshStep, Environment

(* The strengthening holds at first and every step of Next keeps it.       *)
LEMMA IInvariance == Spec => []IInv
<1>1. Init => IInv
  <2> SUFFICES ASSUME Init PROVE IInv
    OBVIOUS
  <2>1. TypeOK
    BY TypeInit
  <2> QED
    BY <2>1
       DEF Init, IInv, PointerInv, LocalsInv, VettedInv, SwapInv, TwoGenerations,
           KnowsRelease
<1>2. QED
  BY <1>1, IInvStep, PTL DEF Spec

(* The manifest is never advertised for a generation that was not vetted   *)
(* or whose bytes are not on disk, whatever fails and wherever the process *)
(* is killed.                                                              *)
THEOREM OrderingHolds == Spec => []OrderingInvariant
<1>1. IInv => OrderingInvariant
  BY DEF IInv, TwoGenerations, PointerInv, VettedInv, OrderingInvariant
<1>2. QED
  BY <1>1, IInvariance, PTL

(* The last publication and the one it replaced stay on disk.              *)
THEOREM TwoGenerationsHold == Spec => []TwoGenerations
<1>1. IInv => TwoGenerations
  BY DEF IInv
<1>2. QED
  BY <1>1, IInvariance, PTL

-----------------------------------------------------------------------------
(* state.json: until an operation fails it names the published generation, *)
(* or one that came to harm and is being downloaded again; after the first *)
(* failure it is at worst one publication behind, which prune spares.      *)
RecordInv ==
  /\ faults = 0 /\ pc \notin {"down", "record", "prune"} =>
       \/ stateFile \in {None, current} \cup harmed
       \/ pc \in {"discard", "chmod", "publish"} /\ rel = stateFile
  /\ faults = 0 /\ pc = "record" => stateFile \in {None, rel, previousDir} \cup harmed
  /\ faults = 0 /\ pc = "prune" => stateFile = rel
  /\ faults <= 1 /\ pc = "prune" => stateFile \in {None, rel, previousDir} \cup harmed
  /\ faults <= 1 /\ pc \in {"swap", "restore"} /\ rel = stateFile =>
       rel \in harmed \/ (hadOld /\ parked[rel] = "intact")

(* With at most one failed operation, no step loses what state.json names. *)
LEMMA RecordStep ==
  IInv /\ IInv' /\ RecordInv /\ RecordedIsCached /\ [Next]_vars
    => RecordInv' /\ RecordedIsCached'
<1> SUFFICES ASSUME IInv, IInv', RecordInv, RecordedIsCached, [Next]_vars
             PROVE  RecordInv' /\ RecordedIsCached'
  OBVIOUS
<1>t. faults \in Nat /\ faults' \in Nat
  BY BoundsAssumption DEF IInv, TypeOK, EnvironmentTypes
<1> USE <1>t, GensAssumption
    DEF IInv, TypeOK, DaemonTypes, CacheTypes, KnowsRelease, Step, GenOrNone,
        upstreamVars, localVars, historyVars
<1>1. ASSUME NEW t \in Tags, CreateRelease(t) PROVE RecordInv' /\ RecordedIsCached'
  <2>1. RecordInv'
    BY <1>1 DEF CreateRelease, RecordInv, RecordedIsCached, Servable, InSwap, LocalsInv
  <2>2. RecordedIsCached'
    BY <1>1 DEF CreateRelease, RecordInv, RecordedIsCached, Servable, InSwap
  <2> QED
    BY <2>1, <2>2
<1>2. ASSUME NEW t \in Tags, ClobberAssets(t) PROVE RecordInv' /\ RecordedIsCached'
  <2>1. RecordInv'
    BY <1>2 DEF ClobberAssets, RecordInv, RecordedIsCached, Servable, InSwap, LocalsInv
  <2>2. RecordedIsCached'
    BY <1>2 DEF ClobberAssets, RecordInv, RecordedIsCached, Servable, InSwap
  <2> QED
    BY <2>1, <2>2
<1>3. ASSUME NEW g \in Gens, UploadAssets(g) PROVE RecordInv' /\ RecordedIsCached'
  <2>1. RecordInv'
    BY <1>3 DEF UploadAssets, RecordInv, RecordedIsCached, Servable, InSwap, LocalsInv
  <2>2. RecordedIsCached'
    BY <1>3 DEF UploadAssets, RecordInv, RecordedIsCached, Servable, InSwap
  <2> QED
    BY <2>1, <2>2
<1>4. ASSUME NEW g \in Gens, DamageFile(g) PROVE RecordInv' /\ RecordedIsCached'
  <2>1. RecordInv'
    BY <1>4 DEF DamageFile, RecordInv, RecordedIsCached, Servable, InSwap, LocalsInv
  <2>2. RecordedIsCached'
    BY <1>4 DEF DamageFile, RecordInv, RecordedIsCached, Servable, InSwap
  <2> QED
    BY <2>1, <2>2
<1>5. CASE BeginRefresh
  <2>1. RecordInv'
    BY <1>5 DEF BeginRefresh, RecordInv, RecordedIsCached, Servable, InSwap, LocalsInv
  <2>2. RecordedIsCached'
    BY <1>5 DEF BeginRefresh, RecordInv, RecordedIsCached, Servable, InSwap
  <2> QED
    BY <2>1, <2>2
<1>6. CASE CompareSameTag
  <2>1. RecordInv'
    BY <1>6, SweepFaultsGrow
       DEF CompareSameTag, PruneStaging, ResetLocals, RecordInv, RecordedIsCached,
           Servable, InSwap, LocalsInv
  <2>2. RecordedIsCached'
    BY <1>6, SweepFaultsGrow
       DEF CompareSameTag, PruneStaging, ResetLocals, RecordInv, RecordedIsCached,
           Servable, InSwap
  <2> QED
    BY <2>1, <2>2
<1>7. CASE FetchChecksums
  <2>1. RecordInv'
    BY <1>7 DEF FetchChecksums, RecordInv, RecordedIsCached, Servable, InSwap, LocalsInv
  <2>2. RecordedIsCached'
    BY <1>7 DEF FetchChecksums, RecordInv, RecordedIsCached, Servable, InSwap
  <2> QED
    BY <2>1, <2>2
<1>8. CASE DownloadAndVerify
  <2>1. RecordInv'
    BY <1>8
       DEF DownloadAndVerify, RecordInv, RecordedIsCached, Servable, InSwap, LocalsInv
  <2>2. RecordedIsCached'
    BY <1>8 DEF DownloadAndVerify, RecordInv, RecordedIsCached, Servable, InSwap
  <2> QED
    BY <2>1, <2>2
<1>9. CASE AbandonDownload
  <2>1. RecordInv'
    BY <1>9
       DEF AbandonDownload, FailRefresh, ResetLocals, RecordInv, RecordedIsCached,
           Servable, InSwap, LocalsInv
  <2>2. RecordedIsCached'
    BY <1>9
       DEF AbandonDownload, FailRefresh, ResetLocals, RecordInv, RecordedIsCached,
           Servable, InSwap
  <2> QED
    BY <2>1, <2>2
<1>10. CASE ClearParkingSlot
  <2>1. RecordInv'
    BY <1>10
       DEF ClearParkingSlot, FailRefresh, ResetLocals, RecordInv, RecordedIsCached,
           Servable, InSwap, LocalsInv
  <2>2. RecordedIsCached'
    BY <1>10
       DEF ClearParkingSlot, FailRefresh, ResetLocals, RecordInv, RecordedIsCached,
           Servable, InSwap
  <2> QED
    BY <2>1, <2>2
<1>11. CASE SetAside
  <2>1. RecordInv'
    BY <1>11
       DEF SetAside, FailRefresh, ResetLocals, RecordInv, RecordedIsCached, Servable,
           InSwap, LocalsInv
  <2>2. RecordedIsCached'
    BY <1>11
       DEF SetAside, FailRefresh, ResetLocals, RecordInv, RecordedIsCached, Servable,
           InSwap
  <2> QED
    BY <2>1, <2>2
<1>12. CASE SwapIn
  <2>1. RecordInv'
    BY <1>12 DEF SwapIn, RecordInv, RecordedIsCached, Servable, InSwap, LocalsInv
  <2>2. RecordedIsCached'
    BY <1>12 DEF SwapIn, RecordInv, RecordedIsCached, Servable, InSwap
  <2> QED
    BY <2>1, <2>2
<1>13. CASE SwapFails
  <2>1. RecordInv'
    BY <1>13
       DEF SwapFails, FailRefresh, ResetLocals, RecordInv, RecordedIsCached, Servable,
           InSwap, LocalsInv
  <2>2. RecordedIsCached'
    BY <1>13
       DEF SwapFails, FailRefresh, ResetLocals, RecordInv, RecordedIsCached, Servable,
           InSwap
  <2> QED
    BY <2>1, <2>2
<1>14. CASE Restore
  <2>1. RecordInv'
    BY <1>14
       DEF Restore, FailRefresh, ResetLocals, RecordInv, RecordedIsCached, Servable,
           InSwap, LocalsInv
  <2>2. RecordedIsCached'
    BY <1>14
       DEF Restore, FailRefresh, ResetLocals, RecordInv, RecordedIsCached, Servable,
           InSwap
  <2> QED
    BY <2>1, <2>2
<1>15. CASE DiscardParked
  <2>1. RecordInv'
    BY <1>15 DEF DiscardParked, RecordInv, RecordedIsCached, Servable, InSwap, LocalsInv
  <2>2. RecordedIsCached'
    BY <1>15 DEF DiscardParked, RecordInv, RecordedIsCached, Servable, InSwap
  <2> QED
    BY <2>1, <2>2
<1>16. CASE ChmodDest
  <2>1. RecordInv'
    BY <1>16
       DEF ChmodDest, FailRefresh, ResetLocals, RecordInv, RecordedIsCached, Servable,
           InSwap, LocalsInv
  <2>2. RecordedIsCached'
    BY <1>16
       DEF ChmodDest, FailRefresh, ResetLocals, RecordInv, RecordedIsCached, Servable,
           InSwap
  <2> QED
    BY <2>1, <2>2
<1>17. CASE Publish
  <2>1. RecordInv'
    BY <1>17 DEF Publish, RecordInv, RecordedIsCached, Servable, InSwap, LocalsInv
  <2>2. RecordedIsCached'
    BY <1>17 DEF Publish, RecordInv, RecordedIsCached, Servable, InSwap
  <2> QED
    BY <2>1, <2>2
<1>18. CASE RecordState
  <2>1. RecordInv'
    BY <1>18 DEF RecordState, RecordInv, RecordedIsCached, Servable, InSwap, LocalsInv
  <2>2. RecordedIsCached'
    BY <1>18
       DEF RecordState, RecordInv, RecordedIsCached, Servable, InSwap, TwoGenerations,
           PointerInv, LocalsInv
  <2> QED
    BY <2>1, <2>2
<1>19. CASE Prune
  <2>1. RecordInv'
    BY <1>19, SweepFaultsGrow
       DEF Prune, PruneStaging, ResetLocals, Survivors, RecordInv, RecordedIsCached,
           Servable, InSwap, LocalsInv
  <2>2. RecordedIsCached'
    BY <1>19, SweepFaultsGrow, PruneKeeps
       DEF Prune, PruneStaging, ResetLocals, Survivors, RecordInv, RecordedIsCached,
           Servable, InSwap
  <2> QED
    BY <2>1, <2>2
<1>20. CASE Crash
  <2>1. RecordInv'
    BY <1>20
       DEF Crash, ResetLocals, RecordInv, RecordedIsCached, Servable, InSwap, LocalsInv
  <2>2. RecordedIsCached'
    BY <1>20 DEF Crash, ResetLocals, RecordInv, RecordedIsCached, Servable, InSwap
  <2> QED
    BY <2>1, <2>2
<1>21. CASE Load
  <2>1. RecordInv'
    BY <1>21, SweepFaultsGrow
       DEF Load, PruneStaging, Adopted, RecordInv, RecordedIsCached, Servable, InSwap,
           LocalsInv
  <2>2. RecordedIsCached'
    BY <1>21, SweepFaultsGrow
       DEF Load, PruneStaging, Adopted, RecordInv, RecordedIsCached, Servable, InSwap
  <2> QED
    BY <2>1, <2>2
<1>22. CASE UNCHANGED vars
  BY <1>22 DEF vars, RecordInv, RecordedIsCached, Servable, InSwap
<1> QED
  BY <1>1, <1>2, <1>3, <1>4, <1>5, <1>6, <1>7, <1>8, <1>9, <1>10, <1>11, <1>12, <1>13,
     <1>14, <1>15, <1>16, <1>17, <1>18, <1>19, <1>20, <1>21, <1>22
     DEF Next, RefreshStep, Environment

(* With at most one failed file operation, a restart always finds the      *)
(* generation state.json names.                                            *)
THEOREM RecordedIsCachedHolds == Spec => []RecordedIsCached
<1>1. Init => RecordInv /\ RecordedIsCached
  BY DEF Init, RecordInv, RecordedIsCached
<1>2. QED
  BY <1>1, IInvariance, RecordStep, PTL DEF Spec

-----------------------------------------------------------------------------
(* Until a removal fails there is nothing in staging but what the refresh  *)
(* under way put there, and the one directory it set aside.                *)
StagingInv ==
  faults = 0 /\ pc # "down" =>
    /\ ~litter
    /\ \A g \in Gens :
         \/ parked[g] = "absent"
         \/ g = rel /\ hadOld /\ pc \in {"swap", "restore", "discard"}

(* A refresh that fails leaves its staging behind only if the removal of   *)
(* it fails as well.                                                       *)
LEMMA FailLeavesNoStaging ==
  ASSUME faults \in Nat, NEW used \in Nat, FailRefresh(used), faults' = 0
  PROVE  used = 0 /\ faults = 0 /\ litter' = litter /\ pc' = "idle"
BY DEF FailRefresh

(* A sweep that succeeds leaves no staging directory.                      *)
LEMMA SweepLeavesNoStaging ==
  ASSUME faults \in Nat, faults' = 0, NEW keep, RemoveStaging \/ PruneGenerations(keep)
  PROVE  litter' = FALSE /\ parked' = NoDirs
<1>1. (litter' = FALSE /\ parked' = NoDirs) \/ faults' = faults + 1
  BY Zenon DEF RemoveStaging, PruneGenerations
<1> QED
  BY <1>1

(* Every step keeps what is known of staging and parked directories.       *)
LEMMA StagingStep == TypeOK /\ StagingInv /\ [Next]_vars => StagingInv'
<1> SUFFICES ASSUME TypeOK, StagingInv, [Next]_vars, faults' = 0, pc' # "down"
             PROVE  /\ ~litter'
                    /\ \A g \in Gens :
                         \/ parked'[g] = "absent"
                         \/ g = rel' /\ hadOld' /\ pc' \in {"swap", "restore", "discard"}
  BY DEF StagingInv
<1>t. faults \in Nat /\ parked \in [Gens -> DirState]
  BY BoundsAssumption DEF TypeOK, EnvironmentTypes, CacheTypes
<1>1. ASSUME UNCHANGED <<parked, litter, faults, pc, rel, hadOld>> PROVE StagingInv'
  BY <1>1 DEF StagingInv
<1>2. ASSUME NEW keep, RemoveStaging \/ PruneGenerations(keep) PROVE StagingInv'
  BY <1>t, <1>2, SweepLeavesNoStaging DEF StagingInv, NoDirs
<1>3. ASSUME NEW used \in Nat, FailRefresh(used), UNCHANGED parked,
             pc \notin {"down", "swap", "restore", "discard"} \/ used = 1
      PROVE  StagingInv'
  BY <1>t, <1>3, FailLeavesNoStaging DEF StagingInv, Step
<1>4. ASSUME UNCHANGED <<parked, litter, faults>>, pc # "down",
             pc \notin {"swap", "restore", "discard"} \/ (pc' \in {"swap", "restore", "discard"}
                                                         /\ UNCHANGED <<rel, hadOld>>)
      PROVE  StagingInv'
  BY <1>4 DEF StagingInv
<1>5. CASE Environment \/ UNCHANGED vars
  BY <1>1, <1>5 DEF Environment, CreateRelease, ClobberAssets, UploadAssets, DamageFile,
     vars, upstreamVars, localVars, StagingInv
<1>6. CASE BeginRefresh \/ FetchChecksums \/ DownloadAndVerify
  BY <1>4, <1>6 DEF BeginRefresh, FetchChecksums, DownloadAndVerify, StagingInv
<1>7. CASE CompareSameTag
  BY <1>2, <1>4, <1>7 DEF CompareSameTag, PruneStaging, StagingInv
<1>8. CASE AbandonDownload
  BY <1>3, <1>8 DEF AbandonDownload, StagingInv
<1>9. CASE ClearParkingSlot
  <2>1. CASE /\ parked' = [parked EXCEPT ![rel] = "absent"] /\ pc' = "setaside"
             /\ UNCHANGED <<litter, faults, localVars>>
    BY <1>t, <1>9, <2>1 DEF ClearParkingSlot, StagingInv
  <2> QED
    BY <1>3, <1>9, <2>1 DEF ClearParkingSlot, StagingInv
<1>10. CASE SetAside
  <2>1. CASE pc' = "swap" /\ UNCHANGED <<litter, faults, rel>>
    <3>1. pc = "setaside" /\ faults = 0
      BY <1>10, <2>1 DEF SetAside
    <3>2. ~litter /\ \A g \in Gens : parked[g] = "absent"
      BY <3>1 DEF StagingInv
    <3>3. \A g \in Gens : parked'[g] = "absent" \/ (g = rel /\ hadOld')
      <4>1. CASE UNCHANGED parked
        BY <3>2, <4>1
      <4>2. CASE parked' = [parked EXCEPT ![rel] = disk[rel]] /\ hadOld' = TRUE
        BY <1>t, <3>2, <4>2
      <4> QED
        BY <1>10, <2>1, <4>1, <4>2, <1>t DEF SetAside, FailRefresh
    <3> QED
      BY <2>1, <3>2, <3>3
  <2> QED
    BY <1>3, <1>10, <2>1 DEF SetAside, StagingInv
<1>11. CASE SwapIn
  BY <1>4, <1>11 DEF SwapIn, localVars, StagingInv
<1>12. CASE SwapFails
  <2>1. faults' # 0
    BY <1>t, <1>12, FailLeavesNoStaging DEF SwapFails
  <2> QED
    BY <2>1
<1>13. CASE Restore
  <2>1. CASE parked' = [parked EXCEPT ![rel] = "absent"] /\ FailRefresh(0)
    BY <1>t, <1>13, <2>1, FailLeavesNoStaging DEF Restore, StagingInv
  <2> QED
    BY <1>3, <1>13, <2>1 DEF Restore, StagingInv
<1>14. CASE DiscardParked
  <2>1. faults = 0 /\ pc = "discard" /\ ~litter /\ litter' = litter
    BY <1>t, <1>14 DEF DiscardParked, StagingInv
  <2>2. parked' = IF hadOld THEN [parked EXCEPT ![rel] = "absent"] ELSE parked
    BY <1>t, <1>14 DEF DiscardParked
  <2>3. \A g \in Gens : parked'[g] = "absent"
    BY <1>t, <2>1, <2>2 DEF StagingInv
  <2> QED
    BY <2>1, <2>3
<1>15. CASE ChmodDest
  BY <1>3, <1>4, <1>15 DEF ChmodDest, StagingInv
<1>16. CASE Publish
  BY <1>4, <1>16 DEF Publish, StagingInv
<1>17. CASE RecordState
  BY <1>t, <1>4, <1>17 DEF RecordState, StagingInv
<1>18. CASE Prune
  BY <1>2, <1>18 DEF Prune, PruneStaging, StagingInv
<1>19. CASE Crash
  BY <1>19 DEF Crash
<1>20. CASE Load
  BY <1>2, <1>20 DEF Load, PruneStaging, StagingInv
<1> QED
  BY <1>5, <1>6, <1>7, <1>8, <1>9, <1>10, <1>11, <1>12, <1>13, <1>14, <1>15, <1>16, <1>17,
     <1>18, <1>19, <1>20 DEF Next, RefreshStep

(* A mirror at rest has nothing in staging, wherever it was killed.        *)
THEOREM CleanAtRestHolds == Spec => []CleanAtRest
<1>1. Init => StagingInv
  BY DEF Init, StagingInv, NoDirs
<1>2. TypeOK /\ StagingInv => CleanAtRest
  <2> SUFFICES ASSUME TypeOK, StagingInv, pc = "idle", faults = 0
               PROVE  ~litter /\ parked = NoDirs
    BY DEF CleanAtRest
  <2>1. parked \in [Gens -> DirState]
    BY DEF TypeOK, CacheTypes
  <2>2. ~litter /\ \A g \in Gens : parked[g] = "absent"
    BY DEF StagingInv
  <2> QED
    BY <2>1, <2>2 DEF NoDirs
<1> QED
  BY <1>1, <1>2, StagingStep, TypeCorrect, PTL DEF Spec

-----------------------------------------------------------------------------
(* What takes up room: the directories in the cache, the one served, and   *)
(* the one a refresh is exchanging or has brought in.                      *)
Cached  == {g \in Gens : disk[g] # "absent"}
Brought == {"discard", "chmod", "publish", "record", "prune"}
Held    == Cached \cup ({current} \ {None})
             \cup (IF pc \in Brought \/ (hadOld /\ pc \in {"swap", "restore"}) THEN {rel} ELSE {})

(* A generation brought in comes on top, until prune, unless it replaces   *)
(* itself.                                                                 *)
OnTop   == IF pc \in Brought /\ previousDir # rel THEN 1 ELSE 0
Allowed == 2 + crashes + faults + OnTop

VolumeInv ==
  /\ hadOld => pc \in Brought \cup {"swap", "restore"}
  /\ pc = "restore" => hadOld
  /\ IsFiniteSet(Held) /\ Cardinality(Held) <= Allowed

(* Sums of naturals, stated for the provers.                               *)
LEMMA RoomIsNat == \A c, f, o \in Nat : 2 + c + f + o \in Nat
OBVIOUS

(* More counted, more allowed; what was brought in is paid for by a        *)
(* failure or a kill.                                                      *)
LEMMA RoomGrows ==
  \A c, f, o, c2, f2, o2 \in Nat :
     /\ c <= c2 /\ f <= f2 /\ o <= 1
     /\ o <= o2 \/ f + 1 <= f2 \/ c + 1 <= c2
     => 2 + c + f + o <= 2 + c2 + f2 + o2
OBVIOUS

(* Chained comparisons, stated for the provers.                            *)
LEMMA Transitive == \A a, b, c, d \in Nat : a <= b /\ b <= c /\ c <= d => a <= d
OBVIOUS

(* What is counted are numbers.                                            *)
LEMMA CountsAreNat ==
  ASSUME TypeOK PROVE crashes \in Nat /\ faults \in Nat
BY BoundsAssumption DEF TypeOK, EnvironmentTypes

(* The generation being brought in counts for one at most.                 *)
LEMMA OnTopIsOneAtMost == OnTop \in Nat /\ OnTop <= 1
BY DEF OnTop

(* What is allowed grows with every failure and every kill.                *)
LEMMA AllowedGrows ==
  ASSUME TypeOK, TypeOK', crashes <= crashes', faults <= faults',
         OnTop <= OnTop' \/ faults + 1 <= faults' \/ crashes + 1 <= crashes'
  PROVE  Allowed <= Allowed'
<1>1. crashes \in Nat /\ faults \in Nat /\ OnTop \in Nat /\ OnTop <= 1
  BY CountsAreNat, OnTopIsOneAtMost
<1>2. crashes' \in Nat /\ faults' \in Nat /\ OnTop' \in Nat
  BY BoundsAssumption DEF TypeOK, EnvironmentTypes, OnTop
<1> QED
  BY <1>1, <1>2, RoomGrows DEF Allowed

(* Nothing came, and nothing less is allowed.                              *)
LEMMA HeldShrinks ==
  ASSUME TypeOK, TypeOK', VolumeInv, Held' \subseteq Held, Allowed <= Allowed'
  PROVE  IsFiniteSet(Held') /\ Cardinality(Held') <= Allowed'
<1>1. IsFiniteSet(Held') /\ Cardinality(Held') <= Cardinality(Held)
  BY FS_Subset DEF VolumeInv
<1>2. Cardinality(Held) \in Nat /\ Cardinality(Held') \in Nat
  BY <1>1, FS_CardinalityType DEF VolumeInv
<1>3. Allowed \in Nat
  BY CountsAreNat, OnTopIsOneAtMost, RoomIsNat DEF Allowed
<1>4. Allowed' \in Nat
  <2>1. crashes' \in Nat /\ faults' \in Nat /\ OnTop' \in Nat
    BY BoundsAssumption DEF TypeOK, EnvironmentTypes, OnTop
  <2> QED
    BY <2>1, RoomIsNat DEF Allowed
<1>5. Cardinality(Held) <= Allowed
  BY DEF VolumeInv
<1> QED
  BY <1>1, <1>2, <1>3, <1>4, <1>5, Transitive

(* No step makes the volume hold more than is allowed.                     *)
LEMMA VolumeStep ==
  TypeOK /\ TypeOK' /\ LocalsInv /\ VolumeInv /\ [Next]_vars => VolumeInv'
<1> SUFFICES ASSUME TypeOK, TypeOK', LocalsInv, VolumeInv, [Next]_vars PROVE VolumeInv'
  OBVIOUS
<1>t. /\ crashes \in Nat /\ faults \in Nat /\ crashes' \in Nat /\ faults' \in Nat
      /\ disk \in [Gens -> DirState] /\ None \notin Gens
      /\ current \in Gens \cup {None} /\ pc \in Step
      /\ pc \in KnowsRelease => rel \in Gens
  BY BoundsAssumption, GensAssumption
     DEF TypeOK, EnvironmentTypes, CacheTypes, DaemonTypes, GenOrNone
<1>h. /\ hadOld => pc \in Brought \cup {"swap", "restore"}
      /\ pc = "restore" => hadOld
      /\ IsFiniteSet(Held) /\ Cardinality(Held) <= Allowed
  BY DEF VolumeInv
<1>s. SUFFICES /\ hadOld' => pc' \in Brought \cup {"swap", "restore"}
               /\ pc' = "restore" => hadOld'
               /\ \/ Held' \subseteq Held /\ Allowed <= Allowed'
                  \/ IsFiniteSet(Held') /\ Cardinality(Held') <= Allowed'
  BY HeldShrinks DEF VolumeInv
<1> USE DEF Brought
<1>1. CASE Environment \/ UNCHANGED vars
  <2>1. UNCHANGED <<pc, rel, hadOld, current, previousDir, crashes, faults>>
    BY <1>1 DEF Environment, CreateRelease, ClobberAssets, UploadAssets, DamageFile,
       vars, upstreamVars, localVars
  <2>2. Cached' = Cached
    BY <1>1, <1>t DEF Environment, CreateRelease, ClobberAssets, UploadAssets, DamageFile,
       vars, upstreamVars, localVars, Cached
  <2>3. Held' = Held /\ Allowed' = Allowed
    BY <2>1, <2>2 DEF Held, Allowed, OnTop
  <2> QED
    BY <1>h, <2>1, <2>3
(* A step that leaves the volume alone and does not publish.               *)
<1>2. ASSUME UNCHANGED <<disk, crashes, faults>>, current' = current \/ current' = None,
             pc' \notin Brought, pc' # "restore", ~hadOld', pc \notin Brought
      PROVE  /\ hadOld' => pc' \in Brought \cup {"swap", "restore"}
             /\ pc' = "restore" => hadOld'
             /\ Held' \subseteq Held /\ Allowed <= Allowed'
  <2>1. Held' \subseteq Held
    BY <1>2 DEF Held, Cached
  <2>2. Allowed <= Allowed'
    <3>1. crashes <= crashes' /\ faults <= faults' /\ OnTop <= OnTop'
      BY <1>t, <1>2 DEF OnTop
    <3> QED
      BY <3>1, AllowedGrows
  <2> QED
    BY <1>2, <2>1, <2>2
(* The end of a refresh that failed.                                       *)
<1>3. ASSUME NEW used \in Nat, FailRefresh(used), Cached' \subseteq Held,
             pc \notin Brought \/ used > 0
      PROVE  /\ hadOld' => pc' \in Brought \cup {"swap", "restore"}
             /\ pc' = "restore" => hadOld'
             /\ Held' \subseteq Held /\ Allowed <= Allowed'
  <2>1. pc' = "idle" /\ hadOld' = FALSE /\ UNCHANGED <<current, crashes>>
    BY <1>t, <1>3 DEF FailRefresh, ResetLocals
  <2>2. Held' \subseteq Held
    BY <1>3, <2>1 DEF Held
  <2>3. OnTop <= OnTop' \/ used > 0
    BY <1>3, <2>1 DEF OnTop
  <2>4. faults <= faults' /\ (used > 0 => faults + 1 <= faults')
    BY <1>t, <1>3 DEF FailRefresh
  <2>5. crashes <= crashes'
    BY <1>t, <2>1
  <2>6. Allowed <= Allowed'
    BY <2>3, <2>4, <2>5, AllowedGrows
  <2> QED
    BY <2>1, <2>2, <2>6
<1>4. Cached \subseteq Held
  BY DEF Held
<1>5. UNCHANGED disk => Cached' \subseteq Held
  BY <1>4 DEF Cached
<1>6. CASE BeginRefresh \/ FetchChecksums \/ DownloadAndVerify
  <2>1. /\ UNCHANGED <<disk, crashes, faults, current, hadOld>>
        /\ pc' \in {"compare", "sums", "download", "clear"} /\ pc \in {"idle", "sums", "download"}
    BY <1>6 DEF BeginRefresh, FetchChecksums, DownloadAndVerify, localVars
  <2> QED
    BY <1>2, <1>h, <2>1
<1>7. CASE CompareSameTag
  <2>1. /\ UNCHANGED <<disk, crashes, current>> /\ faults' >= faults
        /\ pc = "compare" /\ pc' \in {"idle", "sums"} /\ ~hadOld'
    BY <1>t, <1>h, <1>7, SweepFaultsGrow
       DEF CompareSameTag, PruneStaging, ResetLocals, localVars
  <2>2. Held' \subseteq Held
    BY <2>1 DEF Held, Cached
  <2>3. OnTop = 0 /\ OnTop' = 0
    BY <2>1 DEF OnTop
  <2>4. crashes <= crashes' /\ OnTop <= OnTop'
    BY <1>t, <2>1, <2>3
  <2> QED
    BY <2>1, <2>2, <2>4, AllowedGrows
<1>8. CASE AbandonDownload
  BY <1>3, <1>5, <1>8 DEF AbandonDownload
<1>9. CASE ClearParkingSlot
  <2>1. CASE pc' = "setaside" /\ UNCHANGED <<faults, localVars, current, crashes>>
    BY <1>2, <1>h, <1>9, <2>1 DEF ClearParkingSlot, localVars
  <2> QED
    BY <1>3, <1>5, <1>9, <2>1 DEF ClearParkingSlot
<1>10. CASE SetAside
  <2>1. CASE pc' = "swap" /\ UNCHANGED <<faults, previousDir, rel, current, crashes>>
    <3>1. pc = "setaside" /\ ~hadOld /\ rel \in Gens
      BY <1>h, <1>t, <1>10 DEF SetAside, KnowsRelease
    <3>2. Held' \subseteq Held
      <4>1. CASE UNCHANGED <<disk, hadOld>>
        BY <2>1, <3>1, <4>1 DEF Held, Cached
      <4>2. CASE disk[rel] # "absent" /\ disk' = [disk EXCEPT ![rel] = "absent"]
        <5>1. rel \in Cached /\ Cached' \subseteq Cached
          BY <1>t, <3>1, <4>2 DEF Cached
        <5> QED
          BY <2>1, <5>1 DEF Held
      <4> QED
        BY <1>10, <2>1, <4>1, <4>2 DEF SetAside, FailRefresh
    <3>3. OnTop = 0 /\ OnTop' = 0
      BY <2>1, <3>1 DEF OnTop
    <3> QED
      BY <1>t, <2>1, <3>2, <3>3 DEF Allowed
  <2> QED
    BY <1>3, <1>5, <1>10, <2>1 DEF SetAside
<1>11. CASE SwapIn
  <2>1. /\ pc = "swap" /\ pc' = "discard" /\ rel \in Gens
        /\ UNCHANGED <<rel, hadOld, previousDir, current, crashes, faults>>
        /\ disk' = [disk EXCEPT ![rel] = "intact"]
    BY <1>t, <1>11 DEF SwapIn, localVars, KnowsRelease
  <2>2. Held' = Held \cup {rel}
    <3>1. Cached' = Cached \cup {rel}
      BY <1>t, <2>1 DEF Cached
    <3> QED
      BY <2>1, <3>1 DEF Held
  <2>3. previousDir = current
    BY <2>1 DEF LocalsInv
  <2>4. OnTop = 0 /\ OnTop' = IF previousDir # rel THEN 1 ELSE 0
    BY <2>1 DEF OnTop
  <2>5. CASE previousDir = rel
    <3>1. Held' \subseteq Held
      BY <1>t, <2>1, <2>2, <2>3, <2>5 DEF Held
    <3> QED
      BY <1>t, <2>1, <2>4, <2>5, <3>1 DEF Allowed
  <2>6. CASE previousDir # rel
    <3>1. IsFiniteSet(Held') /\ Cardinality(Held') <= Cardinality(Held) + 1
          /\ Cardinality(Held) \in Nat /\ Cardinality(Held') \in Nat
      <4>1. Cardinality(Held) \in Nat
        BY <1>h, FS_CardinalityType
      <4>2. IsFiniteSet(Held \cup {rel})
            /\ Cardinality(Held \cup {rel}) = IF rel \in Held THEN Cardinality(Held)
                                                           ELSE Cardinality(Held) + 1
        BY <1>h, FS_AddElement
      <4> QED
        BY <2>2, <4>1, <4>2
    <3>2. Cardinality(Held') <= Allowed'
      BY <1>t, <1>h, <2>1, <2>4, <2>6, <3>1 DEF Allowed
    <3> QED
      BY <2>1, <3>1, <3>2
  <2> QED
    BY <2>5, <2>6
<1>12. CASE SwapFails
  <2>1. pc = "swap" /\ UNCHANGED disk
    BY <1>12 DEF SwapFails
  <2>2. CASE hadOld
    <3>1. pc' = "restore" /\ faults' = faults + 1
          /\ UNCHANGED <<rel, hadOld, previousDir, current, crashes>>
      BY <1>12, <2>2 DEF SwapFails, localVars
    <3>2. Held' = Held
      BY <2>1, <2>2, <3>1 DEF Held, Cached
    <3>3. OnTop = 0 /\ OnTop' = 0
      BY <2>1, <3>1 DEF OnTop
    <3> QED
      BY <1>t, <2>2, <3>1, <3>2, <3>3 DEF Allowed
  <2>3. CASE ~hadOld
    BY <1>3, <1>5, <1>12, <2>1, <2>3 DEF SwapFails
  <2> QED
    BY <2>2, <2>3
<1>13. CASE Restore
  <2>1. pc = "restore" /\ hadOld /\ rel \in Gens
    BY <1>h, <1>t, <1>13 DEF Restore, KnowsRelease
  <2>2. rel \in Held
    BY <2>1 DEF Held
  <2>3. Cached' \subseteq Cached \cup {rel}
    BY <1>t, <1>13 DEF Restore, Cached
  <2> QED
    BY <1>3, <1>4, <1>13, <2>1, <2>2, <2>3 DEF Restore
<1>14. CASE DiscardParked \/ RecordState
  <2>1. /\ pc \in Brought /\ pc' \in Brought /\ faults' >= faults
        /\ UNCHANGED <<disk, rel, previousDir, current, crashes>>
    BY <1>t, <1>14 DEF DiscardParked, RecordState, localVars
  <2>2. Held' = Held /\ OnTop' = OnTop
    BY <2>1 DEF Held, Cached, OnTop
  <2>3. crashes <= crashes' /\ OnTop <= OnTop'
    BY <1>t, <2>1, <2>2, OnTopIsOneAtMost
  <2> QED
    BY <2>1, <2>2, <2>3, AllowedGrows
<1>15. CASE ChmodDest
  <2>1. CASE pc' = "publish" /\ UNCHANGED <<faults, localVars, current, crashes>>
    <3>1. pc = "chmod" /\ UNCHANGED <<disk, rel, previousDir>>
      BY <1>15, <2>1 DEF ChmodDest, localVars
    <3>2. Held' = Held /\ OnTop' = OnTop /\ OnTop \in {0, 1}
      BY <2>1, <3>1 DEF Held, Cached, OnTop
    <3> QED
      BY <1>t, <2>1, <3>2 DEF Allowed
  <2> QED
    BY <1>3, <1>5, <1>15, <2>1 DEF ChmodDest
<1>16. CASE Publish
  <2>1. /\ pc = "publish" /\ pc' = "record" /\ current' = rel
        /\ UNCHANGED <<disk, rel, previousDir, hadOld, crashes, faults>>
    BY <1>16 DEF Publish, localVars
  <2>2. Held' \subseteq Held /\ OnTop' = OnTop /\ OnTop \in {0, 1}
    BY <2>1 DEF Held, Cached, OnTop
  <2> QED
    BY <1>t, <2>1, <2>2 DEF Allowed
<1>17. CASE Prune
  <2>1. /\ pc = "prune" /\ pc' = "idle" /\ ~hadOld' /\ current = rel
        /\ UNCHANGED <<current, crashes>> /\ rel \in Gens
    BY <1>t, <1>17 DEF Prune, ResetLocals, LocalsInv, KnowsRelease
  <2>2. OnTop' = 0 /\ OnTop = IF previousDir # rel THEN 1 ELSE 0
    BY <2>1 DEF OnTop
  <2>3. CASE previousDir = rel
    <3>1. UNCHANGED disk /\ faults' >= faults
      BY <1>t, <1>17, <2>3, SweepFaultsGrow DEF Prune, PruneStaging
    <3>2. Held' \subseteq Held
      BY <2>1, <3>1 DEF Held, Cached
    <3>3. crashes <= crashes' /\ OnTop <= OnTop'
      BY <1>t, <2>1, <2>2, <2>3
    <3> QED
      BY <2>1, <3>1, <3>2, <3>3, AllowedGrows
  <2>4. CASE previousDir # rel
    <3>1. PruneGenerations(Survivors)
      BY <1>17, <2>4 DEF Prune
    <3>2. CASE faults' = faults + 1 /\ disk' \in Leftovers(disk, Survivors)
      <4>1. Cached' \subseteq Cached
        BY <3>2 DEF Leftovers, Cached
      <4>2. Held' \subseteq Held
        BY <2>1, <4>1 DEF Held
      <4> QED
        BY <1>t, <2>1, <2>2, <2>4, <3>2, <4>2 DEF Allowed
    <3>3. CASE /\ disk' = [g \in Gens |-> IF g \in Survivors THEN disk[g] ELSE "absent"]
               /\ faults' = faults
      <4>1. Held' \subseteq {rel, previousDir}
        BY <1>t, <2>1, <3>3 DEF Held, Cached, Survivors
      <4>2. IsFiniteSet({rel, previousDir}) /\ Cardinality({rel, previousDir}) = 2
        <5>1. IsFiniteSet({rel}) /\ Cardinality({rel}) = 1
          BY FS_Singleton
        <5>2. {rel, previousDir} = {rel} \cup {previousDir} /\ previousDir \notin {rel}
          BY <2>4
        <5> QED
          BY <5>1, <5>2, FS_AddElement
      <4>3. /\ IsFiniteSet(Held') /\ Cardinality(Held') <= 2 /\ Cardinality(Held') \in Nat
        BY <4>1, <4>2, FS_Subset, FS_CardinalityType
      <4>4. Cardinality(Held') <= Allowed'
        BY <1>t, <2>1, <2>2, <3>3, <4>3 DEF Allowed
      <4> QED
        BY <2>1, <4>3, <4>4
    <3> QED
      BY <3>1, <3>2, <3>3 DEF PruneGenerations
  <2> QED
    BY <2>3, <2>4
<1>18. CASE Crash
  <2>1. /\ pc' = "down" /\ current' = None /\ ~hadOld'
        /\ UNCHANGED <<disk, faults>> /\ crashes' = crashes + 1
    BY <1>18 DEF Crash, ResetLocals
  <2>2. Held' \subseteq Held /\ OnTop' = 0 /\ OnTop \in {0, 1}
    BY <2>1 DEF Held, Cached, OnTop
  <2> QED
    BY <1>t, <2>1, <2>2 DEF Allowed
<1>19. CASE Load
  <2>1. /\ pc = "down" /\ pc' = "idle" /\ current' = Adopted
        /\ UNCHANGED <<disk, hadOld, crashes>> /\ faults' >= faults
    BY <1>t, <1>19, SweepFaultsGrow DEF Load, PruneStaging, localVars
  <2>2. Adopted = None \/ Adopted \in Cached
    BY DEF Adopted, Cached
  <2>3. Held' \subseteq Held /\ OnTop' = 0 /\ OnTop = 0
    BY <2>1, <2>2 DEF Held, Cached, OnTop
  <2>4. crashes <= crashes' /\ OnTop <= OnTop'
    BY <1>t, <2>1, <2>3
  <2> QED
    BY <1>h, <2>1, <2>3, <2>4, AllowedGrows
<1> QED
  BY <1>1, <1>6, <1>7, <1>8, <1>9, <1>10, <1>11, <1>12, <1>13, <1>14, <1>15, <1>16, <1>17,
     <1>18, <1>19 DEF Next, RefreshStep

(* The volume does not fill up, however many releases there are: what is   *)
(* cached beyond the two retained generations was left by a kill or by a   *)
(* file operation that failed.                                             *)
THEOREM VolumeIsBounded == Spec => []BoundedCache
<1>1. Init => VolumeInv
  <2> SUFFICES ASSUME Init PROVE VolumeInv
    OBVIOUS
  <2>1. Held = {} /\ ~hadOld /\ pc = "idle" /\ crashes = 0 /\ faults = 0
    BY DEF Init, Held, Cached, NoDirs, Brought
  <2>2. OnTop = 0
    BY <2>1 DEF OnTop, Brought
  <2> QED
    BY <2>1, <2>2, FS_EmptySet DEF VolumeInv, Allowed
<1>2. IInv /\ IInv' /\ VolumeInv /\ [Next]_vars => VolumeInv'
  BY VolumeStep DEF IInv
<1>3. IInv /\ VolumeInv => BoundedCache
  <2> SUFFICES ASSUME IInv, VolumeInv, pc = "idle"
               PROVE  Cardinality(Cached) <= 2 + crashes + faults
    BY DEF BoundedCache, Cached
  <2>1. Cached \subseteq Held /\ OnTop = 0
    BY DEF Held, OnTop, Brought
  <2>2. Cardinality(Cached) <= Cardinality(Held) /\ IsFiniteSet(Cached)
    BY <2>1, FS_Subset DEF VolumeInv
  <2>3. Cardinality(Cached) \in Nat /\ Cardinality(Held) \in Nat
    BY <2>2, FS_CardinalityType DEF VolumeInv
  <2>4. crashes \in Nat /\ faults \in Nat
    BY BoundsAssumption DEF IInv, TypeOK, EnvironmentTypes
  <2> QED
    BY <2>1, <2>2, <2>3, <2>4 DEF VolumeInv, Allowed
<1> QED
  BY <1>1, <1>2, <1>3, IInvariance, PTL DEF Spec
=============================================================================
