--------------------------- MODULE FirmwareMirror ---------------------------
(***************************************************************************)
(* The panel-firmware mirror of scan-bridge (internal/firmware).           *)
(*                                                                         *)
(* A background goroutine refreshes a cache directory from the repository's *)
(* latest GitHub release; HTTP handlers read the published pointer and     *)
(* open files while it does.  The process may be killed between any two    *)
(* file operations and comes back through Load, any file operation may     *)
(* fail, and files may be damaged behind the daemon's back.                *)
(*                                                                         *)
(* A GENERATION is what Release.Dir() names: a tag plus a digest of the    *)
(* release's own SHA256SUMS.  Two generations may carry one tag, because   *)
(* the release workflow replaces assets with --clobber.                    *)
(***************************************************************************)
EXTENDS Naturals, FiniteSets

CONSTANTS
  Tags,         \* release tags
  Gens,         \* generations
  TagOf,        \* the tag a generation was released under
  Renderable,   \* generations whose manifest lists and renders every build
  None,         \* no generation, no tag
  MaxUpstream,  \* bound on releases created and assets replaced upstream
  MaxFaults,    \* bound on file operations that fail
  MaxCrashes,   \* bound on kills of the process
  MaxDamage     \* bound on files damaged behind the daemon's back

ASSUME GensAssumption ==
  /\ TagOf \in [Gens -> Tags]
  /\ Renderable \subseteq Gens
  /\ None \notin Gens \cup Tags

ASSUME BoundsAssumption ==
  /\ MaxUpstream \in Nat /\ MaxFaults \in Nat
  /\ MaxCrashes \in Nat  /\ MaxDamage \in Nat

VARIABLES
  (* GitHub: the release the API calls latest, and per tag the set of     *)
  (* assets currently attached (None: created, nothing uploaded yet).     *)
  latestTag, assets,
  (* The cache directory: generation directories, parking slots           *)
  (* .staging-replaced-<dir>, abandoned .staging-* downloads, state.json. *)
  disk, parked, litter, stateFile,
  (* The daemon: the published pointer and the locals of Refresh.         *)
  current, pc, tag, previousDir, rel, hadOld,
  (* What the environment has done so far.                                *)
  upstreamChanges, faults, crashes, damages,
  (* History.  served and prior: the generation published last and the    *)
  (* one it replaced, which panels may hold a manifest of.  harmed:       *)
  (* generations damaged from outside since their directory was written,  *)
  (* caught by a kill in the middle of their swap, or lost because a swap *)
  (* and then its undo failed.                                            *)
  served, prior, harmed

upstreamVars == <<latestTag, assets, upstreamChanges>>
localVars    == <<tag, previousDir, rel, hadOld>>
historyVars  == <<served, prior>>
vars == <<latestTag, assets, disk, parked, litter, stateFile, current, pc, tag,
          previousDir, rel, hadOld, upstreamChanges, faults, crashes, damages,
          served, prior, harmed>>

DirState == {"absent", "intact", "damaged"}

Step == {"down", "idle", "compare", "sums", "download", "clear", "setaside",
         "swap", "restore", "discard", "chmod", "publish", "record", "prune"}

GenOrNone == Gens \cup {None}
TagOrNone == Tags \cup {None}

(* The steps at which Refresh has built the Release it wants to publish.   *)
KnowsRelease == Step \ {"down", "idle", "compare", "sums"}

UpstreamTypes ==
  /\ latestTag \in Tags
  /\ assets \in [Tags -> GenOrNone]

CacheTypes ==
  /\ disk \in [Gens -> DirState]
  /\ parked \in [Gens -> DirState]
  /\ litter \in BOOLEAN
  /\ stateFile \in GenOrNone

(* The locals each step of Refresh relies on: a release to compare with,   *)
(* a tag to ask for, checksums before a download starts.                   *)
DaemonTypes ==
  /\ current \in GenOrNone
  /\ pc \in Step
  /\ tag \in TagOrNone
  /\ previousDir \in GenOrNone
  /\ rel \in GenOrNone
  /\ hadOld \in BOOLEAN
  /\ pc = "compare" => current \in Gens
  /\ pc \in KnowsRelease => rel \in Gens
  /\ pc \notin {"down", "idle"} => tag \in Tags

EnvironmentTypes ==
  /\ upstreamChanges \in 0..MaxUpstream
  /\ faults \in 0..MaxFaults
  /\ crashes \in 0..MaxCrashes
  /\ damages \in 0..MaxDamage

HistoryTypes ==
  /\ served \in GenOrNone
  /\ prior \in GenOrNone
  /\ harmed \subseteq Gens

(* Types, and the locals each step of Refresh relies on.                   *)
TypeOK == UpstreamTypes /\ CacheTypes /\ DaemonTypes /\ EnvironmentTypes /\ HistoryTypes

NoDirs == [g \in Gens |-> "absent"]

(* A first start on an empty volume: New created the directory, Load found *)
(* no state file.                                                          *)
Init ==
  /\ latestTag \in Tags
  /\ assets = [t \in Tags |-> None]
  /\ disk = NoDirs /\ parked = NoDirs /\ litter = FALSE /\ stateFile = None
  /\ current = None /\ pc = "idle"
  /\ tag = None /\ previousDir = None /\ rel = None /\ hadOld = FALSE
  /\ upstreamChanges = 0 /\ faults = 0 /\ crashes = 0 /\ damages = 0
  /\ served = None /\ prior = None /\ harmed = {}

-----------------------------------------------------------------------------
(* Upstream: the release workflow creates a release first and uploads the  *)
(* assets in a later job; a rerun deletes the assets and uploads others.   *)

CreateRelease(t) ==
  /\ upstreamChanges < MaxUpstream
  /\ t # latestTag
  /\ latestTag' = t
  /\ upstreamChanges' = upstreamChanges + 1
  /\ UNCHANGED <<assets, disk, parked, litter, stateFile, current, pc, localVars,
                 faults, crashes, damages, historyVars, harmed>>

UploadAssets(g) ==
  /\ assets[TagOf[g]] = None
  /\ assets' = [assets EXCEPT ![TagOf[g]] = g]
  /\ UNCHANGED <<latestTag, disk, parked, litter, stateFile, current, pc, localVars,
                 upstreamChanges, faults, crashes, damages, historyVars, harmed>>

ClobberAssets(t) ==
  /\ upstreamChanges < MaxUpstream
  /\ assets[t] # None
  /\ assets' = [assets EXCEPT ![t] = None]
  /\ upstreamChanges' = upstreamChanges + 1
  /\ UNCHANGED <<latestTag, disk, parked, litter, stateFile, current, pc, localVars,
                 faults, crashes, damages, historyVars, harmed>>

(* A file of a cached generation is truncated, emptied or deleted.         *)
DamageFile(g) ==
  /\ damages < MaxDamage
  /\ disk[g] = "intact"
  /\ disk' = [disk EXCEPT ![g] = "damaged"]
  /\ harmed' = harmed \cup {g}
  /\ damages' = damages + 1
  /\ UNCHANGED <<upstreamVars, parked, litter, stateFile, current, pc, localVars,
                 faults, crashes, historyVars>>

-----------------------------------------------------------------------------
(* Pieces shared by the steps of Refresh.                                  *)

ResetLocals == tag' = None /\ previousDir' = None /\ rel' = None /\ hadOld' = FALSE

(* The steps at which this refresh owns a staging directory.               *)
Staged == pc \in {"download", "clear", "setaside", "swap", "restore"}

(* A file operation of the current step fails.                             *)
FileError == faults < MaxFaults

(* Refresh returns an error after `used` failed operations; its deferred   *)
(* RemoveAll(staging) may itself fail, which is only logged.               *)
FailRefresh(used) ==
  /\ pc' = "idle"
  /\ ResetLocals
  /\ \/ litter' = litter /\ faults' = faults + used
     \/ /\ Staged /\ faults + used < MaxFaults
        /\ litter' = TRUE /\ faults' = faults + used + 1
  /\ UNCHANGED <<upstreamVars, stateFile, current, crashes, damages, historyVars>>

(* Removal of the entries of a directory listing: all of them, or, when an *)
(* operation fails or the process is killed half-way, only some.           *)
Leftovers(dir, keep) ==
  {d \in [Gens -> DirState] :
     \A g \in Gens : IF g \in keep
                     THEN d[g] = dir[g]
                     ELSE \/ d[g] = "absent"
                          \/ dir[g] # "absent" /\ d[g] \in {dir[g], "damaged"}}

RemoveStaging ==
  \/ litter' = FALSE /\ parked' = NoDirs /\ faults' = faults
  \/ /\ FileError /\ faults' = faults + 1
     /\ litter' \in {FALSE, litter}
     /\ parked' \in Leftovers(parked, {})

(* pruneStaging alone: the generation directories are not touched.         *)
PruneStaging == RemoveStaging /\ disk' = disk

(* Mutant: only staging entries go, old generations are never evicted.     *)
PruneNothing(keep) == RemoveStaging /\ disk' = disk

(* prune: every directory goes but the two generations named.              *)
PruneGenerations(keep) ==
  \/ /\ disk' = [g \in Gens |-> IF g \in keep THEN disk[g] ELSE "absent"]
     /\ litter' = FALSE /\ parked' = NoDirs /\ faults' = faults
  \/ /\ FileError /\ faults' = faults + 1
     /\ disk' \in Leftovers(disk, keep)
     /\ litter' \in {FALSE, litter}
     /\ parked' \in Leftovers(parked, {})

(* The panel-side history of a publication: the generation served so far   *)
(* becomes the predecessor.                                                *)
Serve(g) ==
  IF g = served THEN UNCHANGED historyVars
                ELSE served' = g /\ prior' = served

-----------------------------------------------------------------------------
(* Refresh, one action per file operation or network exchange.             *)

(* The API answers with a tag; the published release is read once.  A      *)
(* failed or malformed answer ends the refresh with nothing changed.  The  *)
(* answer's list of assets is modelled as looked up when it is used.       *)
BeginRefresh ==
  /\ pc = "idle"
  /\ tag' = latestTag
  /\ previousDir' = current
  /\ pc' = IF current # None /\ TagOf[current] = latestTag THEN "compare" ELSE "sums"
  /\ UNCHANGED <<upstreamVars, disk, parked, litter, stateFile, current, rel, hadOld,
                 faults, crashes, damages, historyVars, harmed>>

(* Mutant: the tag alone decides that nothing changed upstream.            *)
UnchangedByTag == disk[current] = "intact"

(* verifyCached and checksumsUnchanged both agree.                         *)
Unchanged == disk[current] = "intact" /\ assets[tag] = current

(* Same tag: the short-circuit needs the local bytes and the upstream      *)
(* checksums to agree; otherwise, or when the checksums cannot be read,    *)
(* the whole release is downloaded again.                                  *)
CompareSameTag ==
  /\ pc = "compare"
  /\ \/ /\ Unchanged
        /\ PruneStaging
        /\ pc' = "idle" /\ ResetLocals
     \/ \* a difference, or SHA256SUMS could not be fetched
        /\ pc' = "sums"
        /\ UNCHANGED <<disk, parked, litter, faults, localVars>>
  /\ UNCHANGED <<upstreamVars, stateFile, current, crashes, damages, historyVars, harmed>>

FetchChecksums ==
  /\ pc = "sums"
  /\ assets[tag] # None
  /\ rel' = assets[tag]
  /\ pc' = "download"
  /\ UNCHANGED <<upstreamVars, disk, parked, litter, stateFile, current, tag, previousDir,
                 hadOld, faults, crashes, damages, historyVars, harmed>>

(* Every asset hashes to what the checksums said, and the manifest renders *)
(* while everything is still in staging.                                   *)
Downloaded == assets[tag] = rel /\ rel \in Renderable

DownloadAndVerify ==
  /\ pc = "download"
  /\ Downloaded
  /\ pc' = "clear"
  /\ UNCHANGED <<upstreamVars, disk, parked, litter, stateFile, current, localVars,
                 faults, crashes, damages, historyVars, harmed>>

(* Network failure, missing SHA256SUMS, a checksum mismatch, an            *)
(* unrenderable manifest, no room for the staging directory.               *)
AbandonDownload ==
  /\ pc \in {"sums", "download"}
  /\ FailRefresh(0)
  /\ UNCHANGED <<disk, parked, harmed>>

ClearParkingSlot ==
  /\ pc = "clear"
  /\ \/ /\ parked' = [parked EXCEPT ![rel] = "absent"]
        /\ pc' = "setaside"
        /\ UNCHANGED <<litter, faults, localVars, upstreamVars, stateFile, current,
                       crashes, damages, historyVars, harmed>>
     \/ FileError /\ FailRefresh(1) /\ UNCHANGED <<parked, harmed>>
  /\ UNCHANGED disk

SetAside ==
  /\ pc = "setaside"
  /\ \/ /\ IF disk[rel] = "absent"
             THEN UNCHANGED <<disk, parked, hadOld>>
             ELSE /\ disk' = [disk EXCEPT ![rel] = "absent"]
                  /\ parked' = [parked EXCEPT ![rel] = disk[rel]]
                  /\ hadOld' = TRUE
        /\ pc' = "swap"
        /\ UNCHANGED <<litter, faults, tag, previousDir, rel, upstreamVars, stateFile,
                       current, crashes, damages, historyVars, harmed>>
     \/ FileError /\ FailRefresh(1) /\ UNCHANGED <<disk, parked, harmed>>

SwapIn ==
  /\ pc = "swap"
  /\ disk' = [disk EXCEPT ![rel] = "intact"]
  /\ harmed' = harmed \ {rel}
  /\ pc' = "discard"
  /\ UNCHANGED <<upstreamVars, parked, litter, stateFile, current, localVars,
                 faults, crashes, damages, historyVars>>

(* renameFile(staging, dest) fails: put the old directory back if there    *)
(* was one.                                                                *)
SwapFails ==
  /\ pc = "swap"
  /\ FileError
  /\ IF hadOld
       THEN /\ pc' = "restore" /\ faults' = faults + 1
            /\ UNCHANGED <<litter, localVars, upstreamVars, stateFile, current,
                           crashes, damages, historyVars, harmed>>
       ELSE FailRefresh(1) /\ UNCHANGED harmed
  /\ UNCHANGED <<disk, parked>>

(* Mutant: a failed publish returns without putting the old release back.  *)
NoRestore ==
  /\ pc = "restore"
  /\ FailRefresh(0)
  /\ UNCHANGED <<disk, parked, harmed>>

Restore ==
  /\ pc = "restore"
  /\ \/ /\ disk' = [disk EXCEPT ![rel] = parked[rel]]
        /\ parked' = [parked EXCEPT ![rel] = "absent"]
        /\ FailRefresh(0)
        /\ harmed' = harmed
     \/ /\ FileError /\ FailRefresh(1) /\ UNCHANGED <<disk, parked>>
        /\ harmed' = harmed \cup {rel}

DiscardParked ==
  /\ pc = "discard"
  /\ pc' = "chmod"
  /\ \/ /\ parked' = IF hadOld THEN [parked EXCEPT ![rel] = "absent"] ELSE parked
        /\ UNCHANGED faults
     \/ hadOld /\ FileError /\ faults' = faults + 1 /\ UNCHANGED parked
  /\ UNCHANGED <<upstreamVars, disk, litter, stateFile, current, localVars,
                 crashes, damages, historyVars, harmed>>

(* A failed chmod returns before publishing: the new directory stays as an *)
(* orphan and the old release keeps serving.                               *)
ChmodDest ==
  /\ pc = "chmod"
  /\ \/ /\ pc' = "publish"
        /\ UNCHANGED <<litter, faults, localVars, upstreamVars, stateFile, current,
                       crashes, damages, historyVars, harmed>>
     \/ FileError /\ FailRefresh(1) /\ UNCHANGED harmed
  /\ UNCHANGED <<disk, parked>>

Publish ==
  /\ pc = "publish"
  /\ current' = rel
  /\ Serve(rel)
  /\ pc' = "record"
  /\ UNCHANGED <<upstreamVars, disk, parked, litter, stateFile, localVars,
                 faults, crashes, damages, harmed>>

(* writeState replaces state.json by a rename; a failure is only logged.   *)
RecordState ==
  /\ pc = "record"
  /\ \/ stateFile' = rel /\ faults' = faults
     \/ FileError /\ faults' = faults + 1 /\ UNCHANGED stateFile
  /\ pc' = "prune"
  /\ UNCHANGED <<upstreamVars, disk, parked, litter, current, localVars,
                 crashes, damages, historyVars, harmed>>

(* Mutant: prune keeps only what was just published.                       *)
OnlyTheNewest == {rel}

(* The generations prune spares: the one published and the one it          *)
(* replaced (previousDir = "" when the cache was cold).                    *)
Survivors == {rel, previousDir} \ {None}

(* Mutant: a repair in place prunes too, naming one generation twice.      *)
PruneAfterRepair ==
  /\ pc = "prune"
  /\ PruneGenerations(Survivors)
  /\ pc' = "idle" /\ ResetLocals
  /\ UNCHANGED <<upstreamVars, stateFile, current, crashes, damages, historyVars, harmed>>

Prune ==
  /\ pc = "prune"
  /\ IF previousDir = rel THEN PruneStaging ELSE PruneGenerations(Survivors)
  /\ pc' = "idle" /\ ResetLocals
  /\ UNCHANGED <<upstreamVars, stateFile, current, crashes, damages, historyVars, harmed>>

-----------------------------------------------------------------------------
(* The process is killed: pointer and locals are gone, the volume stays.   *)
Crash ==
  /\ pc # "down" /\ crashes < MaxCrashes
  /\ crashes' = crashes + 1
  /\ pc' = "down" /\ current' = None /\ ResetLocals
  /\ litter' = (litter \/ Staged)
  /\ harmed' = IF pc \in {"swap", "restore"} /\ hadOld THEN harmed \cup {rel} ELSE harmed
  /\ UNCHANGED <<upstreamVars, disk, parked, stateFile, faults, damages, historyVars>>

(* What a restart publishes: the recorded generation when its content      *)
(* verifies, otherwise nothing.                                            *)
Adopted ==
  IF stateFile \in Gens /\ disk[stateFile] = "intact" THEN stateFile ELSE None

(* Mutant: staging is swept only after a cache has been adopted.           *)
LoadSweepsLate ==
  /\ pc = "down"
  /\ pc' = "idle"
  /\ IF Adopted = None THEN UNCHANGED <<disk, parked, litter, faults>> ELSE PruneStaging
  /\ current' = Adopted
  /\ IF Adopted = None THEN served' = None /\ prior' = None ELSE Serve(Adopted)
  /\ UNCHANGED <<upstreamVars, stateFile, localVars, crashes, damages, harmed>>

Load ==
  /\ pc = "down"
  /\ pc' = "idle"
  /\ PruneStaging
  /\ current' = Adopted
  /\ IF Adopted = None THEN served' = None /\ prior' = None ELSE Serve(Adopted)
  /\ UNCHANGED <<upstreamVars, stateFile, localVars, crashes, damages, harmed>>

-----------------------------------------------------------------------------
RefreshStep ==
  \/ BeginRefresh \/ CompareSameTag \/ FetchChecksums \/ DownloadAndVerify
  \/ AbandonDownload \/ ClearParkingSlot \/ SetAside \/ SwapIn \/ SwapFails
  \/ Restore \/ DiscardParked \/ ChmodDest \/ Publish \/ RecordState \/ Prune

Environment ==
  \/ \E t \in Tags : CreateRelease(t) \/ ClobberAssets(t)
  \/ \E g \in Gens : UploadAssets(g) \/ DamageFile(g)

Next == RefreshStep \/ Environment \/ Crash \/ Load

Spec == Init /\ [][Next]_vars

(* The loop in Run keeps refreshing and the supervisor restarts the        *)
(* container; a refresh that is retried for ever eventually gets through   *)
(* its network exchanges.                                                  *)
Fairness ==
  /\ WF_vars(RefreshStep) /\ WF_vars(Load)
  /\ SF_vars(FetchChecksums) /\ SF_vars(DownloadAndVerify)

FairSpec == Spec /\ Fairness

-----------------------------------------------------------------------------
(* Between set-aside and swap the generation is briefly not at its path.   *)
InSwap(g) == pc \in {"swap", "restore"} /\ rel = g

(* A request for a file of g gets the bytes its checksums describe, unless *)
(* g is in the middle of its swap or came to harm (see harmed).            *)
Servable(g) == disk[g] = "intact" \/ InSwap(g) \/ g \in harmed

(* firmware.go, "The ordering invariant": the manifest never advertises a  *)
(* release the mirror cannot serve, and a failed refresh leaves the        *)
(* previous release serving, whichever file operations fail.               *)
OrderingInvariant ==
  current # None => current \in Renderable /\ Servable(current)

(* ADR 0025 rule 3: the generation served last and the one it replaced     *)
(* both stay on disk, across failed refreshes, repairs in place, rollbacks *)
(* and restarts that adopt a stale state file, so a panel that read either *)
(* manifest can still install from it.                                     *)
TwoGenerations ==
  \A g \in {served, prior} \ {None} : Servable(g)

(* state.json governs what a restart adopts: what it names is still in the *)
(* cache, with any single file operation failing.                          *)
RecordedIsCached ==
  faults <= 1 /\ stateFile # None => Servable(stateFile)

(* Staging and parking directories do not accumulate: when no refresh is   *)
(* running and no removal failed there are none, whatever was killed when. *)
CleanAtRest ==
  pc = "idle" /\ faults = 0 => ~litter /\ parked = NoDirs

(* The volume does not fill up: at rest the cache holds the two retained   *)
(* generations and at most one orphan per kill or failed file operation.   *)
BoundedCache ==
  pc = "idle" =>
    Cardinality({g \in Gens : disk[g] # "absent"}) <= 2 + crashes + faults

(* Once the latest release carries good assets for good, the mirror ends   *)
(* up serving exactly that generation, and keeps its bytes repaired, even  *)
(* when only the assets under an unchanged tag changed.                    *)
Convergence ==
  \A g \in Renderable :
    <>[](assets[latestTag] = g) => <>[](current = g) /\ []<>(disk[g] = "intact")

(* firmware.go:327-328: "a restart keeps serving instead of answering 503  *)
(* until the first refresh lands".                                         *)
RestartKeepsServing ==
  pc = "idle" /\ stateFile # None /\ faults = 0 /\ damages = 0 => current # None
=============================================================================
