-------------------------- MODULE FirmwareServing --------------------------
(***************************************************************************)
(* The firmware routes of scan-bridge (internal/api/firmware.go and the    *)
(* readers of internal/firmware) against a refresh: FirmwareMirror with    *)
(* one handler and one touch panel beside it.                              *)
(*                                                                         *)
(* A handler reads the published pointer under a lock and opens a file     *)
(* under the generation's directory without one, so a refresh, a repair or *)
(* a pruning may come in between.  The panel reads the manifest, and much  *)
(* later asks for the file it names.  An answer is labelled with the       *)
(* release the handler knows; it carries what lies under that release's    *)
(* directory name.                                                         *)
(***************************************************************************)
EXTENDS FirmwareMirror

VARIABLES
  at, seen, carried,  \* the handler: its step, the pointer it read, whether
                      \* the file asked for is one the releases carry
  answer,             \* the last answer sent
  held,               \* the generation whose manifest the panel holds
  (* History: the generations published since the handler read the        *)
  (* pointer, and since the panel's manifest was looked up.                *)
  passed, since,
  (* Whose bytes the staging directory and each directory name hold.       *)
  staged, content

readerVars  == <<at, seen, carried>>
bytesVars   == <<staged, content>>
servingVars == <<at, seen, carried, answer, held, passed, since, bytesVars>>

(* Mutant: a release's directory is named by its tag alone.                *)
DirByTag(g) == <<TagOf[g]>>

(* Release.Dir: the tag and a digest of the release's checksums.           *)
Dir(g) == <<TagOf[g], g>>

DirNames == {Dir(g) : g \in Gens}

Route  == {"manifest", "file", "versioned"}
Status == {200, 404, 500, 503}
Answer == [route : Route, status : Status, label : GenOrNone, bytes : GenOrNone]

(* Types; a handler past its pointer has one unless it is about to probe.  *)
ServingTypeOK ==
  /\ at \in {"idle", "manifest", "file", "probe"}
  /\ seen \in GenOrNone /\ carried \in BOOLEAN
  /\ answer \in Answer \cup {None}
  /\ held \in GenOrNone
  /\ passed \subseteq Gens /\ since \subseteq Gens
  /\ staged \in GenOrNone /\ content \in [DirNames -> GenOrNone]
  /\ at \in {"manifest", "file"} => seen \in Gens

ServingInit ==
  /\ Init
  /\ at = "idle" /\ seen = None /\ carried = TRUE
  /\ answer = None /\ held = None
  /\ passed = {} /\ since = {}
  /\ staged = None /\ content = [n \in DirNames |-> None]

-----------------------------------------------------------------------------
(* The mirror moves on beside the handler.                                 *)

NewlyPublished == IF current' = current THEN {} ELSE {current'} \ {None}

(* A restart with nothing to adopt has forgotten what panels may hold.     *)
Forgets == pc = "down" /\ pc' = "idle" /\ current' = None

(* A download stages what upstream has at that moment; the swap puts what  *)
(* is staged under the release's name, and a name goes with its directory. *)
Holding == {"clear", "setaside", "swap", "restore"}
SwappedIn == pc = "swap" /\ pc' = "discard"

IsThere(n) == \E g \in Gens : Dir(g) = n /\ (disk[g] # "absent" \/ parked[g] # "absent")

BytesMove ==
  /\ staged' = CASE pc = "download" /\ pc' = "clear" -> assets[tag]
                 [] pc \in Holding /\ pc' \in Holding -> staged
                 [] OTHER -> None
  /\ content' = [n \in DirNames |-> IF SwappedIn /\ n = Dir(rel) THEN staged
                                    ELSE IF IsThere(n)' THEN content[n] ELSE None]

MirrorStep ==
  /\ RefreshStep \/ Environment \/ Load
  /\ passed' = IF at = "idle" THEN passed ELSE passed \cup NewlyPublished
  /\ since' = IF Forgets THEN Gens
              ELSE IF held = None THEN since ELSE since \cup NewlyPublished
  /\ BytesMove
  /\ UNCHANGED <<readerVars, answer, held>>

(* The process is killed: the handler goes with it, the panel stays.       *)
CrashServing ==
  /\ Crash
  /\ at' = "idle" /\ seen' = None /\ carried' = TRUE /\ passed' = {}
  /\ BytesMove
  /\ UNCHANGED <<answer, held, since>>

-----------------------------------------------------------------------------
(* The handlers.                                                           *)

Respond(route, status, label, bytes) ==
  /\ answer' = [route |-> route, status |-> status, label |-> label, bytes |-> bytes]
  /\ at' = "idle" /\ seen' = None /\ carried' = TRUE /\ passed' = {}
  /\ UNCHANGED <<vars, bytesVars>>

(* What opening and reading a file under g's directory comes to; a damaged *)
(* directory may have lost the file or still have it.                      *)
Present(g) == disk[g] \in {"intact", "damaged"}
Missing(g) == disk[g] \in {"absent", "damaged"}

(* Manifest: the release is read from the pointer once.                    *)
LookUpManifest ==
  /\ at = "idle" /\ pc # "down"
  /\ IF current = None
       THEN Respond("manifest", 503, None, None)
       ELSE /\ at' = "manifest" /\ seen' = current /\ answer' = None
            /\ UNCHANGED <<vars, bytesVars, carried, passed>>
  /\ UNCHANGED <<held, since>>

ReadManifest ==
  /\ at = "manifest"
  /\ \/ /\ Present(seen)
        /\ Respond("manifest", 200, seen, content[Dir(seen)])
        /\ held' = seen /\ since' = passed
     \/ /\ Missing(seen)
        /\ Respond("manifest", 500, None, None)
        /\ UNCHANGED <<held, since>>

(* Open: a cold cache and a name the release does not carry are one error, *)
(* told apart afterwards.                                                  *)
LookUpFile ==
  /\ at = "idle" /\ pc # "down"
  /\ carried' \in BOOLEAN
  /\ at' = IF current = None \/ ~carried' THEN "probe" ELSE "file"
  /\ seen' = current /\ answer' = None
  /\ UNCHANGED <<vars, bytesVars, held, passed, since>>

OpenFile ==
  /\ at = "file"
  /\ \/ Present(seen) /\ Respond("file", 200, seen, content[Dir(seen)])
     \/ Missing(seen) /\ Respond("file", 500, None, None)
  /\ UNCHANGED <<held, since>>

(* Mutant: nothing mirrored at all is not told apart.                      *)
ProbeNothing ==
  /\ at = "probe"
  /\ Respond("file", 404, None, None)
  /\ UNCHANGED <<held, since>>

ProbeCurrent ==
  /\ at = "probe"
  /\ Respond("file", IF current = None THEN 503 ELSE 404, None, None)
  /\ UNCHANGED <<held, since>>

(* OpenAt: the panel installs what its manifest names, wherever the        *)
(* pointer has gone since.  Only "it is not there" is a 404.               *)
InstallHeld ==
  /\ at = "idle" /\ pc # "down" /\ held # None
  /\ \/ Present(held) /\ Respond("versioned", 200, held, content[Dir(held)])
     \/ Missing(held) /\ Respond("versioned", 404, None, None)
     \/ disk[held] = "damaged" /\ Respond("versioned", 500, None, None)
  /\ UNCHANGED <<held, since>>

Handlers ==
  LookUpManifest \/ ReadManifest \/ LookUpFile \/ OpenFile \/ ProbeCurrent \/ InstallHeld

ServingNext == MirrorStep \/ CrashServing \/ Handlers

ServingSpec == ServingInit /\ [][ServingNext]_<<vars, servingVars>>

-----------------------------------------------------------------------------
(* The bytes of a 200 are of the generation it is labelled with, whenever  *)
(* upstream replaces assets under a tag it has published, and whatever     *)
(* refresh, repair, pruning or restart comes between the pointer, the file *)
(* and the install: "a refresh landing mid-request cannot put one          *)
(* generation's tag on another generation's bytes", and a directory name   *)
(* never comes to hold other bytes than those it was made for.             *)
OneGeneration ==
  answer # None /\ answer.status = 200 => answer.label = answer.bytes

Answers(routes, statuses) ==
  /\ answer' # answer /\ answer' # None
  /\ answer'.route \in routes /\ answer'.status \in statuses

(* ADR 0025 rule 3, from the panel's side: an install is refused its file  *)
(* only if two other generations have been published since its manifest    *)
(* was looked up, the bridge restarted with nothing to serve, or the       *)
(* generation is in the middle of a swap or came to harm.                  *)
InstallFindsItsFile ==
  [][Answers({"versioned"}, {404, 500})
       => \/ Cardinality(since \ {held}) > 1
          \/ InSwap(held) \/ held \in harmed]_<<vars, servingVars>>

(* "A cache that exists but cannot be read is a broken bridge": the        *)
(* current release is answered with a 500 only for harm or in the middle   *)
(* of a swap, or by a handler so slow that two generations were published  *)
(* while it held its pointer.                                              *)
UnreadableIsReal ==
  [][Answers({"manifest", "file"}, {500})
       => \/ Cardinality(passed \ {seen}) > 1
          \/ InSwap(seen) \/ seen \in harmed]_<<vars, servingVars>>

(* "A name this release does not carry is 'that does not exist'", and only *)
(* such a name: 404 for a file the releases carry is answered only when    *)
(* the first generation was published between Open and Current.            *)
NotFoundIsNotCarried ==
  [][Answers({"file"}, {404}) => ~carried \/ (seen = None /\ passed # {})]_<<vars, servingVars>>
=============================================================================
