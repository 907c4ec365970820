----------------------------- MODULE ScanService -----------------------------
(***************************************************************************)
(* What POST /scan promises, without handlers, calls or slots: paper goes  *)
(* one way, a caller is told one thing, and what a destination holds is    *)
(* made of whole sheets that were pulled in for that caller.  ScanPipeline *)
(* implements it.                                                          *)
(***************************************************************************)
EXTENDS Naturals, FiniteSets

CONSTANTS Requests, Profile, NumSheets, Blank, None

VARIABLES
  loaded, taken, fedBy,   \* the feeder, as in ScanPipeline
  told,                   \* what each caller has been told
  received                \* the documents each destination holds, by request

vars == <<loaded, taken, fedBy, told, received>>

Told == {"nothing", "wait", "refused", "failed", "partly", "submitted", "hung up"}

Sheets == 1..NumSheets
FedTo(r) == {i \in Sheets : fedBy[i] = r}
Worth(r) == FedTo(r) \ Blank
Documents(r) == IF Profile[r].perPage THEN {{i} : i \in Worth(r)} ELSE {Worth(r)} \ {{}}

Init ==
  /\ loaded = 0 /\ taken = 0 /\ fedBy = [i \in Sheets |-> None]
  /\ told = [r \in Requests |-> "nothing"]
  /\ received = [r \in Requests |-> {}]

Load ==
  /\ loaded < NumSheets
  /\ loaded' = loaded + 1
  /\ UNCHANGED <<taken, fedBy, told, received>>

Begin(r) ==
  /\ told[r] = "nothing"
  /\ told' = [told EXCEPT ![r] = "wait"]
  /\ UNCHANGED <<loaded, taken, fedBy, received>>

(* The next sheet goes in for r.  A batch is never mixed with another's,   *)
(* never longer than the profile asks for, and over when the first         *)
(* destination holds some of it.  A caller that was given up on may still  *)
(* lose sheets; one that was refused, or has been answered, does not.      *)
Feed(r) ==
  /\ told[r] \in {"wait", "failed", "hung up"} /\ received[r] = {}
  /\ taken < loaded
  /\ FedTo(r) = {} \/ fedBy[taken] = r
  /\ Profile[r].maxPages > 0 => Cardinality(FedTo(r)) < Profile[r].maxPages
  /\ taken' = taken + 1
  /\ fedBy' = [fedBy EXCEPT ![taken + 1] = r]
  /\ UNCHANGED <<loaded, told, received>>

(* A destination takes a document, which has no sheet it has already.      *)
Receive(r) ==
  /\ told[r] = "wait"
  /\ \E dst \in Profile[r].destinations, sheets \in Documents(r) :
       /\ \A x \in received[r] : x[2] = dst => x[1] \cap sheets = {}
       /\ received' = [received EXCEPT ![r] = @ \cup {<<sheets, dst>>}]
  /\ UNCHANGED <<loaded, taken, fedBy, told>>

Tell(r, what) ==
  /\ told[r] = "wait"
  /\ told' = [told EXCEPT ![r] = what]
  /\ UNCHANGED <<loaded, taken, fedBy, received>>

Refuse(r) == FedTo(r) = {} /\ received[r] = {} /\ Tell(r, "refused")
Fail(r)   == received[r] = {} /\ Tell(r, "failed")
Submit(r) ==
  /\ Worth(r) # {}
  /\ \A dst \in Profile[r].destinations :
       UNION {x[1] : x \in {y \in received[r] : y[2] = dst}} = Worth(r)
  /\ Tell(r, "submitted")
SubmitPartly(r) == Worth(r) # {} /\ Tell(r, "partly")

(* Everyone who waits is cut off at once.                                  *)
HangUp ==
  /\ told' = [r \in Requests |-> IF told[r] = "wait" THEN "hung up" ELSE told[r]]
  /\ UNCHANGED <<loaded, taken, fedBy, received>>

Next ==
  \/ Load
  \/ \E r \in Requests :
       \/ Begin(r) \/ Feed(r) \/ Receive(r)
       \/ Refuse(r) \/ Fail(r) \/ Submit(r) \/ SubmitPartly(r)
  \/ HangUp

(* The first conjunct spares whoever checks it the steps nobody sees.       *)
Spec == Init /\ [][vars' # vars /\ Next]_vars
=============================================================================
