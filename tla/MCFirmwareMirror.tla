-------------------------- MODULE MCFirmwareMirror --------------------------
(* Instances of FirmwareMirror for TLC: a tag whose assets are replaced    *)
(* (a1, then a2), and another tag whose assets may be good (b1) or carry a *)
(* manifest that does not render (bX).                                     *)
EXTENDS FirmwareMirror

CONSTANTS a1, a2, b1, bX, ta, tb

MCTagOf == [g \in Gens |-> IF g = a1 \/ g = a2 THEN ta ELSE tb]
=============================================================================
