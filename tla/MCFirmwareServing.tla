-------------------------- MODULE MCFirmwareServing --------------------------
(* Generations for FirmwareServing: two under one tag, one under another.  *)
EXTENDS FirmwareServing

CONSTANTS a1, a2, b1, ta, tb

MCTagOf == [g \in Gens |-> IF g = b1 THEN tb ELSE ta]
=============================================================================
