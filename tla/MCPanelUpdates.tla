--------------------------- MODULE MCPanelUpdates ---------------------------
(* Two bridges that cannot be told apart, for PanelUpdates.                *)
EXTENDS PanelUpdates, TLC

Symmetry == Permutations(Bridges)
=============================================================================
