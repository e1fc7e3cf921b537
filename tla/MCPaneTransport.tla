--------------------------- MODULE MCPaneTransport ---------------------------
(* Sizes and heap cells are interchangeable; the run has only invariants. *)
EXTENDS PaneTransport, TLC

Symmetry == Permutations(Sizes) \union Permutations(Objects)
=============================================================================
