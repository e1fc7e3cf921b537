--------------------------- MODULE MCLocalSession ---------------------------
(* LocalSession with interchangeable clients and daemons.                   *)
EXTENDS LocalSession, TLC

Interchangeable == Permutations(Clients) \union Permutations(Daemons)
=============================================================================
