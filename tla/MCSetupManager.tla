--------------------------- MODULE MCSetupManager ---------------------------
(* Two projects on one host, whose calls meet at its mutex, and a third on   *)
(* another host, which a hang on the first must not concern.                 *)
EXTENDS SetupManager, TLC

CONSTANTS h1, h2, p1, p2, p3

TwoHosts == p1 :> h1 @@ p2 :> h1 @@ p3 :> h2
=============================================================================
