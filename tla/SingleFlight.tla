---------------------------- MODULE SingleFlight ----------------------------
(***************************************************************************)
(* What the daemon's "somebody is already doing it, so wait" idiom         *)
(* promises.  A worker that needs the work of a key either leads a flight  *)
(* for the key or waits for the one in the air; a flight that ends tells   *)
(* everybody who waits on it.                                              *)
(*                                                                         *)
(* setup.go uses the idiom per projectSetup object (the done channel) and  *)
(* tunnel.go per host (forwardsSpawning): the modules of these two files   *)
(* implement this specification under a refinement mapping.  mux.go        *)
(* (sessionsSpawning) and mastersSpawning in tunnel.go use the idiom too.  *)
(***************************************************************************)
CONSTANTS Workers, Keys, NoKey

VARIABLES
  flying,   \* the keys with a flight in the air
  role,     \* what each worker does: "out", "lead", "wait" or "told"
  key       \* the key each worker is busy with, NoKey when "out"

vars == <<flying, role, key>>

Init ==
  /\ flying = {}
  /\ role = [w \in Workers |-> "out"]
  /\ key = [w \in Workers |-> NoKey]

\* No flight for k: w starts one and leads it.
Lead(w, k) ==
  /\ role[w] = "out"
  /\ k \notin flying
  /\ flying' = flying \union {k}
  /\ role' = [role EXCEPT ![w] = "lead"]
  /\ key' = [key EXCEPT ![w] = k]

\* A flight for k is in the air: w waits for it.
Join(w, k) ==
  /\ role[w] = "out"
  /\ k \in flying
  /\ role' = [role EXCEPT ![w] = "wait"]
  /\ key' = [key EXCEPT ![w] = k]
  /\ UNCHANGED flying

\* The leader is done: the channel is closed, which wakes every waiter.
Land(w) ==
  /\ role[w] = "lead"
  /\ flying' = flying \ {key[w]}
  /\ role' = [v \in Workers |->
                IF v = w THEN "out"
                ELSE IF role[v] = "wait" /\ key[v] = key[w] THEN "told"
                ELSE role[v]]
  /\ key' = [key EXCEPT ![w] = NoKey]

\* A woken waiter looks at the result and leaves.
Leave(w) ==
  /\ role[w] = "told"
  /\ role' = [role EXCEPT ![w] = "out"]
  /\ key' = [key EXCEPT ![w] = NoKey]
  /\ UNCHANGED flying

Next ==
  \E w \in Workers :
    \/ \E k \in Keys : Lead(w, k) \/ Join(w, k)
    \/ Land(w)
    \/ Leave(w)

Spec == Init /\ [][Next]_vars
=============================================================================
