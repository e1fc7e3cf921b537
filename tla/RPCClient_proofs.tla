-------------------------- MODULE RPCClient_proofs --------------------------
(***************************************************************************)
(* Proofs about the two ends of the channel to a host on the Mac: the      *)
(* continuations and the answers of RemoteRPCClient.swift, for any number  *)
(* of calls, and the sessions and listeners of mux.go it connects to.      *)
(***************************************************************************)
EXTENDS RPCClient, MuxManager, SequenceTheorems, FiniteSetTheorems, TLAPS

(* A suspended call is held in one place, and each place holds only calls  *)
(* that are suspended there: in a block of the queue, as the waiter of a   *)
(* connection, or in pending.                                              *)
QueuedCalls ==
  /\ blocks \in Seq(Calls \union {Disconnect})
  /\ \A i \in 1 .. Len(blocks) : blocks[i] # Disconnect =>
       /\ pc[blocks[i]] = "queued"
       /\ \A j \in 1 .. Len(blocks) : blocks[j] = blocks[i] => j = i

ConnectingCalls ==
  \A c \in Conns : waiter[c] # None =>
    /\ pc[waiter[c]] = "connecting"
    /\ \A d \in Conns : waiter[d] = waiter[c] => d = c

WaitingCalls ==
  \A i \in Ids : pending[i] # None =>
    /\ i <= nextID
    /\ pc[pending[i]] = "waiting"
    /\ \A j \in Ids : pending[j] = pending[i] => j = i

(* What is on a connection was sent by the call that waits under its id,   *)
(* if one does, and in its present try.                                    *)
SentRequests ==
  \A c \in Conns : \A m \in sent[c] :
    /\ m.id \in Ids /\ m.id <= nextID
    /\ pending[m.id] # None => m.call = pending[m.id] /\ m.try = try[pending[m.id]]

AnsweredCalls ==
  \A k \in Calls : got[k] # None => pc[k] = "done" /\ got[k].call = k /\ got[k].try = try[k]

(* Ids do not run out: there is one for each try that has come to its end  *)
(* or has sent its request.                                                *)
UsedTries ==
  {u \in Calls \X (1 .. 2) : \/ u[2] < try[u[1]]
                             \/ u[2] = try[u[1]] /\ pc[u[1]] \in {"waiting", "lost", "done"}}
IdsSuffice == nextID <= Cardinality(UsedTries)

Types ==
  /\ TypeOK
  /\ DOMAIN got = Calls /\ DOMAIN sent = Conns
  /\ ~misused
Places == QueuedCalls /\ ConnectingCalls /\ WaitingCalls
IInv == Types /\ Places /\ SentRequests /\ AnsweredCalls /\ IdsSuffice

LEMMA ConnsAreNumbers == Conns \subseteq Nat \ {0} /\ 2 * Cardinality(Calls) \in Nat
<1>1. Cardinality(Calls) \in Nat
  BY RPCAssumption, FS_CardinalityType
<1> QED BY <1>1 DEF Conns

(* There are as many tries as ids. *)
LEMMA TriesAreFinite ==
  /\ IsFiniteSet(Calls \X (1 .. 2))
  /\ Cardinality(Calls \X (1 .. 2)) = 2 * Cardinality(Calls)
<1>1. IsFiniteSet(1 .. 2) /\ Cardinality(1 .. 2) = 2
  <2>1. \A n \in Nat : IsFiniteSet(1 .. n) /\ Cardinality(1 .. n) = n
    BY FS_Interval
  <2> QED BY <2>1
<1>2. Cardinality(Calls) \in Nat
  BY RPCAssumption, FS_CardinalityType
<1>3. IsFiniteSet(Calls \X (1 .. 2)) /\ Cardinality(Calls \X (1 .. 2)) = Cardinality(Calls) * Cardinality(1 .. 2)
  BY <1>1, RPCAssumption, FS_Product
<1> QED BY <1>1, <1>2, <1>3

LEMMA UsedTriesAreFinite ==
  /\ IsFiniteSet(UsedTries) /\ Cardinality(UsedTries) \in Nat
  /\ IsFiniteSet(UsedTries') /\ Cardinality(UsedTries') \in Nat
<1>1. UsedTries \subseteq Calls \X (1 .. 2) /\ UsedTries' \subseteq Calls \X (1 .. 2)
  BY DEF UsedTries
<1> QED BY <1>1, TriesAreFinite, FS_Subset, FS_CardinalityType

LEMMA InitInv == Init => IInv
<1> SUFFICES ASSUME Init PROVE IInv
  OBVIOUS
<1> USE RPCAssumption DEF Init
<1>1. Types
  <2>1. \A i \in 1 .. Len(blocks) : blocks[i] \in Calls \union {Disconnect}
    OBVIOUS
  <2>2. ready \in BOOLEAN /\ ~misused
    OBVIOUS
  <2>3. /\ pc \in [Calls -> {"start", "queued", "connecting", "connected", "waiting", "lost", "done"}]
        /\ try \in [Calls -> 1 .. 2]
        /\ nw \in [Conns -> {"none", "preparing", "ready", "dead", "cancelled"}]
    OBVIOUS
  <2>4. handler \subseteq Conns /\ reading \subseteq Conns
        /\ conn \in {0} \union Conns /\ nextID \in {0} \union Ids
    OBVIOUS
  <2>5. /\ waiter \in [Conns -> Calls \union {None}]
        /\ pending \in [Ids -> Calls \union {None}]
        /\ DOMAIN got = Calls /\ DOMAIN sent = Conns
    OBVIOUS
  <2> QED BY <2>1, <2>2, <2>3, <2>4, <2>5 DEF Types, TypeOK
<1>2. Places
  BY DEF Places, QueuedCalls, ConnectingCalls, WaitingCalls
<1>3. SentRequests /\ AnsweredCalls
  BY DEF SentRequests, AnsweredCalls
<1>4. IdsSuffice
  BY UsedTriesAreFinite DEF IdsSuffice
<1> QED BY <1>1, <1>2, <1>3, <1>4 DEF IInv

(* A step other than Send leaves the ids alone; tries are only used up. *)
LEMMA IdsStep ==
  ASSUME IInv, UNCHANGED nextID, UsedTries \subseteq UsedTries'
  PROVE  IdsSuffice'
<1>1. Cardinality(UsedTries) <= Cardinality(UsedTries')
  BY UsedTriesAreFinite, FS_Subset
<1>2. nextID \in Nat
  BY ConnsAreNumbers DEF IInv, Types, TypeOK, Ids
<1> QED BY <1>1, <1>2, UsedTriesAreFinite DEF IInv, IdsSuffice

(* Facts about the queue. *)
LEMMA QueueGrows ==
  ASSUME IInv, NEW b \in Calls \union {Disconnect}, blocks' = Append(blocks, b),
         \A i \in 1 .. Len(blocks) : b # Disconnect => blocks[i] # b,
         b # Disconnect => pc'[b] = "queued",
         \A k \in Calls : pc[k] = "queued" => pc'[k] = "queued"
  PROVE  QueuedCalls'
<1>1. blocks \in Seq(Calls \union {Disconnect})
  BY DEF IInv, Places, QueuedCalls
<1>2. /\ blocks' \in Seq(Calls \union {Disconnect}) /\ Len(blocks') = Len(blocks) + 1
      /\ \A i \in 1 .. Len(blocks) : blocks'[i] = blocks[i]
      /\ blocks'[Len(blocks) + 1] = b
  BY <1>1
<1>3. \A i \in 1 .. Len(blocks') : i \in 1 .. Len(blocks) \/ i = Len(blocks) + 1
  BY <1>1, <1>2
<1>4. \A i \in 1 .. Len(blocks) : blocks[i] # Disconnect => blocks[i] \in Calls
  BY <1>1
<1> QED BY <1>1, <1>2, <1>3, <1>4 DEF IInv, Places, QueuedCalls

LEMMA QueueShrinks ==
  ASSUME IInv, NEW b, Runs(b),
         \A k \in Calls : k # b /\ pc[k] = "queued" => pc'[k] = "queued"
  PROVE  /\ QueuedCalls'
         /\ b # Disconnect => b \in Calls /\ pc[b] = "queued"
<1>1. blocks \in Seq(Calls \union {Disconnect}) /\ blocks # <<>>
  BY DEF IInv, Places, QueuedCalls, Runs
<1>2. /\ b = blocks[1] /\ 1 \in 1 .. Len(blocks)
      /\ blocks' \in Seq(Calls \union {Disconnect}) /\ Len(blocks') = Len(blocks) - 1
      /\ \A i \in 1 .. Len(blocks') : blocks'[i] = blocks[i + 1] /\ i + 1 \in 1 .. Len(blocks)
  BY <1>1 DEF Runs
<1>3. \A i \in 1 .. Len(blocks) : blocks[i] # Disconnect => blocks[i] \in Calls
  BY <1>1
<1>4. \A i, j \in 1 .. Len(blocks) : blocks[i] # Disconnect /\ blocks[j] = blocks[i] => j = i
  BY DEF IInv, Places, QueuedCalls
<1>5. \A i \in 1 .. Len(blocks') : i + 1 # 1 /\ (blocks'[i] # Disconnect => blocks'[i] # b)
  BY <1>2, <1>4
<1>6. ASSUME NEW i \in 1 .. Len(blocks'), blocks'[i] # Disconnect
      PROVE  /\ pc'[blocks'[i]] = "queued"
             /\ \A j \in 1 .. Len(blocks') : blocks'[j] = blocks'[i] => j = i
  <2>1. blocks'[i] \in Calls /\ pc[blocks'[i]] = "queued"
    BY SMTT(30), <1>2, <1>3, <1>6 DEF IInv, Places, QueuedCalls
  <2>2. ASSUME NEW j \in 1 .. Len(blocks'), blocks'[j] = blocks'[i] PROVE j = i
    <3>1. j + 1 = i + 1
      BY <1>2, <1>4, <1>6, <2>2
    <3> QED BY <3>1
  <2> QED BY <1>5, <1>6, <2>1, <2>2
<1>7. QueuedCalls'
  BY <1>2, <1>6 DEF QueuedCalls
<1> QED BY <1>2, <1>3, <1>7 DEF IInv, Places, QueuedCalls

LEMMA QueueStays ==
  ASSUME IInv, UNCHANGED blocks, \A k \in Calls : pc[k] = "queued" => pc'[k] = "queued"
  PROVE  QueuedCalls'
<1>1. \A i \in 1 .. Len(blocks) : blocks[i] # Disconnect => blocks[i] \in Calls
  BY DEF IInv, Places, QueuedCalls
<1> QED BY <1>1 DEF IInv, Places, QueuedCalls

-----------------------------------------------------------------------------
(* The steps, one conjunct of the invariant at a time.                     *)

LEMMA ResumedCalls ==
  ASSUME IInv
  PROVE  /\ \A c \in Conns : \A k \in {waiter[c]} \ {None} : k \in Calls /\ pc[k] = "connecting"
         /\ \A i \in Ids : \A k \in {pending[i]} \ {None} : k \in Calls /\ pc[k] = "waiting"
BY DEF IInv, Places, ConnectingCalls, WaitingCalls, Types, TypeOK

(* Whoever resumes a call finds it suspended where it says. *)
LEMMA ResumeIsRight ==
  ASSUME ~misused, NEW ks, NEW from, NEW to, Resume(ks, from, to), \A k \in ks : pc[k] = from
  PROVE  ~misused'
BY DEF Resume

LEMMA NeverMisused == IInv /\ [Next]_vars => ~misused'
<1> SUFFICES ASSUME IInv, [Next]_vars PROVE ~misused'
  OBVIOUS
<1>1. ~misused
  BY DEF IInv, Types
<1>2. CASE UNCHANGED misused
  BY <1>1, <1>2
<1>3. ASSUME NEW k \in Calls, AlreadyConnected(k) PROVE ~misused'
  <2>1. Resume({k}, "queued", "connected") /\ k # Disconnect
    BY <1>3, RPCAssumption DEF AlreadyConnected, Disconnect
  <2>2. pc[k] = "queued"
    <3>1. blocks \in Seq(Calls \union {Disconnect}) /\ blocks # <<>> /\ Head(blocks) = k
      BY <1>3 DEF AlreadyConnected, Runs, IInv, Places, QueuedCalls
    <3>2. 1 \in 1 .. Len(blocks) /\ blocks[1] = k
      BY <3>1
    <3> QED BY <2>1, <3>2 DEF IInv, Places, QueuedCalls
  <2>3. \A x \in {k} : pc[x] = "queued"
    BY <2>2
  <2> QED BY <1>1, <2>1, <2>3, ResumeIsRight
<1>4. ASSUME NEW k \in Calls, Connect(k) PROVE ~misused'
  <2>1. Resume({k}, "queued", "connecting") /\ k # Disconnect
    BY <1>4, RPCAssumption DEF Connect, Disconnect
  <2>2. pc[k] = "queued"
    <3>1. blocks \in Seq(Calls \union {Disconnect}) /\ blocks # <<>> /\ Head(blocks) = k
      BY <1>4 DEF Connect, Runs, IInv, Places, QueuedCalls
    <3>2. 1 \in 1 .. Len(blocks) /\ blocks[1] = k
      BY <3>1
    <3> QED BY <2>1, <3>2 DEF IInv, Places, QueuedCalls
  <2>3. \A x \in {k} : pc[x] = "queued"
    BY <2>2
  <2> QED BY <1>1, <2>1, <2>3, ResumeIsRight
<1>5. CASE RunDisconnect
  <2>1. Resume({pending[i] : i \in Ids} \ {None}, "waiting", "lost")
    BY <1>5 DEF RunDisconnect
  <2>2. \A k \in {pending[i] : i \in Ids} \ {None} : pc[k] = "waiting"
    BY ResumedCalls
  <2> QED BY <1>1, <2>1, <2>2, ResumeIsRight
<1>6. ASSUME NEW c \in Conns, Settles(c) PROVE ~misused'
  <2>1. PICK to : Resume({waiter[c]} \ {None}, "connecting", to)
    BY <1>6 DEF Settles, OnReady, OnFailed, OnCancelled, ResumeWaiter
  <2>2. \A k \in {waiter[c]} \ {None} : pc[k] = "connecting"
    BY ResumedCalls
  <2> QED BY <1>1, <2>1, <2>2, ResumeIsRight
<1>7. ASSUME NEW c \in Conns, OnAnswer(c) \/ OnSendError(c) PROVE ~misused'
  <2>1. PICK m \in sent[c] : Resume({pending[m.id]} \ {None}, "waiting", "done")
    BY <1>7 DEF OnAnswer, OnSendError, Take
  <2>2. m.id \in Ids
    BY DEF IInv, SentRequests
  <2>3. \A k \in {pending[m.id]} \ {None} : pc[k] = "waiting"
    BY <2>2, ResumedCalls
  <2> QED BY <1>1, <2>1, <2>3, ResumeIsRight
<1>8. ASSUME NEW i \in Ids, OnTimeout(i) PROVE ~misused'
  <2>1. Resume({pending[i]} \ {None}, "waiting", "done")
    BY <1>8 DEF OnTimeout, Take
  <2>2. \A k \in {pending[i]} \ {None} : pc[k] = "waiting"
    BY ResumedCalls
  <2> QED BY <1>1, <2>1, <2>2, ResumeIsRight
<1>9. ASSUME NEW k \in Calls, CallSteps(k) PROVE UNCHANGED misused
  BY <1>9 DEF CallSteps, EnsureFast, EnsureSlow, Send, SendNowhere, Retry, Fail
<1>10. ASSUME NEW c \in Conns, OnReceiveEnd(c) PROVE UNCHANGED misused
  BY <1>10 DEF OnReceiveEnd
<1> QED BY <1>2, <1>3, <1>4, <1>5, <1>6, <1>7, <1>8, <1>9, <1>10 DEF Next, QueueSteps, Drop, vars

LEMMA QueuedStep == IInv /\ [Next]_vars => QueuedCalls'
<1> SUFFICES ASSUME IInv, [Next]_vars PROVE QueuedCalls'
  OBVIOUS
<1> USE DEF IInv, Types, TypeOK
<1>1. CASE UNCHANGED <<blocks, pc>>
  BY <1>1, QueueStays
<1>2. ASSUME NEW k \in Calls, EnsureFast(k) \/ Send(k) \/ SendNowhere(k) \/ Fail(k)
      PROVE  QueuedCalls'
  <2>1. UNCHANGED blocks /\ \A x \in Calls : pc[x] = "queued" => pc'[x] = "queued"
    BY <1>2 DEF EnsureFast, Send, SendNowhere, Fail
  <2> QED BY <2>1, QueueStays
<1>3. ASSUME NEW k \in Calls, EnsureSlow(k) PROVE QueuedCalls'
  <2>1. /\ blocks' = Append(blocks, k) /\ pc[k] = "start" /\ pc'[k] = "queued" /\ k # Disconnect
        /\ \A x \in Calls : pc[x] = "queued" => pc'[x] = "queued"
    BY <1>3, RPCAssumption DEF EnsureSlow, Disconnect
  <2>2. \A i \in 1 .. Len(blocks) : blocks[i] # k
    BY <2>1 DEF Places, QueuedCalls
  <2> QED BY <2>1, <2>2, QueueGrows
<1>4. ASSUME NEW k \in Calls, Retry(k) PROVE QueuedCalls'
  <2>1. blocks' = Append(blocks, Disconnect)
        /\ \A x \in Calls : pc[x] = "queued" => pc'[x] = "queued"
    BY <1>4 DEF Retry
  <2> QED BY <2>1, QueueGrows
<1>5. CASE Drop
  <2>1. blocks' = Append(blocks, Disconnect)
        /\ \A x \in Calls : pc[x] = "queued" => pc'[x] = "queued"
    BY <1>5 DEF Drop, callVars
  <2> QED BY <2>1, QueueGrows
<1>6. ASSUME NEW k \in Calls, AlreadyConnected(k) \/ Connect(k) PROVE QueuedCalls'
  <2>1. Runs(k) /\ \A x \in Calls : x # k /\ pc[x] = "queued" => pc'[x] = "queued"
    BY <1>6 DEF AlreadyConnected, Connect, Resume
  <2> QED BY <2>1, QueueShrinks
<1>7. CASE RunDisconnect
  <2>1. Runs(Disconnect) /\ \A x \in Calls : x # Disconnect /\ pc[x] = "queued" => pc'[x] = "queued"
    BY <1>7, ResumedCalls DEF RunDisconnect, Resume
  <2> QED BY <2>1, QueueShrinks
<1>8. ASSUME NEW c \in Conns, Settles(c) PROVE QueuedCalls'
  <2>1. PICK to : Resume({waiter[c]} \ {None}, "connecting", to)
    BY <1>8 DEF Settles, OnReady, OnFailed, OnCancelled, ResumeWaiter
  <2>2. \A x \in Calls : pc[x] = "queued" => pc'[x] = "queued"
    BY <2>1, ResumedCalls DEF Resume
  <2>3. UNCHANGED blocks \/ blocks' = Append(blocks, Disconnect)
    BY <1>8 DEF Settles, OnReady, OnFailed, OnCancelled
  <2> QED BY <2>2, <2>3, QueueStays, QueueGrows
<1>9. ASSUME NEW c \in Conns, OnReceiveEnd(c) PROVE QueuedCalls'
  <2>1. blocks' = Append(blocks, Disconnect)
        /\ \A x \in Calls : pc[x] = "queued" => pc'[x] = "queued"
    BY <1>9 DEF OnReceiveEnd, callVars
  <2> QED BY <2>1, QueueGrows
<1>10. ASSUME NEW i \in Ids, Take(i), UNCHANGED blocks PROVE QueuedCalls'
  <2>1. \A x \in Calls : pc[x] = "queued" => pc'[x] = "queued"
    BY <1>10, ResumedCalls DEF Take, Resume
  <2> QED BY <1>10, <2>1, QueueStays
<1>11. ASSUME NEW c \in Conns, OnAnswer(c) \/ OnSendError(c) PROVE QueuedCalls'
  <2>1. PICK m \in sent[c] : Take(m.id) /\ UNCHANGED blocks
    BY <1>11 DEF OnAnswer, OnSendError
  <2> QED BY <1>10, <2>1 DEF SentRequests
<1>12. ASSUME NEW i \in Ids, OnTimeout(i) PROVE QueuedCalls'
  BY <1>10, <1>12 DEF OnTimeout
<1> QED BY <1>1, <1>2, <1>3, <1>4, <1>5, <1>6, <1>7, <1>8, <1>9, <1>11, <1>12
        DEF Next, CallSteps, QueueSteps, vars

LEMMA TypesStep == IInv /\ [Next]_vars => Types'
<1> SUFFICES ASSUME IInv, [Next]_vars PROVE TypeOK' /\ DOMAIN got' = Calls /\ DOMAIN sent' = Conns
  BY NeverMisused DEF Types
<1>0. blocks \in Seq(Calls \union {Disconnect})
      /\ \A i \in 1 .. Len(blocks)' : blocks'[i] \in Calls \union {Disconnect}
  BY QueuedStep DEF IInv, Places, QueuedCalls
<1> USE <1>0 DEF IInv, Types, TypeOK
<1> DEFINE OK == TypeOK' /\ DOMAIN got' = Calls /\ DOMAIN sent' = Conns
<1>1. CASE UNCHANGED vars
  BY <1>1 DEF vars
<1>2. ASSUME NEW k \in Calls, EnsureFast(k) \/ EnsureSlow(k) \/ Retry(k) \/ Fail(k) PROVE OK
  <2>1. pc' \in [Calls -> {"start", "queued", "connecting", "connected", "waiting", "lost", "done"}]
        /\ try' \in [Calls -> 1 .. 2]
    BY <1>2 DEF EnsureFast, EnsureSlow, Retry, Fail
  <2>2. UNCHANGED <<got, connVars, requestVars>>
    BY <1>2 DEF EnsureFast, EnsureSlow, Retry, Fail
  <2> QED BY <2>1, <2>2 DEF connVars, requestVars
<1>3. ASSUME NEW k \in Calls, pc[k] = "connected", nextID' = FreshID PROVE FreshID \in Ids
  <2>1. <<k, try[k]>> \notin UsedTries /\ <<k, try[k]>> \in Calls \X (1 .. 2)
    BY <1>3 DEF UsedTries
  <2>2. UsedTries \subseteq (Calls \X (1 .. 2)) \ {<<k, try[k]>>}
    BY <2>1 DEF UsedTries
  <2>3. Cardinality(UsedTries) <= 2 * Cardinality(Calls) - 1
    <3> DEFINE tries == Calls \X (1 .. 2)
               u == <<k, try[k]>>
    <3>1. IsFiniteSet(tries) /\ Cardinality(tries) = 2 * Cardinality(Calls)
          /\ u \in tries /\ UsedTries \subseteq tries \ {u}
      BY <2>1, <2>2, TriesAreFinite
    <3> HIDE DEF tries, u
    <3>2. IsFiniteSet(tries \ {u}) /\ Cardinality(tries \ {u}) = Cardinality(tries) - 1
      BY <3>1, FS_RemoveElement
    <3>3. Cardinality(UsedTries) <= Cardinality(tries \ {u})
      BY <3>1, <3>2, FS_Subset
    <3> QED BY <3>1, <3>2, <3>3
  <2>4. nextID \in Nat /\ 2 * Cardinality(Calls) \in Nat
    BY ConnsAreNumbers DEF Ids
  <2> QED BY <2>3, <2>4, UsedTriesAreFinite DEF IdsSuffice, FreshID, Ids, Conns
<1>4. ASSUME NEW k \in Calls, Send(k) PROVE OK
  BY <1>3, <1>4 DEF Send, connVars
<1>5. ASSUME NEW k \in Calls, SendNowhere(k) PROVE OK
  BY <1>3, <1>5 DEF SendNowhere, connVars
<1>6. CASE Drop
  BY <1>6 DEF Drop, callVars, connVars, requestVars
<1>7. ASSUME NEW k \in Calls, AlreadyConnected(k) PROVE OK
  BY <1>7 DEF AlreadyConnected, Resume, connVars, requestVars
<1>8. ASSUME NEW k \in Calls, Connect(k) PROVE OK
  <2>1. PICK c \in Conns :
          /\ nw' = [d \in Conns |-> CASE d = c -> "preparing" [] d = conn -> "cancelled" [] OTHER -> nw[d]]
          /\ handler' = (handler \ {conn}) \union {c}
          /\ waiter' = [waiter EXCEPT ![c] = k]
          /\ conn' = c /\ ready' = FALSE
          /\ Resume({k}, "queued", "connecting")
          /\ UNCHANGED <<try, got, reading, requestVars, drops>>
    BY <1>8 DEF Connect
  <2>2. nw' \in [Conns -> {"none", "preparing", "ready", "dead", "cancelled"}]
    BY <2>1
  <2>3. pc' \in [Calls -> {"start", "queued", "connecting", "connected", "waiting", "lost", "done"}]
    BY <2>1 DEF Resume
  <2>4. handler' \subseteq Conns /\ waiter' \in [Conns -> Calls \union {None}]
        /\ conn' \in Conns /\ ready' \in BOOLEAN
    BY <2>1
  <2> QED BY <2>1, <2>2, <2>3, <2>4 DEF requestVars
<1>9. CASE RunDisconnect
  BY <1>9 DEF RunDisconnect, Resume
<1>10. ASSUME NEW c \in Conns, OnReady(c) PROVE OK
  BY <1>10 DEF OnReady, ResumeWaiter, Resume, requestVars
<1>11. ASSUME NEW c \in Conns, OnFailed(c) PROVE OK
  BY <1>11 DEF OnFailed, ResumeWaiter, Resume, requestVars
<1>12. ASSUME NEW c \in Conns, OnCancelled(c) PROVE OK
  BY <1>12 DEF OnCancelled, ResumeWaiter, Resume, requestVars
<1>13. ASSUME NEW c \in Conns, OnReceiveEnd(c) PROVE OK
  BY <1>13 DEF OnReceiveEnd, callVars, requestVars
<1>14. ASSUME NEW c \in Conns, OnAnswer(c) \/ OnSendError(c) PROVE OK
  BY <1>14 DEF OnAnswer, OnSendError, Take, Resume, connVars
<1>15. ASSUME NEW i \in Ids, OnTimeout(i) PROVE OK
  BY <1>15 DEF OnTimeout, Take, Resume, connVars
<1> QED BY <1>1, <1>2, <1>4, <1>5, <1>6, <1>7, <1>8, <1>9, <1>10, <1>11, <1>12, <1>13, <1>14, <1>15
        DEF Next, CallSteps, QueueSteps, Settles

LEMMA ConnectingStep == IInv /\ [Next]_vars => ConnectingCalls'
<1> SUFFICES ASSUME IInv, [Next]_vars PROVE ConnectingCalls'
  OBVIOUS
<1> USE RPCAssumption DEF IInv, Types, TypeOK, Places, ConnectingCalls
<1>1. CASE UNCHANGED waiter /\ \A k \in Calls : pc[k] = "connecting" => pc'[k] = "connecting"
  BY <1>1
<1>2. ASSUME NEW k \in Calls, CallSteps(k) PROVE ConnectingCalls'
  BY <1>2 DEF CallSteps, EnsureFast, EnsureSlow, Send, SendNowhere, Retry, Fail, connVars
<1>3. ASSUME NEW k \in Calls, AlreadyConnected(k) \/ Connect(k) PROVE pc[k] = "queued"
  <2>1. Runs(k) /\ k # Disconnect /\ \A x \in Calls : x # k /\ pc[x] = "queued" => pc'[x] = "queued"
    BY <1>3 DEF AlreadyConnected, Connect, Resume, Disconnect
  <2> QED BY <2>1, QueueShrinks
<1>4. ASSUME NEW k \in Calls, AlreadyConnected(k) PROVE ConnectingCalls'
  BY <1>3, <1>4 DEF AlreadyConnected, Resume, connVars
<1>5. ASSUME NEW k \in Calls, Connect(k) PROVE ConnectingCalls'
  <2>1. PICK c \in Conns : waiter' = [waiter EXCEPT ![c] = k] /\ Resume({k}, "queued", "connecting")
    BY <1>5 DEF Connect
  <2>2. pc[k] = "queued" /\ \A d \in Conns : waiter[d] # k
    BY <1>3, <1>5
  <2>3. pc' = [x \in Calls |-> IF x = k THEN "connecting" ELSE pc[x]]
    BY <2>1 DEF Resume
  <2> QED BY <2>1, <2>2, <2>3
<1>6. CASE RunDisconnect
  BY <1>6, ResumedCalls DEF RunDisconnect, Resume
<1>7. ASSUME NEW c \in Conns, Settles(c) PROVE ConnectingCalls'
  <2>1. PICK to : ResumeWaiter(c, to)
    BY <1>7 DEF Settles, OnReady, OnFailed, OnCancelled
  <2> QED BY <2>1 DEF ResumeWaiter, Resume
<1>8. ASSUME NEW i \in Ids, Take(i), UNCHANGED waiter PROVE ConnectingCalls'
  BY <1>8, ResumedCalls DEF Take, Resume
<1>9. ASSUME NEW c \in Conns, OnAnswer(c) \/ OnSendError(c) PROVE ConnectingCalls'
  <2>1. PICK m \in sent[c] : Take(m.id) /\ UNCHANGED waiter
    BY <1>9 DEF OnAnswer, OnSendError, connVars
  <2> QED BY <1>8, <2>1 DEF SentRequests
<1>10. ASSUME NEW i \in Ids, OnTimeout(i) PROVE ConnectingCalls'
  BY <1>8, <1>10 DEF OnTimeout, connVars
<1> QED BY <1>1, <1>2, <1>4, <1>5, <1>6, <1>7, <1>9, <1>10
        DEF Next, QueueSteps, Drop, OnReceiveEnd, vars, callVars, connVars

LEMMA WaitingStep == IInv /\ [Next]_vars => WaitingCalls'
<1> SUFFICES ASSUME IInv, [Next]_vars PROVE WaitingCalls'
  OBVIOUS
<1>0. nextID \in Nat /\ \A i \in Ids : i \in Nat
  <2>1. nextID \in {0} \union Ids
    BY DEF IInv, Types, TypeOK
  <2> QED BY <2>1, ConnsAreNumbers DEF Ids
<1> USE RPCAssumption, <1>0 DEF IInv, Types, TypeOK, Places, WaitingCalls
<1>1. CASE UNCHANGED <<pending, nextID>> /\ \A k \in Calls : pc[k] = "waiting" => pc'[k] = "waiting"
  BY <1>1
<1>2. ASSUME NEW k \in Calls, EnsureFast(k) \/ EnsureSlow(k) \/ Retry(k) \/ Fail(k) PROVE WaitingCalls'
  BY <1>1, <1>2 DEF EnsureFast, EnsureSlow, Retry, Fail, requestVars
<1>3. ASSUME NEW k \in Calls, Send(k) PROVE WaitingCalls'
  BY <1>3 DEF Send, FreshID
<1>4. ASSUME NEW k \in Calls, SendNowhere(k) PROVE WaitingCalls'
  BY <1>4 DEF SendNowhere, FreshID
<1>5. ASSUME NEW k \in Calls, AlreadyConnected(k) \/ Connect(k) PROVE WaitingCalls'
  <2>1. Runs(k) /\ k # Disconnect /\ \A x \in Calls : x # k /\ pc[x] = "queued" => pc'[x] = "queued"
    BY <1>5 DEF AlreadyConnected, Connect, Resume, Disconnect
  <2>2. pc[k] = "queued"
    BY <2>1, QueueShrinks
  <2> QED BY <1>1, <1>5, <2>2 DEF AlreadyConnected, Connect, Resume, requestVars
<1>6. CASE RunDisconnect
  BY <1>6 DEF RunDisconnect
<1>7. ASSUME NEW c \in Conns, Settles(c) PROVE WaitingCalls'
  <2>1. PICK to : Resume({waiter[c]} \ {None}, "connecting", to) /\ UNCHANGED <<pending, nextID>>
    BY <1>7 DEF Settles, OnReady, OnFailed, OnCancelled, ResumeWaiter, requestVars
  <2>2. \A k \in Calls : pc[k] = "waiting" => pc'[k] = "waiting"
    BY <2>1, ResumedCalls DEF Resume
  <2> QED BY <1>1, <2>1, <2>2
<1>8. ASSUME NEW i \in Ids, Take(i), UNCHANGED nextID PROVE WaitingCalls'
  BY <1>8 DEF Take, Resume
<1>9. ASSUME NEW c \in Conns, OnAnswer(c) \/ OnSendError(c) PROVE WaitingCalls'
  <2>1. PICK m \in sent[c] : Take(m.id) /\ UNCHANGED nextID
    BY <1>9 DEF OnAnswer, OnSendError
  <2> QED BY <1>8, <2>1 DEF SentRequests
<1>10. ASSUME NEW i \in Ids, OnTimeout(i) PROVE WaitingCalls'
  BY <1>8, <1>10 DEF OnTimeout
<1> QED BY <1>1, <1>2, <1>3, <1>4, <1>5, <1>6, <1>7, <1>9, <1>10
        DEF Next, CallSteps, QueueSteps, Drop, OnReceiveEnd, vars, callVars, requestVars

(* A request that is taken out of pending, or lost with its connection,    *)
(* leaves the others as they are.                                          *)
LEMMA SentStep == IInv /\ [Next]_vars => SentRequests'
<1> SUFFICES ASSUME IInv, [Next]_vars PROVE SentRequests'
  OBVIOUS
<1>0. nextID \in Nat /\ \A i \in Ids : i \in Nat
  <2>1. nextID \in {0} \union Ids
    BY DEF IInv, Types, TypeOK
  <2> QED BY <2>1, ConnsAreNumbers DEF Ids
<1> USE RPCAssumption, <1>0 DEF IInv, Types, TypeOK, SentRequests
<1>1. CASE UNCHANGED <<sent, pending, try, nextID>>
  BY <1>1
<1>2. ASSUME NEW k \in Calls, Retry(k) PROVE SentRequests'
  <2>1. \A i \in Ids : pending[i] # k
    BY <1>2 DEF Retry, Places, WaitingCalls
  <2> QED BY <1>2, <2>1 DEF Retry, requestVars
<1>3. ASSUME NEW k \in Calls, Send(k) PROVE SentRequests'
  <2> DEFINE m == [id |-> FreshID, call |-> k, try |-> try[k]]
  <2>1. /\ pending' = [pending EXCEPT ![FreshID] = k] /\ sent' = [sent EXCEPT ![conn] = @ \union {m}]
        /\ UNCHANGED try /\ nextID' = FreshID
    BY <1>3 DEF Send
  <2>2. FreshID \in Ids /\ FreshID = nextID + 1
    <3>1. Types'
      BY TypesStep
    <3>2. nextID' \in {0} \union Ids
      BY <3>1
    <3> QED BY <2>1, <3>2 DEF FreshID
  <2>3. \A c \in Conns : \A x \in sent'[c] : x \in sent[c] \/ x = m
    BY <2>1
  <2>4. \A c \in Conns : \A x \in sent[c] : x.id # FreshID
    BY <2>2
  <2> HIDE DEF FreshID
  <2> QED BY <2>1, <2>2, <2>3, <2>4
<1>4. ASSUME NEW k \in Calls, SendNowhere(k) PROVE SentRequests'
  BY <1>4 DEF SendNowhere, FreshID
<1>5. CASE RunDisconnect
  BY <1>5 DEF RunDisconnect
<1>6. ASSUME NEW i \in Ids, Take(i), UNCHANGED <<try, nextID>>,
             \A c \in Conns : sent'[c] \subseteq sent[c]
      PROVE  SentRequests'
  BY <1>6 DEF Take
<1>7. ASSUME NEW c \in Conns, OnAnswer(c) \/ OnSendError(c) PROVE SentRequests'
  <2>1. PICK m \in sent[c] : /\ Take(m.id) /\ UNCHANGED <<try, nextID>>
                             /\ sent' = [sent EXCEPT ![c] = @ \ {m}]
    BY <1>7 DEF OnAnswer, OnSendError
  <2>2. \A d \in Conns : sent'[d] \subseteq sent[d]
    BY <2>1
  <2> QED BY <1>6, <2>1, <2>2
<1>8. ASSUME NEW i \in Ids, OnTimeout(i) PROVE SentRequests'
  BY <1>6, <1>8 DEF OnTimeout
<1> QED BY <1>1, <1>2, <1>3, <1>4, <1>5, <1>7, <1>8
        DEF Next, CallSteps, QueueSteps, Settles, Drop, OnReceiveEnd, EnsureFast, EnsureSlow, Fail,
            AlreadyConnected, Connect, OnReady, OnFailed, OnCancelled, vars, callVars, requestVars

LEMMA AnsweredStep == IInv /\ [Next]_vars => AnsweredCalls'
<1> SUFFICES ASSUME IInv, [Next]_vars PROVE AnsweredCalls'
  OBVIOUS
<1> USE RPCAssumption DEF IInv, Types, TypeOK, AnsweredCalls
<1>1. ASSUME UNCHANGED got, \A k \in Calls : pc[k] = "done" => pc'[k] = "done" /\ try'[k] = try[k]
      PROVE  AnsweredCalls'
  BY <1>1
<1>2. ASSUME NEW k \in Calls, CallSteps(k) PROVE AnsweredCalls'
  BY <1>2 DEF CallSteps, EnsureFast, EnsureSlow, Send, SendNowhere, Retry, Fail
<1>3. ASSUME NEW ks, NEW from, NEW to, Resume(ks, from, to), UNCHANGED <<got, try>>,
             \A k \in ks : k \in Calls => pc[k] # "done"
      PROVE  AnsweredCalls'
  BY <1>1, <1>3 DEF Resume
<1>4. ASSUME NEW k \in Calls, AlreadyConnected(k) \/ Connect(k) PROVE AnsweredCalls'
  <2>1. Runs(k) /\ k # Disconnect /\ \A x \in Calls : x # k /\ pc[x] = "queued" => pc'[x] = "queued"
    BY <1>4 DEF AlreadyConnected, Connect, Resume, Disconnect
  <2>2. pc[k] = "queued"
    BY <2>1, QueueShrinks
  <2>3. PICK to : Resume({k}, "queued", to)
    BY <1>4 DEF AlreadyConnected, Connect
  <2>4. UNCHANGED <<got, try>>
    BY <1>4 DEF AlreadyConnected, Connect
  <2> QED BY <1>3, <2>2, <2>3, <2>4
<1>5. CASE RunDisconnect
  <2>1. Resume({pending[i] : i \in Ids} \ {None}, "waiting", "lost") /\ UNCHANGED <<got, try>>
    BY <1>5 DEF RunDisconnect
  <2>2. \A k \in {pending[i] : i \in Ids} \ {None} : pc[k] # "done"
    BY ResumedCalls
  <2> QED BY <1>3, <2>1, <2>2
<1>6. ASSUME NEW c \in Conns, Settles(c) PROVE AnsweredCalls'
  <2>1. PICK to : Resume({waiter[c]} \ {None}, "connecting", to)
    BY <1>6 DEF Settles, OnReady, OnFailed, OnCancelled, ResumeWaiter
  <2>2. \A k \in {waiter[c]} \ {None} : pc[k] # "done"
    BY ResumedCalls
  <2>3. UNCHANGED <<got, try>>
    BY <1>6 DEF Settles, OnReady, OnFailed, OnCancelled
  <2> QED BY <1>3, <2>1, <2>2, <2>3
<1>7. ASSUME NEW i \in Ids, Take(i), UNCHANGED <<got, try>> PROVE AnsweredCalls'
  <2>1. Resume({pending[i]} \ {None}, "waiting", "done")
    BY <1>7 DEF Take
  <2>2. \A k \in {pending[i]} \ {None} : pc[k] # "done"
    BY ResumedCalls
  <2> QED BY <1>3, <1>7, <2>1, <2>2
<1>8. ASSUME NEW c \in Conns, OnSendError(c) PROVE AnsweredCalls'
  <2>1. PICK m \in sent[c] : Take(m.id) /\ UNCHANGED <<got, try>>
    BY <1>8 DEF OnSendError
  <2> QED BY <1>7, <2>1 DEF SentRequests
<1>9. ASSUME NEW i \in Ids, OnTimeout(i) PROVE AnsweredCalls'
  BY <1>7, <1>9 DEF OnTimeout
<1>10. ASSUME NEW c \in Conns, OnAnswer(c) PROVE AnsweredCalls'
  <2>1. PICK m \in sent[c] : /\ Take(m.id) /\ UNCHANGED try
                             /\ got' = [k \in Calls |-> IF k = pending[m.id] THEN m ELSE got[k]]
    BY <1>10 DEF OnAnswer
  <2>2. m.id \in Ids /\ (pending[m.id] # None => m.call = pending[m.id] /\ m.try = try[pending[m.id]])
    BY DEF SentRequests
  <2>3. pc' = [k \in Calls |-> IF k \in {pending[m.id]} \ {None} THEN "done" ELSE pc[k]]
    BY <2>1 DEF Take, Resume
  <2> QED BY <2>1, <2>2, <2>3
<1> QED BY <1>1, <1>2, <1>4, <1>5, <1>6, <1>8, <1>9, <1>10
        DEF Next, QueueSteps, Drop, OnReceiveEnd, vars, callVars

LEMMA IdsSufficeStep == IInv /\ [Next]_vars => IdsSuffice'
<1> SUFFICES ASSUME IInv, [Next]_vars PROVE IdsSuffice'
  OBVIOUS
<1> DEFINE Used == {"waiting", "lost", "done"}
<1> USE RPCAssumption DEF IInv, Types, TypeOK
<1>1. ASSUME UNCHANGED try, \A k \in Calls : pc[k] \in Used => pc'[k] \in Used
      PROVE  UsedTries \subseteq UsedTries'
  BY <1>1 DEF UsedTries
<1>2. ASSUME UNCHANGED <<try, nextID>>, \A k \in Calls : pc[k] \in Used => pc'[k] \in Used
      PROVE  IdsSuffice'
  BY <1>1, <1>2, IdsStep
<1>3. ASSUME NEW k \in Calls, EnsureFast(k) \/ EnsureSlow(k) \/ Fail(k) PROVE IdsSuffice'
  BY <1>2, <1>3 DEF EnsureFast, EnsureSlow, Fail, requestVars
<1>4. ASSUME NEW k \in Calls, Retry(k) PROVE IdsSuffice'
  <2>1. /\ try[k] = 1 /\ pc[k] = "lost" /\ try' = [try EXCEPT ![k] = 2]
        /\ pc' = [pc EXCEPT ![k] = "start"] /\ UNCHANGED nextID
    BY <1>4 DEF Retry, requestVars
  <2>2. UsedTries \subseteq UsedTries'
    <3> SUFFICES ASSUME NEW u \in UsedTries PROVE u \in UsedTries'
      OBVIOUS
    <3>1. u \in Calls \X (1 .. 2) /\ u[1] \in Calls /\ u[2] \in 1 .. 2
          /\ (u[2] < try[u[1]] \/ (u[2] = try[u[1]] /\ pc[u[1]] \in Used))
      BY DEF UsedTries
    <3>2. u[2] < try'[u[1]] \/ (u[2] = try'[u[1]] /\ pc'[u[1]] \in Used)
      BY <2>1, <3>1
    <3> QED BY <3>1, <3>2 DEF UsedTries
  <2> QED BY <2>1, <2>2, IdsStep
<1>5. ASSUME NEW k \in Calls, Send(k) \/ SendNowhere(k) PROVE IdsSuffice'
  <2> DEFINE u == <<k, try[k]>>
  <2>1. /\ pc[k] = "connected" /\ pc'[k] \in Used /\ UNCHANGED try /\ nextID' = nextID + 1
        /\ \A x \in Calls : pc[x] \in Used => pc'[x] \in Used
    BY <1>5 DEF Send, SendNowhere, FreshID
  <2>2. u \notin UsedTries /\ u \in UsedTries' /\ UsedTries \subseteq UsedTries'
    <3>1. UsedTries \subseteq UsedTries'
      BY <1>1, <2>1
    <3>2. u \notin UsedTries /\ u \in UsedTries'
      BY <2>1 DEF UsedTries
    <3> QED BY <3>1, <3>2
  <2> HIDE DEF u
  <2>3. UsedTries \union {u} \subseteq UsedTries'
    BY <2>2
  <2>4. IsFiniteSet(UsedTries \union {u}) /\ Cardinality(UsedTries \union {u}) = Cardinality(UsedTries) + 1
    BY <2>2, UsedTriesAreFinite, FS_AddElement
  <2>5. Cardinality(UsedTries \union {u}) <= Cardinality(UsedTries')
    BY <2>3, UsedTriesAreFinite, FS_Subset
  <2>6. nextID \in Nat /\ nextID <= Cardinality(UsedTries)
    BY ConnsAreNumbers DEF Ids, IdsSuffice
  <2> QED BY <2>1, <2>4, <2>5, <2>6, UsedTriesAreFinite DEF IdsSuffice
<1>6. ASSUME NEW ks, NEW from, NEW to, Resume(ks, from, to), UNCHANGED <<try, nextID>>,
             \A k \in ks : k \in Calls => pc[k] \notin Used \/ to \in Used
      PROVE  IdsSuffice'
  BY <1>2, <1>6 DEF Resume
<1>7. ASSUME NEW k \in Calls, AlreadyConnected(k) \/ Connect(k) PROVE IdsSuffice'
  <2>1. Runs(k) /\ k # Disconnect /\ \A x \in Calls : x # k /\ pc[x] = "queued" => pc'[x] = "queued"
    BY <1>7 DEF AlreadyConnected, Connect, Resume, Disconnect
  <2>2. pc[k] = "queued"
    BY <2>1, QueueShrinks
  <2>3. (\E to : Resume({k}, "queued", to)) /\ UNCHANGED <<try, nextID>>
    BY <1>7 DEF AlreadyConnected, Connect, requestVars
  <2> QED BY <1>6, <2>2, <2>3
<1>8. CASE RunDisconnect
  <2>1. Resume({pending[i] : i \in Ids} \ {None}, "waiting", "lost") /\ UNCHANGED <<try, nextID>>
    BY <1>8 DEF RunDisconnect
  <2> QED BY <1>6, <2>1
<1>9. ASSUME NEW c \in Conns, Settles(c) PROVE IdsSuffice'
  <2>1. (\E to : Resume({waiter[c]} \ {None}, "connecting", to)) /\ UNCHANGED <<try, nextID>>
    BY <1>9 DEF Settles, OnReady, OnFailed, OnCancelled, ResumeWaiter, requestVars
  <2>2. \A k \in {waiter[c]} \ {None} : pc[k] \notin Used
    BY ResumedCalls
  <2> QED BY <1>6, <2>1, <2>2
<1>10. ASSUME NEW c \in Conns, OnAnswer(c) \/ OnSendError(c) PROVE IdsSuffice'
  <2>1. PICK m \in sent[c] : Resume({pending[m.id]} \ {None}, "waiting", "done") /\ UNCHANGED <<try, nextID>>
    BY <1>10 DEF OnAnswer, OnSendError, Take
  <2> QED BY <1>6, <2>1
<1>11. ASSUME NEW i \in Ids, OnTimeout(i) PROVE IdsSuffice'
  <2>1. Resume({pending[i]} \ {None}, "waiting", "done") /\ UNCHANGED <<try, nextID>>
    BY <1>11 DEF OnTimeout, Take
  <2> QED BY <1>6, <2>1
<1>12. CASE UNCHANGED <<pc, try, nextID>>
  BY <1>2, <1>12
<1> QED BY <1>3, <1>4, <1>5, <1>7, <1>8, <1>9, <1>10, <1>11, <1>12
        DEF Next, CallSteps, QueueSteps, Drop, OnReceiveEnd, vars, callVars, requestVars

-----------------------------------------------------------------------------
(***************************************************************************)
(* For any number of calls, no continuation of RemoteRPCClient is resumed  *)
(* twice, and a call is given the answer to its own latest request: answer,*)
(* timeout, send error and disconnect exclude each other (pending, and     *)
(* `resumed` of a connection).                                             *)
(***************************************************************************)
THEOREM CallsEndOnce == Spec => []Inv
<1>1. IInv /\ [Next]_vars => IInv'
  BY TypesStep, QueuedStep, ConnectingStep, WaitingStep, SentStep, AnsweredStep, IdsSufficeStep
     DEF IInv, Places
<1>2. IInv => Inv
  BY DEF IInv, Types, AnsweredCalls, Inv, ResumedOnce, AnswersMatch
<1> QED BY <1>1, <1>2, InitInv, PTL DEF Spec

-----------------------------------------------------------------------------
(***************************************************************************)
(* The sessions and listeners of mux.go, for any number of clients,        *)
(* ensureListener calls, hosts and sessions.                               *)
(***************************************************************************)

Spawning(c) == at[c] \in {"spawn", "spawned"}

(* sessionsSpawning is a lock: its hosts have one spawner each, and while  *)
(* somebody spawns, the map has no live session for the host.              *)
SpawnersExclude ==
  \A c \in Clients : Spawning(c) =>
    /\ host[c] \in spawning
    /\ ~Live(host[c])
    /\ \A d \in Clients : Spawning(d) /\ host[d] = host[c] => d = c

(* A spawner that is through holds a session that leads to its host. *)
SpawnedLeadsHome ==
  \A c \in Clients : at[c] = "spawned" => sess[c] \in Sessions /\ peer[sess[c]] = host[c]

Held(s) == \E c \in Clients : at[c] = "spawned" /\ sess[c] = s

(* An open session is the one in the map, or its spawner still has it. *)
OpenIsKnown ==
  \A s \in open : peer[s] \in Hosts /\ (sessions[peer[s]] = s \/ Held(s))

(* A call past its check is for a host. *)
OpenersHaveTargets == \A l \in Openers : opener[l] # "idle" => target[l] \in Hosts

(* The path is served before the listener is recorded, or was refused. *)
RecordersAreServed ==
  \A l \in Openers : opener[l] = "record" => Served(target[l]) \/ target[l] \in refused

(* A socket that has no accept loop yet is that of a call about to start it. *)
NewSocketsAreRecorded ==
  \A h \in Hosts : path[h] \in Openers => opener[path[h]] = "record" /\ target[path[h]] = h

DeafIsRefused == \A h \in Hosts : path[h] = "deaf" => h \in refused

Sockets ==
  /\ OpenersHaveTargets
  /\ RecordersAreServed
  /\ NewSocketsAreRecorded
  /\ DeafIsRefused
  /\ PathIsServed
Spawns == SpawnersExclude /\ SpawnedLeadsHome /\ OpenIsKnown
MuxIInv == MuxTypeOK /\ Spawns /\ Sockets

(* Two open sessions to a host are the one in the map, or the one a        *)
(* spawner holds, and it holds one only while the map has no live one.     *)
LEMMA OneSession == MuxTypeOK /\ Spawns => OneSessionPerHost
<1> SUFFICES ASSUME MuxTypeOK, Spawns, NEW s \in open, NEW t \in open, peer[s] = peer[t]
             PROVE  s = t
  BY DEF OneSessionPerHost
<1> USE DEF Spawns
<1>1. s # NoSession /\ t # NoSession
  BY NullsAssumption DEF MuxTypeOK
<1>2. ASSUME NEW x \in open, NEW y \in open, peer[x] = peer[y], sessions[peer[x]] = x, Held(y)
      PROVE  FALSE
  <2>1. PICK c \in Clients : at[c] = "spawned" /\ sess[c] = y
    BY <1>2 DEF Held
  <2>2. host[c] = peer[x] /\ ~Live(host[c])
    BY <1>2, <2>1 DEF SpawnedLeadsHome, SpawnersExclude, Spawning
  <2>3. x # NoSession
    BY NullsAssumption DEF MuxTypeOK
  <2> QED BY <1>2, <2>2, <2>3 DEF Live
<1>3. CASE Held(s) /\ Held(t)
  <2>1. PICK c \in Clients : at[c] = "spawned" /\ sess[c] = s
    BY <1>3 DEF Held
  <2>2. PICK d \in Clients : at[d] = "spawned" /\ sess[d] = t
    BY <1>3 DEF Held
  <2>3. host[c] = host[d]
    BY <2>1, <2>2 DEF SpawnedLeadsHome
  <2> QED BY <2>1, <2>2, <2>3 DEF SpawnersExclude, Spawning
<1>4. (sessions[peer[s]] = s \/ Held(s)) /\ (sessions[peer[t]] = t \/ Held(t))
  BY DEF OpenIsKnown
<1> QED BY <1>2, <1>3, <1>4

-----------------------------------------------------------------------------
LEMMA MuxInitInv == MuxInit => MuxIInv
<1> SUFFICES ASSUME MuxInit PROVE MuxIInv
  OBVIOUS
<1> USE DEF MuxInit
<1>1. MuxTypeOK
  BY DEF MuxTypeOK, PathStates
<1>2. Spawns
  BY DEF Spawns, SpawnersExclude, SpawnedLeadsHome, OpenIsKnown, Spawning
<1>3. Sockets
  BY NullsAssumption DEF Sockets, OpenersHaveTargets, RecordersAreServed, NewSocketsAreRecorded, DeafIsRefused,
               PathIsServed, PathStates
<1> QED BY <1>1, <1>2, <1>3 DEF MuxIInv

OpenersNext == \E l \in Openers : CheckListener(l) \/ OpenerStep(l)

(* ensureListener: whoever unlinks the socket is about to make it again. *)
LEMMA SocketsStep == MuxIInv /\ [MuxNext]_muxVars => Sockets'
<1> SUFFICES ASSUME MuxIInv, [MuxNext]_muxVars PROVE Sockets'
  OBVIOUS
<1> USE NullsAssumption DEF Sockets, OpenersHaveTargets, RecordersAreServed, NewSocketsAreRecorded,
                            DeafIsRefused, PathIsServed, Served, MuxIInv, MuxTypeOK, PathStates
<1>1. CASE UNCHANGED listenVars
  BY <1>1 DEF listenVars
<1>2. ASSUME NEW l \in Openers, CheckListener(l) PROVE Sockets'
  BY <1>2 DEF CheckListener, ListenStep
<1>3. ASSUME NEW l \in Openers, RemoveSocket(l) PROVE Sockets'
  BY <1>3 DEF RemoveSocket, ListenStep
<1>4. ASSUME NEW l \in Openers, Listen(l) PROVE Sockets'
  BY <1>4 DEF Listen, ListenStep
<1>5. ASSUME NEW l \in Openers, ListenFails(l) \/ ListenRefused(l) PROVE Sockets'
  BY <1>5 DEF ListenFails, ListenRefused, GiveUp, ListenStep
<1>6. ASSUME NEW l \in Openers, RecordListener(l) PROVE Sockets'
  BY <1>6 DEF RecordListener, ListenStep
<1>8. ASSUME NEW h \in Hosts, AcceptFails(h) PROVE Sockets'
  BY <1>8 DEF AcceptFails
<1>7. OpenersNext \/ (\E h \in Hosts : AcceptFails(h)) \/ UNCHANGED listenVars
  BY DEF MuxNext, ClientStep, SpawnEnds, OpenersNext, Accept, UseSession, WaitForSpawn, StartSpawn, SpawnSession,
         SpawnFails, PublishSession, TakeSession, OpenStream, OpenStreamFails, LoseSession, EndStream, Return,
         SessionDies, WatchSession, muxVars, listenVars
<1> QED BY <1>1, <1>2, <1>3, <1>4, <1>5, <1>6, <1>7, <1>8 DEF OpenersNext, OpenerStep

LEMMA MuxTypesStep == MuxIInv /\ [MuxNext]_muxVars => MuxTypeOK'
<1> SUFFICES ASSUME MuxIInv, [MuxNext]_muxVars PROVE MuxTypeOK'
  OBVIOUS
<1> USE NullsAssumption DEF MuxIInv, MuxTypeOK, PathStates
<1>1. CASE UNCHANGED muxVars
  BY <1>1 DEF muxVars
<1>2. ASSUME NEW c \in Clients, Accept(c) \/ EndStream(c) PROVE MuxTypeOK'
  BY <1>2 DEF Accept, EndStream, Step, sessionVars, listenVars
<1>3. ASSUME NEW c \in Clients, UseSession(c) \/ WaitForSpawn(c) \/ StartSpawn(c) PROVE MuxTypeOK'
  BY <1>3 DEF UseSession, WaitForSpawn, StartSpawn, Step, sessionVars, listenVars
<1>4. ASSUME NEW c \in Clients, SpawnSession(c) PROVE MuxTypeOK'
  BY <1>4 DEF SpawnSession, Step, listenVars
<1>5. ASSUME NEW c \in Clients, SpawnFails(c) PROVE MuxTypeOK'
  BY <1>5 DEF SpawnFails, WakeWaiters, listenVars
<1>6. ASSUME NEW c \in Clients, PublishSession(c) PROVE MuxTypeOK'
  <2>1. sess[c] \in Sessions /\ host[c] \in Hosts
    BY <1>6 DEF PublishSession, Spawns, SpawnedLeadsHome
  <2> QED BY <1>6, <2>1 DEF PublishSession, WakeWaiters, listenVars
<1>7. ASSUME NEW c \in Clients, TakeSession(c) \/ OpenStream(c) PROVE MuxTypeOK'
  BY <1>7 DEF TakeSession, OpenStream, Close, Step, sessionVars, listenVars
<1>10. ASSUME NEW c \in Clients, OpenStreamFails(c) \/ LoseSession(c) \/ Return(c) PROVE MuxTypeOK'
  BY <1>10 DEF OpenStreamFails, LoseSession, EndStream, Return, Close, Step, sessionVars, listenVars
<1>11. ASSUME NEW h \in Hosts, AcceptFails(h) PROVE MuxTypeOK'
  BY <1>11 DEF AcceptFails, sessionVars, clientVars
<1>8. ASSUME NEW s \in Sessions, SessionDies(s) \/ WatchSession(s) PROVE MuxTypeOK'
  BY <1>8 DEF SessionDies, WatchSession, clientVars, listenVars
<1>9. ASSUME NEW l \in Openers, CheckListener(l) \/ OpenerStep(l) PROVE MuxTypeOK'
  BY <1>9 DEF CheckListener, OpenerStep, RemoveSocket, Listen, ListenFails, ListenRefused, RecordListener,
              GiveUp, ListenStep, Sockets, OpenersHaveTargets, sessionVars, clientVars
<1> QED BY <1>1, <1>2, <1>3, <1>4, <1>5, <1>6, <1>7, <1>8, <1>9, <1>10, <1>11
        DEF MuxNext, ClientStep, SpawnEnds

LEMMA SpawnsStep == MuxIInv /\ [MuxNext]_muxVars => Spawns'
<1> SUFFICES ASSUME MuxIInv, [MuxNext]_muxVars PROVE Spawns'
  OBVIOUS
<1> USE NullsAssumption DEF MuxIInv, Spawns, SpawnersExclude, SpawnedLeadsHome, OpenIsKnown,
                            Spawning, Held, Live, MuxTypeOK
<1>1. CASE UNCHANGED <<sessionVars, clientVars>>
  BY <1>1 DEF sessionVars, clientVars
<1>2. ASSUME NEW c \in Clients, Accept(c) \/ EndStream(c) PROVE Spawns'
  BY <1>2 DEF Accept, EndStream, Step, sessionVars
<1>3. ASSUME NEW c \in Clients, UseSession(c) \/ WaitForSpawn(c) PROVE Spawns'
  BY <1>3 DEF UseSession, WaitForSpawn, Step, sessionVars
<1>4. ASSUME NEW c \in Clients, StartSpawn(c) PROVE Spawns'
  BY <1>4 DEF StartSpawn, Step
<1>5. ASSUME NEW c \in Clients, SpawnSession(c) PROVE Spawns'
  BY <1>5 DEF SpawnSession, Step, Reachable
<1>6. ASSUME NEW c \in Clients, SpawnFails(c) PROVE Spawns'
  BY <1>6 DEF SpawnFails, WakeWaiters
<1>7. ASSUME NEW c \in Clients, PublishSession(c) PROVE Spawns'
  BY <1>7 DEF PublishSession, WakeWaiters
<1>8. ASSUME NEW c \in Clients, TakeSession(c) \/ OpenStream(c) PROVE Spawns'
  BY <1>8 DEF TakeSession, OpenStream, Close, Step, sessionVars
<1>13. ASSUME NEW c \in Clients, OpenStreamFails(c) \/ LoseSession(c) \/ Return(c) PROVE Spawns'
  BY <1>13 DEF OpenStreamFails, LoseSession, EndStream, Return, Close, Step, sessionVars
<1>14. ASSUME NEW h \in Hosts, AcceptFails(h) PROVE Spawns'
  BY <1>1, <1>14 DEF AcceptFails
<1>9. ASSUME NEW s \in Sessions, SessionDies(s) PROVE Spawns'
  BY <1>9 DEF SessionDies, clientVars
<1>10. ASSUME NEW s \in Sessions, WatchSession(s) PROVE Spawns'
  BY <1>10 DEF WatchSession, clientVars
<1>11. ASSUME NEW l \in Openers, CheckListener(l) \/ OpenerStep(l) PROVE Spawns'
  BY <1>1, <1>11 DEF CheckListener, OpenerStep, RemoveSocket, Listen, ListenFails, ListenRefused,
                          RecordListener
<1>12. CASE UNCHANGED muxVars
  BY <1>1, <1>12 DEF muxVars, sessionVars, clientVars
<1> QED BY <1>2, <1>3, <1>4, <1>5, <1>6, <1>7, <1>8, <1>9, <1>10, <1>11, <1>12, <1>13, <1>14
        DEF MuxNext, ClientStep, SpawnEnds

LEMMA MuxInvariance == MuxSpec => []MuxIInv
<1>1. MuxIInv /\ [MuxNext]_muxVars => MuxIInv'
  BY MuxTypesStep, SpawnsStep, SocketsStep DEF MuxIInv
<1> QED BY <1>1, MuxInitInv, PTL DEF MuxSpec

-----------------------------------------------------------------------------
(***************************************************************************)
(* "One yamux client session per host" (mux.go): for any number of clients *)
(* and hosts, ensureSession never opens a second session to a host, and    *)
(* its waiters have a spawn to wait for.                                   *)
(***************************************************************************)
THEOREM SessionsAreSingle == MuxSpec => []MuxInv
<1>1. MuxIInv => MuxInv
  BY OneSession DEF MuxIInv, MuxInv
<1> QED BY <1>1, MuxInvariance, PTL

(***************************************************************************)
(* ensureListener: overlapping calls that unlink each other's sockets never*)
(* leave a recorded host whose path nobody serves or is about to serve;    *)
(* only a listen or accept that the system refused, and none since that    *)
(* succeeded, does.                                                        *)
(***************************************************************************)
THEOREM PathsAreServed == MuxSpec => []PathIsServed
<1>1. MuxIInv => PathIsServed
  BY DEF MuxIInv, Sockets
<1> QED BY <1>1, MuxInvariance, PTL

(***************************************************************************)
(* A step never takes a live session out of the map (ensureSession and     *)
(* watchSession): it is replaced only when its host has no live one.       *)
(***************************************************************************)
THEOREM LiveSessionsStay == MuxSpec => LiveSessionStays
<1>1. MuxIInv /\ [MuxNext]_muxVars =>
        [\A h \in Hosts : Live(h) /\ sessions[h] \in open' => sessions'[h] = sessions[h]]_muxVars
  <2> SUFFICES ASSUME MuxIInv, MuxNext, NEW h \in Hosts, Live(h), sessions[h] \in open'
               PROVE  sessions'[h] = sessions[h]
    OBVIOUS
  <2> USE DEF MuxIInv, MuxTypeOK, Live
  <2>1. ASSUME NEW c \in Clients, PublishSession(c) PROVE sessions'[h] = sessions[h]
    <3>1. ~Live(host[c]) /\ sessions' = [sessions EXCEPT ![host[c]] = sess[c]]
      BY <2>1 DEF PublishSession, Spawns, SpawnersExclude, Spawning
    <3> QED BY <3>1
  <2>2. ASSUME NEW s \in Sessions, WatchSession(s) PROVE sessions'[h] = sessions[h]
    BY <2>2 DEF WatchSession
  <2>3. CASE UNCHANGED sessions
    BY <2>3
  <2>4. \/ \E c \in Clients : PublishSession(c)
        \/ \E s \in Sessions : WatchSession(s)
        \/ UNCHANGED sessions
    BY DEF MuxNext, ClientStep, SpawnEnds, OpenerStep, Accept, EndStream, UseSession, WaitForSpawn, StartSpawn,
           SpawnSession, SpawnFails, TakeSession, OpenStream, OpenStreamFails, LoseSession, Return, SessionDies,
           CheckListener, RemoveSocket, Listen, ListenFails, ListenRefused, RecordListener, AcceptFails, sessionVars
  <2> QED BY <2>1, <2>2, <2>3, <2>4
<1> QED BY <1>1, MuxInvariance, PTL DEF MuxSpec, LiveSessionStays
=============================================================================
