------------------------------ MODULE RPCClient -----------------------------
(***************************************************************************)
(* The control RPC client of a project (RemoteRPCClient.swift).  Calls of  *)
(* send share one NWConnection.  Blocks on the client's serial queue       *)
(* connect and disconnect; the callbacks of a connection run on the same   *)
(* queue; the calls themselves do not, and read `connection` and           *)
(* `connectionReady` as they find them.                                    *)
(***************************************************************************)
EXTENDS Naturals, Sequences, FiniteSets

CONSTANTS
  Calls,      \* calls of send
  None,
  MaxDrops    \* bounds the calls of disconnect by the registry

ASSUME RPCAssumption ==
  /\ IsFiniteSet(Calls)
  /\ None \notin Calls
  /\ MaxDrops \in Nat

\* A call tries twice, and connects and sends at most once each time.
Conns == 1..(2 * Cardinality(Calls))
Ids == Conns

VARIABLES
  pc, try,    \* of each call
  got,        \* the request each call was given the answer to
  blocks,     \* the client's serial queue
  conn,       \* connection, 0 for nil
  ready,      \* connectionReady
  nw,         \* the state of each NWConnection
  handler,    \* those with a stateUpdateHandler
  waiter,     \* the call whose continuation it is to resume
  reading,    \* those with a receive outstanding
  sent,       \* the requests written to each connection
  pending,    \* pending: the call of each id
  nextID,
  misused,    \* a continuation was resumed twice
  drops

callVars == <<pc, try, got>>
connVars == <<conn, ready, nw, handler, waiter, reading>>
requestVars == <<sent, pending, nextID>>
vars == <<pc, try, got, blocks, conn, ready, nw, handler, waiter, reading,
          sent, pending, nextID, misused, drops>>

Init ==
  /\ pc = [k \in Calls |-> "start"]
  /\ try = [k \in Calls |-> 1]
  /\ got = [k \in Calls |-> None]
  /\ blocks = <<>>
  /\ conn = 0
  /\ ready = FALSE
  /\ nw = [c \in Conns |-> "none"]
  /\ handler = {}
  /\ waiter = [c \in Conns |-> None]
  /\ reading = {}
  /\ sent = [c \in Conns |-> {}]
  /\ pending = [i \in Ids |-> None]
  /\ nextID = 0
  /\ misused = FALSE
  /\ drops = 0

\* Block of the queue.
Disconnect == None

Connected == ready /\ conn # 0

\* Calls ks, all suspended at `from`, are resumed and go on at `to`.
Resume(ks, from, to) ==
  /\ pc' = [k \in Calls |-> IF k \in ks THEN to ELSE pc[k]]
  /\ misused' = (misused \/ \E k \in ks : pc[k] # from)

-----------------------------------------------------------------------------
(* send, sendOnce and ensureConnected.                                     *)

EnsureFast(k) ==
  /\ pc[k] = "start"
  /\ Connected
  /\ pc' = [pc EXCEPT ![k] = "connected"]
  /\ UNCHANGED <<try, got, blocks, connVars, requestVars, misused, drops>>

EnsureSlow(k) ==
  /\ pc[k] = "start"
  /\ ~Connected
  /\ pc' = [pc EXCEPT ![k] = "queued"]
  /\ blocks' = Append(blocks, k)
  /\ UNCHANGED <<try, got, connVars, requestVars, misused, drops>>

\* Broken variant: the lowest free id is used again.
LowestFreeID ==
  CHOOSE i \in Ids : pending[i] = None /\ \A j \in 1..(i - 1) : pending[j] # None

FreshID == nextID + 1

\* The request is entered into pending and written to what `connection` then
\* is, be it another one than the call waited for.
Send(k) ==
  /\ pc[k] = "connected"
  /\ conn # 0
  /\ nextID' = FreshID
  /\ pending' = [pending EXCEPT ![FreshID] = k]
  /\ sent' = [sent EXCEPT ![conn] =
                @ \union {[id |-> FreshID, call |-> k, try |-> try[k]]}]
  /\ pc' = [pc EXCEPT ![k] = "waiting"]
  /\ UNCHANGED <<try, got, blocks, connVars, misused, drops>>

SendNowhere(k) ==
  /\ pc[k] = "connected"
  /\ conn = 0
  /\ nextID' = FreshID
  /\ pc' = [pc EXCEPT ![k] = "lost"]
  /\ UNCHANGED <<try, got, blocks, connVars, sent, pending, misused, drops>>

\* connectionLost: disconnect and try once more.
Retry(k) ==
  /\ pc[k] = "lost"
  /\ try[k] = 1
  /\ try' = [try EXCEPT ![k] = 2]
  /\ pc' = [pc EXCEPT ![k] = "start"]
  /\ blocks' = Append(blocks, Disconnect)
  /\ UNCHANGED <<got, connVars, requestVars, misused, drops>>

Fail(k) ==
  /\ pc[k] = "lost"
  /\ try[k] = 2
  /\ pc' = [pc EXCEPT ![k] = "done"]
  /\ UNCHANGED <<try, got, blocks, connVars, requestVars, misused, drops>>

\* teardown, or a new registration of the project.
Drop ==
  /\ drops < MaxDrops
  /\ drops' = drops + 1
  /\ blocks' = Append(blocks, Disconnect)
  /\ UNCHANGED <<callVars, connVars, requestVars, misused>>

-----------------------------------------------------------------------------
(* The queue.                                                              *)

Runs(block) == blocks # <<>> /\ Head(blocks) = block /\ blocks' = Tail(blocks)

AlreadyConnected(k) ==
  /\ Runs(k)
  /\ Connected
  /\ Resume({k}, "queued", "connected")
  /\ UNCHANGED <<try, got, connVars, requestVars, drops>>

\* connectInternal: an old connection is cancelled without its handler.
Connect(k) ==
  \E c \in Conns :
    /\ Runs(k)
    /\ ~Connected
    /\ nw[c] = "none"
    /\ \A d \in 1..(c - 1) : nw[d] # "none"
    /\ nw' = [d \in Conns |-> CASE d = c -> "preparing"
                                [] d = conn -> "cancelled"
                                [] OTHER -> nw[d]]
    /\ handler' = (handler \ {conn}) \union {c}
    /\ waiter' = [waiter EXCEPT ![c] = k]
    /\ conn' = c
    /\ ready' = FALSE
    /\ Resume({k}, "queued", "connecting")
    /\ UNCHANGED <<try, got, reading, requestVars, drops>>

\* Broken variant: pending is emptied and nobody told.
DisconnectSilently ==
  /\ Runs(Disconnect)
  /\ conn' = 0
  /\ ready' = FALSE
  /\ nw' = [c \in Conns |-> IF c = conn THEN "cancelled" ELSE nw[c]]
  /\ pending' = [i \in Ids |-> None]
  /\ sent' = [c \in Conns |-> IF c = conn THEN {} ELSE sent[c]]
  /\ UNCHANGED <<callVars, handler, waiter, reading, nextID, misused, drops>>

\* The block of disconnect.
RunDisconnect ==
  /\ Runs(Disconnect)
  /\ conn' = 0
  /\ ready' = FALSE
  /\ nw' = [c \in Conns |-> IF c = conn THEN "cancelled" ELSE nw[c]]
  /\ Resume({pending[i] : i \in Ids} \ {None}, "waiting", "lost")
  /\ pending' = [i \in Ids |-> None]
  /\ sent' = [c \in Conns |-> IF c = conn THEN {} ELSE sent[c]]
  /\ UNCHANGED <<try, got, handler, waiter, reading, nextID, drops>>

-----------------------------------------------------------------------------
(* The callbacks of a connection.                                          *)

\* Resumes the call that waits for connection c, once (`resumed`).
ResumeWaiter(c, to) ==
  /\ Resume({waiter[c]} \ {None}, "connecting", to)
  /\ waiter' = [waiter EXCEPT ![c] = None]

OnReady(c) ==
  /\ nw[c] = "preparing"
  /\ nw' = [nw EXCEPT ![c] = "ready"]
  /\ ready' = TRUE
  /\ reading' = reading \union {c}
  /\ ResumeWaiter(c, "connected")
  /\ UNCHANGED <<try, got, blocks, conn, handler, requestVars, drops>>

\* failed or waiting: the error is not connectionLost, so the call is over.
OnFailed(c) ==
  /\ nw[c] \in {"preparing", "ready"}
  /\ nw' = [nw EXCEPT ![c] = "dead"]
  /\ ResumeWaiter(c, "done")
  /\ blocks' = Append(blocks, Disconnect)
  /\ UNCHANGED <<try, got, conn, ready, handler, reading, requestVars, drops>>

\* connectionReady is reset, whatever connection is current by now.
OnCancelled(c) ==
  /\ nw[c] = "cancelled"
  /\ c \in handler
  /\ handler' = handler \ {c}
  /\ ready' = FALSE
  /\ ResumeWaiter(c, "lost")
  /\ UNCHANGED <<try, got, blocks, conn, nw, reading, requestVars, drops>>

\* A receive ends, because the peer closed or the connection was cancelled:
\* disconnect, whatever connection is current by now.
OnReceiveEnd(c) ==
  /\ c \in reading
  /\ reading' = reading \ {c}
  /\ nw' = [nw EXCEPT ![c] = IF @ = "ready" THEN "dead" ELSE @]
  /\ blocks' = Append(blocks, Disconnect)
  /\ UNCHANGED <<callVars, conn, ready, handler, waiter, requestVars, misused, drops>>

\* The call of id i, if it still waits, is taken out of pending and resumed.
Take(i) ==
  /\ pending' = [pending EXCEPT ![i] = None]
  /\ Resume({pending[i]} \ {None}, "waiting", "done")

OnAnswer(c) ==
  \E m \in sent[c] :
    /\ nw[c] = "ready"
    /\ c \in reading
    /\ sent' = [sent EXCEPT ![c] = @ \ {m}]
    /\ Take(m.id)
    /\ got' = [k \in Calls |-> IF k = pending[m.id] THEN m ELSE got[k]]
    /\ UNCHANGED <<try, blocks, connVars, nextID, drops>>

\* contentProcessed with an error.
OnSendError(c) ==
  \E m \in sent[c] :
    /\ nw[c] \in {"dead", "cancelled"}
    /\ pending[m.id] # None
    /\ sent' = [sent EXCEPT ![c] = @ \ {m}]
    /\ Take(m.id)
    /\ UNCHANGED <<try, got, blocks, connVars, nextID, drops>>

\* Five seconds after the request was sent; if it is no longer pending, the
\* timer finds nothing.
OnTimeout(i) ==
  /\ pending[i] # None
  /\ Take(i)
  /\ UNCHANGED <<try, got, blocks, connVars, sent, nextID, drops>>

-----------------------------------------------------------------------------
CallSteps(k) ==
  EnsureFast(k) \/ EnsureSlow(k) \/ Send(k) \/ SendNowhere(k) \/ Retry(k) \/ Fail(k)

QueueSteps ==
  \/ RunDisconnect
  \/ \E k \in Calls : AlreadyConnected(k) \/ Connect(k)

Settles(c) == OnReady(c) \/ OnFailed(c) \/ OnCancelled(c)

Next ==
  \/ \E k \in Calls : CallSteps(k)
  \/ QueueSteps
  \/ Drop
  \/ \E c \in Conns : Settles(c) \/ OnReceiveEnd(c) \/ OnAnswer(c) \/ OnSendError(c)
  \/ \E i \in Ids : OnTimeout(i)

Spec == Init /\ [][Next]_vars

\* Timers fire.  No request need be answered.
TimersFire == WF_vars(\E i \in Ids : OnTimeout(i))

\* Tasks and the queue run, and a connection that was started becomes ready or
\* fails, and says so.
Fairness ==
  /\ \A k \in Calls : WF_vars(CallSteps(k))
  /\ WF_vars(QueueSteps)
  /\ \A c \in Conns : WF_vars(nw[c] \in {"preparing", "cancelled"} /\ Settles(c))
  /\ TimersFire

TimedSpec == Spec /\ TimersFire
FairSpec == Spec /\ Fairness

-----------------------------------------------------------------------------
\* The state has the right types; no call tries more than twice.
TypeOK ==
  /\ pc \in [Calls -> {"start", "queued", "connecting", "connected", "waiting",
                       "lost", "done"}]
  /\ try \in [Calls -> 1..2]
  /\ \A i \in 1..Len(blocks) : blocks[i] \in Calls \union {Disconnect}
  /\ conn \in {0} \union Conns
  /\ ready \in BOOLEAN
  /\ nw \in [Conns -> {"none", "preparing", "ready", "dead", "cancelled"}]
  /\ handler \subseteq Conns
  /\ reading \subseteq Conns
  /\ waiter \in [Conns -> Calls \union {None}]
  /\ pending \in [Ids -> Calls \union {None}]
  /\ nextID \in {0} \union Ids

\* No continuation is resumed twice (which would crash the app): whoever
\* resumes a request has taken it out of pending, and whoever resumes a
\* connecting call has set `resumed`.
ResumedOnce == ~misused

\* A call is given the answer to its own latest request, though answers come
\* late and out of order, and the calls share connections.
AnswersMatch ==
  \A k \in Calls : got[k] # None => got[k].call = k /\ got[k].try = try[k]

\* However answers, timeouts, errors and disconnects race for a request: one
\* of them ends it, and an answer is its own.
Inv == TypeOK /\ ResumedOnce /\ AnswersMatch

\* Nobody is forgotten in pending when the connection goes: every request
\* ends with an answer, an error or the timeout.
RequestsEnd == \A k \in Calls : pc[k] = "waiting" ~> pc[k] # "waiting"

\* RemoteRPCClient.swift:17: "All requests have a 5s timeout to bound a stuck
\* remote".  So every call of send ends.
CallsEnd == \A k \in Calls : <>(pc[k] = "done")
=============================================================================
