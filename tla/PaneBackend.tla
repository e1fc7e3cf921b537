----------------------------- MODULE PaneBackend ----------------------------
(***************************************************************************)
(* The daemon on the Mac behind one remote pane (runMasterBackend in       *)
(* tools/belve-persist/main.go): it bridges the pane clients on its Unix   *)
(* socket to the broker, and reconnects when the connection is lost.  Its  *)
(* connections go through muxManager and the router, which pipe bytes;     *)
(* connection k is the one attempt k dialled, if it succeeded.             *)
(***************************************************************************)
EXTENDS Naturals, Sequences

CONSTANTS
  Panes,          \* pane clients (tryAttach)
  Sizes,
  NoSize,
  MaxReconnects,  \* maxReconnects: 100 in the code
  DaemonCap,      \* replayMax, in chunks
  MaxResizes      \* bounds the changes of size

VARIABLES
  attempt,    \* the attempt the reconnect loop is at, counted from 1
  link,       \* and what it does
  buffer,     \* replayBuf
  attached,   \* clients
  screen,     \* what each pane client was sent
  paneSize,   \* cols and rows
  resizing,   \* the size a pane client's goroutine is about to send
  resizes,    \* how often the size has changed
  toBroker, toDaemon, cut

wires == <<toBroker, toDaemon, cut>>
loopVars == <<attempt, link>>
paneVars == <<attached, screen, paneSize, resizing, resizes>>

Init ==
  /\ attempt = 1
  /\ link = "down"
  /\ buffer = <<>>
  /\ attached = {}
  /\ screen = [p \in Panes |-> <<>>]
  /\ paneSize \in Sizes
  /\ resizing = [p \in Panes |-> NoSize]
  /\ resizes = 0

\* The last k elements of s.
LastOf(s, k) == SubSeq(s, IF Len(s) > k THEN Len(s) - k + 1 ELSE 1, Len(s))

-----------------------------------------------------------------------------
(* The reconnect loop.                                                     *)

\* The dial succeeds and the handshake is written with the present size;
\* tcpConn is set later.
Dial ==
  /\ link = "down"
  /\ link' = "hello"
  /\ toBroker' = [toBroker EXCEPT ![attempt] =
                    Append(@, [kind |-> "session", size |-> paneSize])]
  /\ UNCHANGED <<attempt, buffer, paneVars, toDaemon, cut>>

SetConn ==
  /\ link = "hello"
  /\ link' = "up"
  /\ UNCHANGED <<attempt, buffer, paneVars, wires>>

\* The next attempt, or the end of the process, whose pane clients see
\* their sockets close.
TryAgain ==
  IF attempt < MaxReconnects
  THEN attempt' = attempt + 1 /\ link' = "down" /\ UNCHANGED <<attached, resizing>>
  ELSE /\ link' = "ended"
       /\ attached' = {}
       /\ resizing' = [p \in Panes |-> NoSize]
       /\ UNCHANGED attempt

\* Dial, preamble or handshake fails.
DialFails ==
  /\ link = "down"
  /\ TryAgain
  /\ UNCHANGED <<buffer, screen, paneSize, resizes, wires>>

\* readMsg fails: tcpConn is reset.
LinkLost ==
  /\ link = "up"
  /\ attempt \in cut
  /\ TryAgain
  /\ toDaemon' = [toDaemon EXCEPT ![attempt] = <<>>]
  /\ UNCHANGED <<buffer, screen, paneSize, resizes, toBroker, cut>>

\* Broken variant: the buffer is kept only while there are clients.
ReceiveForScreens ==
  /\ link = "up"
  /\ toDaemon[attempt] # <<>>
  /\ toDaemon' = [toDaemon EXCEPT ![attempt] = Tail(@)]
  /\ buffer' = IF attached = {} THEN buffer
               ELSE LastOf(Append(buffer, Head(toDaemon[attempt])), DaemonCap)
  /\ screen' = [p \in Panes |->
                  IF p \in attached THEN Append(screen[p], Head(toDaemon[attempt]))
                  ELSE screen[p]]
  /\ UNCHANGED <<loopVars, attached, paneSize, resizing, resizes, toBroker, cut>>

\* A chunk goes to the buffer and to the attached clients, under mu.
Receive ==
  /\ link = "up"
  /\ toDaemon[attempt] # <<>>
  /\ toDaemon' = [toDaemon EXCEPT ![attempt] = Tail(@)]
  /\ buffer' = LastOf(Append(buffer, Head(toDaemon[attempt])), DaemonCap)
  /\ screen' = [p \in Panes |->
                  IF p \in attached THEN Append(screen[p], Head(toDaemon[attempt]))
                  ELSE screen[p]]
  /\ UNCHANGED <<loopVars, attached, paneSize, resizing, resizes, toBroker, cut>>

-----------------------------------------------------------------------------
(* The pane clients.                                                       *)

\* addClient, under mu: the replay first.
Attach(p) ==
  /\ link # "ended"
  /\ p \notin attached
  /\ attached' = attached \union {p}
  /\ screen' = [screen EXCEPT ![p] = buffer]
  /\ UNCHANGED <<loopVars, buffer, paneSize, resizing, resizes, wires>>

Detach(p) ==
  /\ p \in attached
  /\ resizing[p] = NoSize
  /\ attached' = attached \ {p}
  /\ screen' = [screen EXCEPT ![p] = <<>>]
  /\ UNCHANGED <<loopVars, buffer, paneSize, resizing, resizes, wires>>

\* msgResize arrives: cols and rows are set under mu ...
TakeSize(p) ==
  \E s \in Sizes :
    /\ p \in attached
    /\ resizing[p] = NoSize
    /\ s # paneSize
    /\ resizes < MaxResizes
    /\ resizes' = resizes + 1
    /\ paneSize' = s
    /\ resizing' = [resizing EXCEPT ![p] = s]
    /\ UNCHANGED <<loopVars, buffer, attached, screen, wires>>

\* ... and sendToTCP, under tcpMu, drops the frame if there is no tcpConn.
SendSize(p) ==
  /\ resizing[p] # NoSize
  /\ resizing' = [resizing EXCEPT ![p] = NoSize]
  /\ toBroker' = IF link = "up" /\ attempt \notin cut
                 THEN [toBroker EXCEPT ![attempt] =
                         Append(@, [kind |-> "resize", size |-> resizing[p]])]
                 ELSE toBroker
  /\ UNCHANGED <<loopVars, buffer, attached, screen, paneSize, resizes, toDaemon, cut>>

Loop == Dial \/ SetConn \/ DialFails \/ LinkLost \/ Receive
Pane(p) == Attach(p) \/ Detach(p) \/ TakeSize(p) \/ SendSize(p)
Next == Loop \/ \E p \in Panes : Pane(p)

-----------------------------------------------------------------------------
TypeOK ==
  /\ attempt \in 1..MaxReconnects
  /\ link \in {"down", "hello", "up", "ended"}
  /\ Len(buffer) <= DaemonCap
  /\ attached \subseteq Panes
  /\ DOMAIN screen = Panes
  /\ paneSize \in Sizes
  /\ resizing \in [Panes -> Sizes \union {NoSize}]
  /\ resizes \in 0..MaxResizes
=============================================================================
