-------------------------- MODULE PaneTransport_proofs --------------------------
(***************************************************************************)
(* Proofs about a pane and its session, for any number of connections,     *)
(* panes, heap cells, shells, chunks and for replay buffers of any size.   *)
(***************************************************************************)
EXTENDS PaneTransport, SequenceTheorems, TLAPS

Chunks == [shell: 1 .. MaxShells, n: 1 .. MaxOutput]
OfShell(k) == [shell: {k}, n: 1 .. MaxOutput]
Requests == [kind: {"session", "resize"}, size: Sizes]
Frames == [conn: Conns, shell: 1 .. MaxShells, n: 1 .. MaxOutput]
Runs == {"off", "open", "opened", "shell", "exited"}

tableState == <<current, alive, size, ptySize>>
runState == <<runner, respawns, shell, printed>>
outputState == <<pipe, replay>>
connState == <<clients, at, sess>>
wireState == <<toBroker, toDaemon>>
paneState == <<attempt, link, attached, screen, paneSize, resizing, resizes>>

TableTypes ==
  /\ current \in Objects \union {NoObject} /\ alive \in SUBSET Objects
  /\ size \in [Objects -> Sizes] /\ ptySize \in [Objects -> Sizes]
RunTypes ==
  /\ runner \in [Objects -> Runs] /\ respawns \in [Objects -> 0 .. MaxRespawns]
  /\ shell \in [Objects -> 0 .. MaxShells]
  /\ printed \in Seq(0 .. MaxOutput) /\ Len(printed) =< MaxShells
OutputTypes ==
  /\ pipe \in [Objects -> Seq(Chunks)] /\ replay \in [Objects -> Seq(Chunks)]
ConnTypes ==
  /\ clients \in [Objects -> SUBSET Conns]
  /\ at \in [Conns -> {"hello", "joining", "in", "off"}]
  /\ sess \in [Conns -> Objects \union {NoObject}]
  /\ \A c \in Conns : at[c] \in {"joining", "in"} => sess[c] \in Objects
WireTypes ==
  /\ toBroker \in [Conns -> Seq(Requests)]
  /\ toDaemon \in [Conns -> Seq(Frames)]
PaneTypes ==
  /\ attempt \in Conns /\ link \in {"down", "hello", "up", "ended"}
  /\ attached \in SUBSET Panes /\ DOMAIN screen = Panes
  /\ paneSize \in Sizes /\ resizing \in [Panes -> Sizes \union {NoSize}]
  /\ resizes \in 0 .. MaxResizes
BufferTypes == buffer \in Seq(Frames) /\ Len(buffer) =< DaemonCap

Types ==
  /\ TableTypes /\ RunTypes /\ OutputTypes /\ ConnTypes
  /\ WireTypes /\ PaneTypes /\ BufferTypes

(* Only the session in the table is alive, and only a live one has a shell *)
(* or is about to have one.                                                *)
OnlyCurrentRuns ==
  /\ alive \subseteq {current}
  /\ \A o \in Objects : runner[o] # "off" => o \in alive

(* A shell starts with nothing left of an earlier one, and what its        *)
(* session holds is its own output.                                        *)
OutputIsOwn ==
  \A o \in Objects :
    /\ runner[o] \in {"off", "open", "opened"} => pipe[o] = <<>>
    /\ runner[o] \in {"open", "opened"} => replay[o] = <<>>
    /\ runner[o] \in {"shell", "exited"} =>
         /\ shell[o] \in 1 .. Len(printed)
         /\ pipe[o] \in Seq(OfShell(shell[o])) /\ replay[o] \in Seq(OfShell(shell[o]))

(* tcpReplayMax is kept. *)
ReplayFits == \A o \in Objects : Len(replay[o]) =< Cap

IInv == Types /\ OnlyCurrentRuns /\ OutputIsOwn /\ ReplayFits

-----------------------------------------------------------------------------
(* LastOf() keeps at most k elements, all of the sequence. *)
LEMMA LastOfKeeps ==
  ASSUME NEW S, NEW s \in Seq(S), NEW k \in Nat
  PROVE  /\ Broker!LastOf(s, k) \in Seq(S)
         /\ Daemon!LastOf(s, k) \in Seq(S)
         /\ Len(Broker!LastOf(s, k)) =< k
         /\ Len(Daemon!LastOf(s, k)) =< k
<1> DEFINE first == IF Len(s) > k THEN Len(s) - k + 1 ELSE 1
<1>1. /\ first \in Nat \ {0} /\ Len(s) \in Nat
      /\ first =< Len(s) + 1 /\ Len(s) - first + 1 =< k
  OBVIOUS
<1>2. SubSeq(s, first, Len(s)) \in Seq(S)
  BY <1>1
<1>3. Len(SubSeq(s, first, Len(s))) =< k
  BY <1>1
<1> QED BY <1>2, <1>3 DEF Broker!LastOf, Daemon!LastOf

LEMMA InitInv == Init => IInv
<1> SUFFICES ASSUME Init PROVE IInv
  OBVIOUS
<1> USE NullsAssumption, BoundsAssumption DEF Init, Broker!Init, Daemon!Init
<1>1. TableTypes /\ RunTypes /\ OutputTypes /\ ConnTypes
  BY DEF TableTypes, RunTypes, OutputTypes, ConnTypes, Runs
<1>2. WireTypes /\ BufferTypes
  BY DEF WireTypes, BufferTypes
<1>3. PaneTypes
  BY DEF PaneTypes, Conns
<1>4. OnlyCurrentRuns /\ OutputIsOwn
  BY DEF OnlyCurrentRuns, OutputIsOwn
<1>5. ReplayFits
  BY DEF ReplayFits
<1> QED BY <1>1, <1>2, <1>3, <1>4, <1>5 DEF IInv, Types

LEMMA InvHolds == IInv => Inv
<1> SUFFICES ASSUME IInv PROVE Inv
  OBVIOUS
<1>1. TypeOK
  BY DEF IInv, Types, TableTypes, RunTypes, OutputTypes, ConnTypes, PaneTypes, BufferTypes, Conns,
         Runs, Chunks, ReplayFits, TypeOK, Broker!TypeOK, Broker!Chunks, Daemon!TypeOK
<1>2. OneShell
  BY DEF IInv, OnlyCurrentRuns, OneShell, Broker!OneShell
<1>3. ReplayIsOfThisShell
  <2> SUFFICES ASSUME NEW o \in Objects, runner[o] = "shell", NEW i \in 1 .. Len(replay[o])
               PROVE  replay[o][i].shell = shell[o]
    BY DEF IInv, Types, TableTypes, ReplayIsOfThisShell, Broker!ReplayIsOfThisShell
  <2>1. replay[o] \in Seq(OfShell(shell[o]))
    BY DEF IInv, OutputIsOwn
  <2>2. replay[o][i] \in OfShell(shell[o])
    BY <2>1
  <2> QED BY <2>2 DEF OfShell
<1> QED BY <1>1, <1>2, <1>3 DEF Inv
-----------------------------------------------------------------------------
(* What is written to a connection are frames. *)
LEMMA WriteTypes ==
  ASSUME WireTypes, NEW c \in Conns, NEW chunks \in Seq(Chunks)
  PROVE  Broker!Write(c, chunks) \in Seq(Frames)
<1> DEFINE frames == [i \in 1 .. Len(chunks) |->
                        [conn |-> c, shell |-> chunks[i].shell, n |-> chunks[i].n]]
<1>1. frames \in Seq(Frames)
  <2>1. \A i \in 1 .. Len(chunks) : chunks[i] \in Chunks
    OBVIOUS
  <2>2. \A i \in 1 .. Len(chunks) : frames[i] \in Frames
    BY <2>1 DEF Chunks, Frames
  <2> QED BY <2>2
<1>2. toDaemon[c] \in Seq(Frames)
  BY DEF WireTypes
<1> QED BY <1>1, <1>2 DEF Broker!Write

(* A request is taken from a connection. *)
LEMMA Received ==
  ASSUME WireTypes, NEW c \in Conns, NEW kind, Broker!Receives(c, kind)
  PROVE  WireTypes' /\ Head(toBroker[c]).size \in Sizes
<1>1. Head(toBroker[c]) \in Requests /\ Tail(toBroker[c]) \in Seq(Requests)
  BY DEF Broker!Receives, WireTypes
<1>2. WireTypes'
  BY <1>1 DEF Broker!Receives, WireTypes
<1> QED BY <1>1, <1>2 DEF Requests

LEMMA TypesStep == IInv /\ [Next]_vars => Types'
<1> SUFFICES ASSUME IInv, [Next]_vars PROVE Types'
  OBVIOUS
<1> USE DEF IInv, Types, brokerVars, daemonVars, Broker!wires, Broker!tableVars, Broker!ptyVars,
            Broker!outputVars, Broker!connVars, Daemon!wires, Daemon!loopVars, Daemon!paneVars,
            tableState, runState, outputState, connState, wireState, paneState
<1>1. ASSUME UNCHANGED vars PROVE Types'
  <2>1. UNCHANGED <<tableState, runState, outputState, connState, wireState, paneState, buffer>>
    BY <1>1 DEF vars
  <2> QED BY <2>1 DEF TableTypes, RunTypes, OutputTypes, ConnTypes, WireTypes,
        PaneTypes, BufferTypes
<1>2. ASSUME NEW c \in Conns, UNCHANGED daemonVars, Broker!JoinSession(c) PROVE Types'
  <2>1. ConnTypes'
    BY <1>2 DEF Broker!JoinSession, ConnTypes, TableTypes
  <2>2. WireTypes'
    BY <1>2, Received DEF Broker!JoinSession
  <2>3. UNCHANGED <<tableState, runState, outputState, paneState, buffer>>
    BY <1>2 DEF Broker!JoinSession
  <2> QED BY <2>1, <2>2, <2>3 DEF TableTypes, RunTypes, OutputTypes, PaneTypes, BufferTypes
<1>3. ASSUME NEW c \in Conns, UNCHANGED daemonVars, Broker!CreateSession(c) PROVE Types'
  <2>1. TableTypes'
    BY <1>3, Received DEF Broker!CreateSession, Broker!Create, TableTypes
  <2>2. RunTypes'
    BY <1>3, BoundsAssumption DEF Broker!CreateSession, Broker!Create, RunTypes, Runs
  <2>3. OutputTypes'
    BY <1>3 DEF Broker!CreateSession, Broker!Create, OutputTypes
  <2>4. ConnTypes'
    BY <1>3 DEF Broker!CreateSession, Broker!Create, ConnTypes
  <2>5. WireTypes'
    BY <1>3, Received DEF Broker!CreateSession, Broker!Create
  <2>6. UNCHANGED <<paneState, buffer>>
    BY <1>3 DEF Broker!CreateSession, Broker!Create
  <2> QED BY <2>1, <2>2, <2>3, <2>4, <2>5, <2>6 DEF PaneTypes, BufferTypes
<1>4. ASSUME NEW c \in Conns, UNCHANGED daemonVars, Broker!AddClient(c) PROVE Types'
  <2>1. ConnTypes'
    BY <1>4 DEF Broker!AddClient, ConnTypes
  <2>2. WireTypes'
    <3>1. Broker!Write(c, replay[sess[c]]) \in Seq(Frames)
      BY <1>4, WriteTypes DEF Broker!AddClient, ConnTypes, OutputTypes
    <3> QED BY <1>4, <3>1 DEF Broker!AddClient, WireTypes
  <2>3. UNCHANGED <<tableState, runState, outputState, paneState, buffer>>
    BY <1>4 DEF Broker!AddClient
  <2> QED BY <2>1, <2>2, <2>3 DEF TableTypes, RunTypes, OutputTypes, PaneTypes, BufferTypes
<1>5. ASSUME NEW c \in Conns, UNCHANGED daemonVars, Broker!Resize(c) PROVE Types'
  <2>1. TableTypes'
    BY <1>5, Received DEF Broker!Resize, TableTypes
  <2>2. WireTypes'
    BY <1>5, Received DEF Broker!Resize
  <2>3. UNCHANGED <<runState, outputState, connState, paneState, buffer>>
    BY <1>5 DEF Broker!Resize
  <2> QED BY <2>1, <2>2, <2>3 DEF RunTypes, OutputTypes, ConnTypes, PaneTypes, BufferTypes
<1>6. ASSUME NEW c \in Conns, UNCHANGED daemonVars, Broker!Hangup(c) PROVE Types'
  <2>1. ConnTypes'
    BY <1>6 DEF Broker!Hangup, ConnTypes
  <2>2. WireTypes'
    BY <1>6 DEF Broker!Hangup, WireTypes
  <2>3. UNCHANGED <<tableState, runState, outputState, paneState, buffer>>
    BY <1>6 DEF Broker!Hangup
  <2> QED BY <2>1, <2>2, <2>3 DEF TableTypes, RunTypes, OutputTypes, PaneTypes, BufferTypes
<1>7. ASSUME NEW o \in Objects, UNCHANGED daemonVars, Broker!OpenPTY(o) PROVE Types'
  <2>1. TableTypes'
    BY <1>7 DEF Broker!OpenPTY, TableTypes
  <2>2. RunTypes'
    BY <1>7 DEF Broker!OpenPTY, RunTypes, Runs
  <2>3. UNCHANGED <<outputState, connState, wireState, paneState, buffer>>
    BY <1>7 DEF Broker!OpenPTY
  <2> QED BY <2>1, <2>2, <2>3 DEF OutputTypes, ConnTypes, WireTypes, PaneTypes, BufferTypes
<1>8. ASSUME NEW o \in Objects, UNCHANGED daemonVars, Broker!StartShell(o) PROVE Types'
  <2>1. RunTypes'
    BY <1>8, BoundsAssumption DEF Broker!StartShell, RunTypes, Runs
  <2>2. UNCHANGED <<tableState, outputState, connState, wireState, paneState, buffer>>
    BY <1>8 DEF Broker!StartShell
  <2> QED BY <2>1, <2>2 DEF TableTypes, OutputTypes, ConnTypes, WireTypes, PaneTypes, BufferTypes
<1>9. ASSUME NEW o \in Objects, UNCHANGED daemonVars, Broker!StartFails(o) PROVE Types'
  <2>1. TableTypes'
    BY <1>9 DEF Broker!StartFails, TableTypes
  <2>2. RunTypes'
    BY <1>9 DEF Broker!StartFails, RunTypes, Runs
  <2>3. UNCHANGED <<outputState, connState, wireState, paneState, buffer>>
    BY <1>9 DEF Broker!StartFails
  <2> QED BY <2>1, <2>2, <2>3 DEF OutputTypes, ConnTypes, WireTypes, PaneTypes, BufferTypes
<1>10. ASSUME NEW o \in Objects, UNCHANGED daemonVars, Broker!Output(o) PROVE Types'
  <2>1. RunTypes'
    <3>1. shell[o] \in 1 .. Len(printed)
      BY <1>10 DEF Broker!Output, OutputIsOwn
    <3>2. printed[shell[o]] \in 0 .. MaxOutput /\ printed[shell[o]] + 1 \in 0 .. MaxOutput
      BY SMTT(30), <1>10, <3>1, BoundsAssumption DEF Broker!Output, RunTypes
    <3>3. printed' \in Seq(0 .. MaxOutput) /\ Len(printed') = Len(printed)
      BY <1>10, <3>1, <3>2, ExceptSeq DEF Broker!Output, RunTypes
    <3> QED BY <1>10, <3>3 DEF Broker!Output, RunTypes
  <2>2. OutputTypes'
    <3>1. shell[o] \in 1 .. Len(printed)
      BY <1>10 DEF Broker!Output, OutputIsOwn
    <3>2. printed[shell[o]] \in 0 .. MaxOutput /\ printed[shell[o]] + 1 \in 1 .. MaxOutput
      BY SMTT(30), <1>10, <3>1, BoundsAssumption DEF Broker!Output, RunTypes
    <3>3. [shell |-> shell[o], n |-> printed[shell[o]] + 1] \in Chunks
      BY <3>1, <3>2, BoundsAssumption DEF Chunks, RunTypes
    <3> QED BY <1>10, <3>3 DEF Broker!Output, OutputTypes
  <2>3. UNCHANGED <<tableState, connState, wireState, paneState, buffer>>
    BY <1>10 DEF Broker!Output
  <2> QED BY <2>1, <2>2, <2>3 DEF TableTypes, ConnTypes, WireTypes, PaneTypes, BufferTypes
<1>11. ASSUME NEW o \in Objects, UNCHANGED daemonVars, Broker!Broadcast(o) PROVE Types'
  <2>1. OutputTypes'
    <3>1. Head(pipe[o]) \in Chunks /\ Tail(pipe[o]) \in Seq(Chunks)
      BY <1>11 DEF Broker!Broadcast, OutputTypes
    <3>2. Append(replay[o], Head(pipe[o])) \in Seq(Chunks)
      BY <3>1 DEF OutputTypes
    <3>3. Broker!LastOf(Append(replay[o], Head(pipe[o])), Cap) \in Seq(Chunks)
      BY <3>2, LastOfKeeps, BoundsAssumption
    <3> QED BY <1>11, <3>1, <3>3 DEF Broker!Broadcast, OutputTypes
  <2>2. WireTypes'
    <3>1. <<Head(pipe[o])>> \in Seq(Chunks)
      BY <1>11 DEF Broker!Broadcast, OutputTypes
    <3>2. \A c \in Conns : Broker!Write(c, <<Head(pipe[o])>>) \in Seq(Frames)
      BY <3>1, WriteTypes
    <3> QED BY <1>11, <3>2 DEF Broker!Broadcast, WireTypes
  <2>3. UNCHANGED <<tableState, runState, connState, paneState, buffer>>
    BY <1>11 DEF Broker!Broadcast
  <2> QED BY <2>1, <2>2, <2>3 DEF TableTypes, RunTypes, ConnTypes, PaneTypes, BufferTypes
<1>12. ASSUME NEW o \in Objects, UNCHANGED daemonVars, Broker!ShellExits(o) PROVE Types'
  <2>1. RunTypes'
    BY <1>12 DEF Broker!ShellExits, RunTypes, Runs
  <2>2. UNCHANGED <<tableState, outputState, connState, wireState, paneState, buffer>>
    BY <1>12 DEF Broker!ShellExits
  <2> QED BY <2>1, <2>2 DEF TableTypes, OutputTypes, ConnTypes, WireTypes, PaneTypes, BufferTypes
<1>13. ASSUME NEW o \in Objects, UNCHANGED daemonVars, Broker!Respawn(o) PROVE Types'
  <2>1. RunTypes'
    BY <1>13, BoundsAssumption DEF Broker!Respawn, Broker!Restart, RunTypes, Runs
  <2>2. OutputTypes'
    BY <1>13 DEF Broker!Respawn, Broker!Restart, OutputTypes
  <2>3. UNCHANGED <<tableState, connState, wireState, paneState, buffer>>
    BY <1>13 DEF Broker!Respawn, Broker!Restart
  <2> QED BY <2>1, <2>2, <2>3 DEF TableTypes, ConnTypes, WireTypes, PaneTypes, BufferTypes
<1>14. ASSUME NEW o \in Objects, UNCHANGED daemonVars, Broker!EndSession(o) PROVE Types'
  <2>1. TableTypes'
    BY <1>14 DEF Broker!EndSession, TableTypes
  <2>2. RunTypes'
    BY <1>14 DEF Broker!EndSession, RunTypes, Runs
  <2>3. UNCHANGED <<outputState, connState, wireState, paneState, buffer>>
    BY <1>14 DEF Broker!EndSession
  <2> QED BY <2>1, <2>2, <2>3 DEF OutputTypes, ConnTypes, WireTypes, PaneTypes, BufferTypes
<1>15. ASSUME UNCHANGED brokerVars, Daemon!Dial PROVE Types'
  <2>1. WireTypes'
    <3>1. [kind |-> "session", size |-> paneSize] \in Requests
      BY DEF Requests, PaneTypes
    <3> QED BY <1>15, <3>1 DEF Daemon!Dial, WireTypes, PaneTypes
  <2>2. PaneTypes'
    BY <1>15 DEF Daemon!Dial, PaneTypes
  <2>3. UNCHANGED <<tableState, runState, outputState, connState, buffer>>
    BY <1>15 DEF Daemon!Dial
  <2> QED BY <2>1, <2>2, <2>3 DEF TableTypes, RunTypes, OutputTypes, ConnTypes, BufferTypes
<1>16. ASSUME UNCHANGED brokerVars, Daemon!SetConn PROVE Types'
  <2>1. PaneTypes'
    BY <1>16 DEF Daemon!SetConn, PaneTypes
  <2>2. UNCHANGED <<tableState, runState, outputState, connState, wireState, buffer>>
    BY <1>16 DEF Daemon!SetConn
  <2> QED BY <2>1, <2>2 DEF TableTypes, RunTypes, OutputTypes, ConnTypes, WireTypes, BufferTypes
<1>17. ASSUME UNCHANGED brokerVars, Daemon!DialFails PROVE Types'
  <2>1. PaneTypes'
    BY <1>17, BoundsAssumption DEF Daemon!DialFails, Daemon!TryAgain, PaneTypes, Conns
  <2>2. UNCHANGED <<tableState, runState, outputState, connState, wireState, buffer>>
    BY <1>17 DEF Daemon!DialFails, Daemon!TryAgain
  <2> QED BY <2>1, <2>2 DEF TableTypes, RunTypes, OutputTypes, ConnTypes, WireTypes, BufferTypes
<1>18. ASSUME UNCHANGED brokerVars, Daemon!LinkLost PROVE Types'
  <2>1. PaneTypes'
    BY <1>18, BoundsAssumption DEF Daemon!LinkLost, Daemon!TryAgain, PaneTypes, Conns
  <2>2. WireTypes'
    BY <1>18 DEF Daemon!LinkLost, Daemon!TryAgain, WireTypes, PaneTypes
  <2>3. UNCHANGED <<tableState, runState, outputState, connState, buffer>>
    BY <1>18 DEF Daemon!LinkLost, Daemon!TryAgain
  <2> QED BY <2>1, <2>2, <2>3 DEF TableTypes, RunTypes, OutputTypes, ConnTypes, BufferTypes
<1>19. ASSUME UNCHANGED brokerVars, Daemon!Receive PROVE Types'
  <2>1. WireTypes'
    BY <1>19 DEF Daemon!Receive, WireTypes, PaneTypes
  <2>2. PaneTypes'
    BY <1>19 DEF Daemon!Receive, PaneTypes
  <2>3. BufferTypes'
    <3>1. Head(toDaemon[attempt]) \in Frames
      BY <1>19 DEF Daemon!Receive, WireTypes, PaneTypes
    <3>2. Append(buffer, Head(toDaemon[attempt])) \in Seq(Frames)
      BY <3>1 DEF BufferTypes
    <3> QED BY <1>19, <3>2, LastOfKeeps, BoundsAssumption DEF Daemon!Receive, BufferTypes
  <2>4. UNCHANGED <<tableState, runState, outputState, connState>>
    BY <1>19 DEF Daemon!Receive
  <2> QED BY <2>1, <2>2, <2>3, <2>4 DEF TableTypes, RunTypes, OutputTypes, ConnTypes
<1>20. ASSUME NEW p \in Panes, UNCHANGED brokerVars, Daemon!Attach(p) PROVE Types'
  <2>1. PaneTypes'
    BY <1>20 DEF Daemon!Attach, PaneTypes
  <2>2. UNCHANGED <<tableState, runState, outputState, connState, wireState, buffer>>
    BY <1>20 DEF Daemon!Attach
  <2> QED BY <2>1, <2>2 DEF TableTypes, RunTypes, OutputTypes, ConnTypes, WireTypes, BufferTypes
<1>21. ASSUME NEW p \in Panes, UNCHANGED brokerVars, Daemon!Detach(p) PROVE Types'
  <2>1. PaneTypes'
    BY <1>21 DEF Daemon!Detach, PaneTypes
  <2>2. UNCHANGED <<tableState, runState, outputState, connState, wireState, buffer>>
    BY <1>21 DEF Daemon!Detach
  <2> QED BY <2>1, <2>2 DEF TableTypes, RunTypes, OutputTypes, ConnTypes, WireTypes, BufferTypes
<1>22. ASSUME NEW p \in Panes, UNCHANGED brokerVars, Daemon!TakeSize(p) PROVE Types'
  <2>1. PaneTypes'
    BY <1>22, BoundsAssumption DEF Daemon!TakeSize, PaneTypes
  <2>2. UNCHANGED <<tableState, runState, outputState, connState, wireState, buffer>>
    BY <1>22 DEF Daemon!TakeSize
  <2> QED BY <2>1, <2>2 DEF TableTypes, RunTypes, OutputTypes, ConnTypes, WireTypes, BufferTypes
<1>23. ASSUME NEW p \in Panes, UNCHANGED brokerVars, Daemon!SendSize(p) PROVE Types'
  <2>1. PaneTypes'
    BY <1>23 DEF Daemon!SendSize, PaneTypes
  <2>2. WireTypes'
    <3>1. [kind |-> "resize", size |-> resizing[p]] \in Requests
      BY <1>23 DEF Daemon!SendSize, Requests, PaneTypes
    <3> QED BY <1>23, <3>1 DEF Daemon!SendSize, WireTypes, PaneTypes
  <2>3. UNCHANGED <<tableState, runState, outputState, connState, buffer>>
    BY <1>23 DEF Daemon!SendSize
  <2> QED BY <2>1, <2>2, <2>3 DEF TableTypes, RunTypes, OutputTypes, ConnTypes, BufferTypes
<1>24. ASSUME NEW c \in Conns, Cut(c) PROVE Types'
  <2>1. WireTypes'
    BY <1>24 DEF Cut, WireTypes
  <2>2. UNCHANGED <<tableState, runState, outputState, connState, paneState, buffer>>
    BY <1>24 DEF Cut
  <2> QED BY <2>1, <2>2 DEF TableTypes, RunTypes, OutputTypes, ConnTypes, PaneTypes, BufferTypes
<1> QED BY <1>1, <1>2, <1>3, <1>4, <1>5, <1>6, <1>7, <1>8, <1>9, <1>10, <1>11, <1>12,
           <1>13, <1>14, <1>15, <1>16, <1>17, <1>18, <1>19, <1>20, <1>21, <1>22, <1>23, <1>24
        DEF Next, BrokerSteps, DaemonSteps, Broker!Next, Daemon!Next, Daemon!Loop, Daemon!Pane

-----------------------------------------------------------------------------
(* Steps that touch neither the sessions nor their shells and output. *)
Quiet == UNCHANGED <<current, alive, runner, shell, printed, pipe, replay>>

(* What a step may do to a session. *)
Moves(o, from, to) == runner[o] \in from /\ runner' = [runner EXCEPT ![o] = to]

LEMMA StepKinds ==
  ASSUME [Next]_vars
  PROVE  \/ Quiet
         \/ \E c \in Conns : Broker!CreateSession(c)
         \/ \E o \in Objects : \/ Broker!OpenPTY(o) \/ Broker!StartShell(o)
                               \/ Broker!StartFails(o) \/ Broker!Output(o)
                               \/ Broker!Broadcast(o) \/ Broker!ShellExits(o)
                               \/ Broker!Respawn(o) \/ Broker!EndSession(o)
<1> USE DEF Quiet, brokerVars, daemonVars, Broker!wires, Broker!tableVars, Broker!ptyVars,
            Broker!outputVars, Broker!connVars
<1>1. CASE UNCHANGED vars \/ DaemonSteps \/ \E c \in Conns : Cut(c)
  BY <1>1 DEF vars, DaemonSteps, Cut
<1>2. CASE BrokerSteps
  <2>1. ASSUME NEW c \in Conns, Broker!JoinSession(c) PROVE Quiet
    BY <2>1 DEF Broker!JoinSession
  <2>2. ASSUME NEW c \in Conns, Broker!AddClient(c) PROVE Quiet
    BY <2>2 DEF Broker!AddClient
  <2>3. ASSUME NEW c \in Conns, Broker!Resize(c) PROVE Quiet
    BY <2>3 DEF Broker!Resize
  <2>4. ASSUME NEW c \in Conns, Broker!Hangup(c) PROVE Quiet
    BY <2>4 DEF Broker!Hangup
  <2> QED BY <1>2, <2>1, <2>2, <2>3, <2>4 DEF BrokerSteps, Broker!Next
<1> QED BY <1>1, <1>2 DEF Next

LEMMA OnlyCurrentStep == IInv /\ [Next]_vars => OnlyCurrentRuns'
<1> SUFFICES ASSUME IInv, [Next]_vars PROVE OnlyCurrentRuns'
  OBVIOUS
<1> USE DEF IInv, Types, TableTypes, RunTypes, OnlyCurrentRuns, Broker!tableVars
<1>1. CASE Quiet
  BY <1>1 DEF Quiet
(* A session is created when none is alive. *)
<1>2. ASSUME NEW c \in Conns, Broker!CreateSession(c) PROVE OnlyCurrentRuns'
  <2>1. alive = {}
    BY <1>2 DEF Broker!CreateSession
  <2> QED BY <1>2, <2>1 DEF Broker!CreateSession, Broker!Create
<1>3. ASSUME NEW o \in Objects, Broker!StartFails(o) \/ Broker!EndSession(o)
      PROVE  OnlyCurrentRuns'
  BY <1>3 DEF Broker!StartFails, Broker!EndSession
<1>4. ASSUME NEW o \in Objects,
             Broker!OpenPTY(o) \/ Broker!StartShell(o) \/ Broker!ShellExits(o) \/ Broker!Respawn(o)
      PROVE  OnlyCurrentRuns'
  BY <1>4 DEF Broker!OpenPTY, Broker!StartShell, Broker!ShellExits, Broker!Respawn, Broker!Restart
<1>5. ASSUME NEW o \in Objects, Broker!Output(o) \/ Broker!Broadcast(o) PROVE OnlyCurrentRuns'
  BY <1>5 DEF Broker!Output, Broker!Broadcast, Broker!ptyVars
<1> QED BY <1>1, <1>2, <1>3, <1>4, <1>5, StepKinds

(* The part of OutputIsOwn about one session. *)
Own(o) ==
  /\ runner[o] \in {"off", "open", "opened"} => pipe[o] = <<>>
  /\ runner[o] \in {"open", "opened"} => replay[o] = <<>>
  /\ runner[o] \in {"shell", "exited"} =>
       /\ shell[o] \in 1 .. Len(printed)
       /\ pipe[o] \in Seq(OfShell(shell[o])) /\ replay[o] \in Seq(OfShell(shell[o]))

LEMMA OutputStep == IInv /\ [Next]_vars => OutputIsOwn'
<1> SUFFICES ASSUME IInv, [Next]_vars PROVE OutputIsOwn'
  OBVIOUS
<1> USE DEF IInv, Types, RunTypes, OutputTypes
<1>o. \A o \in Objects : Own(o)
  BY DEF OutputIsOwn, Own
<1>1. CASE Quiet
  BY <1>1 DEF Quiet, OutputIsOwn
<1>s. SUFFICES ~Quiet => \A o \in Objects : Own(o)'
  BY <1>1 DEF OutputIsOwn, Own
(* The sessions that a step does not touch. *)
<1>2. ASSUME NEW p \in Objects, Len(printed) =< Len(printed'), Len(printed') \in Nat,
             UNCHANGED <<runner[p], shell[p], pipe[p], replay[p]>>
      PROVE  Own(p)'
  BY <1>o, <1>2 DEF Own
<1>n. Len(printed) \in Nat
  OBVIOUS
<1>3. ASSUME NEW c \in Conns, Broker!CreateSession(c) PROVE \A p \in Objects : Own(p)'
  <2>1. PICK o \in Objects \ alive : /\ runner' = [runner EXCEPT ![o] = "open"]
                                     /\ replay' = [replay EXCEPT ![o] = <<>>]
                                     /\ UNCHANGED <<shell, printed, pipe>>
    BY <1>3 DEF Broker!CreateSession, Broker!Create
  <2>2. pipe[o] = <<>>
    BY <1>o, <2>1 DEF Own, OnlyCurrentRuns, TableTypes
  <2>3. Own(o)'
    BY <2>1, <2>2 DEF Own
  <2>4. ASSUME NEW p \in Objects, p # o PROVE Own(p)'
    <3>1. UNCHANGED <<runner[p], shell[p], pipe[p], replay[p]>>
      BY <2>1, <2>4
    <3>2. Len(printed) =< Len(printed') /\ Len(printed') \in Nat
      BY <2>1, <1>n
    <3> QED BY <1>2, <3>1, <3>2
  <2> QED BY <2>3, <2>4
<1>4. ASSUME NEW o \in Objects, Broker!OpenPTY(o) PROVE \A p \in Objects : Own(p)'
  <2>1. Own(o)'
    BY <1>o, <1>4 DEF Broker!OpenPTY, Broker!outputVars, Own
  <2> QED BY <1>2, <1>4, <2>1 DEF Broker!OpenPTY, Broker!outputVars
<1>5. ASSUME NEW o \in Objects, Broker!StartShell(o) PROVE \A p \in Objects : Own(p)'
  <2>1. /\ printed' = Append(printed, 0) /\ shell'[o] = Len(printed) + 1
        /\ Len(printed') = Len(printed) + 1 /\ Len(printed) \in Nat
    BY <1>5 DEF Broker!StartShell
  <2>2. Own(o)'
    BY <1>o, <1>5, <2>1 DEF Broker!StartShell, Broker!outputVars, Own
  <2>3. ASSUME NEW p \in Objects, p # o PROVE Own(p)'
    <3>1. UNCHANGED <<runner[p], shell[p], pipe[p], replay[p]>>
      BY <1>5, <2>1, <2>3 DEF Broker!StartShell, Broker!outputVars
    <3>2. Len(printed) =< Len(printed') /\ Len(printed') \in Nat
      BY <1>5, <2>1, <1>n DEF Broker!StartShell, Broker!outputVars
    <3> QED BY <1>2, <3>1, <3>2
  <2> QED BY <2>2, <2>3
<1>6. ASSUME NEW o \in Objects, Broker!StartFails(o) PROVE \A p \in Objects : Own(p)'
  <2>1. Own(o)'
    BY <1>o, <1>6 DEF Broker!StartFails, Broker!outputVars, Own
  <2> QED BY <1>2, <1>6, <2>1 DEF Broker!StartFails, Broker!outputVars
<1>7. ASSUME NEW o \in Objects, Broker!ShellExits(o) PROVE \A p \in Objects : Own(p)'
  <2>1. Own(o)'
    BY <1>o, <1>7 DEF Broker!ShellExits, Broker!outputVars, Own
  <2> QED BY <1>2, <1>7, <2>1 DEF Broker!ShellExits, Broker!outputVars
<1>8. ASSUME NEW o \in Objects, Broker!Respawn(o) PROVE \A p \in Objects : Own(p)'
  <2>1. Own(o)'
    BY <1>8 DEF Broker!Respawn, Broker!Restart, Own
  <2>2. ASSUME NEW p \in Objects, p # o PROVE Own(p)'
    <3>1. UNCHANGED <<runner[p], shell[p], pipe[p], replay[p]>>
      BY <1>8, <2>2 DEF Broker!Respawn, Broker!Restart
    <3>2. Len(printed) =< Len(printed') /\ Len(printed') \in Nat
      BY <1>8, <1>n DEF Broker!Respawn, Broker!Restart
    <3> QED BY <1>2, <3>1, <3>2
  <2> QED BY <2>1, <2>2
<1>9. ASSUME NEW o \in Objects, Broker!EndSession(o) PROVE \A p \in Objects : Own(p)'
  <2>1. Own(o)'
    BY <1>9 DEF Broker!EndSession, Broker!outputVars, Own
  <2> QED BY <1>2, <1>9, <2>1 DEF Broker!EndSession, Broker!outputVars
<1>10. ASSUME NEW o \in Objects, Broker!Output(o) PROVE \A p \in Objects : Own(p)'
  <2>1. shell[o] \in 1 .. Len(printed) /\ pipe[o] \in Seq(OfShell(shell[o]))
    BY <1>o, <1>10 DEF Broker!Output, Own
  <2>2. printed[shell[o]] \in 0 .. MaxOutput /\ printed[shell[o]] + 1 \in 1 .. MaxOutput
    BY SMTT(30), <1>10, <2>1, BoundsAssumption DEF Broker!Output
  <2>3. [shell |-> shell[o], n |-> printed[shell[o]] + 1] \in OfShell(shell[o])
    BY <2>2 DEF OfShell
  <2>4. Len(printed') = Len(printed) /\ Len(printed) \in Nat
    BY <1>10, <2>1 DEF Broker!Output
  <2>5. pipe'[o] \in Seq(OfShell(shell[o]))
    BY <1>10, <2>1, <2>3 DEF Broker!Output
  <2>6. Own(o)'
    BY <1>o, <1>10, <2>4, <2>5 DEF Broker!Output, Own
  <2> QED BY <1>2, <1>10, <2>4, <2>6 DEF Broker!Output
<1>11. ASSUME NEW o \in Objects, Broker!Broadcast(o) PROVE \A p \in Objects : Own(p)'
  <2>1. /\ runner[o] \in {"shell", "exited"} /\ pipe[o] # <<>>
        /\ pipe[o] \in Seq(OfShell(shell[o])) /\ replay[o] \in Seq(OfShell(shell[o]))
    BY <1>o, <1>11 DEF Broker!Broadcast, Own, Runs
  <2>2. Tail(pipe[o]) \in Seq(OfShell(shell[o]))
        /\ Append(replay[o], Head(pipe[o])) \in Seq(OfShell(shell[o]))
    BY <2>1
  <2>3. Broker!LastOf(Append(replay[o], Head(pipe[o])), Cap) \in Seq(OfShell(shell[o]))
    BY <2>2, LastOfKeeps, BoundsAssumption
  <2>4. Own(o)'
    BY <1>o, <1>11, <2>1, <2>2, <2>3 DEF Broker!Broadcast, Broker!ptyVars, Own
  <2>5. ASSUME NEW p \in Objects, p # o PROVE Own(p)'
    <3>1. UNCHANGED <<runner[p], shell[p], pipe[p], replay[p]>>
      BY <1>11, <2>5 DEF Broker!Broadcast, Broker!ptyVars
    <3>2. Len(printed) =< Len(printed') /\ Len(printed') \in Nat
      BY <1>11, <1>n DEF Broker!Broadcast, Broker!ptyVars
    <3> QED BY <1>2, <3>1, <3>2
  <2> QED BY <2>4, <2>5
<1> QED BY <1>3, <1>4, <1>5, <1>6, <1>7, <1>8, <1>9, <1>10, <1>11, StepKinds

(* broadcast trims the replay, and whoever empties it keeps it short. *)
LEMMA ReplayFitsStep == IInv /\ [Next]_vars => ReplayFits'
<1> SUFFICES ASSUME IInv, [Next]_vars, NEW o \in Objects PROVE Len(replay'[o]) =< Cap
  BY DEF ReplayFits
<1>t. /\ pipe \in [Objects -> Seq(Chunks)] /\ replay \in [Objects -> Seq(Chunks)]
      /\ Len(replay[o]) =< Cap
  BY DEF IInv, Types, OutputTypes, ReplayFits
<1>1. CASE replay' = replay
  BY <1>t, <1>1
<1>2. CASE \E q \in Objects : replay' = [replay EXCEPT ![q] = <<>>]
  BY <1>t, <1>2, BoundsAssumption
<1>3. CASE \E q \in Objects : Broker!Broadcast(q)
  <2>1. PICK q \in Objects :
          /\ pipe[q] # <<>>
          /\ replay' = [replay EXCEPT ![q] = Broker!LastOf(Append(@, Head(pipe[q])), Cap)]
    BY <1>3 DEF Broker!Broadcast
  <2>2. Append(replay[q], Head(pipe[q])) \in Seq(Chunks)
    BY <1>t, <2>1
  <2>3. Len(Broker!LastOf(Append(replay[q], Head(pipe[q])), Cap)) =< Cap
    BY <2>2, LastOfKeeps, BoundsAssumption
  <2> QED BY <1>t, <2>1, <2>3
<1>4. ASSUME NEW c \in Conns, Broker!CreateSession(c)
      PROVE  \E q \in Objects : replay' = [replay EXCEPT ![q] = <<>>]
  BY <1>4 DEF Broker!CreateSession, Broker!Create
<1>5. ASSUME NEW q \in Objects, Broker!Respawn(q)
      PROVE  replay' = [replay EXCEPT ![q] = <<>>]
  BY <1>5 DEF Broker!Respawn, Broker!Restart
<1>6. ASSUME NEW q \in Objects,
             \/ Broker!OpenPTY(q) \/ Broker!StartShell(q) \/ Broker!StartFails(q)
             \/ Broker!Output(q) \/ Broker!ShellExits(q) \/ Broker!EndSession(q)
      PROVE  replay' = replay
  BY <1>6 DEF Broker!OpenPTY, Broker!StartShell, Broker!StartFails, Broker!Output,
       Broker!ShellExits, Broker!EndSession, Broker!outputVars
<1>7. CASE Quiet
  BY <1>1, <1>7 DEF Quiet
<1> QED BY <1>1, <1>2, <1>3, <1>4, <1>5, <1>6, <1>7, StepKinds

LEMMA StepInv == IInv /\ [Next]_vars => IInv'
BY TypesStep, OnlyCurrentStep, OutputStep, ReplayFitsStep DEF IInv

THEOREM Invariance == Spec => []IInv
BY InitInv, StepInv, PTL DEF Spec

\* However often a pane reconnects and its shell crashes (main.go:669-711,
\* 968-1006): its session name has one shell, a replay holds output of the
\* shell that runs, and neither that nor the daemon's is longer than its bound.
THEOREM PanesHaveOneShell == Spec => []Inv
BY Invariance, InvHolds, PTL

-----------------------------------------------------------------------------
(* What the panes show.                                                    *)

Last(s) == s[Len(s)]

\* Of two neighbours in a sequence of chunks, or of frames.
ChunkPairs == {r \in Chunks \X Chunks : r[1].shell = r[2].shell => r[2].n = r[1].n + 1}
FramePairs == {r \in Frames \X Frames :
                 r[1].conn = r[2].conn /\ r[1].shell = r[2].shell => r[2].n = r[1].n + 1}

Chain(pairs, s) == \A i \in 1 .. (Len(s) - 1) : <<s[i], s[i + 1]>> \in pairs
Joins(pairs, s, t) == s # <<>> /\ t # <<>> => <<Last(s), Head(t)>> \in pairs

\* A connection is registered with the session it has joined.
ClientsAreIn ==
  \A c \in Conns, o \in Objects : c \in clients[o] <=> at[c] = "in" /\ sess[c] = o

\* Only the connection of the present attempt is in use and not broken.
OneConnection ==
  /\ cut \in SUBSET (1 .. attempt)
  /\ \A c \in Conns \ cut :
       at[c] # "hello" \/ toBroker[c] # <<>> => c = attempt /\ link \in {"hello", "up"}

\* Nothing bears the number of a shell that has not started.
ChunksUpTo(k) == [shell : 1 .. k, n : 1 .. MaxOutput]
FramesOf(c, k) == [conn : {c}, shell : 1 .. k, n : 1 .. MaxOutput]
FramesUpTo(k) == [conn : Conns, shell : 1 .. k, n : 1 .. MaxOutput]
ShellsHaveStarted ==
  /\ \A o \in Objects : /\ replay[o] \in Seq(ChunksUpTo(Len(printed)))
                        /\ pipe[o] \in Seq(ChunksUpTo(Len(printed)))
  /\ \A c \in Conns : toDaemon[c] \in Seq(FramesOf(c, Len(printed)))
  /\ buffer \in Seq(FramesUpTo(Len(printed)))

\* Nothing has come over a connection that has not been registered.
NothingBefore ==
  \A c \in Conns : at[c] \in {"hello", "joining"} =>
    /\ toDaemon[c] = <<>>
    /\ buffer # <<>> => Last(buffer).conn # c

\* The replay and what waits to be broadcast are one sequence, to the last
\* chunk that was printed.
OutputRuns ==
  \A o \in Objects :
    /\ Chain(ChunkPairs, replay[o]) /\ Chain(ChunkPairs, pipe[o])
    /\ Joins(ChunkPairs, replay[o], pipe[o])
    /\ runner[o] \in {"shell", "exited"} =>
         /\ pipe[o] # <<>> => Last(pipe[o]).n = printed[shell[o]]
         /\ pipe[o] = <<>> /\ replay[o] # <<>> => Last(replay[o]).n = printed[shell[o]]

\* The buffer and what is under way are one sequence.
StreamsRun ==
  /\ \A c \in Conns : Chain(FramePairs, toDaemon[c])
  /\ Chain(FramePairs, buffer)
  /\ Joins(FramePairs, buffer, toDaemon[attempt])

\* A pane shows at least what is in the buffer.
ScreensRun ==
  \A p \in attached :
    /\ screen[p] \in Seq(Frames) /\ Chain(FramePairs, screen[p])
    /\ screen[p] = <<>> <=> buffer = <<>>
    /\ buffer # <<>> => Last(screen[p]) = Last(buffer)

\* The last chunk a client was sent is the last one of the replay; after a
\* restart it is of an earlier shell.
Stamp(c, chunk) == [conn |-> c, shell |-> chunk.shell, n |-> chunk.n]
SentIsLatest ==
  \A o \in Objects : \A c \in clients[o] \ cut :
    /\ replay[o] # <<>> =>
         LET frame == Stamp(c, Last(replay[o]))
         IN  \/ toDaemon[c] # <<>> /\ Last(toDaemon[c]) = frame
             \/ toDaemon[c] = <<>> /\ buffer # <<>> /\ Last(buffer) = frame
    /\ replay[o] = <<>> /\ runner[o] \in {"shell", "exited"} =>
         /\ toDaemon[c] # <<>> => Last(toDaemon[c]).shell # shell[o]
         /\ toDaemon[c] = <<>> /\ buffer # <<>> =>
              Last(buffer).conn # c \/ Last(buffer).shell # shell[o]

Streams ==
  /\ ClientsAreIn /\ OneConnection /\ ShellsHaveStarted /\ NothingBefore
  /\ OutputRuns /\ StreamsRun /\ ScreensRun /\ SentIsLatest

LEMMA ChainAppend ==
  ASSUME NEW S, NEW s \in Seq(S), NEW x \in S, NEW pairs, Chain(pairs, s),
         s # <<>> => <<Last(s), x>> \in pairs
  PROVE  /\ Append(s, x) \in Seq(S) /\ Append(s, x) # <<>>
         /\ Last(Append(s, x)) = x /\ Chain(pairs, Append(s, x))
<1> DEFINE t == Append(s, x)
<1>1. /\ t \in Seq(S) /\ Len(t) = Len(s) + 1 /\ Len(s) \in Nat /\ t[Len(s) + 1] = x
      /\ \A i \in 1 .. Len(s) : t[i] = s[i]
  OBVIOUS
<1>2. t # <<>> /\ Last(t) = x
  BY <1>1 DEF Last
<1>3. Chain(pairs, t)
  <2> SUFFICES ASSUME NEW i \in 1 .. Len(s) PROVE <<t[i], t[i + 1]>> \in pairs
    BY <1>1 DEF Chain
  <2>1. CASE i = Len(s)
    BY <1>1, <2>1 DEF Last
  <2>2. CASE i # Len(s)
    BY <1>1, <2>2 DEF Chain
  <2> QED BY <2>1, <2>2
<1> QED BY <1>1, <1>2, <1>3

LEMMA ChainTail ==
  ASSUME NEW S, NEW s \in Seq(S), s # <<>>, NEW pairs, Chain(pairs, s)
  PROVE  /\ Tail(s) \in Seq(S) /\ Head(s) \in S /\ Last(s) \in S /\ Chain(pairs, Tail(s))
         /\ Tail(s) # <<>> => /\ <<Head(s), Head(Tail(s))>> \in pairs
                              /\ Last(Tail(s)) = Last(s)
         /\ Tail(s) = <<>> => Head(s) = Last(s)
<1> DEFINE t == Tail(s)
<1>1. /\ t \in Seq(S) /\ Len(s) \in Nat \ {0} /\ Len(t) = Len(s) - 1 /\ Head(s) = s[1]
      /\ \A i \in 1 .. Len(t) : t[i] = s[i + 1]
  OBVIOUS
<1>2. Chain(pairs, t)
  BY <1>1 DEF Chain
<1>3. Head(s) \in S /\ Last(s) \in S
  BY <1>1 DEF Last
<1>4. ASSUME t # <<>> PROVE <<Head(s), Head(t)>> \in pairs /\ Last(t) = Last(s)
  <2>1. Len(t) >= 1 /\ Head(t) = t[1] /\ t[1] = s[2] /\ t[Len(t)] = s[Len(s)]
    BY <1>1, <1>4
  <2> QED BY <1>1, <2>1 DEF Chain, Last
<1>5. t = <<>> => Head(s) = Last(s)
  <2> HIDE DEF t
  <2> HAVE t = <<>>
  <2>1. Len(s) = 1
    BY <1>1
  <2> QED BY <1>1, <2>1 DEF Last
<1> HIDE DEF t
<1> QED BY <1>1, <1>2, <1>3, <1>4, <1>5 DEF t

LEMMA ChainPrefix ==
  ASSUME NEW S, NEW s \in Seq(S), NEW pairs, Chain(pairs, s), NEW k \in 0 .. Len(s)
  PROVE  /\ SubSeq(s, 1, k) \in Seq(S) /\ Chain(pairs, SubSeq(s, 1, k))
         /\ SubSeq(s, 1, k) # <<>> => s # <<>> /\ Head(SubSeq(s, 1, k)) = Head(s)
<1> DEFINE t == SubSeq(s, 1, k)
<1>1. t \in Seq(S) /\ Len(t) = k /\ \A i \in 1 .. k : t[i] = s[i]
  OBVIOUS
<1>2. Chain(pairs, t)
  BY <1>1 DEF Chain
<1>3. t # <<>> => s # <<>> /\ Head(t) = Head(s)
  <2> HAVE t # <<>>
  <2>1. k >= 1 /\ Head(t) = t[1] /\ Len(s) >= 1
    BY <1>1
  <2> QED BY <1>1, <2>1
<1> HIDE DEF t
<1> QED BY <1>1, <1>2, <1>3 DEF t

LEMMA ChainLastOf ==
  ASSUME NEW S, NEW s \in Seq(S), s # <<>>, NEW pairs, Chain(pairs, s), NEW k \in Nat \ {0}
  PROVE  /\ Daemon!LastOf(s, k) \in Seq(S) /\ Daemon!LastOf(s, k) # <<>> /\ Chain(pairs, Daemon!LastOf(s, k))
         /\ Last(Daemon!LastOf(s, k)) = Last(s)
<1> DEFINE m == IF Len(s) > k THEN Len(s) - k + 1 ELSE 1
           t == SubSeq(s, m, Len(s))
<1>1. m \in 1 .. Len(s) /\ Len(s) \in Nat \ {0}
  OBVIOUS
<1> HIDE DEF m
<1>2. t \in Seq(S) /\ Len(t) = Len(s) - m + 1 /\ \A i \in 1 .. Len(t) : t[i] = s[m + i - 1]
  BY <1>1
<1> HIDE DEF t
<1>3. Len(t) \in Nat \ {0} /\ t # <<>>
  <2>1. Len(t) \in Nat \ {0}
    BY <1>1, <1>2
  <2> QED BY <2>1
<1>4. Last(t) = Last(s)
  BY <1>1, <1>2, <1>3 DEF Last
<1>5. Chain(pairs, t)
  <2> SUFFICES ASSUME NEW i \in 1 .. (Len(t) - 1) PROVE <<t[i], t[i + 1]>> \in pairs
    BY DEF Chain
  <2>1. t[i] = s[m + i - 1] /\ t[i + 1] = s[m + i]
    BY <1>1, <1>2
  <2>2. m + i - 1 \in 1 .. (Len(s) - 1) /\ (m + i - 1) + 1 = m + i
    BY <1>1, <1>2
  <2>3. <<s[m + i - 1], s[(m + i - 1) + 1]>> \in pairs
    BY <2>2 DEF Chain
  <2> QED BY <2>1, <2>2, <2>3
<1> QED BY <1>2, <1>3, <1>4, <1>5 DEF Daemon!LastOf, m, t

\* A chunk as a frame of a connection.
LEMMA Pairs ==
  /\ \A a, b \in Chunks :
       <<a, b>> \in ChunkPairs <=> (a.shell = b.shell => b.n = a.n + 1)
  /\ \A a, b \in Frames :
       <<a, b>> \in FramePairs <=> (a.conn = b.conn /\ a.shell = b.shell => b.n = a.n + 1)
<1>1. ASSUME NEW a \in Chunks, NEW b \in Chunks
      PROVE  <<a, b>> \in ChunkPairs <=> (a.shell = b.shell => b.n = a.n + 1)
  BY DEF ChunkPairs
<1>2. ASSUME NEW a \in Frames, NEW b \in Frames
      PROVE  <<a, b>> \in FramePairs <=> (a.conn = b.conn /\ a.shell = b.shell => b.n = a.n + 1)
  BY DEF FramePairs
<1> QED BY <1>1, <1>2

\* The lemmas about chains, for chunks and for frames.
LEMMA ChainOfChunks ==
  \A s \in Seq(Chunks), x \in Chunks :
    Chain(ChunkPairs, s) /\ (s # <<>> => <<Last(s), x>> \in ChunkPairs) =>
      /\ Append(s, x) \in Seq(Chunks) /\ Append(s, x) # <<>>
      /\ Last(Append(s, x)) = x /\ Chain(ChunkPairs, Append(s, x))
BY ChainAppend

LEMMA ChainOfFrames ==
  \A s \in Seq(Frames), x \in Frames :
    Chain(FramePairs, s) /\ (s # <<>> => <<Last(s), x>> \in FramePairs) =>
      /\ Append(s, x) \in Seq(Frames) /\ Append(s, x) # <<>>
      /\ Last(Append(s, x)) = x /\ Chain(FramePairs, Append(s, x))
BY ChainAppend

LEMMA Stamped ==
  ASSUME NEW c \in Conns, NEW a \in Chunks
  PROVE  /\ Stamp(c, a) \in Frames
         /\ Stamp(c, a).conn = c /\ Stamp(c, a).shell = a.shell /\ Stamp(c, a).n = a.n
         /\ \A b \in Chunks : <<a, b>> \in ChunkPairs => <<Stamp(c, a), Stamp(c, b)>> \in FramePairs
<1>1. \A b \in Chunks : /\ Stamp(c, b) \in Frames /\ Stamp(c, b).conn = c
                        /\ Stamp(c, b).shell = b.shell /\ Stamp(c, b).n = b.n
  BY DEF Stamp, Chunks, Frames
<1> QED BY <1>1, Pairs

\* The first chunks on a connection, and one more.
LEMMA WriteFirst ==
  ASSUME NEW c \in Conns \ cut, toDaemon[c] = <<>>, NEW chunks \in Seq(Chunks)
  PROVE  LET w == Broker!Write(c, chunks)
         IN  /\ w \in Seq(Frames) /\ (w = <<>> <=> chunks = <<>>)
             /\ chunks # <<>> => /\ Head(w) = Stamp(c, Head(chunks))
                                 /\ Last(w) = Stamp(c, Last(chunks))
             /\ Chain(ChunkPairs, chunks) => Chain(FramePairs, w)
<1> DEFINE w == [i \in 1 .. Len(chunks) |-> Stamp(c, chunks[i])]
<1>1. \A i \in 1 .. Len(chunks) : chunks[i] \in Chunks
  OBVIOUS
<1>2. Broker!Write(c, chunks) = <<>> \o w
  BY DEF Broker!Write, Stamp
<1>3. w \in Seq(Frames) /\ Len(w) = Len(chunks) /\ \A i \in 1 .. Len(w) : w[i] = Stamp(c, chunks[i])
  <2>1. \A i \in 1 .. Len(chunks) : Stamp(c, chunks[i]) \in Frames
    BY <1>1, Stamped
  <2>2. Len(chunks) \in Nat
    OBVIOUS
  <2> QED BY <2>1, <2>2
<1> HIDE DEF w
<1>4. Broker!Write(c, chunks) = w
  BY <1>2, <1>3
<1>5. w = <<>> <=> chunks = <<>>
  BY <1>3
<1>6. ASSUME chunks # <<>> PROVE Head(w) = Stamp(c, Head(chunks)) /\ Last(w) = Stamp(c, Last(chunks))
  <2>1. Len(chunks) \in Nat \ {0} /\ Head(chunks) = chunks[1] /\ Head(w) = w[1]
    BY <1>3, <1>5, <1>6
  <2> QED BY <1>3, <2>1 DEF Last
<1>7. ASSUME Chain(ChunkPairs, chunks) PROVE Chain(FramePairs, w)
  <2> SUFFICES ASSUME NEW i \in 1 .. (Len(chunks) - 1) PROVE <<w[i], w[i + 1]>> \in FramePairs
    BY <1>3 DEF Chain
  <2>1. i \in 1 .. Len(chunks) /\ i + 1 \in 1 .. Len(chunks) /\ Len(chunks) \in Nat
    OBVIOUS
  <2>2. chunks[i] \in Chunks /\ chunks[i + 1] \in Chunks /\ <<chunks[i], chunks[i + 1]>> \in ChunkPairs
    BY <1>1, <1>7, <2>1 DEF Chain
  <2>3. w[i] = Stamp(c, chunks[i]) /\ w[i + 1] = Stamp(c, chunks[i + 1])
    BY <1>3, <2>1
  <2> QED BY <2>2, <2>3, Stamped
<1> QED BY <1>3, <1>4, <1>5, <1>6, <1>7

LEMMA WriteNext ==
  ASSUME WireTypes, NEW c \in Conns \ cut, NEW chunk \in Chunks
  PROVE  Broker!Write(c, <<chunk>>) = Append(toDaemon[c], Stamp(c, chunk))
<1>1. toDaemon[c] \in Seq(Frames) /\ Stamp(c, chunk) \in Frames
  BY Stamped DEF WireTypes
<1>2. Broker!Write(c, <<chunk>>) = toDaemon[c] \o <<Stamp(c, chunk)>>
  BY DEF Broker!Write, Stamp
<1> QED BY <1>1, <1>2, AppendIsConcat

LEMMA WriteNothing ==
  ASSUME NEW c \in cut, NEW chunks PROVE Broker!Write(c, chunks) = toDaemon[c]
BY DEF Broker!Write

LEMMA SeqOfMore ==
  ASSUME NEW A, NEW B, A \subseteq B, NEW s \in Seq(A) PROVE s \in Seq(B)
OBVIOUS

SInv == IInv /\ Streams

LEMMA InitStreams == Init => Streams
<1> SUFFICES ASSUME Init PROVE Streams
  OBVIOUS
<1> USE NullsAssumption, BoundsAssumption DEF Init, Broker!Init, Daemon!Init
<1>1. ClientsAreIn /\ OneConnection
  BY DEF ClientsAreIn, OneConnection
<1>2. ShellsHaveStarted /\ NothingBefore
  BY DEF ShellsHaveStarted, NothingBefore
<1>3. OutputRuns /\ StreamsRun
  BY DEF OutputRuns, StreamsRun, Chain, Joins, Conns
<1>4. ScreensRun /\ SentIsLatest
  BY DEF ScreensRun, SentIsLatest
<1> QED BY <1>1, <1>2, <1>3, <1>4 DEF Streams

-----------------------------------------------------------------------------
(* What a step may change of the connections.                              *)
LEMMA ConnSteps ==
  ASSUME [Next]_vars
  PROVE  \/ UNCHANGED <<clients, at, sess>>
         \/ \E c \in Conns : Broker!JoinSession(c) \/ Broker!CreateSession(c)
                             \/ Broker!AddClient(c) \/ Broker!Hangup(c)
<1> USE DEF brokerVars, daemonVars, Broker!connVars
<1>1. CASE UNCHANGED vars \/ DaemonSteps \/ \E c \in Conns : Cut(c)
  BY <1>1 DEF vars, DaemonSteps, Cut
<1>2. ASSUME NEW c \in Conns, Broker!Resize(c) PROVE UNCHANGED <<clients, at, sess>>
  BY <1>2 DEF Broker!Resize
<1>3. ASSUME NEW o \in Objects,
             \/ Broker!OpenPTY(o) \/ Broker!StartShell(o) \/ Broker!StartFails(o) \/ Broker!Output(o)
             \/ Broker!Broadcast(o) \/ Broker!ShellExits(o) \/ Broker!Respawn(o)
             \/ Broker!EndSession(o)
      PROVE  UNCHANGED <<clients, at, sess>>
  BY <1>3 DEF Broker!OpenPTY, Broker!StartShell, Broker!StartFails, Broker!Output,
     Broker!Broadcast, Broker!ShellExits, Broker!Respawn, Broker!Restart, Broker!EndSession
<1> QED BY <1>1, <1>2, <1>3 DEF Next, BrokerSteps, Broker!Next

LEMMA ClientsAreInStep == SInv /\ [Next]_vars => ClientsAreIn'
<1> SUFFICES ASSUME SInv, [Next]_vars PROVE ClientsAreIn'
  OBVIOUS
<1> USE DEF SInv, IInv, Types, Streams, ConnTypes, ClientsAreIn, Broker!tableVars
<1>1. CASE UNCHANGED <<clients, at, sess>>
  BY <1>1
<1>2. ASSUME NEW c \in Conns, Broker!JoinSession(c) \/ Broker!CreateSession(c) PROVE ClientsAreIn'
  <2>1. /\ clients' = clients /\ at[c] = "hello" /\ at' = [at EXCEPT ![c] = "joining"]
        /\ \A d \in Conns \ {c} : sess'[d] = sess[d]
    BY <1>2 DEF Broker!JoinSession, Broker!CreateSession, Broker!Create
  <2> QED BY <2>1
<1>3. ASSUME NEW c \in Conns, Broker!AddClient(c) PROVE ClientsAreIn'
  BY <1>3 DEF Broker!AddClient
<1>4. ASSUME NEW c \in Conns, Broker!Hangup(c) PROVE ClientsAreIn'
  BY <1>4 DEF Broker!Hangup
<1> QED BY <1>1, <1>2, <1>3, <1>4, ConnSteps

LEMMA OneConnectionStep == SInv /\ [Next]_vars => OneConnection'
<1> SUFFICES ASSUME SInv, [Next]_vars PROVE OneConnection'
  OBVIOUS
<1> USE BoundsAssumption
    DEF SInv, IInv, Types, Streams, ConnTypes, WireTypes, PaneTypes, OneConnection, Conns,
        brokerVars, daemonVars, Broker!wires, Daemon!wires, Daemon!loopVars, Daemon!paneVars,
        Broker!connVars
(* A step of the broker for a connection that is in use, or broken. *)
<1>1. ASSUME NEW c \in Conns, c \in cut \/ at[c] # "hello" \/ toBroker[c] # <<>>,
             UNCHANGED <<attempt, link, cut>>,
             \A d \in Conns \ {c} : at'[d] = at[d] /\ toBroker'[d] = toBroker[d]
      PROVE  OneConnection'
  BY <1>1
<1>2. ASSUME UNCHANGED <<attempt, link, cut, at, toBroker>> PROVE OneConnection'
  BY <1>2
<1>3. ASSUME NEW c \in Conns, UNCHANGED daemonVars,
             Broker!JoinSession(c) \/ Broker!CreateSession(c) \/ Broker!Resize(c)
      PROVE  OneConnection'
  <2>1. /\ toBroker[c] # <<>> /\ toBroker' = [toBroker EXCEPT ![c] = Tail(@)]
        /\ cut' = cut /\ \A d \in Conns \ {c} : at'[d] = at[d]
    BY <1>3 DEF Broker!JoinSession, Broker!CreateSession, Broker!Create, Broker!Resize,
       Broker!Receives
  <2>2. c \in cut \/ at[c] # "hello" \/ toBroker[c] # <<>>
    BY <2>1
  <2>3. UNCHANGED <<attempt, link, cut>>
    BY <1>3, <2>1
  <2>4. \A d \in Conns \ {c} : at'[d] = at[d] /\ toBroker'[d] = toBroker[d]
    BY <2>1
  <2> HIDE DEF SInv, IInv, Types, Streams, ConnTypes, WireTypes, PaneTypes, OneConnection, Conns
  <2> QED BY <1>1, <2>2, <2>3, <2>4
<1>4. ASSUME NEW c \in Conns, UNCHANGED daemonVars, Broker!AddClient(c) PROVE OneConnection'
  BY <1>1, <1>4 DEF Broker!AddClient
<1>5. ASSUME NEW c \in Conns, UNCHANGED daemonVars, Broker!Hangup(c) PROVE OneConnection'
  BY <1>1, <1>5 DEF Broker!Hangup
<1>6. ASSUME NEW o \in Objects, UNCHANGED daemonVars,
             \/ Broker!OpenPTY(o) \/ Broker!StartShell(o) \/ Broker!StartFails(o) \/ Broker!Output(o)
             \/ Broker!Broadcast(o) \/ Broker!ShellExits(o) \/ Broker!Respawn(o)
             \/ Broker!EndSession(o)
      PROVE  OneConnection'
  <2>1. UNCHANGED <<attempt, link, cut, at, toBroker>>
    BY <1>6 DEF Broker!OpenPTY, Broker!StartShell, Broker!StartFails, Broker!Output,
       Broker!Broadcast, Broker!ShellExits, Broker!Respawn, Broker!Restart, Broker!EndSession
  <2> QED BY <1>2, <2>1
<1>7. ASSUME UNCHANGED brokerVars, Daemon!Dial PROVE OneConnection'
  BY <1>7 DEF Daemon!Dial
<1>8. ASSUME UNCHANGED brokerVars, Daemon!SetConn PROVE OneConnection'
  BY <1>8 DEF Daemon!SetConn
<1>9. ASSUME UNCHANGED brokerVars, Daemon!DialFails \/ Daemon!LinkLost PROVE OneConnection'
  <2>1. \A c \in Conns \ cut : at[c] = "hello" /\ toBroker[c] = <<>>
    BY <1>9 DEF Daemon!DialFails, Daemon!LinkLost
  <2>2. UNCHANGED <<at, toBroker, cut>> /\ (attempt' = attempt \/ attempt' = attempt + 1)
    BY <1>9 DEF Daemon!DialFails, Daemon!LinkLost, Daemon!TryAgain
  <2> QED BY <2>1, <2>2
<1>10. ASSUME NEW p \in Panes, UNCHANGED brokerVars, Daemon!SendSize(p) PROVE OneConnection'
  BY <1>10 DEF Daemon!SendSize
<1>11. ASSUME UNCHANGED brokerVars,
              Daemon!Receive \/ \E p \in Panes : Daemon!Attach(p) \/ Daemon!Detach(p) \/ Daemon!TakeSize(p)
       PROVE  OneConnection'
  BY <1>2, <1>11 DEF Daemon!Receive, Daemon!Attach, Daemon!Detach, Daemon!TakeSize
<1>12. ASSUME NEW c \in Conns, Cut(c) PROVE OneConnection'
  BY <1>12 DEF Cut
<1>13. CASE UNCHANGED vars
  BY <1>2, <1>13 DEF vars
<1> QED BY <1>3, <1>4, <1>5, <1>6, <1>7, <1>8, <1>9, <1>10, <1>11, <1>12, <1>13
        DEF Next, BrokerSteps, DaemonSteps, Broker!Next, Daemon!Next, Daemon!Loop, Daemon!Pane

LEMMA OutputSteps ==
  ASSUME [Next]_vars
  PROVE  \/ UNCHANGED <<runner, shell, printed, pipe, replay>>
         \/ \E c \in Conns : Broker!CreateSession(c)
         \/ \E o \in Objects : \/ Broker!OpenPTY(o) \/ Broker!StartShell(o)
                               \/ Broker!StartFails(o) \/ Broker!Output(o)
                               \/ Broker!Broadcast(o) \/ Broker!ShellExits(o)
                               \/ Broker!Respawn(o) \/ Broker!EndSession(o)
BY StepKinds DEF Quiet

\* The number of shells grows only.
LEMMA ShellsGrow == IInv /\ [Next]_vars => Len(printed) \in Nat /\ Len(printed') \in Nat /\ Len(printed) =< Len(printed')
<1> SUFFICES ASSUME IInv, [Next]_vars
             PROVE  Len(printed) \in Nat /\ Len(printed') \in Nat /\ Len(printed) =< Len(printed')
  OBVIOUS
<1> USE DEF IInv, Types, RunTypes
<1>0. Len(printed) \in Nat
  OBVIOUS
<1>1. ASSUME NEW o \in Objects, Broker!StartShell(o) PROVE Len(printed') = Len(printed) + 1
  BY <1>1 DEF Broker!StartShell
<1>2. ASSUME NEW o \in Objects, Broker!Output(o) PROVE Len(printed') = Len(printed)
  <2>1. shell[o] \in 1 .. Len(printed)
    BY <1>2 DEF Broker!Output, OutputIsOwn
  <2> QED BY <1>2, <2>1 DEF Broker!Output
<1>3. ASSUME NEW o \in Objects,
             \/ Broker!OpenPTY(o) \/ Broker!StartFails(o) \/ Broker!Broadcast(o)
             \/ Broker!ShellExits(o) \/ Broker!Respawn(o) \/ Broker!EndSession(o)
      PROVE  printed' = printed
  BY <1>3 DEF Broker!OpenPTY, Broker!StartFails, Broker!Broadcast, Broker!ptyVars,
     Broker!ShellExits, Broker!Respawn, Broker!Restart, Broker!EndSession
<1>4. ASSUME NEW c \in Conns, Broker!CreateSession(c) PROVE printed' = printed
  BY <1>4 DEF Broker!CreateSession, Broker!Create
<1> QED BY <1>0, <1>1, <1>2, <1>3, <1>4, OutputSteps

\* What has started stays started.
ChunksHaveStarted ==
  \A o \in Objects : /\ replay[o] \in Seq(ChunksUpTo(Len(printed)))
                     /\ pipe[o] \in Seq(ChunksUpTo(Len(printed)))
FramesHaveStarted ==
  /\ \A c \in Conns : toDaemon[c] \in Seq(FramesOf(c, Len(printed)))
  /\ buffer \in Seq(FramesUpTo(Len(printed)))

LEMMA UpToMore ==
  ASSUME NEW j \in Nat, NEW k \in Nat, j =< k
  PROVE  /\ \A s \in Seq(ChunksUpTo(j)) : s \in Seq(ChunksUpTo(k))
         /\ \A c \in Conns : \A s \in Seq(FramesOf(c, j)) : s \in Seq(FramesOf(c, k))
         /\ \A s \in Seq(FramesUpTo(j)) : s \in Seq(FramesUpTo(k))
<1>1. /\ ChunksUpTo(j) \subseteq ChunksUpTo(k) /\ FramesUpTo(j) \subseteq FramesUpTo(k)
      /\ \A c \in Conns : FramesOf(c, j) \subseteq FramesOf(c, k)
  BY DEF ChunksUpTo, FramesOf, FramesUpTo
<1> QED BY <1>1, SeqOfMore

LEMMA NextChunk ==
  ASSUME IInv, NEW o \in Objects, Broker!Output(o)
  PROVE  /\ shell[o] \in 1 .. Len(printed) /\ printed[shell[o]] \in 0 .. MaxOutput
         /\ printed[shell[o]] + 1 \in 1 .. MaxOutput
<1>1. shell[o] \in 1 .. Len(printed)
  BY DEF Broker!Output, IInv, OutputIsOwn
<1>2. printed \in Seq(0 .. MaxOutput)
  BY DEF IInv, Types, RunTypes
<1>3. printed[shell[o]] \in 0 .. MaxOutput
  BY <1>1, <1>2, ElementOfSeq
<1>4. MaxOutput \in Nat
  BY BoundsAssumption
<1>5. printed[shell[o]] < MaxOutput
  BY DEF Broker!Output
<1> QED BY <1>1, <1>3, <1>4, <1>5

LEMMA ChunksHaveStartedStep == SInv /\ [Next]_vars => ChunksHaveStarted'
<1> SUFFICES ASSUME SInv, [Next]_vars PROVE ChunksHaveStarted'
  OBVIOUS
<1> USE DEF SInv, IInv, Types, OutputTypes, Streams, ShellsHaveStarted, ChunksHaveStarted
<1>k. /\ Len(printed) \in Nat /\ Len(printed') \in Nat /\ Len(printed) =< Len(printed')
  BY ShellsGrow
<1>m. \A s \in Seq(ChunksUpTo(Len(printed))) : s \in Seq(ChunksUpTo(Len(printed')))
  BY <1>k, UpToMore
<1>1. ASSUME UNCHANGED <<pipe, replay>> PROVE ChunksHaveStarted'
  BY <1>1, <1>m
<1>2. ASSUME NEW c \in Conns, Broker!CreateSession(c) PROVE ChunksHaveStarted'
  BY <1>2, <1>m DEF Broker!CreateSession, Broker!Create
<1>3. ASSUME NEW o \in Objects,
             \/ Broker!OpenPTY(o) \/ Broker!StartShell(o) \/ Broker!StartFails(o)
             \/ Broker!ShellExits(o) \/ Broker!EndSession(o)
      PROVE  ChunksHaveStarted'
  BY <1>1, <1>3 DEF Broker!OpenPTY, Broker!StartShell, Broker!StartFails, Broker!ShellExits,
     Broker!EndSession, Broker!outputVars
<1>4. ASSUME NEW o \in Objects, Broker!Respawn(o) PROVE ChunksHaveStarted'
  BY <1>4, <1>m DEF Broker!Respawn, Broker!Restart
<1>5. ASSUME NEW o \in Objects, Broker!Output(o) PROVE ChunksHaveStarted'
  <2>1. shell[o] \in 1 .. Len(printed) /\ printed[shell[o]] + 1 \in 1 .. MaxOutput
    BY <1>5, NextChunk
  <2>2. [shell |-> shell[o], n |-> printed[shell[o]] + 1] \in ChunksUpTo(Len(printed))
    BY <2>1 DEF ChunksUpTo
  <2>3. \A p \in Objects : pipe'[p] \in Seq(ChunksUpTo(Len(printed))) /\ replay' = replay
    BY <1>5, <2>2 DEF Broker!Output
  <2> QED BY <1>m, <2>3
<1>6. ASSUME NEW o \in Objects, Broker!Broadcast(o) PROVE ChunksHaveStarted'
  <2>1. Head(pipe[o]) \in ChunksUpTo(Len(printed)) /\ Tail(pipe[o]) \in Seq(ChunksUpTo(Len(printed)))
    BY <1>6 DEF Broker!Broadcast
  <2>2. Append(replay[o], Head(pipe[o])) \in Seq(ChunksUpTo(Len(printed)))
    BY <2>1
  <2>3. Broker!LastOf(Append(replay[o], Head(pipe[o])), Cap) \in Seq(ChunksUpTo(Len(printed)))
    BY <2>2, LastOfKeeps, BoundsAssumption
  <2>4. \A p \in Objects : /\ pipe'[p] \in Seq(ChunksUpTo(Len(printed)))
                           /\ replay'[p] \in Seq(ChunksUpTo(Len(printed)))
    BY <1>6, <2>1, <2>3 DEF Broker!Broadcast
  <2> QED BY <1>m, <2>4
<1> QED BY <1>1, <1>2, <1>3, <1>4, <1>5, <1>6, OutputSteps

\* What a step may change of the wires and the screens.
LEMMA WireSteps ==
  ASSUME [Next]_vars
  PROVE  \/ UNCHANGED <<toDaemon, buffer, attempt, attached, screen>>
         \/ \E c \in Conns : (Broker!AddClient(c) /\ UNCHANGED daemonVars) \/ Cut(c)
         \/ \E o \in Objects : Broker!Broadcast(o) /\ UNCHANGED daemonVars
         \/ /\ UNCHANGED brokerVars
            /\ \/ Daemon!DialFails \/ Daemon!LinkLost \/ Daemon!Receive
               \/ \E p \in Panes : Daemon!Attach(p) \/ Daemon!Detach(p)
<1> USE DEF brokerVars, daemonVars, Broker!wires, Daemon!wires, Daemon!loopVars, Daemon!paneVars
<1>1. CASE UNCHANGED vars
  BY <1>1 DEF vars
<1>2. CASE \E c \in Conns : Cut(c)
  BY <1>2
<1>3. CASE BrokerSteps
  <2>1. ASSUME NEW c \in Conns,
               Broker!JoinSession(c) \/ Broker!CreateSession(c) \/ Broker!Resize(c) \/ Broker!Hangup(c)
        PROVE  toDaemon' = toDaemon
    BY <2>1 DEF Broker!JoinSession, Broker!CreateSession, Broker!Create, Broker!Resize,
       Broker!Hangup, Broker!Receives
  <2>2. ASSUME NEW o \in Objects,
               \/ Broker!OpenPTY(o) \/ Broker!StartShell(o) \/ Broker!StartFails(o)
               \/ Broker!Output(o) \/ Broker!ShellExits(o) \/ Broker!Respawn(o)
               \/ Broker!EndSession(o)
        PROVE  toDaemon' = toDaemon
    BY <2>2 DEF Broker!OpenPTY, Broker!StartShell, Broker!StartFails, Broker!Output,
       Broker!ShellExits, Broker!Respawn, Broker!Restart, Broker!EndSession
  <2> QED BY <1>3, <2>1, <2>2 DEF BrokerSteps, Broker!Next
<1>4. CASE DaemonSteps
  <2>1. ASSUME Daemon!Dial \/ Daemon!SetConn
        PROVE  UNCHANGED <<toDaemon, buffer, attempt, attached, screen>>
    BY <2>1 DEF Daemon!Dial, Daemon!SetConn
  <2>2. ASSUME NEW p \in Panes, Daemon!TakeSize(p) \/ Daemon!SendSize(p)
        PROVE  UNCHANGED <<toDaemon, buffer, attempt, attached, screen>>
    BY <2>2 DEF Daemon!TakeSize, Daemon!SendSize
  <2> QED BY <1>4, <2>1, <2>2 DEF DaemonSteps, Daemon!Next, Daemon!Loop, Daemon!Pane
<1> QED BY <1>1, <1>2, <1>3, <1>4 DEF Next

\* What is written to a connection bears it.
LEMMA WriteStarted ==
  ASSUME NEW c \in Conns, NEW k \in Nat, toDaemon[c] \in Seq(FramesOf(c, k)),
         NEW chunks \in Seq(ChunksUpTo(k))
  PROVE  Broker!Write(c, chunks) \in Seq(FramesOf(c, k))
<1> DEFINE frames == [i \in 1 .. Len(chunks) |->
                        [conn |-> c, shell |-> chunks[i].shell, n |-> chunks[i].n]]
<1>1. \A i \in 1 .. Len(chunks) : chunks[i] \in ChunksUpTo(k)
  OBVIOUS
<1>2. \A i \in 1 .. Len(chunks) : frames[i] \in FramesOf(c, k)
  BY <1>1 DEF ChunksUpTo, FramesOf
<1>3. frames \in Seq(FramesOf(c, k))
  BY <1>2
<1> QED BY <1>3 DEF Broker!Write

LEMMA FramesHaveStartedStep == SInv /\ [Next]_vars => FramesHaveStarted'
<1> SUFFICES ASSUME SInv, [Next]_vars PROVE FramesHaveStarted'
  OBVIOUS
<1> USE DEF SInv, IInv, Types, Streams, ShellsHaveStarted
<1> DEFINE k == Len(printed)
<1>k. /\ k \in Nat /\ Len(printed') \in Nat /\ k =< Len(printed')
  BY ShellsGrow
<1>m. ASSUME \A c \in Conns : toDaemon'[c] \in Seq(FramesOf(c, k)), buffer' \in Seq(FramesUpTo(k))
      PROVE  FramesHaveStarted'
  BY <1>m, <1>k, UpToMore DEF FramesHaveStarted
<1>1. CASE UNCHANGED <<toDaemon, buffer>>
  BY <1>1, <1>m
<1>2. ASSUME NEW c \in Conns, UNCHANGED daemonVars, Broker!AddClient(c) PROVE FramesHaveStarted'
  <2>1. Broker!Write(c, replay[sess[c]]) \in Seq(FramesOf(c, k))
    BY <1>2, <1>k, WriteStarted DEF Broker!AddClient, ConnTypes
  <2> QED BY <1>2, <1>m, <2>1 DEF Broker!AddClient, daemonVars, WireTypes
<1>3. ASSUME NEW o \in Objects, UNCHANGED daemonVars, Broker!Broadcast(o) PROVE FramesHaveStarted'
  <2>1. <<Head(pipe[o])>> \in Seq(ChunksUpTo(k))
    BY <1>3 DEF Broker!Broadcast
  <2>2. \A c \in Conns : Broker!Write(c, <<Head(pipe[o])>>) \in Seq(FramesOf(c, k))
    BY <1>k, <2>1, WriteStarted
  <2> QED BY <1>3, <1>m, <2>2 DEF Broker!Broadcast, daemonVars
<1>4. ASSUME NEW c \in Conns, Cut(c) PROVE FramesHaveStarted'
  <2>1. PICK n \in 0 .. Len(toDaemon[c]) : toDaemon' = [toDaemon EXCEPT ![c] = SubSeq(@, 1, n)]
    BY <1>4 DEF Cut
  <2>2. SubSeq(toDaemon[c], 1, n) \in Seq(FramesOf(c, k))
    OBVIOUS
  <2> QED BY <1>4, <1>m, <2>1, <2>2 DEF Cut, daemonVars, WireTypes
<1>5. CASE Daemon!DialFails
  BY <1>1, <1>5 DEF Daemon!DialFails, Daemon!wires
<1>6. CASE Daemon!LinkLost
  BY <1>6, <1>m DEF Daemon!LinkLost, WireTypes, PaneTypes
<1>7. CASE Daemon!Receive
  <2>1. /\ Head(toDaemon[attempt]) \in FramesOf(attempt, k)
        /\ Tail(toDaemon[attempt]) \in Seq(FramesOf(attempt, k))
    BY <1>7 DEF Daemon!Receive, PaneTypes
  <2>2. Head(toDaemon[attempt]) \in FramesUpTo(k)
    BY <2>1 DEF FramesOf, FramesUpTo, PaneTypes
  <2>3. Append(buffer, Head(toDaemon[attempt])) \in Seq(FramesUpTo(k))
    BY <2>2
  <2>4. buffer' \in Seq(FramesUpTo(k))
    BY <1>7, <2>3, LastOfKeeps, BoundsAssumption DEF Daemon!Receive
  <2> QED BY <1>7, <1>m, <2>1, <2>4 DEF Daemon!Receive, WireTypes, PaneTypes
<1>8. ASSUME NEW p \in Panes, Daemon!Attach(p) \/ Daemon!Detach(p) PROVE FramesHaveStarted'
  BY <1>1, <1>8 DEF Daemon!Attach, Daemon!Detach, Daemon!wires
<1> QED BY <1>1, <1>2, <1>3, <1>4, <1>5, <1>6, <1>7, <1>8, WireSteps

LEMMA ShellsHaveStartedStep == SInv /\ [Next]_vars => ShellsHaveStarted'
BY ChunksHaveStartedStep, FramesHaveStartedStep
   DEF ShellsHaveStarted, ChunksHaveStarted, FramesHaveStarted

\* Of the frames on a connection, the first and the last.
LEMMA OnTheWire ==
  ASSUME SInv, NEW c \in Conns, toDaemon[c] # <<>>
  PROVE  /\ Head(toDaemon[c]) \in Frames /\ Head(toDaemon[c]).conn = c
         /\ Last(toDaemon[c]) \in Frames /\ Last(toDaemon[c]).conn = c
         /\ Last(toDaemon[c]).shell =< Len(printed)
<1>1. toDaemon[c] \in Seq(FramesOf(c, Len(printed))) /\ toDaemon[c] \in Seq(Frames)
  BY DEF SInv, IInv, Types, WireTypes, Streams, ShellsHaveStarted
<1>2. /\ Head(toDaemon[c]) \in FramesOf(c, Len(printed)) /\ Head(toDaemon[c]) \in Frames
      /\ Last(toDaemon[c]) \in FramesOf(c, Len(printed)) /\ Last(toDaemon[c]) \in Frames
  BY <1>1 DEF Last
<1> QED BY <1>2 DEF FramesOf

LEMMA NothingBeforeStep == SInv /\ [Next]_vars => NothingBefore'
<1> SUFFICES ASSUME SInv, [Next]_vars,
                    NEW c \in Conns, at'[c] \in {"hello", "joining"}
             PROVE  toDaemon'[c] = <<>> /\ (buffer' # <<>> => Last(buffer').conn # c)
  BY DEF NothingBefore
<1> USE DEF SInv, IInv, Types, Streams
<1>a. at[c] \in {"hello", "joining"}
  BY ConnSteps DEF ConnTypes, Broker!JoinSession, Broker!CreateSession, Broker!Create,
     Broker!AddClient, Broker!Hangup
<1>b. /\ toDaemon[c] = <<>> /\ (buffer # <<>> => Last(buffer).conn # c)
      /\ \A o \in Objects : c \notin clients[o]
  BY <1>a DEF NothingBefore, ClientsAreIn
<1>1. ASSUME UNCHANGED <<toDaemon, buffer>>
      PROVE  toDaemon'[c] = <<>> /\ (buffer' # <<>> => Last(buffer').conn # c)
  BY <1>1, <1>b
<1>2. ASSUME NEW d \in Conns, UNCHANGED daemonVars, Broker!AddClient(d)
      PROVE  toDaemon'[c] = toDaemon[c] /\ buffer' = buffer
  BY <1>2 DEF Broker!AddClient, daemonVars, ConnTypes, WireTypes
<1>3. ASSUME NEW o \in Objects, UNCHANGED daemonVars, Broker!Broadcast(o)
      PROVE  toDaemon'[c] = toDaemon[c] /\ buffer' = buffer
  BY <1>3, <1>b DEF Broker!Broadcast, daemonVars
<1>4. ASSUME NEW d \in Conns, Cut(d)
      PROVE  toDaemon'[c] = <<>> /\ buffer' = buffer
  <2>1. PICK n \in 0 .. Len(toDaemon[d]) : toDaemon' = [toDaemon EXCEPT ![d] = SubSeq(@, 1, n)]
    BY <1>4 DEF Cut
  <2>2. c = d => n = 0 /\ SubSeq(toDaemon[c], 1, 0) = <<>>
    BY <1>b, <2>1
  <2> QED BY <1>4, <1>b, <2>1, <2>2 DEF Cut, daemonVars, WireTypes
<1>5. ASSUME Daemon!DialFails PROVE UNCHANGED <<toDaemon, buffer>>
  BY <1>5 DEF Daemon!DialFails, Daemon!wires
<1>6. ASSUME Daemon!LinkLost PROVE toDaemon'[c] = <<>> /\ buffer' = buffer
  BY <1>6, <1>b DEF Daemon!LinkLost, WireTypes, PaneTypes
<1>7. ASSUME Daemon!Receive
      PROVE  toDaemon'[c] = <<>> /\ buffer' # <<>> /\ Last(buffer').conn # c
  <2>1. attempt # c /\ toDaemon[attempt] # <<>> /\ attempt \in Conns
    BY <1>7, <1>b DEF Daemon!Receive, PaneTypes
  <2>2. Head(toDaemon[attempt]) \in Frames /\ Head(toDaemon[attempt]).conn = attempt
    BY <2>1, OnTheWire
  <2>3. /\ Append(buffer, Head(toDaemon[attempt])) \in Seq(Frames)
        /\ Append(buffer, Head(toDaemon[attempt])) # <<>>
        /\ Last(Append(buffer, Head(toDaemon[attempt]))) = Head(toDaemon[attempt])
        /\ Chain(Frames \X Frames, Append(buffer, Head(toDaemon[attempt])))
    <3>1. /\ buffer \in Seq(Frames) /\ Chain(Frames \X Frames, buffer)
          /\ buffer # <<>> => <<Last(buffer), Head(toDaemon[attempt])>> \in Frames \X Frames
      BY <2>2 DEF BufferTypes, Chain, Last
    <3> QED BY <2>2, <3>1, ChainAppend
  <2>4. buffer' # <<>> /\ Last(buffer') = Head(toDaemon[attempt])
    BY <1>7, <2>3, ChainLastOf, BoundsAssumption DEF Daemon!Receive
  <2> QED BY <1>7, <1>b, <2>1, <2>2, <2>4 DEF Daemon!Receive, WireTypes
<1>8. ASSUME NEW p \in Panes, Daemon!Attach(p) \/ Daemon!Detach(p)
      PROVE  UNCHANGED <<toDaemon, buffer>>
  BY <1>8 DEF Daemon!Attach, Daemon!Detach, Daemon!wires
<1> QED BY <1>1, <1>b, <1>2, <1>3, <1>4, <1>5, <1>6, <1>7, <1>8, WireSteps

\* The part of OutputRuns about one session.
RunsOn(o) ==
  /\ Chain(ChunkPairs, replay[o]) /\ Chain(ChunkPairs, pipe[o])
  /\ Joins(ChunkPairs, replay[o], pipe[o])
  /\ runner[o] \in {"shell", "exited"} =>
       /\ pipe[o] # <<>> => Last(pipe[o]).n = printed[shell[o]]
       /\ pipe[o] = <<>> /\ replay[o] # <<>> => Last(replay[o]).n = printed[shell[o]]

LEMMA EmptyRuns ==
  /\ Chain(ChunkPairs, <<>>)
  /\ \A s : Joins(ChunkPairs, s, <<>>) /\ Joins(ChunkPairs, <<>>, s)
BY DEF Chain, Joins

\* Of the output of a session, the chunk that is broadcast next and the last
\* of the replay.
LEMMA OfTheSession ==
  ASSUME IInv, NEW o \in Objects
  PROVE  /\ pipe[o] # <<>> =>
              /\ runner[o] \in {"shell", "exited"}
              /\ Head(pipe[o]) \in Chunks /\ Head(pipe[o]).shell = shell[o]
              /\ Last(pipe[o]) \in Chunks /\ Last(pipe[o]).shell = shell[o]
         /\ replay[o] # <<>> => Last(replay[o]) \in Chunks
         /\ replay[o] # <<>> /\ runner[o] \in {"shell", "exited"} => Last(replay[o]).shell = shell[o]
<1> USE DEF IInv, Types, OutputTypes
<1>1. ASSUME pipe[o] # <<>>
      PROVE  /\ runner[o] \in {"shell", "exited"}
             /\ Head(pipe[o]) \in Chunks /\ Head(pipe[o]).shell = shell[o]
             /\ Last(pipe[o]) \in Chunks /\ Last(pipe[o]).shell = shell[o]
  <2>1. runner[o] \in {"shell", "exited"} /\ pipe[o] \in Seq(OfShell(shell[o]))
    BY <1>1 DEF OutputIsOwn, RunTypes, Runs
  <2>2. Head(pipe[o]) \in OfShell(shell[o]) /\ Last(pipe[o]) \in OfShell(shell[o])
    BY <1>1, <2>1 DEF Last
  <2>3. Head(pipe[o]) \in Chunks /\ Last(pipe[o]) \in Chunks
    BY <1>1 DEF Last
  <2> QED BY <2>1, <2>2, <2>3 DEF OfShell
<1>2. replay[o] # <<>> => Last(replay[o]) \in Chunks
  BY DEF Last
<1>3. ASSUME replay[o] # <<>>, runner[o] \in {"shell", "exited"} PROVE Last(replay[o]).shell = shell[o]
  <2>1. replay[o] \in Seq(OfShell(shell[o]))
    BY <1>3 DEF OutputIsOwn
  <2>2. Last(replay[o]) \in OfShell(shell[o])
    BY <1>3, <2>1 DEF Last
  <2> QED BY <2>2 DEF OfShell
<1> QED BY <1>1, <1>2, <1>3

LEMMA OutputRunsStep == SInv /\ [Next]_vars => OutputRuns'
<1> SUFFICES ASSUME SInv, [Next]_vars, NEW p \in Objects PROVE RunsOn(p)'
  BY DEF OutputRuns, RunsOn
<1> USE DEF SInv, IInv, Types, Streams, OutputTypes, RunTypes
<1>r. RunsOn(p)
  BY DEF OutputRuns, RunsOn
<1>1. CASE UNCHANGED <<runner, shell, printed, pipe, replay>>
  BY <1>1, <1>r DEF RunsOn
(* While another session runs, this one does not. *)
<1>2. ASSUME UNCHANGED <<pipe[p], replay[p]>>, runner'[p] \notin {"shell", "exited"}
      PROVE  RunsOn(p)'
  BY <1>2, <1>r DEF RunsOn
<1>3. ASSUME NEW o \in Objects, o # p, runner[o] # "off" PROVE runner[p] = "off"
  BY <1>3 DEF OnlyCurrentRuns
<1>4. ASSUME NEW c \in Conns, Broker!CreateSession(c) PROVE RunsOn(p)'
  <2>1. PICK o \in Objects \ alive : /\ runner' = [runner EXCEPT ![o] = "open"]
                                     /\ replay' = [replay EXCEPT ![o] = <<>>]
                                     /\ UNCHANGED <<pipe, shell, printed>>
    BY <1>4 DEF Broker!CreateSession, Broker!Create
  <2>2. CASE p = o
    <3>1. pipe[o] = <<>>
      BY <2>1 DEF OnlyCurrentRuns, OutputIsOwn
    <3> QED BY <2>1, <2>2, <3>1, EmptyRuns DEF RunsOn
  <2>3. CASE p # o
    BY <2>1, <2>3, <1>r DEF RunsOn
  <2> QED BY <2>2, <2>3
<1>5. ASSUME NEW o \in Objects,
             Broker!OpenPTY(o) \/ Broker!StartFails(o) \/ Broker!ShellExits(o) \/ Broker!EndSession(o)
      PROVE  RunsOn(p)'
  <2>1. /\ UNCHANGED <<pipe, replay, shell, printed>> /\ \A q \in Objects \ {o} : runner'[q] = runner[q]
        /\ runner'[o] \in {"shell", "exited"} => runner[o] \in {"shell", "exited"}
    BY <1>5 DEF Broker!OpenPTY, Broker!StartFails, Broker!ShellExits, Broker!EndSession,
       Broker!outputVars
  <2> QED BY <2>1, <1>r DEF RunsOn
<1>6. ASSUME NEW o \in Objects, Broker!StartShell(o) PROVE RunsOn(p)'
  <2>1. /\ UNCHANGED <<pipe, replay>> /\ runner[o] = "opened"
        /\ \A q \in Objects \ {o} : runner'[q] = runner[q]
    BY <1>6 DEF Broker!StartShell, Broker!outputVars
  <2>2. CASE p = o
    <3>1. pipe[o] = <<>> /\ replay[o] = <<>>
      BY <2>1 DEF OutputIsOwn
    <3> QED BY <2>1, <2>2, <3>1, EmptyRuns DEF RunsOn
  <2> QED BY <1>2, <1>3, <2>1, <2>2
<1>7. ASSUME NEW o \in Objects, Broker!Respawn(o) PROVE RunsOn(p)'
  <2>1. /\ pipe' = pipe /\ pipe[o] = <<>> /\ replay' = [replay EXCEPT ![o] = <<>>]
        /\ runner' = [runner EXCEPT ![o] = "open"] /\ UNCHANGED <<shell, printed>>
    BY <1>7 DEF Broker!Respawn, Broker!Restart
  <2>2. CASE p = o
    BY <2>1, <2>2, EmptyRuns DEF RunsOn
  <2>3. CASE p # o
    BY <2>1, <2>3, <1>r DEF RunsOn
  <2> QED BY <2>2, <2>3
<1>8. ASSUME NEW o \in Objects, Broker!Output(o) PROVE RunsOn(p)'
  <2> DEFINE chunk == [shell |-> shell[o], n |-> printed[shell[o]] + 1]
  <2>1. /\ pipe' = [pipe EXCEPT ![o] = Append(@, chunk)]
        /\ printed' = [printed EXCEPT ![shell[o]] = @ + 1]
        /\ UNCHANGED <<replay, shell, runner>> /\ runner[o] \in {"shell", "exited"}
    BY <1>8 DEF Broker!Output
  <2>2. /\ shell[o] \in 1 .. Len(printed) /\ printed[shell[o]] \in 0 .. MaxOutput
        /\ printed[shell[o]] + 1 \in 1 .. MaxOutput
    BY <1>8, NextChunk
  <2>3. chunk \in Chunks /\ chunk.shell = shell[o] /\ chunk.n = printed[shell[o]] + 1
    BY <2>2, BoundsAssumption DEF Chunks
  <2> HIDE DEF chunk
  <2>4. printed'[shell[o]] = chunk.n
    <3>1. shell[o] \in DOMAIN printed
      BY <2>2
    <3> QED BY <2>1, <2>3, <3>1
  <2>5. CASE p = o
    <3>1. pipe[o] # <<>> => <<Last(pipe[o]), chunk>> \in ChunkPairs
      BY <1>r, <2>1, <2>3, <2>5, OfTheSession, Pairs DEF RunsOn
    <3>2. pipe[o] = <<>> /\ replay[o] # <<>> => <<Last(replay[o]), chunk>> \in ChunkPairs
      BY <1>r, <2>1, <2>3, <2>5, OfTheSession, Pairs DEF RunsOn
    <3>3. /\ pipe'[o] = Append(pipe[o], chunk) /\ pipe'[o] # <<>> /\ Last(pipe'[o]) = chunk
          /\ Chain(ChunkPairs, pipe'[o])
      <4>1. pipe'[o] = Append(pipe[o], chunk)
        BY <2>1
      <4>2. pipe[o] \in Seq(Chunks) /\ Chain(ChunkPairs, pipe[o])
        BY <1>r, <2>5 DEF RunsOn
      <4> QED BY <2>3, <3>1, <4>1, <4>2, ChainOfChunks
    <3>4. Head(pipe'[o]) = IF pipe[o] = <<>> THEN chunk ELSE Head(pipe[o])
      BY <2>3, <3>3, HeadTailAppend
    <3>5. Joins(ChunkPairs, replay[o], pipe'[o])
      BY <1>r, <2>5, <3>2, <3>4 DEF Joins, RunsOn
    <3> QED BY <1>r, <2>1, <2>4, <2>5, <3>3, <3>5 DEF RunsOn
  <2>6. CASE p # o
    BY <1>2, <1>3, <2>1, <2>6
  <2> QED BY <2>5, <2>6
<1>9. ASSUME NEW o \in Objects, Broker!Broadcast(o) PROVE RunsOn(p)'
  <2>1. /\ pipe[o] # <<>> /\ pipe' = [pipe EXCEPT ![o] = Tail(@)]
        /\ replay' = [replay EXCEPT ![o] = Broker!LastOf(Append(@, Head(pipe[o])), Cap)]
        /\ UNCHANGED <<shell, runner, printed>>
    BY <1>9 DEF Broker!Broadcast, Broker!ptyVars
  <2>2. CASE p = o
    <3> DEFINE all == Append(replay[o], Head(pipe[o]))
    <3>1. /\ Tail(pipe[o]) \in Seq(Chunks) /\ Head(pipe[o]) \in Chunks
          /\ Chain(ChunkPairs, Tail(pipe[o]))
          /\ Tail(pipe[o]) # <<>> => /\ <<Head(pipe[o]), Head(Tail(pipe[o]))>> \in ChunkPairs
                                     /\ Last(Tail(pipe[o])) = Last(pipe[o])
          /\ Tail(pipe[o]) = <<>> => Head(pipe[o]) = Last(pipe[o])
      BY <1>r, <2>1, <2>2, ChainTail DEF RunsOn
    <3>2. replay[o] # <<>> => <<Last(replay[o]), Head(pipe[o])>> \in ChunkPairs
      BY <1>r, <2>1, <2>2 DEF RunsOn, Joins
    <3>3. all \in Seq(Chunks) /\ all # <<>> /\ Last(all) = Head(pipe[o]) /\ Chain(ChunkPairs, all)
      <4>1. replay[o] \in Seq(Chunks) /\ Chain(ChunkPairs, replay[o])
        BY <1>r, <2>2 DEF RunsOn
      <4> QED BY <3>1, <3>2, <4>1, ChainOfChunks
    <3> HIDE DEF all
    <3>4. /\ replay'[o] # <<>> /\ Chain(ChunkPairs, replay'[o]) /\ Last(replay'[o]) = Head(pipe[o])
      <4>1. replay'[o] = Daemon!LastOf(all, Cap)
        BY <2>1 DEF all, Broker!LastOf, Daemon!LastOf
      <4> QED BY <3>3, <4>1, ChainLastOf, BoundsAssumption
    <3>5. pipe'[o] = Tail(pipe[o])
      BY <2>1
    <3>6. Joins(ChunkPairs, replay'[o], pipe'[o])
      BY <3>1, <3>4, <3>5 DEF Joins
    <3> QED BY <1>r, <2>1, <2>2, <3>1, <3>4, <3>5, <3>6 DEF RunsOn
  <2>3. CASE p # o
    BY <2>1, <2>3, <1>r DEF RunsOn
  <2> QED BY <2>2, <2>3
<1> QED BY <1>1, <1>4, <1>5, <1>6, <1>7, <1>8, <1>9, OutputSteps

\* What is sent to a client that is registered, and was sent before.
LEMMA JoinsTheStream ==
  ASSUME SInv, NEW o \in Objects, pipe[o] # <<>>, NEW c \in clients[o] \ cut
  PROVE  /\ c \in Conns
         /\ toDaemon[c] # <<>> => <<Last(toDaemon[c]), Stamp(c, Head(pipe[o]))>> \in FramePairs
         /\ toDaemon[c] = <<>> /\ buffer # <<>> =>
              <<Last(buffer), Stamp(c, Head(pipe[o]))>> \in FramePairs
<1> DEFINE next == Stamp(c, Head(pipe[o]))
<1>1. c \in Conns /\ buffer \in Seq(Frames)
  BY DEF SInv, IInv, Types, ConnTypes, BufferTypes
<1>2. /\ runner[o] \in {"shell", "exited"} /\ Head(pipe[o]) \in Chunks
      /\ Head(pipe[o]).shell = shell[o]
  BY OfTheSession DEF SInv
<1>3. next \in Frames /\ next.conn = c /\ next.shell = shell[o] /\ next.n = Head(pipe[o]).n
  BY <1>1, <1>2, Stamped
<1>4. /\ toDaemon[c] # <<>> => Last(toDaemon[c]) \in Frames
      /\ buffer # <<>> => Last(buffer) \in Frames
  BY <1>1, OnTheWire DEF Last
<1>5. SentIsLatest
  BY DEF SInv, Streams
<1>6. CASE replay[o] # <<>>
  <2>1. /\ Last(replay[o]) \in Chunks /\ <<Last(replay[o]), Head(pipe[o])>> \in ChunkPairs
    BY <1>6, OfTheSession DEF SInv, Streams, OutputRuns, Joins
  <2>2. <<Stamp(c, Last(replay[o])), next>> \in FramePairs
    BY <1>1, <1>2, <2>1, Stamped
  <2> QED BY <1>1, <1>5, <1>6, <2>2 DEF SentIsLatest
<1>7. CASE replay[o] = <<>>
  <2> HIDE DEF next
  <2>1. /\ toDaemon[c] # <<>> => Last(toDaemon[c]).shell # shell[o]
        /\ toDaemon[c] = <<>> /\ buffer # <<>> =>
             Last(buffer).conn # c \/ Last(buffer).shell # shell[o]
    BY <1>2, <1>5, <1>7 DEF SentIsLatest
  <2>2. /\ toDaemon[c] # <<>> => <<Last(toDaemon[c]), next>> \in FramePairs
        /\ toDaemon[c] = <<>> /\ buffer # <<>> => <<Last(buffer), next>> \in FramePairs
    BY <1>3, <1>4, <2>1, Pairs
  <2> QED BY <1>1, <2>2 DEF next
<1> QED BY <1>6, <1>7

\* The chunk that is broadcast, on each connection.
LEMMA Broadcasts ==
  ASSUME SInv, NEW o \in Objects, Broker!Broadcast(o), NEW c \in Conns
  PROVE  IF c \in clients[o] \ cut
         THEN /\ toDaemon'[c] = Append(toDaemon[c], Stamp(c, Head(pipe[o])))
              /\ pipe[o] # <<>> /\ Stamp(c, Head(pipe[o])) \in Frames
         ELSE toDaemon'[c] = toDaemon[c]
<1>1. pipe[o] # <<>> /\ Head(pipe[o]) \in Chunks /\ WireTypes
  BY OfTheSession DEF SInv, IInv, Types, Broker!Broadcast
<1>2. toDaemon'[c] = IF c \in clients[o] THEN Broker!Write(c, <<Head(pipe[o])>>) ELSE toDaemon[c]
  BY DEF Broker!Broadcast
<1>3. CASE c \in clients[o] \ cut
  <2>1. Broker!Write(c, <<Head(pipe[o])>>) = Append(toDaemon[c], Stamp(c, Head(pipe[o])))
    BY <1>1, <1>3, WriteNext
  <2> QED BY <1>1, <1>2, <1>3, <2>1, Stamped
<1>4. CASE c \notin clients[o]
  BY <1>2, <1>4
<1>5. CASE c \in cut
  BY <1>2, <1>5, WriteNothing
<1> QED BY <1>3, <1>4, <1>5

\* What is registered is sent the replay.
LEMMA Registers ==
  ASSUME SInv, NEW c \in Conns, Broker!AddClient(c)
  PROVE  /\ toDaemon[c] = <<>> /\ (buffer # <<>> => Last(buffer).conn # c)
         /\ sess[c] \in Objects /\ replay[sess[c]] \in Seq(Chunks)
         /\ Chain(ChunkPairs, replay[sess[c]])
         /\ toDaemon' = [toDaemon EXCEPT ![c] = Broker!Write(c, replay[sess[c]])]
         /\ clients' = [clients EXCEPT ![sess[c]] = @ \union {c}]
         /\ UNCHANGED <<cut, runner, shell, replay>>
BY DEF SInv, IInv, Types, Streams, ConnTypes, OutputTypes, OutputRuns, NothingBefore,
   Broker!AddClient, Broker!ptyVars, Broker!outputVars

\* A frame arrives.
LEMMA Receives ==
  ASSUME SInv, Daemon!Receive
  PROVE  LET h == Head(toDaemon[attempt])
         IN  /\ attempt \in Conns /\ toDaemon[attempt] # <<>>
             /\ h \in Frames /\ h.conn = attempt
             /\ buffer # <<>> => <<Last(buffer), h>> \in FramePairs
             /\ buffer' \in Seq(Frames) /\ buffer' # <<>> /\ Last(buffer') = h
             /\ Chain(FramePairs, buffer')
             /\ toDaemon' = [toDaemon EXCEPT ![attempt] = Tail(@)]
             /\ Chain(FramePairs, Tail(toDaemon[attempt]))
             /\ Tail(toDaemon[attempt]) # <<>> =>
                  /\ <<h, Head(Tail(toDaemon[attempt]))>> \in FramePairs
                  /\ Last(Tail(toDaemon[attempt])) = Last(toDaemon[attempt])
             /\ Tail(toDaemon[attempt]) = <<>> => h = Last(toDaemon[attempt])
             /\ UNCHANGED <<attempt, attached>>
             /\ \A p \in attached : screen'[p] = Append(screen[p], h)
<1> DEFINE h == Head(toDaemon[attempt])
           all == Append(buffer, h)
<1>1. /\ attempt \in Conns /\ toDaemon[attempt] # <<>> /\ toDaemon[attempt] \in Seq(Frames)
      /\ buffer \in Seq(Frames) /\ attached \in SUBSET Panes
  BY DEF SInv, IInv, Types, PaneTypes, WireTypes, BufferTypes, Daemon!Receive
<1>2. h \in Frames /\ h.conn = attempt
  BY <1>1, OnTheWire
<1>3. /\ Chain(FramePairs, buffer) /\ Chain(FramePairs, toDaemon[attempt])
      /\ buffer # <<>> => <<Last(buffer), h>> \in FramePairs
  BY <1>1 DEF SInv, Streams, StreamsRun, Joins
<1> HIDE DEF h
<1>4. /\ all \in Seq(Frames) /\ all # <<>> /\ Last(all) = h /\ Chain(FramePairs, all)
  BY <1>1, <1>2, <1>3, ChainOfFrames
<1>5. /\ buffer' = Daemon!LastOf(all, DaemonCap)
      /\ toDaemon' = [toDaemon EXCEPT ![attempt] = Tail(@)]
      /\ UNCHANGED <<attempt, attached>>
      /\ screen' = [p \in Panes |-> IF p \in attached THEN Append(screen[p], h) ELSE screen[p]]
  BY DEF Daemon!Receive, h, Daemon!loopVars
<1> HIDE DEF all
<1>6. /\ buffer' \in Seq(Frames) /\ buffer' # <<>> /\ Last(buffer') = h /\ Chain(FramePairs, buffer')
  BY <1>4, <1>5, ChainLastOf, BoundsAssumption
<1>7. /\ Chain(FramePairs, Tail(toDaemon[attempt]))
      /\ Tail(toDaemon[attempt]) # <<>> =>
           /\ <<h, Head(Tail(toDaemon[attempt]))>> \in FramePairs
           /\ Last(Tail(toDaemon[attempt])) = Last(toDaemon[attempt])
      /\ Tail(toDaemon[attempt]) = <<>> => h = Last(toDaemon[attempt])
  BY <1>1, <1>3, ChainTail DEF h
<1>8. \A p \in attached : screen'[p] = Append(screen[p], h)
  BY <1>1, <1>5
<1> QED BY <1>1, <1>2, <1>3, <1>5, <1>6, <1>7, <1>8 DEF h

\* The connection that the daemon dials next has seen nothing.
LEMMA NextAttempt ==
  ASSUME SInv, Daemon!DialFails \/ Daemon!LinkLost
  PROVE  /\ buffer' = buffer /\ screen' = screen /\ attached' \subseteq attached
         /\ \A c \in Conns : toDaemon'[c] \in {toDaemon[c], <<>>}
         /\ attempt' # attempt => toDaemon'[attempt'] = <<>>
<1> USE DEF SInv, IInv, Types, PaneTypes, WireTypes
<1>1. CASE Daemon!DialFails
  <2>1. /\ buffer' = buffer /\ screen' = screen /\ attached' \subseteq attached
        /\ toDaemon' = toDaemon /\ link = "down"
        /\ attempt' # attempt => attempt < MaxReconnects /\ attempt' = attempt + 1
    BY <1>1 DEF Daemon!DialFails, Daemon!TryAgain, Daemon!wires
  <2>2. ASSUME attempt' # attempt PROVE toDaemon[attempt'] = <<>>
    BY <2>1, <2>2, BoundsAssumption DEF Streams, OneConnection, NothingBefore, Conns, ConnTypes
  <2> QED BY <2>1, <2>2
<1>2. CASE Daemon!LinkLost
  <2>1. /\ buffer' = buffer /\ screen' = screen /\ attached' \subseteq attached
        /\ toDaemon' = [toDaemon EXCEPT ![attempt] = <<>>]
        /\ attempt' # attempt => attempt < MaxReconnects /\ attempt' = attempt + 1
    BY <1>2 DEF Daemon!LinkLost, Daemon!TryAgain, Daemon!wires
  <2>2. ASSUME attempt' # attempt PROVE toDaemon[attempt'] = <<>> /\ attempt' \in Conns
    BY <2>1, <2>2, BoundsAssumption DEF Streams, OneConnection, NothingBefore, Conns, ConnTypes
  <2> QED BY <2>1, <2>2
<1> QED BY <1>1, <1>2

LEMMA StreamsRunStep == SInv /\ [Next]_vars => StreamsRun'
<1> SUFFICES ASSUME SInv, [Next]_vars PROVE StreamsRun'
  OBVIOUS
<1>a. /\ \A c \in Conns : toDaemon[c] \in Seq(Frames) /\ Chain(FramePairs, toDaemon[c])
      /\ Chain(FramePairs, buffer) /\ Joins(FramePairs, buffer, toDaemon[attempt])
      /\ buffer \in Seq(Frames) /\ attempt \in Conns
  BY DEF SInv, IInv, Types, WireTypes, BufferTypes, PaneTypes, Streams, StreamsRun
<1>b. toDaemon \in [Conns -> Seq(Frames)]
  BY DEF SInv, IInv, Types, WireTypes
<1>c. Chain(FramePairs, <<>>) /\ Joins(FramePairs, buffer, <<>>)
  BY DEF Chain, Joins
<1>1. CASE UNCHANGED <<toDaemon, buffer, attempt, attached, screen>>
  BY <1>1, <1>a DEF StreamsRun
<1>2. ASSUME NEW c \in Conns, UNCHANGED daemonVars, Broker!AddClient(c) PROVE StreamsRun'
  <2> DEFINE w == Broker!Write(c, replay[sess[c]])
  <2>1. /\ toDaemon[c] = <<>> /\ (buffer # <<>> => Last(buffer).conn # c)
        /\ replay[sess[c]] \in Seq(Chunks) /\ Chain(ChunkPairs, replay[sess[c]])
        /\ toDaemon' = [toDaemon EXCEPT ![c] = w]
        /\ UNCHANGED <<buffer, attempt>>
    BY <1>2, Registers DEF daemonVars
  <2>2. CASE c \in cut
    <3>1. w = <<>>
      BY <2>1, <2>2, WriteNothing
    <3> QED BY <1>a, <1>b, <1>c, <2>1, <3>1 DEF StreamsRun
  <2>3. CASE c \notin cut
    <3>1. /\ Chain(FramePairs, w)
          /\ w # <<>> => /\ replay[sess[c]] # <<>> /\ Head(w) = Stamp(c, Head(replay[sess[c]]))
      BY <2>1, <2>3, WriteFirst
    <3>2. w # <<>> => Head(w) \in Frames /\ Head(w).conn = c
      <4>1. replay[sess[c]] # <<>> => Head(replay[sess[c]]) \in Chunks
        BY <2>1
      <4> QED BY <3>1, <4>1, Stamped
    <3>3. Joins(FramePairs, buffer, w)
      <4>1. buffer # <<>> => Last(buffer) \in Frames
        BY <1>a DEF Last
      <4> QED BY <2>1, <3>2, <4>1, Pairs DEF Joins
    <3> HIDE DEF w
    <3> QED BY <1>a, <1>b, <2>1, <3>1, <3>3 DEF StreamsRun
  <2> QED BY <2>2, <2>3
<1>3. ASSUME NEW o \in Objects, UNCHANGED daemonVars, Broker!Broadcast(o) PROVE StreamsRun'
  <2>1. UNCHANGED <<buffer, attempt>>
    BY <1>3 DEF daemonVars
  <2>2. ASSUME NEW c \in Conns
        PROVE  /\ Chain(FramePairs, toDaemon'[c])
               /\ Joins(FramePairs, buffer, toDaemon[c]) => Joins(FramePairs, buffer, toDaemon'[c])
    <3>1. CASE c \in clients[o] \ cut
      <4> DEFINE next == Stamp(c, Head(pipe[o]))
      <4>1. toDaemon'[c] = Append(toDaemon[c], next) /\ pipe[o] # <<>> /\ next \in Frames
        BY <1>3, <3>1, Broadcasts
      <4>2. /\ toDaemon[c] # <<>> => <<Last(toDaemon[c]), next>> \in FramePairs
            /\ toDaemon[c] = <<>> /\ buffer # <<>> => <<Last(buffer), next>> \in FramePairs
        BY <3>1, <4>1, JoinsTheStream
      <4> HIDE DEF next
      <4>3. Chain(FramePairs, toDaemon'[c])
        BY <1>a, <4>1, <4>2, ChainOfFrames
      <4>4. Head(toDaemon'[c]) = IF toDaemon[c] = <<>> THEN next ELSE Head(toDaemon[c])
        BY <1>a, <4>1, HeadTailAppend
      <4> QED BY <4>2, <4>3, <4>4 DEF Joins
    <3>2. CASE c \notin clients[o] \ cut
      <4>1. toDaemon'[c] = toDaemon[c]
        BY <1>3, <3>2, Broadcasts
      <4> QED BY <1>a, <4>1
    <3> QED BY <3>1, <3>2
  <2> QED BY <1>a, <2>1, <2>2 DEF StreamsRun
<1>4. ASSUME NEW c \in Conns, Cut(c) PROVE StreamsRun'
  <2>1. PICK n \in 0 .. Len(toDaemon[c]) : toDaemon' = [toDaemon EXCEPT ![c] = SubSeq(@, 1, n)]
    BY <1>4 DEF Cut
  <2>2. /\ Chain(FramePairs, SubSeq(toDaemon[c], 1, n))
        /\ SubSeq(toDaemon[c], 1, n) # <<>> =>
             toDaemon[c] # <<>> /\ Head(SubSeq(toDaemon[c], 1, n)) = Head(toDaemon[c])
    BY <1>a, ChainPrefix
  <2>3. UNCHANGED <<buffer, attempt>>
    BY <1>4 DEF Cut, daemonVars
  <2>4. \A d \in Conns : Joins(FramePairs, buffer, toDaemon[d]) => Joins(FramePairs, buffer, toDaemon'[d])
    BY <1>b, <2>1, <2>2 DEF Joins
  <2> QED BY <1>a, <1>b, <2>1, <2>2, <2>3, <2>4 DEF StreamsRun
<1>5. ASSUME Daemon!DialFails \/ Daemon!LinkLost PROVE StreamsRun'
  <2>1. /\ buffer' = buffer
        /\ \A c \in Conns : toDaemon'[c] \in {toDaemon[c], <<>>}
        /\ attempt' # attempt => toDaemon'[attempt'] = <<>>
    BY <1>5, NextAttempt
  <2>2. \A c \in Conns : Chain(FramePairs, toDaemon'[c])
    BY <1>a, <1>c, <2>1
  <2>3. Joins(FramePairs, buffer, toDaemon'[attempt'])
    BY <1>a, <1>c, <2>1
  <2> QED BY <1>a, <2>1, <2>2, <2>3 DEF StreamsRun
<1>6. ASSUME Daemon!Receive PROVE StreamsRun'
  <2>1. /\ attempt' = attempt /\ Chain(FramePairs, buffer')
        /\ toDaemon' = [toDaemon EXCEPT ![attempt] = Tail(@)]
        /\ Chain(FramePairs, Tail(toDaemon[attempt]))
        /\ buffer' # <<>> /\ Last(buffer') = Head(toDaemon[attempt])
        /\ Tail(toDaemon[attempt]) # <<>> =>
             <<Head(toDaemon[attempt]), Head(Tail(toDaemon[attempt]))>> \in FramePairs
    BY <1>6, Receives
  <2>2. toDaemon'[attempt] = Tail(toDaemon[attempt])
    BY <1>a, <1>b, <2>1
  <2>3. Joins(FramePairs, buffer', toDaemon'[attempt])
    BY <2>1, <2>2 DEF Joins
  <2>4. \A c \in Conns : Chain(FramePairs, toDaemon'[c])
    BY <1>a, <1>b, <2>1
  <2> QED BY <2>1, <2>3, <2>4 DEF StreamsRun
<1>7. ASSUME NEW p \in Panes, Daemon!Attach(p) \/ Daemon!Detach(p) PROVE StreamsRun'
  <2>1. UNCHANGED <<toDaemon, buffer, attempt>>
    BY <1>7 DEF Daemon!Attach, Daemon!Detach, Daemon!wires, Daemon!loopVars
  <2> QED BY <1>a, <2>1 DEF StreamsRun
<1> QED BY <1>1, <1>2, <1>3, <1>4, <1>5, <1>6, <1>7, WireSteps

LEMMA ScreensRunStep == SInv /\ [Next]_vars => ScreensRun'
<1> SUFFICES ASSUME SInv, [Next]_vars PROVE ScreensRun'
  OBVIOUS
<1>a. /\ ScreensRun /\ Chain(FramePairs, buffer) /\ buffer \in Seq(Frames)
      /\ attached \in SUBSET Panes /\ DOMAIN screen = Panes
  BY DEF SInv, IInv, Types, BufferTypes, PaneTypes, Streams, StreamsRun
<1>1. ASSUME UNCHANGED <<buffer, screen>>, attached' \subseteq attached PROVE ScreensRun'
  BY <1>1, <1>a DEF ScreensRun
<1>2. ASSUME NEW c \in Conns, UNCHANGED daemonVars PROVE ScreensRun'
  BY <1>1, <1>2 DEF daemonVars
<1>3. ASSUME NEW c \in Conns, Cut(c) PROVE ScreensRun'
  BY <1>1, <1>3 DEF Cut, daemonVars
<1>4. ASSUME Daemon!DialFails \/ Daemon!LinkLost PROVE ScreensRun'
  BY <1>1, <1>4, NextAttempt
<1>5. ASSUME Daemon!Receive PROVE ScreensRun'
  <2> SUFFICES ASSUME NEW p \in attached
               PROVE  /\ screen'[p] \in Seq(Frames) /\ Chain(FramePairs, screen'[p])
                      /\ screen'[p] # <<>> /\ buffer' # <<>> /\ Last(screen'[p]) = Last(buffer')
    BY <1>5, Receives DEF ScreensRun
  <2> DEFINE h == Head(toDaemon[attempt])
  <2>1. /\ h \in Frames /\ screen'[p] = Append(screen[p], h)
        /\ buffer' # <<>> /\ Last(buffer') = h
        /\ buffer # <<>> => <<Last(buffer), h>> \in FramePairs
    BY <1>5, Receives
  <2> HIDE DEF h
  <2>2. /\ screen[p] \in Seq(Frames) /\ Chain(FramePairs, screen[p])
        /\ screen[p] # <<>> => <<Last(screen[p]), h>> \in FramePairs
    BY <1>a, <2>1 DEF ScreensRun
  <2>3. /\ Append(screen[p], h) \in Seq(Frames) /\ Append(screen[p], h) # <<>>
        /\ Last(Append(screen[p], h)) = h /\ Chain(FramePairs, Append(screen[p], h))
    BY <2>1, <2>2, ChainOfFrames
  <2> QED BY <2>1, <2>3
<1>6. ASSUME NEW p \in Panes, Daemon!Attach(p) PROVE ScreensRun'
  BY <1>6, <1>a DEF Daemon!Attach, ScreensRun
<1>7. ASSUME NEW p \in Panes, Daemon!Detach(p) PROVE ScreensRun'
  BY <1>7, <1>a DEF Daemon!Detach, ScreensRun
<1>8. ASSUME NEW o \in Objects, UNCHANGED daemonVars PROVE ScreensRun'
  BY <1>1, <1>8 DEF daemonVars
<1>9. CASE UNCHANGED <<toDaemon, buffer, attempt, attached, screen>>
  BY <1>1, <1>9
<1> QED BY <1>2, <1>3, <1>4, <1>5, <1>6, <1>7, <1>8, <1>9, WireSteps

\* The part of SentIsLatest about one client of a session.
Latest(o, c) ==
  /\ replay[o] # <<>> =>
       LET frame == Stamp(c, Last(replay[o]))
       IN  \/ toDaemon[c] # <<>> /\ Last(toDaemon[c]) = frame
           \/ toDaemon[c] = <<>> /\ buffer # <<>> /\ Last(buffer) = frame
  /\ replay[o] = <<>> /\ runner[o] \in {"shell", "exited"} =>
       /\ toDaemon[c] # <<>> => Last(toDaemon[c]).shell # shell[o]
       /\ toDaemon[c] = <<>> /\ buffer # <<>> =>
            Last(buffer).conn # c \/ Last(buffer).shell # shell[o]

LEMMA SentIsLatestStep == SInv /\ [Next]_vars => SentIsLatest'
<1> SUFFICES ASSUME SInv, [Next]_vars, NEW o \in Objects, NEW c \in clients'[o] \ cut'
             PROVE  Latest(o, c)'
  BY DEF SentIsLatest, Latest
<1>s. ASSUME c \in clients[o] \ cut
      PROVE  Latest(o, c) /\ c \in Conns /\ at[c] = "in" /\ sess[c] = o /\ c = attempt
  <2>1. c \in Conns
    BY <1>s DEF SInv, IInv, Types, ConnTypes
  <2> QED BY <1>s, <2>1 DEF SInv, Streams, SentIsLatest, Latest, ClientsAreIn, OneConnection
<1> USE DEF SInv, IInv, Types
(* Nothing that matters to this client changes. *)
<1>1. ASSUME c \in clients[o] \ cut,
             UNCHANGED <<toDaemon[c], buffer, replay[o], shell[o]>>,
             runner'[o] \in {"shell", "exited"} => runner[o] \in {"shell", "exited"}
      PROVE  Latest(o, c)'
  BY <1>1, <1>s DEF Latest
<1>2. ASSUME NEW d \in Conns, UNCHANGED daemonVars, Broker!JoinSession(d) \/ Broker!Resize(d)
      PROVE  Latest(o, c)'
  BY <1>1, <1>2 DEF daemonVars, Broker!JoinSession, Broker!Resize, Broker!Receives,
     Broker!ptyVars, Broker!outputVars
<1>3. ASSUME NEW d \in Conns, UNCHANGED daemonVars, Broker!CreateSession(d) PROVE Latest(o, c)'
  <2>1. PICK q \in Objects \ alive : /\ runner' = [runner EXCEPT ![q] = "open"]
                                     /\ replay' = [replay EXCEPT ![q] = <<>>]
                                     /\ UNCHANGED <<shell, toDaemon, cut, clients, buffer>>
    BY <1>3 DEF Broker!CreateSession, Broker!Create, Broker!Receives, daemonVars
  <2>2. CASE o = q
    BY <2>1, <2>2 DEF Latest, RunTypes, OutputTypes
  <2>3. CASE o # q
    BY <1>1, <2>1, <2>3 DEF RunTypes
  <2> QED BY <2>2, <2>3
<1>4. ASSUME NEW d \in Conns, UNCHANGED daemonVars, Broker!AddClient(d) PROVE Latest(o, c)'
  <2>1. /\ toDaemon[d] = <<>> /\ (buffer # <<>> => Last(buffer).conn # d)
        /\ sess[d] \in Objects /\ replay[sess[d]] \in Seq(Chunks)
        /\ toDaemon' = [toDaemon EXCEPT ![d] = Broker!Write(d, replay[sess[d]])]
        /\ clients' = [clients EXCEPT ![sess[d]] = @ \union {d}]
        /\ UNCHANGED <<cut, runner, shell, replay>> /\ buffer' = buffer
    BY <1>4, Registers DEF daemonVars
  <2>2. CASE c = d
    <3>1. sess[d] = o
      <4>1. c \notin clients[o]
        BY <1>4, <1>s, <2>1, <2>2 DEF Broker!AddClient
      <4> QED BY <2>1, <2>2, <4>1 DEF ConnTypes
    <3>2. /\ Broker!Write(d, replay[o]) = <<>> <=> replay[o] = <<>>
          /\ replay[o] # <<>> => Last(Broker!Write(d, replay[o])) = Stamp(d, Last(replay[o]))
      BY <2>1, <2>2, <3>1, WriteFirst
    <3>3. toDaemon'[d] = Broker!Write(d, replay[o])
      BY <2>1, <3>1 DEF WireTypes
    <3> QED BY <2>1, <2>2, <3>2, <3>3 DEF Latest
  <2>3. CASE c # d
    <3>1. c \in clients[o] \ cut
      BY <2>1, <2>3 DEF ConnTypes
    <3> QED BY <1>1, <2>1, <2>3, <3>1 DEF WireTypes
  <2> QED BY <2>2, <2>3
<1>5. ASSUME NEW d \in Conns, UNCHANGED daemonVars, Broker!Hangup(d) PROVE Latest(o, c)'
  BY <1>1, <1>5 DEF daemonVars, Broker!Hangup, Broker!ptyVars, Broker!outputVars
<1>6. ASSUME NEW q \in Objects, UNCHANGED daemonVars,
             \/ Broker!OpenPTY(q) \/ Broker!StartFails(q) \/ Broker!Output(q)
             \/ Broker!ShellExits(q) \/ Broker!EndSession(q)
      PROVE  Latest(o, c)'
  <2>1. /\ UNCHANGED <<toDaemon, buffer, replay, shell, clients, cut>>
        /\ runner'[o] \in {"shell", "exited"} => runner[o] \in {"shell", "exited"}
    BY <1>6 DEF daemonVars, Broker!OpenPTY, Broker!StartFails, Broker!Output, Broker!ShellExits,
       Broker!EndSession, Broker!outputVars, Broker!wires, RunTypes
  <2> QED BY <1>1, <2>1
<1>7. ASSUME NEW q \in Objects, UNCHANGED daemonVars, Broker!StartShell(q) PROVE Latest(o, c)'
  <2>1. /\ UNCHANGED <<toDaemon, buffer, replay, clients, cut>>
        /\ runner[q] = "opened" /\ runner' = [runner EXCEPT ![q] = "shell"]
        /\ shell' = [shell EXCEPT ![q] = Len(printed) + 1]
    BY <1>7 DEF daemonVars, Broker!StartShell, Broker!outputVars, Broker!wires
  <2>2. CASE o = q
    <3>1. replay[o] = <<>> /\ shell'[o] = Len(printed) + 1
      BY <2>1, <2>2 DEF OutputIsOwn, RunTypes
    <3>2. c \in Conns /\ Len(printed) \in Nat
      BY <1>s, <2>1 DEF RunTypes
    <3>3. toDaemon[c] # <<>> => Last(toDaemon[c]).shell # Len(printed) + 1
      <4>1. toDaemon[c] # <<>> => Last(toDaemon[c]) \in FramesOf(c, Len(printed))
        BY <3>2 DEF Streams, ShellsHaveStarted, Last
      <4> QED BY <3>2, <4>1 DEF FramesOf
    <3>4. buffer # <<>> => Last(buffer).shell # Len(printed) + 1
      <4>1. buffer # <<>> => Last(buffer) \in FramesUpTo(Len(printed))
        BY DEF Streams, ShellsHaveStarted, Last
      <4> QED BY <3>2, <4>1 DEF FramesUpTo
    <3> QED BY <2>1, <3>1, <3>3, <3>4 DEF Latest
  <2>3. CASE o # q
    BY <1>1, <2>1, <2>3 DEF RunTypes
  <2> QED BY <2>2, <2>3
<1>8. ASSUME NEW q \in Objects, UNCHANGED daemonVars, Broker!Respawn(q) PROVE Latest(o, c)'
  <2>1. /\ UNCHANGED <<toDaemon, buffer, shell, clients, cut>>
        /\ replay' = [replay EXCEPT ![q] = <<>>]
        /\ runner' = [runner EXCEPT ![q] = "open"]
    BY <1>8 DEF daemonVars, Broker!Respawn, Broker!Restart, Broker!wires
  <2>2. CASE o = q
    BY <2>1, <2>2 DEF Latest, RunTypes, OutputTypes
  <2>3. CASE o # q
    BY <1>1, <2>1, <2>3
  <2> QED BY <2>2, <2>3
<1>9. ASSUME NEW q \in Objects, UNCHANGED daemonVars, Broker!Broadcast(q) PROVE Latest(o, c)'
  <2>1. /\ UNCHANGED <<buffer, shell, runner, clients, cut>> /\ pipe[q] # <<>>
        /\ replay' = [replay EXCEPT ![q] = Broker!LastOf(Append(@, Head(pipe[q])), Cap)]
    BY <1>9 DEF daemonVars, Broker!Broadcast, Broker!ptyVars
  <2>2. c \in Conns /\ sess[c] = o /\ c \in clients[o] \ cut
    BY <1>s, <2>1
  <2>3. CASE o = q
    <3> DEFINE all == Append(replay[o], Head(pipe[o]))
               next == Stamp(c, Head(pipe[o]))
    <3>1. /\ toDaemon'[c] = Append(toDaemon[c], next) /\ next \in Frames
      BY <1>9, <2>2, <2>3, Broadcasts
    <3>2. toDaemon[c] \in Seq(Frames) /\ Chain(Frames \X Frames, toDaemon[c])
      <4>1. toDaemon[c] \in Seq(Frames)
        BY <2>2 DEF WireTypes
      <4> QED BY <4>1 DEF Chain
    <3>3. toDaemon'[c] # <<>> /\ Last(toDaemon'[c]) = next
      <4> HIDE DEF next
      <4>1. toDaemon[c] # <<>> => <<Last(toDaemon[c]), next>> \in Frames \X Frames
        BY <3>1, <3>2 DEF Last
      <4> QED BY <3>1, <3>2, <4>1, ChainAppend
    <3>4. all \in Seq(Chunks) /\ all # <<>> /\ Last(all) = Head(pipe[o]) /\ Chain(ChunkPairs, all)
      <4>1. /\ Head(pipe[o]) \in Chunks /\ replay[o] \in Seq(Chunks) /\ Chain(ChunkPairs, replay[o])
        BY <2>1, <2>3, OfTheSession DEF Streams, OutputRuns, OutputTypes
      <4>2. replay[o] # <<>> => <<Last(replay[o]), Head(pipe[o])>> \in ChunkPairs
        BY <2>1, <2>3 DEF Streams, OutputRuns, Joins
      <4> QED BY <4>1, <4>2, ChainOfChunks
    <3>5. replay'[o] = Daemon!LastOf(all, Cap)
      BY <2>1, <2>3 DEF OutputTypes, Broker!LastOf, Daemon!LastOf
    <3> HIDE DEF all
    <3>6. replay'[o] # <<>> /\ Last(replay'[o]) = Head(pipe[o])
      BY <3>4, <3>5, ChainLastOf, BoundsAssumption
    <3> QED BY <3>3, <3>6 DEF Latest
  <2>4. CASE o # q
    <3>1. c \notin clients[q]
      BY <2>2, <2>4 DEF Streams, ClientsAreIn
    <3>2. toDaemon'[c] = toDaemon[c]
      BY <1>9, <2>2, <3>1, Broadcasts
    <3> QED BY <1>1, <2>1, <2>2, <2>4, <3>2
  <2> QED BY <2>3, <2>4
<1>10. ASSUME UNCHANGED brokerVars,
              \/ Daemon!Dial \/ Daemon!SetConn \/ Daemon!DialFails
              \/ \E p \in Panes : \/ Daemon!Attach(p) \/ Daemon!Detach(p)
                                  \/ Daemon!TakeSize(p) \/ Daemon!SendSize(p)
       PROVE  Latest(o, c)'
  <2>1. UNCHANGED <<toDaemon, buffer, cut, replay, shell, runner, clients>>
    BY <1>10 DEF brokerVars, Daemon!Dial, Daemon!SetConn, Daemon!DialFails, Daemon!Attach,
       Daemon!Detach, Daemon!TakeSize, Daemon!SendSize, Daemon!wires
  <2> QED BY <1>1, <2>1
(* The connection that is lost is cut. *)
<1>11. ASSUME UNCHANGED brokerVars, Daemon!LinkLost PROVE Latest(o, c)'
  <2>1. /\ UNCHANGED <<buffer, cut, replay, shell, runner, clients>> /\ attempt \in cut
    BY <1>11 DEF brokerVars, Daemon!LinkLost
  <2> QED BY <1>s, <2>1
<1>12. ASSUME UNCHANGED brokerVars, Daemon!Receive PROVE Latest(o, c)'
  <2>1. UNCHANGED <<cut, replay, shell, runner, clients>>
    BY <1>12 DEF brokerVars, Daemon!Receive
  <2>2. Latest(o, c) /\ c = attempt
    BY <1>s, <2>1
  <2>3. /\ attempt \in Conns /\ toDaemon[attempt] # <<>>
        /\ buffer' # <<>> /\ Last(buffer') = Head(toDaemon[attempt])
        /\ toDaemon' = [toDaemon EXCEPT ![attempt] = Tail(@)]
        /\ Tail(toDaemon[attempt]) # <<>> => Last(Tail(toDaemon[attempt])) = Last(toDaemon[attempt])
        /\ Tail(toDaemon[attempt]) = <<>> => Head(toDaemon[attempt]) = Last(toDaemon[attempt])
    BY <1>12, Receives
  <2>4. toDaemon'[attempt] = Tail(toDaemon[attempt])
    BY <2>3 DEF WireTypes
  <2> QED BY <2>1, <2>2, <2>3, <2>4 DEF Latest
<1>13. ASSUME NEW d \in Conns, Cut(d) PROVE Latest(o, c)'
  <2>1. PICK n \in 0 .. Len(toDaemon[d]) : toDaemon' = [toDaemon EXCEPT ![d] = SubSeq(@, 1, n)]
    BY <1>13 DEF Cut
  <2>2. /\ UNCHANGED <<buffer, replay, shell, runner, clients>> /\ c # d /\ c \notin cut
    BY <1>13 DEF Cut, brokerVars, daemonVars
  <2>3. toDaemon'[c] = toDaemon[c]
    BY <2>1, <2>2 DEF WireTypes
  <2> QED BY <1>1, <2>2, <2>3
<1>14. CASE UNCHANGED vars
  BY <1>1, <1>14 DEF vars, brokerVars, daemonVars
<1> QED BY <1>2, <1>3, <1>4, <1>5, <1>6, <1>7, <1>8, <1>9, <1>10, <1>11, <1>12, <1>13, <1>14
        DEF Next, BrokerSteps, DaemonSteps, Broker!Next, Daemon!Next, Daemon!Loop, Daemon!Pane

LEMMA StreamsInvariance == Spec => []SInv
<1>1. Init => SInv
  BY InitInv, InitStreams DEF SInv
<1>2. SInv /\ [Next]_vars => SInv'
  <2>1. SInv /\ [Next]_vars => IInv'
    BY StepInv DEF SInv
  <2>2. SInv /\ [Next]_vars => Streams'
    BY ClientsAreInStep, OneConnectionStep, ShellsHaveStartedStep, NothingBeforeStep,
       OutputRunsStep, StreamsRunStep, ScreensRunStep, SentIsLatestStep DEF Streams
  <2> QED BY <2>1, <2>2 DEF SInv
<1> QED BY <1>1, <1>2, PTL DEF Spec

\* What a pane shows of one connection has no gap and no repetition, for any
\* number of connections, panes and chunks, wherever connections break and
\* whichever shells crash (main.go:669-711, 968-1006).
THEOREM ScreensHaveNoGap == Spec => []ScreensAreContiguous
<1>1. SInv => ScreensAreContiguous
  <2> SUFFICES ASSUME SInv, NEW p \in attached, NEW i \in 1 .. (Len(screen[p]) - 1),
                      screen[p][i].conn = screen[p][i + 1].conn,
                      screen[p][i].shell = screen[p][i + 1].shell
               PROVE  screen[p][i + 1].n = screen[p][i].n + 1
    BY DEF ScreensAreContiguous
  <2>1. screen[p] \in Seq(Frames) /\ <<screen[p][i], screen[p][i + 1]>> \in FramePairs
    BY DEF SInv, Streams, ScreensRun, Chain
  <2>2. screen[p][i] \in Frames /\ screen[p][i + 1] \in Frames
    BY <2>1
  <2> QED BY <2>1, <2>2, Pairs
<1> QED BY <1>1, StreamsInvariance, PTL

\* When the connection stands and nothing is under way, every pane shows the
\* session's latest output, however often connections broke before.
THEOREM ScreensAreCurrent == Spec => []ScreensCatchUp
<1>1. SInv => ScreensCatchUp
  <2> SUFFICES ASSUME SInv, NEW p \in attached, attempt \notin cut, at[attempt] = "in",
                      toDaemon[attempt] = <<>>, replay[sess[attempt]] # <<>>
               PROVE  /\ screen[p] # <<>>
                      /\ Last(screen[p]) = Stamp(attempt, Last(replay[sess[attempt]]))
    BY DEF ScreensCatchUp, Last, Stamp
  <2>1. attempt \in Conns /\ sess[attempt] \in Objects
    BY DEF SInv, IInv, Types, ConnTypes, PaneTypes
  <2>2. attempt \in clients[sess[attempt]] \ cut
    BY <2>1 DEF SInv, Streams, ClientsAreIn
  <2>3. buffer # <<>> /\ Last(buffer) = Stamp(attempt, Last(replay[sess[attempt]]))
    BY <2>1, <2>2 DEF SInv, Streams, SentIsLatest
  <2> QED BY <2>3 DEF SInv, Streams, ScreensRun
<1> QED BY <1>1, StreamsInvariance, PTL
=============================================================================
