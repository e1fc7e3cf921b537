---------------------------- MODULE SessionBroker ---------------------------
(***************************************************************************)
(* The broker on a VM (runTCPBroker in tools/belve-persist/main.go), for   *)
(* one session name: sessions of other names share nothing with it.        *)
(*                                                                         *)
(* A tcpSession is a heap object with a goroutine that runs its shell in a *)
(* PTY (runSessionPTY), one that reads the PTY and one that broadcasts.  A *)
(* connection is served by a goroutine of its own.  Terminal output is a   *)
(* sequence of chunks, named by the shell that printed them and their      *)
(* number; on the wire a chunk also bears its connection.                  *)
(***************************************************************************)
EXTENDS Naturals, Sequences

CONSTANTS
  Conns,      \* connections that reach the broker
  Objects,    \* the heap cells for tcpSessions
  NoObject,
  Sizes,      \* of a terminal
  Cap,        \* tcpReplayMax, in chunks
  MaxRespawns,\* maxRespawns: 10 in the code
  MaxOutput,  \* bounds the chunks a shell prints
  MaxShells   \* bounds the shells started

VARIABLES
  current,    \* sessions[name]
  alive,      \* the objects with alive = true
  size,       \* cols and rows of each object
  ptySize,    \* what setPtySize was last called with
  runner,     \* where each object's runSessionPTY is
  respawns,   \* its respawnCount
  shell,      \* the number of the shell it runs or ran last
  printed,    \* how many chunks each of the shells started has printed
  pipe,       \* chunks read from the PTY and not yet broadcast
  replay,     \* replayBuf
  clients,    \* the connections of each object
  at, sess,   \* each connection's goroutine and its session
  toBroker,   \* frames on each connection, in both directions
  toDaemon,
  cut         \* the connections that have broken

wires == <<toBroker, toDaemon, cut>>
tableVars == <<current, alive, size>>
ptyVars == <<ptySize, runner, respawns, shell, printed>>
outputVars == <<pipe, replay>>
connVars == <<at, sess>>

Init ==
  /\ current = NoObject
  /\ alive = {}
  /\ \E s \in Sizes : size = [o \in Objects |-> s]
  /\ ptySize = size
  /\ runner = [o \in Objects |-> "off"]
  /\ respawns = [o \in Objects |-> 0]
  /\ shell = [o \in Objects |-> 0]
  /\ printed = <<>>
  /\ pipe = [o \in Objects |-> <<>>]
  /\ replay = [o \in Objects |-> <<>>]
  /\ clients = [o \in Objects |-> {}]
  /\ at = [c \in Conns |-> "hello"]
  /\ sess = [c \in Conns |-> NoObject]

\* The last k elements of s.
LastOf(s, k) == SubSeq(s, IF Len(s) > k THEN Len(s) - k + 1 ELSE 1, Len(s))

\* Chunks written to a connection; a broken one swallows them.
Write(c, chunks) ==
  IF c \in cut THEN toDaemon[c]
  ELSE toDaemon[c] \o [i \in 1..Len(chunks) |->
                         [conn |-> c, shell |-> chunks[i].shell, n |-> chunks[i].n]]

-----------------------------------------------------------------------------
(* A connection.                                                           *)

Receives(c, kind) ==
  /\ toBroker[c] # <<>>
  /\ Head(toBroker[c]).kind = kind
  /\ toBroker' = [toBroker EXCEPT ![c] = Tail(@)]
  /\ UNCHANGED <<toDaemon, cut>>

\* getOrCreateSession finds a live session, and looks at the size the
\* handshake bears no more.
JoinSession(c) ==
  /\ at[c] = "hello"
  /\ Receives(c, "session")
  /\ current \in alive
  /\ at' = [at EXCEPT ![c] = "joining"]
  /\ sess' = [sess EXCEPT ![c] = current]
  /\ UNCHANGED <<tableVars, ptyVars, outputVars, clients>>

Create(c) ==
  \E o \in Objects \ alive :
    /\ at[c] = "hello"
    /\ Receives(c, "session")
    /\ \A d \in Conns : sess[d] # o
    /\ current' = o
    /\ alive' = alive \union {o}
    /\ size' = [size EXCEPT ![o] = Head(toBroker[c]).size]
    /\ runner' = [runner EXCEPT ![o] = "open"]
    /\ respawns' = [respawns EXCEPT ![o] = 0]
    /\ replay' = [replay EXCEPT ![o] = <<>>]
    /\ at' = [at EXCEPT ![c] = "joining"]
    /\ sess' = [sess EXCEPT ![c] = o]
    /\ UNCHANGED <<ptySize, shell, printed, pipe, clients>>

\* Broken variant: a session is created for every handshake.
CreateAlways(c) == Create(c)

CreateSession(c) == current \notin alive /\ Create(c)

\* Broken variant: what waits to be broadcast is sent with the replay.
AddClientEarly(c) ==
  /\ at[c] = "joining"
  /\ clients' = [clients EXCEPT ![sess[c]] = @ \union {c}]
  /\ toDaemon' = [toDaemon EXCEPT ![c] = Write(c, replay[sess[c]] \o pipe[sess[c]])]
  /\ at' = [at EXCEPT ![c] = "in"]
  /\ UNCHANGED <<tableVars, ptyVars, outputVars, sess, toBroker, cut>>

\* addClient, under s.mu.  The session may have died since it was found.
AddClient(c) ==
  /\ at[c] = "joining"
  /\ clients' = [clients EXCEPT ![sess[c]] = @ \union {c}]
  /\ toDaemon' = [toDaemon EXCEPT ![c] = Write(c, replay[sess[c]])]
  /\ at' = [at EXCEPT ![c] = "in"]
  /\ UNCHANGED <<tableVars, ptyVars, outputVars, sess, toBroker, cut>>

\* The PTY is told only when there is one: ptyFd is set when the shell has
\* started, and reset when it is gone.
Resize(c) ==
  /\ at[c] = "in"
  /\ Receives(c, "resize")
  /\ size' = [size EXCEPT ![sess[c]] = Head(toBroker[c]).size]
  /\ ptySize' = IF runner[sess[c]] = "shell"
                THEN [ptySize EXCEPT ![sess[c]] = Head(toBroker[c]).size]
                ELSE ptySize
  /\ UNCHANGED <<current, alive, runner, respawns, shell, printed, outputVars,
                 clients, connVars>>

\* readMsg fails: removeClient and Close.
Hangup(c) ==
  /\ c \in cut
  /\ at[c] \in {"hello", "in"}
  /\ at' = [at EXCEPT ![c] = "off"]
  /\ sess' = [sess EXCEPT ![c] = NoObject]
  /\ clients' = [o \in Objects |-> clients[o] \ {c}]
  /\ toBroker' = [toBroker EXCEPT ![c] = <<>>]
  /\ UNCHANGED <<tableVars, ptyVars, outputVars, toDaemon, cut>>

-----------------------------------------------------------------------------
(* runSessionPTY.                                                          *)

\* openPTY and setPtySize.
OpenPTY(o) ==
  /\ runner[o] = "open"
  /\ ptySize' = [ptySize EXCEPT ![o] = size[o]]
  /\ runner' = [runner EXCEPT ![o] = "opened"]
  /\ UNCHANGED <<tableVars, respawns, shell, printed, outputVars, clients,
                 connVars, wires>>

StartShell(o) ==
  /\ runner[o] = "opened"
  /\ Len(printed) < MaxShells
  /\ printed' = Append(printed, 0)
  /\ shell' = [shell EXCEPT ![o] = Len(printed) + 1]
  /\ runner' = [runner EXCEPT ![o] = "shell"]
  /\ UNCHANGED <<tableVars, ptySize, respawns, outputVars, clients, connVars, wires>>

\* openPTY, the tty or the command fails.
StartFails(o) ==
  /\ runner[o] \in {"open", "opened"}
  /\ runner' = [runner EXCEPT ![o] = "off"]
  /\ alive' = alive \ {o}
  /\ UNCHANGED <<current, size, ptySize, respawns, shell, printed, outputVars,
                 clients, connVars, wires>>

\* A chunk the shell has printed is read, possibly after its exit, and put
\* into dataCh.
Output(o) ==
  /\ runner[o] \in {"shell", "exited"}
  /\ printed[shell[o]] < MaxOutput
  /\ printed' = [printed EXCEPT ![shell[o]] = @ + 1]
  /\ pipe' = [pipe EXCEPT ![o] =
                Append(@, [shell |-> shell[o], n |-> printed[shell[o]] + 1])]
  /\ UNCHANGED <<tableVars, ptySize, runner, respawns, shell, replay, clients,
                 connVars, wires>>

\* broadcast, under s.mu.
Broadcast(o) ==
  /\ pipe[o] # <<>>
  /\ pipe' = [pipe EXCEPT ![o] = Tail(@)]
  /\ replay' = [replay EXCEPT ![o] = LastOf(Append(@, Head(pipe[o])), Cap)]
  /\ toDaemon' = [c \in Conns |->
                    IF c \in clients[o] THEN Write(c, <<Head(pipe[o])>>)
                    ELSE toDaemon[c]]
  /\ UNCHANGED <<tableVars, ptyVars, clients, connVars, toBroker, cut>>

ShellExits(o) ==
  /\ runner[o] = "shell"
  /\ runner' = [runner EXCEPT ![o] = "exited"]
  /\ UNCHANGED <<tableVars, ptySize, respawns, shell, printed, outputVars,
                 clients, connVars, wires>>

Restart(o) ==
  /\ runner[o] = "exited"
  /\ respawns[o] < MaxRespawns
  /\ respawns' = [respawns EXCEPT ![o] = @ + 1]
  /\ replay' = [replay EXCEPT ![o] = <<>>]
  /\ runner' = [runner EXCEPT ![o] = "open"]
  /\ UNCHANGED <<tableVars, ptySize, shell, printed, pipe, clients, connVars, wires>>

\* The exit code is 137, and the output has been broadcast (ptyDone): the
\* next shell starts with an empty replay.
Respawn(o) == pipe[o] = <<>> /\ Restart(o)

\* The session dies.  Its clients stay connected and are told nothing.
EndSession(o) ==
  /\ runner[o] = "exited"
  /\ pipe[o] = <<>>
  /\ runner' = [runner EXCEPT ![o] = "off"]
  /\ alive' = alive \ {o}
  /\ UNCHANGED <<current, size, ptySize, respawns, shell, printed, outputVars,
                 clients, connVars, wires>>

Next ==
  \/ \E c \in Conns :
       JoinSession(c) \/ CreateSession(c) \/ AddClient(c) \/ Resize(c) \/ Hangup(c)
  \/ \E o \in Objects :
       \/ OpenPTY(o) \/ StartShell(o) \/ StartFails(o) \/ Output(o)
       \/ Broadcast(o) \/ ShellExits(o) \/ Respawn(o) \/ EndSession(o)

-----------------------------------------------------------------------------
Chunks == [shell : 1..MaxShells, n : 1..MaxOutput]

TypeOK ==
  /\ current \in Objects \union {NoObject}
  /\ alive \subseteq Objects
  /\ size \in [Objects -> Sizes]
  /\ ptySize \in [Objects -> Sizes]
  /\ runner \in [Objects -> {"off", "open", "opened", "shell", "exited"}]
  /\ respawns \in [Objects -> 0..MaxRespawns]
  /\ shell \in [Objects -> 0..MaxShells]
  /\ printed \in Seq(0..MaxOutput)
  /\ pipe \in [Objects -> Seq(Chunks)]
  /\ replay \in [Objects -> Seq(Chunks)]
  /\ \A o \in Objects : Len(replay[o]) <= Cap
  /\ clients \in [Objects -> SUBSET Conns]
  /\ at \in [Conns -> {"hello", "joining", "in", "off"}]
  /\ sess \in [Conns -> Objects \union {NoObject}]

\* One session name never has two shells: sessions is read and written under
\* mu, and a session counts as live until its shell has exited.
OneShell ==
  \A o, p \in Objects : runner[o] = "shell" /\ runner[p] = "shell" => o = p

\* A replay holds output of the session's present shell only: nothing a
\* crashed shell left unbroadcast gets into the screen of the next one.
ReplayIsOfThisShell ==
  \A o \in alive :
    runner[o] = "shell" =>
      \A i \in 1..Len(replay[o]) : replay[o][i].shell = shell[o]
=============================================================================
