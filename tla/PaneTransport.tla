---------------------------- MODULE PaneTransport ---------------------------
(***************************************************************************)
(* A remote pane end to end: PaneBackend on the Mac and SessionBroker on   *)
(* the VM, joined by connections that may break at any time (an ssh tunnel *)
(* dies, the Mac sleeps).  The two ends notice on their own, each in its   *)
(* own time, so that the daemon may be on a new connection while the       *)
(* broker still serves the old one.                                        *)
(***************************************************************************)
EXTENDS Naturals, Sequences

CONSTANTS Panes, Objects, NoObject, Sizes, NoSize, Cap, DaemonCap,
          MaxReconnects, MaxResizes, MaxRespawns, MaxOutput, MaxShells

ASSUME NullsAssumption == NoObject \notin Objects /\ NoSize \notin Sizes
ASSUME BoundsAssumption ==
  /\ {Cap, DaemonCap, MaxReconnects} \subseteq Nat \ {0}
  /\ {MaxResizes, MaxRespawns, MaxOutput, MaxShells} \subseteq Nat

VARIABLES
  current, alive, size, ptySize, runner, respawns, shell, printed, pipe, replay,
  clients, at, sess,
  attempt, link, buffer, attached, screen, paneSize, resizing, resizes,
  toBroker, toDaemon, cut

Conns == 1..MaxReconnects

Broker == INSTANCE SessionBroker
Daemon == INSTANCE PaneBackend

brokerVars == <<current, alive, size, ptySize, runner, respawns, shell, printed,
                pipe, replay, clients, at, sess>>
daemonVars == <<attempt, link, buffer, attached, screen, paneSize, resizing, resizes>>
vars == <<brokerVars, daemonVars, toBroker, toDaemon, cut>>

Init ==
  /\ Broker!Init
  /\ Daemon!Init
  /\ toBroker = [c \in Conns |-> <<>>]
  /\ toDaemon = [c \in Conns |-> <<>>]
  /\ cut = {}

\* A connection breaks: what the broker sent and has not arrived is lost.
\* What the daemon sent may still be read.
Cut(c) ==
  /\ c = attempt
  /\ link \in {"hello", "up"}
  /\ c \notin cut
  /\ cut' = cut \union {c}
  /\ \E k \in 0..Len(toDaemon[c]) :
       toDaemon' = [toDaemon EXCEPT ![c] = SubSeq(@, 1, k)]
  /\ UNCHANGED <<brokerVars, daemonVars, toBroker>>

BrokerSteps == Broker!Next /\ UNCHANGED daemonVars
DaemonSteps == Daemon!Next /\ UNCHANGED brokerVars
Next == BrokerSteps \/ DaemonSteps \/ \E c \in Conns : Cut(c)

Spec == Init /\ [][Next]_vars

-----------------------------------------------------------------------------
\* Every variable of the two ends has its type.
TypeOK == Broker!TypeOK /\ Daemon!TypeOK

\* However often the pane reconnects, its session name has one shell.
OneShell == Broker!OneShell

\* A respawned shell starts with an empty replay.
ReplayIsOfThisShell == Broker!ReplayIsOfThisShell

\* The broker in every state of the two ends: one shell per session name, and
\* a replay of the shell that runs, within its bound.
Inv == TypeOK /\ OneShell /\ ReplayIsOfThisShell

\* What a pane shows has no gap and no repetition within one connection: the
\* replay, the chunks broadcast while it is being sent and those that follow
\* are one sequence (addClient and broadcast hold the same lock, at both
\* ends).
ScreensAreContiguous ==
  \A p \in attached : \A i \in 1..(Len(screen[p]) - 1) :
    LET a == screen[p][i]
        b == screen[p][i + 1]
    IN a.conn = b.conn /\ a.shell = b.shell => b.n = a.n + 1

\* When the connection of the daemon stands and nothing is under way, every
\* pane shows the session's latest output, whenever it attached and however
\* often the connection broke before.
ScreensCatchUp ==
  \A p \in attached :
    (/\ link = "up"
     /\ attempt \notin cut
     /\ at[attempt] = "in"
     /\ toDaemon[attempt] = <<>>
     /\ replay[sess[attempt]] # <<>>) =>
       LET last == replay[sess[attempt]][Len(replay[sess[attempt]])] IN
         /\ screen[p] # <<>>
         /\ screen[p][Len(screen[p])] = [conn |-> attempt, shell |-> last.shell, n |-> last.n]
=============================================================================
