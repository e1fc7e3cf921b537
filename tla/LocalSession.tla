---------------------------- MODULE LocalSession ----------------------------
(***************************************************************************)
(* The processes of one belve-persist socket on the Mac (main, runMaster,  *)
(* runMasterBackend and killOldDaemons in tools/belve-persist/main.go).  A *)
(* pane client attaches to the daemon behind the socket, or spawns one     *)
(* under a flock; a daemon kills whatever else has the socket in its       *)
(* command line, removes the socket file and takes over.  What a daemon    *)
(* does for its clients is in PaneBackend.                                 *)
(***************************************************************************)
EXTENDS Naturals

CONSTANTS
  Clients,    \* processes of belve-persist -socket ...
  Daemons,    \* processes of belve-persist -daemon -socket ...
  None,
  MaxKills,   \* bounds the uses of opKillSession
  MaxDeaths   \* bounds the processes that end by themselves

ASSUME ProcessAssumption ==
  /\ Clients \intersect Daemons = {}
  /\ None \notin Clients \union Daemons
  /\ MaxKills \in Nat /\ MaxDeaths \in Nat

VARIABLES
  viaMux,     \* the daemons are those of remote panes (-mux-via)
  at,         \* where each process is
  spawner,    \* the client that started each daemon
  lockFile,   \* the number of the lock file, which opKillSession removes
  opened,     \* the lock file each client has opened, None without a lock
  sock,       \* the daemon the socket file was bound by
  pidFile,
  victims,    \* what each daemon's scan has listed and not yet killed
  forsaken,   \* history: the daemons that opKillSession took the socket from, or
              \* whose replacement came to nothing after it was taken
  deaths      \* how many processes have ended by themselves

files == <<sock, pidFile, lockFile>>
history == <<forsaken, deaths>>
clientVars == <<spawner, opened, history>>
localVars == <<viaMux, at, spawner, lockFile, opened, sock, pidFile, victims, forsaken, deaths>>

Processes == Clients \union Daemons

LocalInit ==
  /\ viaMux \in BOOLEAN
  /\ at = [p \in Processes |-> "unborn"]
  /\ spawner = [d \in Daemons |-> None]
  /\ lockFile = 0
  /\ opened = [c \in Clients |-> None]
  /\ sock = None
  /\ pidFile = None
  /\ victims = [d \in Daemons |-> {}]
  /\ forsaken = {}
  /\ deaths = 0

Step(p, from, to) == at[p] = from /\ at' = [at EXCEPT ![p] = to]

Running(p) == at[p] \notin {"unborn", "gone"}

\* The kernel accepts connections for it.
Listening(d) == d # None /\ at[d] \in {"serving", "leaving"}

-----------------------------------------------------------------------------
(* Clients.                                                                *)

Start(c) ==
  /\ Step(c, "unborn", "try")
  /\ UNCHANGED <<viaMux, clientVars, files, victims>>

\* tryAttach succeeds and returns when the session is over; inside the lock
\* it keeps the lock until then.
Attach(c) ==
  /\ Listening(sock)
  /\ \/ Step(c, "try", "attached")
     \/ Step(c, "locked", "attachedLocked")
     \/ Step(c, "poll", "attached")
  /\ UNCHANGED <<viaMux, clientVars, files, victims>>

OpenLock(c) ==
  /\ Step(c, "try", "waiting")
  /\ ~Listening(sock)
  /\ opened' = [opened EXCEPT ![c] = lockFile]
  /\ UNCHANGED <<viaMux, spawner, files, victims, history>>

\* The lock file cannot be opened, or locked: best effort.
NoLock(c) ==
  /\ \/ Step(c, "try", "locked") /\ ~Listening(sock)
     \/ Step(c, "waiting", "locked")
  /\ opened' = [opened EXCEPT ![c] = None]
  /\ UNCHANGED <<viaMux, spawner, files, victims, history>>

Holds(c) == at[c] \in {"locked", "attachedLocked", "remove", "spawn"}

Lock(c) ==
  /\ Step(c, "waiting", "locked")
  /\ \A b \in Clients : ~(Holds(b) /\ opened[b] = opened[c])
  /\ UNCHANGED <<viaMux, clientVars, files, victims>>

\* Nobody answers.
Recheck(c) ==
  /\ Step(c, "locked", IF viaMux THEN "remove" ELSE "spawn")
  /\ ~Listening(sock)
  /\ UNCHANGED <<viaMux, clientVars, files, victims>>

\* Over the mux the socket file is removed, whoever has bound it by now.
RemoveStale(c) ==
  /\ Step(c, "remove", "spawn")
  /\ sock' = None
  /\ UNCHANGED <<viaMux, clientVars, pidFile, lockFile, victims>>

\* The daemon is started, not waited for, and the lock released.
Spawn(c) ==
  \E d \in Daemons :
    /\ at[c] = "spawn"
    /\ at[d] = "unborn"
    /\ at' = [at EXCEPT ![c] = "poll", ![d] = "start"]
    /\ spawner' = [spawner EXCEPT ![d] = c]
    /\ opened' = [opened EXCEPT ![c] = None]
    /\ UNCHANGED <<viaMux, files, victims, history>>

\* The fifty attempts are used up.
GiveUp(c) ==
  /\ Step(c, "poll", "gone")
  /\ UNCHANGED <<viaMux, clientVars, files, victims>>

\* The pane closes, or the daemon hangs up.  Who attached inside the lock
\* goes on to poll.
Leave(c) ==
  /\ \/ Step(c, "attached", "gone")
     \/ Step(c, "attachedLocked", "poll")
  /\ opened' = [opened EXCEPT ![c] = None]
  /\ UNCHANGED <<viaMux, spawner, files, victims, history>>

Client(c) ==
  \/ Start(c) \/ Attach(c) \/ OpenLock(c) \/ Lock(c) \/ NoLock(c) \/ Recheck(c)
  \/ RemoveStale(c) \/ Spawn(c) \/ GiveUp(c) \/ Leave(c)

-----------------------------------------------------------------------------
(* Daemons.                                                                *)

Kill(ps) == [p \in Processes |->
               IF p \in ps /\ Running(p) THEN "gone" ELSE at[p]]

\* The pid file of an earlier daemon.
KillByPidFile(d) ==
  /\ at[d] = "start"
  /\ at' = [Kill({pidFile} \ {None}) EXCEPT ![d] = "pid"]
  /\ pidFile' = None
  /\ UNCHANGED <<viaMux, clientVars, sock, lockFile, victims>>

\* Broken variant: only the daemon of the pid file is killed.
ListNothing(d) ==
  /\ Step(d, "pid", "listed")
  /\ UNCHANGED <<viaMux, clientVars, files, victims>>

\* Broken variant: the pid of the daemon itself is not left out.
ListItself(d) ==
  /\ Step(d, "pid", "listed")
  /\ victims' = [victims EXCEPT ![d] = {p \in Processes : Running(p)}]
  /\ UNCHANGED <<viaMux, clientVars, files>>

\* pgrep, which leaves out its ancestors.
List(d) ==
  /\ Step(d, "pid", "listed")
  /\ victims' = [victims EXCEPT ![d] =
                   {p \in Processes : Running(p)} \ {d, spawner[d]}]
  /\ UNCHANGED <<viaMux, clientVars, files>>

\* The shell that kills what was listed outlives the daemon.
KillListed(d) ==
  /\ victims[d] # {}
  /\ at' = Kill(victims[d])
  /\ victims' = [victims EXCEPT ![d] = {}]
  /\ UNCHANGED <<viaMux, clientVars, files>>

RemoveSocket(d) ==
  /\ Step(d, "listed", "alone")
  /\ victims[d] = {}
  /\ sock' = None
  /\ UNCHANGED <<viaMux, clientVars, pidFile, lockFile, victims>>

\* Nobody asks whether the file could be written.
WritePid(d) ==
  /\ Step(d, "alone", "pidWritten")
  /\ pidFile' \in {d, pidFile}
  /\ UNCHANGED <<viaMux, clientVars, sock, lockFile, victims>>

Listen(d) ==
  /\ Step(d, "pidWritten", "serving")
  /\ sock = None
  /\ sock' = d
  /\ UNCHANGED <<viaMux, clientVars, pidFile, lockFile, victims>>

\* The shell exits, or the reconnects are used up.
Finish(d) ==
  /\ Step(d, "serving", "leaving")
  /\ UNCHANGED <<viaMux, clientVars, files, victims>>

\* listener.Close unlinks the path, whoever bound it last.
CloseListener(d) ==
  /\ Step(d, "leaving", "closed")
  /\ sock' = None
  /\ UNCHANGED <<viaMux, clientVars, pidFile, lockFile, victims>>

Exit(d) ==
  /\ Step(d, "closed", "gone")
  /\ pidFile' = IF viaMux THEN pidFile ELSE None
  /\ UNCHANGED <<viaMux, clientVars, sock, lockFile, victims>>

Daemon(d) ==
  \/ KillByPidFile(d) \/ List(d) \/ KillListed(d) \/ RemoveSocket(d)
  \/ WritePid(d) \/ Listen(d) \/ Finish(d) \/ CloseListener(d) \/ Exit(d)

-----------------------------------------------------------------------------
\* The daemons that serve and are not found at their socket.
Unreachable == {d \in Daemons : at[d] = "serving" /\ sock # d}

\* A process ends in any other way, and cleans up nothing: its parent is gone,
\* it cannot start the daemon, listen or start the shell, or a signal comes.
\* One that had yet to replace a daemon leaves that without a socket.
Die(p) ==
  /\ Running(p)
  /\ deaths < MaxDeaths
  /\ deaths' = deaths + 1
  /\ at' = [at EXCEPT ![p] = "gone"]
  /\ forsaken' = IF p \in Daemons \/ at[p] = "spawn"
                 THEN forsaken \union Unreachable ELSE forsaken
  /\ UNCHANGED <<viaMux, spawner, opened, files, victims>>

\* opKillSession removes the socket and the lock file.  The daemon is not
\* told anything it would act on.
KillSession ==
  /\ lockFile < MaxKills
  /\ sock' = None
  /\ lockFile' = lockFile + 1
  /\ forsaken' = forsaken \union ({sock} \ {None})
  /\ UNCHANGED <<viaMux, at, spawner, opened, pidFile, victims, deaths>>

LocalNext ==
  \/ \E c \in Clients : Client(c)
  \/ \E d \in Daemons : Daemon(d)
  \/ \E p \in Processes : Die(p)
  \/ KillSession

LocalSpec == LocalInit /\ [][LocalNext]_localVars

-----------------------------------------------------------------------------
ClientStates == {"unborn", "try", "waiting", "locked", "remove", "spawn",
                 "poll", "attached", "attachedLocked", "gone"}
DaemonStates == {"unborn", "start", "pid", "listed", "alone", "pidWritten",
                 "serving", "leaving", "closed", "gone"}

\* The state has the right types, and no scan lists the daemon it serves.
LocalTypeOK ==
  /\ viaMux \in BOOLEAN
  /\ at \in [Processes -> ClientStates \union DaemonStates]
  /\ spawner \in [Daemons -> Clients \union {None}]
  /\ lockFile \in 0..MaxKills
  /\ opened \in [Clients -> (0..MaxKills) \union {None}]
  /\ sock \in Daemons \union {None}
  /\ pidFile \in Daemons \union {None}
  /\ victims \in [Daemons -> SUBSET Processes]
  /\ forsaken \subseteq Daemons
  /\ deaths \in 0..MaxDeaths
  /\ \A d \in Daemons : d \notin victims[d]

TookOver(d) ==
  at[d] \in {"alone", "pidWritten", "serving", "leaving", "closed"}

\* Of the daemons of a socket, at most one has got past its scan: two that
\* start at the same time never serve, or run a shell, side by side, even
\* if the socket, the pid file or the lock file has been removed.
OneServes ==
  \A d, e \in Daemons : TookOver(d) /\ TookOver(e) => d = e

\* A daemon that serves is found at its socket, unless a client that took that
\* away is about to start another daemon, another daemon is about to take over,
\* or that came to nothing: no daemon that starts or exits late takes away the
\* socket of a newer one, and no two that replace it undo each other.
ServingIsReachable ==
  \A d \in Daemons :
    at[d] = "serving" =>
      \/ sock = d
      \/ d \in forsaken
      \/ \E c \in Clients : at[c] = "spawn"
      \/ \E e \in Daemons \ {d} : Running(e)
=============================================================================
