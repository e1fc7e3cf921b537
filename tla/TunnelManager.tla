--------------------------- MODULE TunnelManager ----------------------------
(***************************************************************************)
(* The Mac master's SSH port forwards to the routers of the hosts          *)
(* (tools/belve-persist/tunnel.go): routerForwards with its file on disk,  *)
(* port allocation, ensureRouterForward and its single flight per host,    *)
(* recovery on the same port, and the health check loop.                   *)
(*                                                                         *)
(* A worker is a goroutine inside ensureRouterForward: the one of          *)
(* muxManager's spawnSession for each host, which muxManager serialises,   *)
(* and the health check loop.  The ports, who listens on them and the SSH  *)
(* ControlMasters belong to the operating system and survive the daemon.   *)
(*                                                                         *)
(* ensureRouterForward and ensureRouterForwardOnPort call each other: the  *)
(* stack of a worker holds the stale port of every suspended call of the   *)
(* former.  Success returns through all of them, failure to the top one.   *)
(***************************************************************************)
EXTENDS Naturals, Sequences, FiniteSetsExt

CONSTANTS
  Hosts,
  Ports,          \* tunnelBasePort..tunnelMaxPort
  Health,         \* the worker that is the health check loop
  NoPort,
  NoHost,
  Free,           \* nobody listens on a port
  Other,          \* a process that is not a known ControlMaster does
  MaxDisturbances,
  Kinds,          \* of disturbances
  MaxDepth

ASSUME PortsAssumption == Ports \subseteq Nat /\ NoPort \notin Ports
ASSUME NullsAssumption == {Free, Other, Health, NoHost} \intersect Hosts = {}

Workers == Hosts \union {Health}

VARIABLES
  forwards,    \* routerForwards
  allocated,   \* allocatedPorts
  spawning,    \* the hosts in forwardsSpawning
  mastersSpawning,
  saved,       \* the routerForwards in tunnelStateFile
  unsaved,     \* history: the latest write of the file failed
  owner,       \* who listens on each port: Free, Other or the ssh of a host
  masters,     \* the hosts whose ControlMaster answers
  pc, host, port, stack,   \* of each worker
  cm,          \* where it is in ensureControlMaster
  snapshot,    \* the forwards the health check loop still has to visit
  leaving,     \* the hosts teardownAll still has to disconnect, and NoHost for
               \* its sweep of the control sockets
  disturbances \* how many there were

disk == <<saved, unsaved>>
maps == <<forwards, allocated, spawning, saved, unsaved>>
control == <<cm, mastersSpawning>>
os == <<owner, masters>>
local == <<pc, host, port, stack, control>>
env == <<snapshot, leaving, disturbances>>
vars == <<forwards, allocated, spawning, saved, unsaved, mastersSpawning, owner,
          masters, pc, host, port, stack, cm, snapshot, leaving, disturbances>>

Init ==
  /\ forwards = [h \in Hosts |-> NoPort]
  /\ allocated = {}
  /\ spawning = {}
  /\ mastersSpawning = {}
  /\ saved = [h \in Hosts |-> NoPort]
  /\ unsaved = FALSE
  /\ owner = [p \in Ports |-> Free]
  /\ masters = {}
  /\ pc = [w \in Workers |-> "idle"]
  /\ host = [w \in Workers |-> IF w = Health THEN NoHost ELSE w]
  /\ port = [w \in Workers |-> NoPort]
  /\ stack = [w \in Workers |-> <<>>]
  /\ cm = [w \in Workers |-> "check"]
  /\ snapshot = [h \in Hosts |-> NoPort]
  /\ leaving = {}
  /\ disturbances = 0

-----------------------------------------------------------------------------
(* Control inside ensureRouterForward.                                     *)

Go(w, to, p) ==
  /\ pc' = [pc EXCEPT ![w] = to]
  /\ port' = [port EXCEPT ![w] = p]

Return(w) ==
  /\ Go(w, IF w = Health THEN "visit" ELSE "idle", NoPort)
  /\ stack' = [stack EXCEPT ![w] = <<>>]

\* An error returns to the call that tried to recover its stale port, if any.
Fail(w) ==
  IF stack[w] = <<>>
  THEN Return(w)
  ELSE /\ Go(w, "drop", Head(stack[w]))
       /\ stack' = [stack EXCEPT ![w] = Tail(@)]

\* Broken variant: forwardsSpawning is not consulted.
LeadAnyway(w) ==
  /\ Go(w, "master", NoPort)
  /\ spawning' = spawning \union {host[w]}
  /\ UNCHANGED stack

JoinOrLead(w) ==
  /\ IF host[w] \in spawning
     THEN Go(w, "wait", NoPort) /\ UNCHANGED spawning
     ELSE /\ Go(w, "master", NoPort)
          /\ spawning' = spawning \union {host[w]}
  /\ UNCHANGED stack

\* muxManager.spawnSession calls ensureRouterForward.
Call(w) ==
  /\ w # Health
  /\ pc[w] = "idle"
  /\ Go(w, "lookup", NoPort)
  /\ UNCHANGED <<maps, os, host, control, stack, env>>

LookupKnown(w) ==
  /\ pc[w] = "lookup"
  /\ forwards[host[w]] # NoPort
  /\ Go(w, "probe", forwards[host[w]])
  /\ UNCHANGED <<maps, os, host, control, stack, env>>

LookupUnknown(w) ==
  /\ pc[w] = "lookup"
  /\ forwards[host[w]] = NoPort
  /\ JoinOrLead(w)
  /\ UNCHANGED <<forwards, allocated, disk, os, host, control, env>>

\* isLocalPortReachable: whoever listens will do.
ProbeReachable(w) ==
  /\ pc[w] = "probe"
  /\ owner[port[w]] # Free
  /\ Return(w)
  /\ UNCHANGED <<maps, os, host, control, env>>

ProbeStale(w) ==
  /\ pc[w] = "probe"
  /\ owner[port[w]] = Free
  /\ Len(stack[w]) < MaxDepth
  /\ Go(w, "onport", port[w])
  /\ stack' = [stack EXCEPT ![w] = <<port[w]>> \o @]
  /\ UNCHANGED <<maps, os, host, control, env>>

\* After a failed recovery; the lock is released and taken again.
DropStale(w) ==
  /\ pc[w] = "drop"
  /\ forwards' = [forwards EXCEPT ![host[w]] = NoPort]
  /\ allocated' = allocated \ {port[w]}
  /\ Go(w, "join", NoPort)
  /\ UNCHANGED <<spawning, disk, os, host, control, stack, env>>

Join(w) ==
  /\ pc[w] = "join"
  /\ JoinOrLead(w)
  /\ UNCHANGED <<forwards, allocated, disk, os, host, control, env>>

\* A woken waiter takes whatever forward the host has now.
Woken(w) ==
  /\ pc[w] = "told"
  /\ IF forwards[host[w]] # NoPort THEN Return(w) ELSE Fail(w)
  /\ UNCHANGED <<maps, os, host, control, env>>

-----------------------------------------------------------------------------
(* The leader: ensureControlMaster, allocateLocalPort, ssh -O forward.     *)

\* ensureControlMaster returns.
MasterReady(w) ==
  /\ Go(w, IF pc[w] = "master" THEN "alloc" ELSE "reforward", port[w])
  /\ UNCHANGED stack

NoMaster(w) ==
  IF pc[w] = "master" THEN Go(w, "landfail", NoPort) /\ UNCHANGED stack
  ELSE Fail(w)

InEnsureMaster(w, at) == pc[w] \in {"master", "remaster"} /\ cm[w] = at

\* checkMaster, without the lock.
CheckMaster(w) ==
  /\ InEnsureMaster(w, "check")
  /\ IF host[w] \in masters
     THEN MasterReady(w) /\ UNCHANGED cm
     ELSE cm' = [cm EXCEPT ![w] = "lock"] /\ UNCHANGED <<pc, port, stack>>
  /\ UNCHANGED <<maps, os, host, mastersSpawning, env>>

JoinOrLeadMaster(w) ==
  /\ InEnsureMaster(w, "lock")
  /\ cm' = [cm EXCEPT ![w] =
              IF host[w] \in mastersSpawning THEN "wait" ELSE "spawn"]
  /\ mastersSpawning' = mastersSpawning \union {host[w]}
  /\ UNCHANGED <<maps, os, pc, host, port, stack, env>>

\* ssh -fN and the polling.
SpawnMaster(w) ==
  /\ InEnsureMaster(w, "spawn")
  /\ masters' = masters \union {host[w]}
  /\ cm' = [cm EXCEPT ![w] = "up"]
  /\ UNCHANGED <<maps, owner, mastersSpawning, pc, host, port, stack, env>>

SpawnMasterFails(w) ==
  /\ InEnsureMaster(w, "spawn")
  /\ cm' = [cm EXCEPT ![w] = "failed"]
  /\ UNCHANGED <<maps, os, mastersSpawning, pc, host, port, stack, env>>

\* The deferred delete and close(done), and the return.
LandMaster(w) ==
  /\ \/ InEnsureMaster(w, "up") /\ MasterReady(w)
     \/ InEnsureMaster(w, "failed") /\ NoMaster(w)
  /\ mastersSpawning' = mastersSpawning \ {host[w]}
  /\ cm' = [v \in Workers |->
              IF v = w THEN "check"
              ELSE IF cm[v] = "wait" /\ host[v] = host[w] THEN "told"
              ELSE cm[v]]
  /\ UNCHANGED <<maps, os, host, env>>

\* A woken waiter checks again.
WokenForMaster(w) ==
  /\ InEnsureMaster(w, "told")
  /\ IF host[w] \in masters THEN MasterReady(w) ELSE NoMaster(w)
  /\ cm' = [cm EXCEPT ![w] = "check"]
  /\ UNCHANGED <<maps, os, host, mastersSpawning, env>>

Allocatable == {p \in Ports \ allocated : owner[p] = Free}

AllocateLocalPort(w) ==
  /\ pc[w] = "alloc"
  /\ IF Allocatable = {}
     THEN Go(w, "landfail", NoPort) /\ UNCHANGED allocated
     ELSE /\ Go(w, "forward", Min(Allocatable))
          /\ allocated' = allocated \union {Min(Allocatable)}
  /\ UNCHANGED <<forwards, spawning, disk, os, host, control, stack, env>>

\* What ssh -O forward does: the ControlMaster binds the port, if it can.
SshForward(w, from, to) ==
  /\ pc[w] = from
  /\ host[w] \in masters
  /\ owner[port[w]] \in {Free, host[w]}
  /\ owner' = [owner EXCEPT ![port[w]] = host[w]]
  /\ Go(w, to, port[w])
  /\ UNCHANGED <<maps, masters, host, control, stack, env>>

LeaderForward(w) == SshForward(w, "forward", "commit")
RecoverForward(w) == SshForward(w, "reforward", "recommit")

LeaderForwardFails(w) ==
  /\ pc[w] = "forward"
  /\ allocated' = allocated \ {port[w]}
  /\ Go(w, "landfail", NoPort)
  /\ UNCHANGED <<forwards, spawning, disk, os, host, control, stack, env>>

\* saveStateLocked writes the whole table, or logs that it could not, which
\* leaves the file as it was; the callers go on either way.
SaveState ==
  \/ saved' = forwards' /\ unsaved' = FALSE
  \/ UNCHANGED saved /\ unsaved' = TRUE

CommitForward(w) ==
  /\ pc[w] = "commit"
  /\ forwards' = [forwards EXCEPT ![host[w]] = port[w]]
  /\ SaveState
  /\ Go(w, "land", NoPort)
  /\ UNCHANGED <<allocated, spawning, os, host, control, stack, env>>

\* Broken variant: the channel is closed only when there is a forward.
LandSilently(w) ==
  /\ pc[w] \in {"land", "landfail"}
  /\ spawning' = spawning \ {host[w]}
  /\ IF pc[w] = "land"
     THEN /\ pc' = [v \in Workers |->
                      IF v = w THEN IF w = Health THEN "visit" ELSE "idle"
                      ELSE IF pc[v] = "wait" /\ host[v] = host[w] THEN "told"
                      ELSE pc[v]]
          /\ port' = [port EXCEPT ![w] = NoPort]
          /\ stack' = [stack EXCEPT ![w] = <<>>]
     ELSE Fail(w)
  /\ UNCHANGED <<forwards, allocated, disk, os, host, control, env>>

\* The deferred delete and close(done), and the return.
Land(w) ==
  /\ pc[w] \in {"land", "landfail"}
  /\ spawning' = spawning \ {host[w]}
  /\ LET back == pc[w] = "landfail" /\ stack[w] # <<>>
         next == IF back THEN "drop"
                 ELSE IF w = Health THEN "visit" ELSE "idle"
     IN /\ pc' = [v \in Workers |->
                    IF v = w THEN next
                    ELSE IF pc[v] = "wait" /\ host[v] = host[w] THEN "told"
                    ELSE pc[v]]
        /\ port' = [port EXCEPT ![w] = IF back THEN Head(stack[w]) ELSE NoPort]
        /\ stack' = [stack EXCEPT ![w] = IF back THEN Tail(@) ELSE <<>>]
  /\ UNCHANGED <<forwards, allocated, disk, os, host, control, env>>

-----------------------------------------------------------------------------
(* ensureRouterForwardOnPort: recovery on the same port.                   *)

OnPortTaken(w) ==
  /\ pc[w] = "onport"
  /\ owner[port[w]] # Free
  /\ Go(w, "lookup", NoPort)
  /\ UNCHANGED <<maps, os, host, control, stack, env>>

OnPortFree(w) ==
  /\ pc[w] = "onport"
  /\ owner[port[w]] = Free
  /\ Go(w, "remaster", port[w])
  /\ UNCHANGED <<maps, os, host, control, stack, env>>

RecoveryFails(w) ==
  /\ pc[w] = "reforward"
  /\ Fail(w)
  /\ UNCHANGED <<maps, os, host, control, env>>

\* Broken variant: the recovered port is not saved.
CommitUnsaved(w) ==
  /\ pc[w] = "recommit"
  /\ forwards' = [forwards EXCEPT ![host[w]] = port[w]]
  /\ allocated' = allocated \union {port[w]}
  /\ Return(w)
  /\ UNCHANGED <<disk, spawning, os, host, control, env>>

CommitRecovered(w) ==
  /\ pc[w] = "recommit"
  /\ forwards' = [forwards EXCEPT ![host[w]] = port[w]]
  /\ allocated' = allocated \union {port[w]}
  /\ SaveState
  /\ Return(w)
  /\ UNCHANGED <<spawning, os, host, control, env>>

-----------------------------------------------------------------------------
(* healthCheckLoop.                                                        *)

\* Bounds what goes wrong around the workers; Kinds selects what may.
Disturb(kind) ==
  /\ kind \in Kinds
  /\ disturbances < MaxDisturbances
  /\ disturbances' = disturbances + 1

Tick ==
  /\ pc[Health] = "idle"
  /\ \E h \in Hosts : forwards[h] # NoPort
  /\ snapshot' = forwards
  /\ Go(Health, "visit", NoPort)
  /\ UNCHANGED <<maps, os, host, control, stack, leaving, disturbances>>

TickDone ==
  /\ pc[Health] = "visit"
  /\ \A h \in Hosts : snapshot[h] = NoPort
  /\ Go(Health, "idle", NoPort)
  /\ host' = [host EXCEPT ![Health] = NoHost]
  /\ UNCHANGED <<maps, os, control, stack, env>>

Visit(h, to) ==
  /\ pc[Health] = "visit"
  /\ snapshot[h] # NoPort
  /\ snapshot' = [snapshot EXCEPT ![h] = NoPort]
  /\ host' = [host EXCEPT ![Health] = h]
  /\ Go(Health, to, snapshot[h])
  /\ UNCHANGED <<maps, control, stack, leaving>>

\* The ControlMaster of h exits and its forwards with it.
ExitMaster(h) ==
  /\ masters' = masters \ {h}
  /\ owner' = [p \in Ports |-> IF owner[p] = h THEN Free ELSE owner[p]]

\* ssh -O exit fails and os.Remove takes the control socket away: that ssh runs
\* on, and the ports it holds cannot be taken back.
OrphanMaster(h) ==
  /\ masters' = masters \ {h}
  /\ owner' = [p \in Ports |-> IF owner[p] = h THEN Other ELSE owner[p]]

CheckAlive(h) ==
  /\ Visit(h, "visit")
  /\ owner[snapshot[h]] # Free
  /\ UNCHANGED <<os, disturbances>>

CheckDead(h) ==
  /\ Visit(h, "forget")
  /\ owner[snapshot[h]] = Free
  /\ UNCHANGED <<os, disturbances>>

\* isTunnelEndToEndHealthy says no: killControlMaster.
CheckHung(h) ==
  /\ Disturb("hung")
  /\ Visit(h, "forget")
  /\ owner[snapshot[h]] # Free
  /\ ExitMaster(h) \/ OrphanMaster(h)

\* reEstablishForward, up to its call of ensureRouterForwardOnPort.
ForgetForward ==
  /\ pc[Health] = "forget"
  /\ forwards' = [forwards EXCEPT ![host[Health]] = NoPort]
  /\ allocated' = allocated \ {port[Health]}
  /\ Go(Health, "onport", port[Health])
  /\ UNCHANGED <<spawning, disk, os, host, control, stack, env>>

-----------------------------------------------------------------------------
(* teardownAll.                                                            *)

Teardown ==
  /\ Disturb("teardown")
  /\ leaving = {}
  /\ leaving' = {h \in Hosts : forwards[h] # NoPort} \union {NoHost}
  /\ forwards' = [h \in Hosts |-> NoPort]
  /\ allocated' = {}
  /\ SaveState
  /\ UNCHANGED <<spawning, os, local, snapshot>>

\* ssh -O cancel and ssh -O exit, each of which may fail.
TeardownHost(h) ==
  /\ h \in leaving \ {NoHost}
  /\ leaving' = leaving \ {h}
  /\ \/ ExitMaster(h)
     \/ /\ \E p \in Ports : owner[p] = h /\ owner' = [owner EXCEPT ![p] = Free]
        /\ UNCHANGED masters
     \/ UNCHANGED os
  /\ UNCHANGED <<maps, local, snapshot, disturbances>>

\* The control sockets that are left are removed: their ssh runs on, and what
\* it holds cannot be taken back.
TeardownSweep ==
  /\ leaving = {NoHost}
  /\ leaving' = {}
  /\ masters' = {}
  /\ owner' = [p \in Ports |-> IF owner[p] = Free THEN Free ELSE Other]
  /\ UNCHANGED <<maps, local, snapshot, disturbances>>

-----------------------------------------------------------------------------
(* What happens to the tunnels and to the daemon.                          *)

MasterDies(h) ==
  /\ Disturb("master")
  /\ h \in masters
  /\ ExitMaster(h)
  /\ UNCHANGED <<maps, local, snapshot, leaving>>

PortTaken(p) ==
  /\ Disturb("port")
  /\ owner[p] = Free
  /\ owner' = [owner EXCEPT ![p] = Other]
  /\ UNCHANGED <<maps, masters, local, snapshot, leaving>>

\* The daemon dies and loadState restores what was saved.
Restart ==
  /\ Disturb("restart")
  /\ forwards' = saved
  /\ allocated' = {saved[h] : h \in Hosts} \ {NoPort}
  /\ spawning' = {}
  /\ pc' = [w \in Workers |-> "idle"]
  /\ host' = [w \in Workers |-> IF w = Health THEN NoHost ELSE w]
  /\ port' = [w \in Workers |-> NoPort]
  /\ stack' = [w \in Workers |-> <<>>]
  /\ cm' = [w \in Workers |-> "check"]
  /\ mastersSpawning' = {}
  /\ snapshot' = [h \in Hosts |-> NoPort]
  /\ leaving' = {}
  /\ unsaved' = FALSE
  /\ UNCHANGED <<saved, os>>

-----------------------------------------------------------------------------
ForwardSucceeds(w) == LeaderForward(w) \/ RecoverForward(w)

\* The ends of a worker's ssh commands, which have no deadline.
SshEnds(w) ==
  \/ CheckMaster(w) \/ SpawnMaster(w) \/ SpawnMasterFails(w) \/ WokenForMaster(w)
  \/ ForwardSucceeds(w) \/ LeaderForwardFails(w) \/ RecoveryFails(w)

WorkerStep(w) ==
  \/ LookupKnown(w) \/ LookupUnknown(w) \/ ProbeReachable(w) \/ ProbeStale(w)
  \/ DropStale(w) \/ Join(w) \/ Woken(w)
  \/ JoinOrLeadMaster(w) \/ LandMaster(w) \/ AllocateLocalPort(w)
  \/ CommitForward(w) \/ Land(w)
  \/ OnPortTaken(w) \/ OnPortFree(w) \/ CommitRecovered(w)

HealthStep ==
  \/ Tick \/ TickDone \/ ForgetForward
  \/ \E h \in Hosts : CheckAlive(h) \/ CheckDead(h) \/ CheckHung(h)

Disturbance ==
  \/ Teardown \/ Restart
  \/ \E h \in Hosts : MasterDies(h)
  \/ \E p \in Ports : PortTaken(p)

Next ==
  \/ \E w \in Workers : Call(w) \/ WorkerStep(w) \/ SshEnds(w)
  \/ HealthStep
  \/ Disturbance
  \/ \E h \in Hosts : TeardownHost(h)
  \/ TeardownSweep

Spec == Init /\ [][Next]_vars

\* A goroutine that can run does.  Nothing is assumed of ssh: it may fail each
\* time it is tried, or hang.
Fairness == \A w \in Workers : WF_vars(WorkerStep(w))

FairSpec == Spec /\ Fairness

-----------------------------------------------------------------------------
PCs == {"idle", "lookup", "probe", "drop", "join", "wait", "told", "master",
        "alloc", "forward", "commit", "land", "landfail", "onport", "remaster",
        "reforward", "recommit", "visit", "forget"}

\* Types, and: a worker that uses a port has one; one that waits is waited for.
TypeOK ==
  /\ forwards \in [Hosts -> Ports \union {NoPort}]
  /\ allocated \subseteq Ports
  /\ spawning \subseteq Hosts
  /\ mastersSpawning \subseteq Hosts
  /\ saved \in [Hosts -> Ports \union {NoPort}]
  /\ unsaved \in BOOLEAN
  /\ owner \in [Ports -> Hosts \union {Free, Other}]
  /\ masters \subseteq Hosts
  /\ pc \in [Workers -> PCs]
  /\ host \in [Workers -> Hosts \union {NoHost}]
  /\ port \in [Workers -> Ports \union {NoPort}]
  /\ stack \in [Workers -> Seq(Ports)]
  /\ cm \in [Workers -> {"check", "lock", "wait", "told", "spawn", "up", "failed"}]
  /\ snapshot \in [Hosts -> Ports \union {NoPort}]
  /\ leaving \subseteq Hosts \union {NoHost}
  /\ \A w \in Workers :
       /\ pc[w] \in {"probe", "drop", "forward", "commit", "onport", "remaster",
                     "reforward", "recommit", "forget"} => port[w] # NoPort
       /\ pc[w] \in {"wait", "master", "alloc", "forward", "commit", "land",
                     "landfail"} => host[w] \in spawning
       /\ cm[w] \in {"wait", "spawn", "up", "failed"} =>
            host[w] \in mastersSpawning /\ pc[w] \in {"master", "remaster"}

\* A forward that clients were told about is on disk, so that after a crash the
\* daemon knows the port that their pane processes keep dialling
\* (tunnel.go:31-34), unless the latest write of the file failed: the next one
\* that succeeds writes whatever an earlier one did not.
MappingsSurviveCrash ==
  unsaved \/ \A h \in Hosts : forwards[h] # NoPort => saved[h] = forwards[h]

\* Through restarts and the mutual recursion of the two functions: whoever
\* waits is waited for, whoever uses a port has one, and what was handed out
\* is on disk if it could be written.
Inv == TypeOK /\ MappingsSurviveCrash

RunsSsh(w) ==
  \/ pc[w] \in {"master", "remaster"} /\ cm[w] \in {"check", "spawn", "told"}
  \/ pc[w] \in {"forward", "reforward"}

\* A call of ensureRouterForward returns, unless an ssh command hangs for ever:
\* the mutual recursion ends although every ssh may fail, and so does every wait
\* for somebody else's forward or master.
CallsReturn ==
  \/ \E w \in Workers : <>[]RunsSsh(w)
  \/ \A h \in Hosts : pc[h] = "lookup" ~> pc[h] = "idle"

-----------------------------------------------------------------------------
\* The slow path of ensureRouterForward as single flights per host.
Role(w) ==
  CASE pc[w] \in {"master", "alloc", "forward", "commit", "land", "landfail"}
         -> "lead"
    [] pc[w] \in {"wait", "told"} -> pc[w]
    [] OTHER -> "out"

Flights == INSTANCE SingleFlight WITH
  Keys <- Hosts,
  NoKey <- NoHost,
  flying <- spawning,
  role <- [w \in Workers |-> Role(w)],
  key <- [w \in Workers |-> IF Role(w) = "out" THEN NoHost ELSE host[w]]

\* A restart of the daemon ends every flight.
ForwardsAreFlights == Flights!Init /\ [][Flights!Next \/ Restart]_(Flights!vars)
=============================================================================
