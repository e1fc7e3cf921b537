------------------------- MODULE TunnelManager_proofs -------------------------
(***************************************************************************)
(* Proofs about the forwards of tunnel.go, for any number of hosts, ports, *)
(* disturbances and any depth of the recursion; and about the processes of *)
(* a local session (LocalSession), for any number of clients and daemons.  *)
(***************************************************************************)
EXTENDS TunnelManager, LocalSession, WellFoundedInduction, TLAPS

(* A worker inside ensureRouterForward works for a host, its own if it is  *)
(* one of spawnSession.                                                    *)
HostsAreKnown ==
  \A w \in Workers :
    /\ w \in Hosts => host[w] = w
    /\ pc[w] \notin {"idle", "visit"} => host[w] \in Hosts

Leading(w) == pc[w] \in {"master", "alloc", "forward", "commit", "land", "landfail"}
LeadingMaster(w) == cm[w] \in {"spawn", "up", "failed"}

(* forwardsSpawning and mastersSpawning are locks: one leader per host. *)
LeadersExclude ==
  \A v, w \in Workers : host[v] = host[w] =>
    /\ Leading(v) /\ Leading(w) => v = w
    /\ LeadingMaster(v) /\ LeadingMaster(w) => v = w

IInv == TypeOK /\ HostsAreKnown /\ LeadersExclude /\ MappingsSurviveCrash

Below == {ss \in Nat \X Nat : ss[1] < ss[2]}

LEMMA BelowIsWellFounded == IsWellFoundedOn(Below, Nat)
<1>1. Below = OpToRel(<, Nat)
  BY DEF Below, OpToRel
<1> QED BY <1>1, NatLessThanWellFounded

(* The lowest port of those that can be allocated is one of them. *)
LEMMA LowestPort ==
  ASSUME NEW S, S \subseteq Ports, S # {}
  PROVE  Min(S) \in S
<1>1. S \subseteq Nat
  BY PortsAssumption
<1>2. PICK x \in S : \A y \in S : <<y, x>> \notin Below
  BY <1>1, BelowIsWellFounded, WFMin
<1>3. ASSUME NEW y \in S PROVE x =< y
  <2>1. x \in Nat /\ y \in Nat
    BY <1>1
  <2>2. ~(y < x)
    BY <1>2, <2>1 DEF Below
  <2> QED BY <2>1, <2>2
<1> QED BY <1>3 DEF Min

-----------------------------------------------------------------------------
LEMMA InitInv == Init => IInv
<1> SUFFICES ASSUME Init PROVE IInv
  OBVIOUS
<1>1. unsaved \in BOOLEAN
  BY Zenon DEF Init
<1>2. TypeOK
  BY <1>1, NullsAssumption, PortsAssumption DEF Init, TypeOK, PCs, Workers
<1>3. HostsAreKnown /\ LeadersExclude
  BY NullsAssumption DEF Init, HostsAreKnown, LeadersExclude, Leading, LeadingMaster, Workers
<1>4. MappingsSurviveCrash
  BY DEF Init, MappingsSurviveCrash
<1> QED BY <1>2, <1>3, <1>4 DEF IInv

(* Whoever records a port writes the table, and whoever forgets one leaves *)
(* the file as it is.                                                      *)
LEMMA SaveSteps ==
  ASSUME TypeOK, [Next]_vars
  PROVE  \/ UNCHANGED <<forwards, saved, unsaved>>
         \/ SaveState
         \/ \E h : forwards' = [forwards EXCEPT ![h] = NoPort] /\ UNCHANGED <<saved, unsaved>>
         \/ Restart
<1>1. ASSUME NEW w \in Workers, CommitForward(w) \/ CommitRecovered(w) PROVE SaveState
  BY <1>1 DEF CommitForward, CommitRecovered
<1>2. ASSUME NEW w \in Workers, DropStale(w)
      PROVE  forwards' = [forwards EXCEPT ![host[w]] = NoPort] /\ UNCHANGED <<saved, unsaved>>
  BY <1>2 DEF DropStale, disk
<1>3. CASE ForgetForward
  BY <1>3 DEF ForgetForward, disk
<1>4. CASE Teardown
  BY <1>4 DEF Teardown
<1>5. ASSUME NEW w \in Workers, Call(w) \/ WorkerStep(w) \/ SshEnds(w)
      PROVE  \/ UNCHANGED <<forwards, saved, unsaved>>
             \/ CommitForward(w) \/ CommitRecovered(w) \/ DropStale(w)
  BY <1>5 DEF Call, WorkerStep, SshEnds, ForwardSucceeds, LookupKnown, LookupUnknown,
       ProbeReachable, ProbeStale, Join, Woken, CheckMaster, JoinOrLeadMaster, SpawnMaster,
       SpawnMasterFails, LandMaster, WokenForMaster, AllocateLocalPort, LeaderForward,
       RecoverForward, SshForward, LeaderForwardFails, Land, OnPortTaken, OnPortFree,
       RecoveryFails, maps, disk
<1>6. ASSUME HealthStep \/ Disturbance \/ TeardownSweep \/ \E h \in Hosts : TeardownHost(h)
      PROVE  \/ UNCHANGED <<forwards, saved, unsaved>>
             \/ ForgetForward \/ Teardown \/ Restart
  BY <1>6 DEF HealthStep, Disturbance, TeardownHost, TeardownSweep, Tick, TickDone, CheckAlive,
       CheckDead, CheckHung, Visit, MasterDies, PortTaken, maps
<1> QED BY <1>1, <1>2, <1>3, <1>4, <1>5, <1>6 DEF Next, vars

(* What was handed out is on disk, unless the latest write failed. *)
LEMMA SavedStep ==
  TypeOK /\ MappingsSurviveCrash /\ [Next]_vars
    => MappingsSurviveCrash' /\ unsaved' \in BOOLEAN
<1> SUFFICES ASSUME TypeOK, MappingsSurviveCrash, [Next]_vars
             PROVE  MappingsSurviveCrash' /\ unsaved' \in BOOLEAN
  OBVIOUS
<1>t. /\ forwards \in [Hosts -> Ports \union {NoPort}]
      /\ saved \in [Hosts -> Ports \union {NoPort}]
      /\ unsaved \in BOOLEAN
  BY DEF TypeOK
<1> USE DEF MappingsSurviveCrash
<1>1. CASE UNCHANGED <<forwards, saved, unsaved>>
  BY <1>1, <1>t, Zenon
<1>2. CASE SaveState
  BY <1>2, Zenon DEF SaveState
<1>3. CASE \E h : forwards' = [forwards EXCEPT ![h] = NoPort] /\ UNCHANGED <<saved, unsaved>>
  <2>1. \A h \in Hosts : forwards'[h] # NoPort => forwards'[h] = forwards[h]
    BY <1>3, <1>t
  <2>2. saved' = saved /\ unsaved' = unsaved
    BY <1>3
  <2>3. unsaved \/ \A h \in Hosts : forwards'[h] # NoPort => saved[h] = forwards'[h]
    BY <2>1, Zenon
  <2> QED BY <1>t, <2>2, <2>3, Zenon
<1>4. CASE Restart
  BY <1>4, Zenon DEF Restart
<1> QED BY <1>1, <1>2, <1>3, <1>4, SaveSteps

-----------------------------------------------------------------------------
MapTypes ==
  /\ forwards \in [Hosts -> Ports \union {NoPort}]
  /\ allocated \subseteq Ports
  /\ spawning \subseteq Hosts
  /\ mastersSpawning \subseteq Hosts
  /\ saved \in [Hosts -> Ports \union {NoPort}]
  /\ owner \in [Ports -> Hosts \union {Free, Other}]
  /\ masters \subseteq Hosts
  /\ snapshot \in [Hosts -> Ports \union {NoPort}]
  /\ leaving \subseteq Hosts \union {NoHost}

ControlTypes ==
  /\ pc \in [Workers -> PCs]
  /\ port \in [Workers -> Ports \union {NoPort}]
  /\ stack \in [Workers -> Seq(Ports)]

WorkerTypes ==
  /\ ControlTypes
  /\ host \in [Workers -> Hosts \union {NoHost}]
  /\ cm \in [Workers -> {"check", "lock", "wait", "told", "spawn", "up", "failed"}]

UsersHavePorts ==
  \A w \in Workers :
    pc[w] \in {"probe", "drop", "forward", "commit", "onport", "remaster",
               "reforward", "recommit", "forget"} => port[w] # NoPort

LeadersFly == \A w \in Workers : Leading(w) \/ pc[w] = "wait" => host[w] \in spawning

MasterLeadersFly ==
  \A w \in Workers : LeadingMaster(w) \/ cm[w] = "wait" =>
    host[w] \in mastersSpawning /\ pc[w] \in {"master", "remaster"}

LEMMA TypeParts ==
  TypeOK <=> /\ MapTypes /\ WorkerTypes /\ UsersHavePorts /\ LeadersFly /\ MasterLeadersFly
             /\ unsaved \in BOOLEAN
BY DEF TypeOK, MapTypes, WorkerTypes, ControlTypes, UsersHavePorts, LeadersFly,
       MasterLeadersFly, Leading, LeadingMaster

(* Where a step of control leads to. *)
Goes(w, to, ps) ==
  /\ ControlTypes'
  /\ pc'[w] = to
  /\ port'[w] \in ps
  /\ \A v \in Workers \ {w} : pc'[v] = pc[v] /\ port'[v] = port[v]

LEMMA GoGoes ==
  ASSUME ControlTypes, NEW w \in Workers, NEW to \in PCs, NEW p \in Ports \union {NoPort},
         Go(w, to, p), stack' \in [Workers -> Seq(Ports)]
  PROVE  Goes(w, to, {p})
BY DEF ControlTypes, Goes, Go

(* A call returns to its caller, or an error to the call that tried to     *)
(* recover its stale port.                                                 *)
LEMMA ReturnGoes ==
  ASSUME ControlTypes, NEW w \in Workers, Return(w) \/ Fail(w)
  PROVE  \/ Goes(w, "drop", Ports)
         \/ w = Health /\ Goes(w, "visit", {NoPort})
         \/ w # Health /\ Goes(w, "idle", {NoPort})
<1>1. CASE Return(w)
  <2>1. stack' \in [Workers -> Seq(Ports)]
    BY <1>1 DEF Return, ControlTypes
  <2>2. Go(w, IF w = Health THEN "visit" ELSE "idle", NoPort)
    BY <1>1 DEF Return
  <2>3. CASE w = Health
    BY <2>1, <2>2, <2>3, GoGoes DEF PCs
  <2>4. CASE w # Health
    BY <2>1, <2>2, <2>4, GoGoes DEF PCs
  <2> QED BY <2>3, <2>4
<1>2. CASE Fail(w) /\ stack[w] # <<>>
  <2>1. Head(stack[w]) \in Ports /\ Tail(stack[w]) \in Seq(Ports)
    BY <1>2 DEF ControlTypes
  <2>2. stack' \in [Workers -> Seq(Ports)]
    BY <1>2, <2>1 DEF Fail, ControlTypes
  <2>3. Goes(w, "drop", {Head(stack[w])})
    BY <1>2, <2>1, <2>2, GoGoes DEF Fail, PCs
  <2> QED BY <2>1, <2>3 DEF Goes
<1> QED BY <1>1, <1>2 DEF Fail

LEMMA ExitTypes ==
  ASSUME MapTypes, NEW h \in Hosts, ExitMaster(h) \/ OrphanMaster(h)
  PROVE  masters' \subseteq Hosts /\ owner' \in [Ports -> Hosts \union {Free, Other}]
BY DEF MapTypes, ExitMaster, OrphanMaster

LEMMA JoinOrLeadFlies ==
  ASSUME MapTypes, NEW w \in Workers, host[w] \in Hosts, JoinOrLead(w)
  PROVE  spawning' \subseteq Hosts
<1>1. spawning' = spawning \/ spawning' = spawning \union {host[w]}
  BY DEF JoinOrLead
<1> QED BY <1>1 DEF MapTypes

LEMMA MapTypesStep == IInv /\ [Next]_vars => MapTypes'
<1> SUFFICES ASSUME MapTypes, WorkerTypes, UsersHavePorts, HostsAreKnown, [Next]_vars
             PROVE  MapTypes'
  BY TypeParts DEF IInv
<1> USE NullsAssumption, PortsAssumption
    DEF MapTypes, WorkerTypes, ControlTypes, UsersHavePorts, HostsAreKnown, maps, control, os,
        local, env, disk
<1>1. CASE UNCHANGED vars
  BY <1>1 DEF vars
<1>2. ASSUME NEW w \in Workers, Call(w) PROVE MapTypes'
  BY <1>2 DEF Call
<1>3. ASSUME NEW w \in Workers, LookupKnown(w) PROVE MapTypes'
  BY <1>3 DEF LookupKnown
<1>4. ASSUME NEW w \in Workers, LookupUnknown(w) PROVE MapTypes'
  BY <1>4, JoinOrLeadFlies DEF LookupUnknown
<1>5. ASSUME NEW w \in Workers, ProbeReachable(w) PROVE MapTypes'
  BY <1>5 DEF ProbeReachable
<1>6. ASSUME NEW w \in Workers, ProbeStale(w) PROVE MapTypes'
  BY <1>6 DEF ProbeStale
<1>7. ASSUME NEW w \in Workers, DropStale(w) PROVE MapTypes'
  BY <1>7 DEF DropStale
<1>8. ASSUME NEW w \in Workers, Join(w) PROVE MapTypes'
  BY <1>8, JoinOrLeadFlies DEF Join
<1>9. ASSUME NEW w \in Workers, Woken(w) PROVE MapTypes'
  BY <1>9 DEF Woken
<1>10. ASSUME NEW w \in Workers, CheckMaster(w) PROVE MapTypes'
  BY <1>10 DEF CheckMaster, InEnsureMaster, MasterReady
<1>11. ASSUME NEW w \in Workers, JoinOrLeadMaster(w) PROVE MapTypes'
  BY <1>11 DEF JoinOrLeadMaster, InEnsureMaster
<1>12. ASSUME NEW w \in Workers, SpawnMaster(w) \/ SpawnMasterFails(w) PROVE MapTypes'
  BY <1>12 DEF SpawnMaster, SpawnMasterFails, InEnsureMaster
<1>13. ASSUME NEW w \in Workers, LandMaster(w) PROVE MapTypes'
  BY <1>13 DEF LandMaster, InEnsureMaster, MasterReady, NoMaster
<1>14. ASSUME NEW w \in Workers, WokenForMaster(w) PROVE MapTypes'
  BY <1>14 DEF WokenForMaster, InEnsureMaster, MasterReady, NoMaster
<1>15. ASSUME NEW w \in Workers, AllocateLocalPort(w) PROVE MapTypes'
  <2>1. Allocatable \subseteq Ports
    BY DEF Allocatable
  <2>2. allocated' = allocated \/ \E p \in Ports : allocated' = allocated \union {p}
    BY <1>15, <2>1, LowestPort DEF AllocateLocalPort
  <2> QED BY <1>15, <2>2 DEF AllocateLocalPort
<1>16. ASSUME NEW w \in Workers, ForwardSucceeds(w) PROVE MapTypes'
  BY <1>16 DEF ForwardSucceeds, LeaderForward, RecoverForward, SshForward
<1>17. ASSUME NEW w \in Workers, LeaderForwardFails(w) PROVE MapTypes'
  BY <1>17 DEF LeaderForwardFails
<1>18. ASSUME NEW w \in Workers, CommitForward(w) PROVE MapTypes'
  <2>1. saved' = forwards' \/ saved' = saved
    BY <1>18, Zenon DEF CommitForward, SaveState
  <2>2. /\ forwards' = [forwards EXCEPT ![host[w]] = port[w]]
        /\ allocated' = allocated
        /\ UNCHANGED <<spawning, mastersSpawning, owner, masters, snapshot, leaving>>
    BY <1>18 DEF CommitForward
  <2>3. port[w] \in Ports
    BY <1>18 DEF CommitForward
  <2> QED BY <2>1, <2>2, <2>3
<1>19. ASSUME NEW w \in Workers, Land(w) PROVE MapTypes'
  BY <1>19 DEF Land
<1>20. ASSUME NEW w \in Workers, OnPortTaken(w) \/ OnPortFree(w) PROVE MapTypes'
  BY <1>20 DEF OnPortTaken, OnPortFree
<1>21. ASSUME NEW w \in Workers, RecoveryFails(w) PROVE MapTypes'
  BY <1>21 DEF RecoveryFails
<1>22. ASSUME NEW w \in Workers, CommitRecovered(w) PROVE MapTypes'
  <2>1. saved' = forwards' \/ saved' = saved
    BY <1>22, Zenon DEF CommitRecovered, SaveState
  <2>2. /\ forwards' = [forwards EXCEPT ![host[w]] = port[w]]
        /\ allocated' = allocated \union {port[w]}
        /\ UNCHANGED <<spawning, mastersSpawning, owner, masters, snapshot, leaving>>
    BY <1>22 DEF CommitRecovered
  <2>3. port[w] \in Ports
    BY <1>22 DEF CommitRecovered
  <2> QED BY <2>1, <2>2, <2>3
<1>23. CASE Tick \/ TickDone \/ ForgetForward
  BY ZenonT(40), <1>23 DEF Tick, TickDone, ForgetForward
<1>24. ASSUME NEW h \in Hosts, CheckAlive(h) \/ CheckDead(h) \/ CheckHung(h) PROVE MapTypes'
  <2>1. UNCHANGED <<maps, mastersSpawning, leaving>> /\ snapshot' = [snapshot EXCEPT ![h] = NoPort]
    BY <1>24 DEF CheckAlive, CheckDead, CheckHung, Visit
  <2>2. UNCHANGED os \/ ExitMaster(h) \/ OrphanMaster(h)
    BY <1>24 DEF CheckAlive, CheckDead, CheckHung
  <2> QED BY <2>1, <2>2, ExitTypes
<1>25. CASE Teardown
  <2>1. saved' = forwards' \/ saved' = saved
    BY <1>25, Zenon DEF Teardown, SaveState
  <2> QED BY <1>25, <2>1 DEF Teardown
<1>28. CASE TeardownSweep
  BY <1>28 DEF TeardownSweep
<1>29. ASSUME NEW h \in Hosts, TeardownHost(h) PROVE MapTypes'
  BY <1>29, ExitTypes DEF TeardownHost
<1>30. ASSUME NEW h \in Hosts, MasterDies(h) PROVE MapTypes'
  BY <1>30, ExitTypes DEF MasterDies
<1>26. CASE Restart
  BY <1>26 DEF Restart, Disturb
<1>27. CASE \E p \in Ports : PortTaken(p)
  BY <1>27 DEF PortTaken
<1> QED BY <1>1, <1>2, <1>3, <1>4, <1>5, <1>6, <1>7, <1>8, <1>9, <1>10, <1>11, <1>12,
           <1>13, <1>14, <1>15, <1>16, <1>17, <1>18, <1>19, <1>20, <1>21, <1>22, <1>23,
           <1>24, <1>25, <1>26, <1>27, <1>28, <1>29, <1>30
     DEF Next, WorkerStep, SshEnds, HealthStep, Disturbance

PortUsers == {"probe", "drop", "forward", "commit", "onport", "remaster", "reforward",
              "recommit", "forget"}

Stays == WorkerTypes' /\ UsersHavePorts' /\ HostsAreKnown'

(* A step of control may go where a port is used with a port, and anywhere *)
(* if the worker has a host.                                               *)
LEMMA GoesWell ==
  ASSUME WorkerTypes, UsersHavePorts, HostsAreKnown, UNCHANGED host,
         cm' \in [Workers -> {"check", "lock", "wait", "told", "spawn", "up", "failed"}],
         NEW w \in Workers, NEW to \in PCs, NEW ps, Goes(w, to, ps),
         to \in PortUsers => NoPort \notin ps,
         to \in {"idle", "visit"} \/ host[w] \in Hosts
  PROVE  Stays
BY DEF Stays, WorkerTypes, UsersHavePorts, HostsAreKnown, Goes, PortUsers

LEMMA GoWell ==
  ASSUME WorkerTypes, UsersHavePorts, HostsAreKnown, UNCHANGED host,
         cm' \in [Workers -> {"check", "lock", "wait", "told", "spawn", "up", "failed"}],
         stack' \in [Workers -> Seq(Ports)],
         NEW w \in Workers, NEW to \in PCs, NEW p \in Ports \union {NoPort}, Go(w, to, p),
         to \in PortUsers => p # NoPort,
         to \in {"idle", "visit"} \/ host[w] \in Hosts
  PROVE  Stays
<1>1. Goes(w, to, {p})
  BY GoGoes DEF WorkerTypes
<1> QED BY <1>1, GoesWell

LEMMA ReturnWell ==
  ASSUME WorkerTypes, UsersHavePorts, HostsAreKnown, UNCHANGED host,
         cm' \in [Workers -> {"check", "lock", "wait", "told", "spawn", "up", "failed"}],
         NEW w \in Workers, host[w] \in Hosts, Return(w) \/ Fail(w)
  PROVE  Stays
<1>1. ControlTypes
  BY DEF WorkerTypes
<1>2. \E to \in {"drop", "visit", "idle"} : \E ps \in {Ports, {NoPort}} :
        Goes(w, to, ps) /\ (to = "drop" => NoPort \notin ps)
  BY <1>1, ReturnGoes, PortsAssumption
<1>3. PICK to \in {"drop", "visit", "idle"}, ps \in {Ports, {NoPort}} :
        Goes(w, to, ps) /\ (to = "drop" => NoPort \notin ps)
  BY <1>2
<1> QED BY <1>3, GoesWell DEF PCs, PortUsers

LEMMA StaysStep == IInv /\ [Next]_vars => Stays
<1> SUFFICES ASSUME MapTypes, WorkerTypes, UsersHavePorts, HostsAreKnown, [Next]_vars
             PROVE  Stays
  BY TypeParts DEF IInv
<1>a. \A w \in Workers : /\ pc[w] \in PCs
                         /\ port[w] \in Ports \union {NoPort}
                         /\ pc[w] \in PortUsers => port[w] \in Ports
                         /\ pc[w] \notin {"idle", "visit"} => host[w] \in Hosts
                         /\ w # Health => host[w] \in Hosts
                         /\ stack[w] \in Seq(Ports)
  BY NullsAssumption
     DEF WorkerTypes, ControlTypes, UsersHavePorts, HostsAreKnown, PortUsers, Workers
<1>b. \A h \in Hosts : forwards[h] \in Ports \union {NoPort}
  /\ snapshot[h] \in Ports \union {NoPort}
  BY DEF MapTypes
<1>c. stack \in [Workers -> Seq(Ports)]
      /\ cm \in [Workers -> {"check", "lock", "wait", "told", "spawn", "up", "failed"}]
      /\ NoPort \notin Ports
  BY PortsAssumption DEF WorkerTypes, ControlTypes
<1>1. ASSUME UNCHANGED <<pc, host, port, stack, cm>> PROVE Stays
  BY <1>1 DEF Stays, WorkerTypes, ControlTypes, UsersHavePorts, HostsAreKnown
<1>2. ASSUME NEW w \in Workers, Call(w) PROVE Stays
  BY <1>2, <1>a, <1>b, <1>c, GoWell DEF Call, PCs, PortUsers, control
<1>3. ASSUME NEW w \in Workers, LookupKnown(w) PROVE Stays
  BY <1>3, <1>a, <1>b, <1>c, GoWell DEF LookupKnown, PCs, PortUsers, control
<1>4. ASSUME NEW w \in Workers, LookupUnknown(w) \/ Join(w) PROVE Stays
  BY <1>4, <1>a, <1>b, <1>c, GoWell DEF LookupUnknown, Join, JoinOrLead, PCs, PortUsers, control
<1>5. ASSUME NEW w \in Workers, DropStale(w) PROVE Stays
  BY <1>5, <1>a, <1>b, <1>c, GoWell DEF DropStale, PCs, PortUsers, control
<1>6. ASSUME NEW w \in Workers, LeaderForward(w) \/ RecoverForward(w) PROVE Stays
  BY <1>6, <1>a, <1>b, <1>c, GoWell
     DEF LeaderForward, RecoverForward, SshForward, PCs, PortUsers, control
<1>7. ASSUME NEW w \in Workers, LeaderForwardFails(w) PROVE Stays
  BY <1>7, <1>a, <1>b, <1>c, GoWell DEF LeaderForwardFails, PCs, PortUsers, control
<1>8. ASSUME NEW w \in Workers, CommitForward(w) PROVE Stays
  BY <1>8, <1>a, <1>b, <1>c, GoWell DEF CommitForward, PCs, PortUsers, control
<1>9. ASSUME NEW w \in Workers, OnPortTaken(w) \/ OnPortFree(w) PROVE Stays
  BY <1>9, <1>a, <1>b, <1>c, GoWell DEF OnPortTaken, OnPortFree, PCs, PortUsers, control
<1>10. ASSUME NEW w \in Workers, ProbeReachable(w) PROVE Stays
  BY <1>10, <1>a, <1>c, ReturnWell DEF ProbeReachable, control
<1>11. ASSUME NEW w \in Workers, Woken(w) PROVE Stays
  BY <1>11, <1>a, <1>c, ReturnWell DEF Woken, control
<1>12. ASSUME NEW w \in Workers, RecoveryFails(w) PROVE Stays
  BY <1>12, <1>a, <1>c, ReturnWell DEF RecoveryFails, control
<1>13. ASSUME NEW w \in Workers, CommitRecovered(w) PROVE Stays
  BY <1>13, <1>a, <1>c, ReturnWell DEF CommitRecovered, control
<1>14. ASSUME NEW w \in Workers, ProbeStale(w) PROVE Stays
  <2>1. <<port[w]>> \o stack[w] \in Seq(Ports)
    BY <1>14, <1>a DEF ProbeStale, PortUsers
  <2>2. stack' \in [Workers -> Seq(Ports)]
    BY <1>14, <1>c, <2>1 DEF ProbeStale
  <2> QED BY <1>14, <1>a, <1>c, <2>2, GoWell DEF ProbeStale, PCs, PortUsers, control
<1>15. ASSUME NEW w \in Workers, JoinOrLeadMaster(w) \/ SpawnMaster(w) \/ SpawnMasterFails(w)
      PROVE Stays
  BY <1>15, <1>c
     DEF JoinOrLeadMaster, SpawnMaster, SpawnMasterFails, Stays, WorkerTypes, ControlTypes,
     UsersHavePorts, HostsAreKnown
<1>16. ASSUME NEW w \in Workers, CheckMaster(w) \/ WokenForMaster(w) \/ LandMaster(w) PROVE Stays
  <2>1. UNCHANGED host
        /\ cm' \in [Workers -> {"check", "lock", "wait", "told", "spawn", "up", "failed"}]
    BY <1>16, <1>c DEF CheckMaster, WokenForMaster, LandMaster
  <2>2. pc[w] \in {"master", "remaster"}
    BY <1>16 DEF CheckMaster, WokenForMaster, LandMaster, InEnsureMaster
  <2>3. CASE MasterReady(w)
    BY <1>a, <1>c, <2>1, <2>2, <2>3, GoWell DEF MasterReady, PCs, PortUsers
  <2>4. CASE NoMaster(w) /\ pc[w] = "master"
    BY <1>a, <1>c, <2>1, <2>4, GoWell DEF NoMaster, PCs, PortUsers
  <2>5. CASE NoMaster(w) /\ pc[w] # "master"
    BY <1>a, <2>1, <2>2, <2>5, ReturnWell DEF NoMaster
  <2>6. CASE UNCHANGED <<pc, port, stack>>
    BY <2>1, <2>6 DEF Stays, WorkerTypes, ControlTypes, UsersHavePorts, HostsAreKnown
  <2> QED BY <1>16, <2>3, <2>4, <2>5, <2>6 DEF CheckMaster, WokenForMaster, LandMaster
<1>17. ASSUME NEW w \in Workers, AllocateLocalPort(w) PROVE Stays
  <2>1. Allocatable \subseteq Ports
    BY DEF Allocatable
  <2>2. Go(w, "landfail", NoPort) \/ \E p \in Ports : Go(w, "forward", p)
    BY <1>17, <2>1, LowestPort DEF AllocateLocalPort
  <2> QED BY <1>17, <1>a, <1>c, <2>2, GoWell DEF AllocateLocalPort, PCs, PortUsers, control
<1>18. ASSUME NEW w \in Workers, Land(w) PROVE Stays
  <2>a. pc \in [Workers -> PCs]
    BY DEF WorkerTypes, ControlTypes
  <2>b. pc[w] \in {"land", "landfail"} /\ UNCHANGED <<host, cm>>
    BY <1>18 DEF Land, control
  <2>c. PICK next \in {"drop", "visit", "idle"} :
          pc' = [v \in Workers |-> IF v = w THEN next
                                  ELSE IF pc[v] = "wait" /\ host[v] = host[w] THEN "told"
                                  ELSE pc[v]]
    BY <1>18 DEF Land
  <2>d. pc' \in [Workers -> PCs]
    BY <2>a, <2>c DEF PCs
  <2>e. ASSUME NEW v \in Workers \ {w}
        PROVE  pc'[v] = pc[v] \/ (pc[v] = "wait" /\ pc'[v] = "told")
    <3>1. pc'[v] = IF pc[v] = "wait" /\ host[v] = host[w] THEN "told" ELSE pc[v]
      BY <2>c
    <3> QED BY <3>1
  <2>1. /\ UNCHANGED <<host, cm>>
        /\ host[w] \in Hosts
        /\ pc' \in [Workers -> PCs]
        /\ \A v \in Workers \ {w} : pc'[v] = pc[v] \/ (pc[v] = "wait" /\ pc'[v] = "told")
    BY <1>a, <2>b, <2>d, <2>e
  <2>2. /\ stack' \in [Workers -> Seq(Ports)]
        /\ port' \in [Workers -> Ports \union {NoPort}]
        /\ pc'[w] \in PortUsers => port'[w] # NoPort
    <3>1. stack[w] # <<>> => Head(stack[w]) \in Ports /\ Tail(stack[w]) \in Seq(Ports)
      BY <1>a
    <3> QED BY <1>18, <1>a, <1>c, <3>1 DEF Land, WorkerTypes, ControlTypes, PortUsers
  <2>3. \A v \in Workers \ {w} : port'[v] = port[v]
    BY <1>18 DEF Land, WorkerTypes, ControlTypes
  <2> QED BY ZenonT(40), <1>a, <1>c, <2>1, <2>2, <2>3
          DEF Stays, WorkerTypes, ControlTypes, UsersHavePorts, HostsAreKnown, PortUsers
<1>19. CASE Tick \/ ForgetForward
  <2>1. Health \in Workers
    BY DEF Workers
  <2> QED BY <1>19, <1>a, <1>c, <2>1, GoWell DEF Tick, ForgetForward, PCs, PortUsers, control
<1>20. CASE TickDone
  BY <1>20, <1>c, NullsAssumption
     DEF TickDone, Go, Stays, WorkerTypes, ControlTypes, UsersHavePorts, HostsAreKnown, PCs,
         control, Workers
<1>21. ASSUME NEW h \in Hosts, CheckAlive(h) \/ CheckDead(h) \/ CheckHung(h) PROVE Stays
  <2>1. Visit(h, "visit") \/ Visit(h, "forget")
    BY <1>21 DEF CheckAlive, CheckDead, CheckHung
  <2> QED BY <1>b, <1>c, <2>1, NullsAssumption
          DEF Visit, Go, Stays, WorkerTypes, ControlTypes, UsersHavePorts, HostsAreKnown, PCs,
              control, Workers
<1>22. CASE Restart
  BY <1>22, NullsAssumption
     DEF Restart, Stays, WorkerTypes, ControlTypes, UsersHavePorts, HostsAreKnown, PCs, Workers
<1>23. ASSUME Teardown \/ TeardownSweep \/ (\E h \in Hosts : TeardownHost(h) \/ MasterDies(h))
             \/ \E p \in Ports : PortTaken(p)
      PROVE  Stays
  BY <1>23, <1>1 DEF Teardown, TeardownSweep, TeardownHost, MasterDies, PortTaken, local, control
<1>24. CASE UNCHANGED vars
  BY <1>24, <1>1 DEF vars
<1> QED BY <1>2, <1>3, <1>4, <1>5, <1>6, <1>7, <1>8, <1>9, <1>10, <1>11, <1>12, <1>13,
           <1>14, <1>15, <1>16, <1>17, <1>18, <1>19, <1>20, <1>21, <1>22, <1>23, <1>24
     DEF Next, WorkerStep, SshEnds, ForwardSucceeds, HealthStep, Disturbance

-----------------------------------------------------------------------------
(* The steps inside ensureControlMaster. *)
MasterStep(w) ==
  \/ CheckMaster(w) \/ JoinOrLeadMaster(w) \/ SpawnMaster(w) \/ SpawnMasterFails(w)
  \/ LandMaster(w) \/ WokenForMaster(w)

(* What a worker does not do for a flight, the flights do not notice. *)
RolesStay ==
  /\ UNCHANGED spawning
  /\ \A w \in Workers : Role(w)' = Role(w) /\ (Role(w) # "out" => host'[w] = host[w])

Flight == {"master", "alloc", "forward", "commit", "land", "landfail"}

LEMMA Roles ==
  \A w \in Workers : /\ Role(w) = "lead" <=> Leading(w)
                     /\ Role(w) = "wait" <=> pc[w] = "wait"
                     /\ Role(w) = "told" <=> pc[w] = "told"
                     /\ Role(w) = "out" <=> ~Leading(w) /\ pc[w] \notin {"wait", "told"}
BY DEF Role, Leading

LEMMA RolesPrimed ==
  \A w \in Workers : /\ Role(w)' = "lead" <=> pc'[w] \in Flight
                     /\ Role(w)' = "wait" <=> pc'[w] = "wait"
                     /\ Role(w)' = "told" <=> pc'[w] = "told"
                     /\ Role(w)' = "out" <=> pc'[w] \notin Flight \union {"wait", "told"}
BY DEF Role, Flight

LEMMA SameRole ==
  ASSUME UNCHANGED spawning, NEW w \in Workers,
         \A v \in Workers \ {w} : pc'[v] = pc[v] /\ host'[v] = host[v],
         Role(w)' = Role(w), Role(w) # "out" => host'[w] = host[w]
  PROVE  RolesStay
BY DEF RolesStay, Role

LEMMA Quiet ==
  ASSUME IInv, [Next]_vars
  PROVE  \/ RolesStay
         \/ \E w \in Workers : LookupUnknown(w) \/ Join(w) \/ Woken(w) \/ Land(w)
         \/ Restart
<1> USE DEF Role
<1>a. WorkerTypes /\ ControlTypes
  BY TypeParts DEF IInv, WorkerTypes
<1>1. ASSUME UNCHANGED <<pc, host, spawning>> PROVE RolesStay
  BY <1>1 DEF RolesStay
<1>2. ASSUME NEW w \in Workers,
             \/ Call(w) \/ LookupKnown(w) \/ DropStale(w) \/ LeaderForward(w) \/ RecoverForward(w)
             \/ LeaderForwardFails(w) \/ CommitForward(w) \/ OnPortTaken(w) \/ OnPortFree(w)
             \/ ProbeStale(w) \/ AllocateLocalPort(w)
      PROVE  RolesStay
  <2>1. UNCHANGED <<spawning, host>> /\ \A v \in Workers \ {w} : pc'[v] = pc[v]
    BY <1>2, <1>a DEF Call, LookupKnown, DropStale, LeaderForward, RecoverForward, SshForward,
         LeaderForwardFails, CommitForward, OnPortTaken, OnPortFree, ProbeStale, AllocateLocalPort,
         Go, ControlTypes, maps
  <2>2. Role(w)' = Role(w)
    BY <1>2, <1>a DEF Call, LookupKnown, DropStale, LeaderForward, RecoverForward, SshForward,
         LeaderForwardFails, CommitForward, OnPortTaken, OnPortFree, ProbeStale, AllocateLocalPort,
         Go, ControlTypes
  <2> QED BY <2>1, <2>2, SameRole
<1>3. ASSUME NEW w \in Workers, pc[w] \notin Flight \union {"wait", "told"}, Return(w) \/ Fail(w),
             UNCHANGED <<spawning, host>>
      PROVE  RolesStay
  <2>1. PICK to \in {"drop", "visit", "idle"}, ps \in {Ports, {NoPort}} : Goes(w, to, ps)
    BY <1>3, <1>a, ReturnGoes
  <2>2. Role(w)' = Role(w)
    BY <1>3, <2>1 DEF Goes, Flight
  <2> QED BY <1>3, <2>1, <2>2, SameRole DEF Goes
<1>4. ASSUME NEW w \in Workers, ProbeReachable(w) \/ RecoveryFails(w) \/ CommitRecovered(w)
      PROVE  RolesStay
  BY <1>3, <1>4 DEF ProbeReachable, RecoveryFails, CommitRecovered, maps, Flight
<1>5. ASSUME NEW w \in Workers, MasterStep(w) PROVE RolesStay
  <2>1. UNCHANGED <<spawning, host>> /\ pc[w] \in {"master", "remaster"}
    BY <1>5 DEF MasterStep, CheckMaster, JoinOrLeadMaster, SpawnMaster, SpawnMasterFails,
                LandMaster, WokenForMaster, InEnsureMaster, maps
  <2>2. CASE MasterReady(w) \/ (NoMaster(w) /\ pc[w] = "master")
    <3>1. Role(w)' = Role(w) /\ \A v \in Workers \ {w} : pc'[v] = pc[v]
      BY <1>a, <2>1, <2>2 DEF MasterReady, NoMaster, Go, ControlTypes
    <3> QED BY <2>1, <3>1, SameRole
  <2>3. CASE NoMaster(w) /\ pc[w] # "master"
    BY <1>3, <2>1, <2>3 DEF NoMaster, Flight
  <2>4. CASE UNCHANGED pc
    BY <1>1, <2>1, <2>4
  <2> QED BY <1>5, <2>2, <2>3, <2>4
          DEF MasterStep, CheckMaster, JoinOrLeadMaster, SpawnMaster, SpawnMasterFails,
              LandMaster, WokenForMaster
<1>6. CASE HealthStep
  <2>1. Health \in Workers /\ UNCHANGED spawning
        /\ \A v \in Workers \ {Health} : pc'[v] = pc[v] /\ host'[v] = host[v]
    BY <1>6, <1>a DEF HealthStep, Tick, TickDone, ForgetForward, CheckAlive, CheckDead, CheckHung,
         Visit, Go, Workers, ControlTypes, WorkerTypes, maps
  <2>2. pc[Health] \in {"idle", "visit", "forget"} /\ pc'[Health] \in {"idle", "visit", "forget",
  "onport"}
    BY <1>6, <1>a, <2>1
       DEF HealthStep, Tick, TickDone, ForgetForward, CheckAlive, CheckDead, CheckHung,
         Visit, Go, ControlTypes
  <2>3. Role(Health)' = "out" /\ Role(Health) = "out"
    BY <2>2
  <2> QED BY <2>1, <2>3, SameRole
<1>7. CASE \/ Teardown \/ TeardownSweep \/ (\E h \in Hosts : TeardownHost(h) \/ MasterDies(h))
           \/ \E p \in Ports : PortTaken(p)
  BY <1>1, <1>7 DEF Teardown, TeardownSweep, TeardownHost, MasterDies, PortTaken, local, maps
<1>8. CASE UNCHANGED vars
  BY <1>1, <1>8 DEF vars
<1> QED BY <1>2, <1>4, <1>5, <1>6, <1>7, <1>8
        DEF Next, WorkerStep, SshEnds, MasterStep, ForwardSucceeds, Disturbance

-----------------------------------------------------------------------------
FlightsFly == LeadersFly /\ \A v, w \in Workers :
                              host[v] = host[w] /\ Leading(v) /\ Leading(w) => v = w

(* The check of forwardsSpawning and the entry into it are one step. *)
LEMMA FlightsStep == IInv /\ [Next]_vars => FlightsFly'
<1> SUFFICES ASSUME IInv, [Next]_vars PROVE FlightsFly'
  OBVIOUS
<1> USE DEF FlightsFly, LeadersFly, Leading
<1>a. FlightsFly /\ WorkerTypes /\ ControlTypes
  BY TypeParts DEF IInv, LeadersExclude, WorkerTypes
<1>1. CASE RolesStay
  BY <1>1, <1>a, Roles, RolesPrimed DEF RolesStay, Flight
<1>2. ASSUME NEW w \in Workers, LookupUnknown(w) \/ Join(w) PROVE FlightsFly'
  <2>1. JoinOrLead(w) /\ UNCHANGED host /\ pc[w] \in {"lookup", "join"}
    BY <1>2 DEF LookupUnknown, Join
  <2>2. CASE host[w] \in spawning
    BY <1>a, <2>1, <2>2 DEF JoinOrLead, Go, ControlTypes
  <2>3. CASE host[w] \notin spawning
    BY <1>a, <2>1, <2>3 DEF JoinOrLead, Go, ControlTypes
  <2> QED BY <2>2, <2>3
<1>3. ASSUME NEW w \in Workers, Woken(w) PROVE FlightsFly'
  <2>1. PICK to \in {"drop", "visit", "idle"}, ps \in {Ports, {NoPort}} : Goes(w, to, ps)
    BY <1>3, <1>a, ReturnGoes DEF Woken
  <2> QED BY <1>3, <1>a, <2>1 DEF Woken, Goes, maps
<1>4. ASSUME NEW w \in Workers, Land(w) PROVE FlightsFly'
  <2>1. PICK next \in {"drop", "visit", "idle"} :
          pc' = [v \in Workers |-> IF v = w THEN next
                                  ELSE IF pc[v] = "wait" /\ host[v] = host[w] THEN "told"
                                  ELSE pc[v]]
    BY <1>4 DEF Land
  <2>2. /\ pc[w] \in {"land", "landfail"}
        /\ UNCHANGED host
        /\ spawning' = spawning \ {host[w]}
    BY <1>4 DEF Land
  <2> QED BY <1>a, <2>1, <2>2
<1>5. CASE Restart
  BY <1>5 DEF Restart
<1> QED BY <1>1, <1>2, <1>3, <1>4, <1>5, Quiet

MastersFly == MasterLeadersFly /\ \A v, w \in Workers :
                host[v] = host[w] /\ LeadingMaster(v) /\ LeadingMaster(w) => v = w

(* The same of mastersSpawning: outside ensureControlMaster nobody touches *)
(* it, and a worker inside stays at its call.                              *)
LEMMA MastersStep == IInv /\ [Next]_vars => MastersFly'
<1> SUFFICES ASSUME IInv, [Next]_vars PROVE MastersFly'
  OBVIOUS
<1> USE DEF MastersFly, MasterLeadersFly, LeadingMaster
<1>a. MastersFly /\ WorkerTypes /\ ControlTypes
  BY TypeParts DEF IInv, LeadersExclude, WorkerTypes
<1>1. ASSUME UNCHANGED <<cm, mastersSpawning>>,
             \A v \in Workers : pc[v] \in {"master", "remaster"} =>
               pc'[v] = pc[v] /\ host'[v] = host[v]
      PROVE  MastersFly'
  BY <1>1, <1>a
<1>2. ASSUME NEW w \in Workers, MasterStep(w) PROVE MastersFly'
  <2>1. UNCHANGED host /\ pc[w] \in {"master", "remaster"}
    BY <1>2 DEF MasterStep, CheckMaster, JoinOrLeadMaster, SpawnMaster, SpawnMasterFails,
                LandMaster, WokenForMaster, InEnsureMaster
  <2>2. CASE JoinOrLeadMaster(w)
    BY <1>a, <2>1, <2>2 DEF JoinOrLeadMaster, WorkerTypes
  <2>3. CASE SpawnMaster(w) \/ SpawnMasterFails(w)
    BY <1>a, <2>1, <2>3 DEF SpawnMaster, SpawnMasterFails, InEnsureMaster, WorkerTypes
  <2>4. ASSUME MasterReady(w) \/ NoMaster(w)
        PROVE  \A v \in Workers \ {w} : pc'[v] = pc[v]
    <3>1. CASE Fail(w)
      BY <3>1, <1>a, ReturnGoes DEF Goes
    <3>2. CASE \E to, p : Go(w, to, p)
      BY <1>a, <3>2 DEF Go, ControlTypes
    <3> QED BY <2>4, <3>1, <3>2 DEF MasterReady, NoMaster
  <2>5. CASE CheckMaster(w)
    BY <1>a, <2>1, <2>4, <2>5 DEF CheckMaster, InEnsureMaster, WorkerTypes
  <2>6. CASE WokenForMaster(w)
    BY <1>a, <2>1, <2>4, <2>6 DEF WokenForMaster, InEnsureMaster, WorkerTypes
  <2>7. CASE LandMaster(w)
    <3>1. LeadingMaster(w) /\ \A v \in Workers \ {w} : pc'[v] = pc[v]
      BY <2>4, <2>7 DEF LandMaster, InEnsureMaster
    <3> QED BY <1>a, <2>1, <2>7, <3>1 DEF LandMaster, WorkerTypes
  <2> QED BY <1>2, <2>2, <2>3, <2>5, <2>6, <2>7 DEF MasterStep
<1>3. ASSUME NEW w \in Workers,
             \/ Call(w) \/ LookupKnown(w) \/ LookupUnknown(w) \/ ProbeStale(w) \/ DropStale(w)
             \/ Join(w) \/ AllocateLocalPort(w) \/ LeaderForward(w) \/ RecoverForward(w)
             \/ LeaderForwardFails(w) \/ CommitForward(w) \/ OnPortTaken(w) \/ OnPortFree(w)
      PROVE  MastersFly'
  <2>1. UNCHANGED <<cm, mastersSpawning, host>> /\ pc[w] \notin {"master", "remaster"}
    BY <1>3 DEF Call, LookupKnown, LookupUnknown, ProbeStale, DropStale, Join, AllocateLocalPort,
         LeaderForward, RecoverForward, SshForward, LeaderForwardFails, CommitForward, OnPortTaken,
         OnPortFree, control
  <2>2. \E to, p : Go(w, to, p)
    BY <1>3 DEF Call, LookupKnown, LookupUnknown, ProbeStale, DropStale, Join, AllocateLocalPort,
         LeaderForward, RecoverForward, SshForward, LeaderForwardFails, CommitForward, OnPortTaken,
         OnPortFree, JoinOrLead
  <2>3. \A v \in Workers \ {w} : pc'[v] = pc[v]
    BY <1>a, <2>2 DEF Go, ControlTypes
  <2> QED BY <1>1, <2>1, <2>3
<1>4. ASSUME NEW w \in Workers,
             ProbeReachable(w) \/ Woken(w) \/ RecoveryFails(w) \/ CommitRecovered(w)
      PROVE  MastersFly'
  <2>1. UNCHANGED <<cm, mastersSpawning, host>> /\ pc[w] \notin {"master", "remaster"}
        /\ (Return(w) \/ Fail(w))
    BY <1>4 DEF ProbeReachable, Woken, RecoveryFails, CommitRecovered, control
  <2>2. \A v \in Workers \ {w} : pc'[v] = pc[v]
    BY <1>a, <2>1, ReturnGoes DEF Goes
  <2> QED BY <1>1, <2>1, <2>2
<1>5. ASSUME NEW w \in Workers, Land(w) PROVE MastersFly'
  <2>1. UNCHANGED <<cm, mastersSpawning, host>> /\ pc[w] \in {"land", "landfail"}
    BY <1>5 DEF Land, control
  <2>2. \A v \in Workers : pc[v] \in {"master", "remaster"} => pc'[v] = pc[v]
    BY <1>5, <2>1 DEF Land
  <2> QED BY <1>1, <2>1, <2>2
<1>6. CASE HealthStep
  <2>1. UNCHANGED <<cm, mastersSpawning>> /\ Health \in Workers
        /\ \A v \in Workers \ {Health} : pc'[v] = pc[v] /\ host'[v] = host[v]
    BY <1>6, <1>a DEF HealthStep, Tick, TickDone, ForgetForward, CheckAlive, CheckDead, CheckHung,
         Visit, Go, Workers, ControlTypes, WorkerTypes, control
  <2>2. pc[Health] \in {"idle", "visit", "forget"}
    BY <1>6 DEF HealthStep, Tick, TickDone, ForgetForward, CheckAlive, CheckDead, CheckHung, Visit
  <2> QED BY <1>1, <2>1, <2>2
<1>7. CASE Restart
  BY <1>7 DEF Restart
<1>8. CASE \/ Teardown \/ TeardownSweep \/ (\E h \in Hosts : TeardownHost(h) \/ MasterDies(h))
           \/ \E p \in Ports : PortTaken(p)
  BY <1>1, <1>8 DEF Teardown, TeardownSweep, TeardownHost, MasterDies, PortTaken, local, control
<1>9. CASE UNCHANGED vars
  BY <1>1, <1>9 DEF vars
<1> QED BY <1>2, <1>3, <1>4, <1>5, <1>6, <1>7, <1>8, <1>9
        DEF Next, WorkerStep, SshEnds, MasterStep, ForwardSucceeds, Disturbance

-----------------------------------------------------------------------------
LEMMA StepInv == IInv /\ [Next]_vars => IInv'
<1> SUFFICES ASSUME IInv, [Next]_vars PROVE IInv'
  OBVIOUS
<1>4. MappingsSurviveCrash' /\ unsaved' \in BOOLEAN
  BY SavedStep DEF IInv
<1>1. MapTypes' /\ Stays /\ FlightsFly' /\ MastersFly'
  BY MapTypesStep, StaysStep, FlightsStep, MastersStep
<1>2. TypeOK'
  BY <1>1, <1>4 DEF TypeOK, Stays, FlightsFly, MastersFly, MapTypes, WorkerTypes, ControlTypes,
              UsersHavePorts, LeadersFly, MasterLeadersFly, Leading, LeadingMaster
<1>3. HostsAreKnown' /\ LeadersExclude'
  BY <1>1 DEF Stays, FlightsFly, MastersFly, LeadersExclude
<1> QED BY <1>2, <1>3, <1>4 DEF IInv

THEOREM Invariance == Spec => []IInv
BY InitInv, StepInv, PTL DEF Spec

\* Through restarts of the daemon, torn-down tunnels and the mutual recursion
\* of ensureRouterForward and ensureRouterForwardOnPort: a port that was handed
\* out is on disk (tunnel.go:31-34) unless the latest write of the file failed
\* (106-129), whoever waits has somebody to wait for, and whoever uses a port
\* has one.
THEOREM PortsAreSaved == Spec => []Inv
<1>1. IInv => Inv
  BY DEF IInv, Inv
<1> QED BY <1>1, Invariance, PTL

-----------------------------------------------------------------------------
LEMMA InitFlights == Init => Flights!Init
BY DEF Init, Flights!Init, Role, Workers

RoleOf == [w \in Workers |-> Role(w)]
KeyOf == [w \in Workers |-> IF Role(w) = "out" THEN NoHost ELSE host[w]]

LEMMA StepFlights == IInv /\ [Next]_vars => [Flights!Next \/ Restart]_(Flights!vars)
<1> SUFFICES ASSUME IInv, [Next]_vars
             PROVE  Flights!Next \/ Restart \/ UNCHANGED <<spawning, RoleOf, KeyOf>>
  BY DEF Flights!vars, RoleOf, KeyOf
<1>a. FlightsFly /\ WorkerTypes /\ ControlTypes /\ HostsAreKnown
  BY TypeParts DEF IInv, LeadersExclude, WorkerTypes, FlightsFly
<1>1. CASE RolesStay
  BY <1>1 DEF RolesStay, RoleOf, KeyOf
<1>2. ASSUME NEW w \in Workers, LookupUnknown(w) \/ Join(w) PROVE Flights!Next
  <2>1. /\ JoinOrLead(w)
        /\ UNCHANGED host
        /\ pc[w] \in {"lookup", "join"}
        /\ host[w] \in Hosts
    BY <1>2, <1>a DEF LookupUnknown, Join, HostsAreKnown
  <2>2. Role(w) = "out"
    BY <2>1 DEF Role
  <2>h. PICK h \in Hosts : host[w] = h
    BY <2>1
  <2>3. CASE host[w] \in spawning
    <3>1. UNCHANGED spawning /\ pc' = [pc EXCEPT ![w] = "wait"]
      BY <2>1, <2>3 DEF JoinOrLead, Go
    <3>2. RoleOf' = [RoleOf EXCEPT ![w] = "wait"] /\ KeyOf' = [KeyOf EXCEPT ![w] = host[w]]
      BY <1>a, <2>1, <3>1 DEF RoleOf, KeyOf, Role, ControlTypes
    <3>3. Flights!Join(w, h)
      BY <2>2, <2>h, <2>3, <3>1, <3>2 DEF Flights!Join, RoleOf, KeyOf
    <3> QED BY <3>3 DEF Flights!Next
  <2>4. CASE host[w] \notin spawning
    <3>1. spawning' = spawning \union {host[w]} /\ pc' = [pc EXCEPT ![w] = "master"]
      BY <2>1, <2>4 DEF JoinOrLead, Go
    <3>2. RoleOf' = [RoleOf EXCEPT ![w] = "lead"] /\ KeyOf' = [KeyOf EXCEPT ![w] = host[w]]
      BY <1>a, <2>1, <3>1 DEF RoleOf, KeyOf, Role, ControlTypes
    <3>3. Flights!Lead(w, h)
      BY <2>2, <2>h, <2>4, <3>1, <3>2 DEF Flights!Lead, RoleOf, KeyOf
    <3> QED BY <3>3 DEF Flights!Next
  <2> QED BY <2>3, <2>4
<1>3. ASSUME NEW w \in Workers, Woken(w) PROVE Flights!Next
  <2>1. PICK to \in {"drop", "visit", "idle"}, ps \in {Ports, {NoPort}} : Goes(w, to, ps)
    BY <1>3, <1>a, ReturnGoes DEF Woken
  <2>2. UNCHANGED <<spawning, host>> /\ pc[w] = "told"
    BY <1>3 DEF Woken, maps
  <2>3. RoleOf' = [RoleOf EXCEPT ![w] = "out"] /\ KeyOf' = [KeyOf EXCEPT ![w] = NoHost]
    BY <2>1, <2>2 DEF Goes, RoleOf, KeyOf, Role
  <2>4. Flights!Leave(w)
    BY <2>2, <2>3 DEF Flights!Leave, RoleOf, KeyOf, Role
  <2> QED BY <2>4 DEF Flights!Next
<1>4. ASSUME NEW w \in Workers, Land(w) PROVE Flights!Next
  <2>1. PICK next \in {"drop", "visit", "idle"} :
          pc' = [v \in Workers |-> IF v = w THEN next
                                  ELSE IF pc[v] = "wait" /\ host[v] = host[w] THEN "told"
                                  ELSE pc[v]]
    BY <1>4 DEF Land
  <2>2. /\ pc[w] \in {"land", "landfail"}
        /\ UNCHANGED host
        /\ spawning' = spawning \ {host[w]}
    BY <1>4 DEF Land
  <2>3. Role(w) = "lead"
    BY <2>2 DEF Role
  <2>4. \A v \in Workers : Role(v)' = IF v = w THEN "out"
                                      ELSE IF Role(v) = "wait" /\ host[v] = host[w] THEN "told"
                                      ELSE Role(v)
    BY <2>1 DEF Role
  <2>5. RoleOf' = [v \in Workers |-> IF v = w THEN "out"
                                     ELSE IF RoleOf[v] = "wait" /\ KeyOf[v] = KeyOf[w] THEN "told"
                                     ELSE RoleOf[v]]
    BY <2>3, <2>4 DEF RoleOf, KeyOf
  <2>6. KeyOf' = [KeyOf EXCEPT ![w] = NoHost]
    BY <2>2, <2>4 DEF KeyOf
  <2>7. Flights!Land(w)
    BY <2>2, <2>3, <2>5, <2>6 DEF Flights!Land, RoleOf, KeyOf
  <2> QED BY <2>7 DEF Flights!Next
<1>5. CASE Restart
  BY <1>5
<1> QED BY <1>1, <1>2, <1>3, <1>4, <1>5, Quiet

\* The slow path of ensureRouterForward keeps the promise of the waiting idiom:
\* one call per host establishes the forward, the others wait and are all told
\* when it ends, however it ends; only a restart of the daemon ends it for them.
THEOREM Refinement == Spec => ForwardsAreFlights
BY InitFlights, StepFlights, Invariance, PTL DEF Spec, ForwardsAreFlights

-----------------------------------------------------------------------------
(* LocalSession: one daemon of a socket takes over.                        *)

\* The scan of e will kill d, or e has listed nothing yet.
Covered(d, e) ==
  \/ ~Running(e)
  \/ at[e] \in {"start", "pid"}
  \/ at[e] = "listed" /\ d \in victims[e]

\* Of two daemons one of which has listed its victims, the other is among
\* them, or has yet to list its own, or has listed the first.
ScansCover ==
  \A d, e \in Daemons :
    d # e /\ (TookOver(d) \/ (at[d] = "listed" /\ e \notin victims[d])) => Covered(d, e)

LocalIInv == LocalTypeOK /\ ScansCover

LEMMA InitIInv == LocalInit => LocalIInv
BY ProcessAssumption
   DEF LocalInit, LocalIInv, LocalTypeOK, ScansCover, Covered, TookOver, Running, Processes,
       ClientStates, DaemonStates

LEMMA StepTypeOK == LocalTypeOK /\ [LocalNext]_localVars => LocalTypeOK'
<1> SUFFICES ASSUME LocalTypeOK, [LocalNext]_localVars
             PROVE  LocalTypeOK'
  OBVIOUS
<1> USE ProcessAssumption
    DEF LocalTypeOK, Processes, ClientStates, DaemonStates, Step, files, clientVars, history,
        Listening, Holds
<1>1. ASSUME NEW c \in Clients, Client(c) PROVE LocalTypeOK'
  <2>1. CASE Start(c)
    BY <2>1 DEF Start
  <2>2. CASE Attach(c)
    BY <2>2 DEF Attach
  <2>3. CASE OpenLock(c)
    BY <2>3 DEF OpenLock
  <2>4. CASE Lock(c)
    BY <2>4 DEF Lock
  <2>5. CASE Recheck(c)
    BY <2>5 DEF Recheck
  <2>6. CASE Spawn(c)
    BY <2>6 DEF Spawn
  <2>7. CASE GiveUp(c)
    BY <2>7 DEF GiveUp
  <2>8. CASE Leave(c)
    BY <2>8 DEF Leave
  <2>9. CASE NoLock(c)
    BY <2>9 DEF NoLock
  <2>10. CASE RemoveStale(c)
    BY <2>10 DEF RemoveStale
  <2> QED
    BY <1>1, <2>1, <2>2, <2>3, <2>4, <2>5, <2>6, <2>7, <2>8, <2>9, <2>10 DEF Client
<1>2. ASSUME NEW d \in Daemons, Daemon(d) PROVE LocalTypeOK'
  <2>1. CASE KillByPidFile(d)
    BY <2>1 DEF KillByPidFile, Kill
  <2>2. CASE List(d)
    BY <2>2 DEF List, Running
  <2>3. CASE KillListed(d)
    BY <2>3 DEF KillListed, Kill
  <2>4. CASE RemoveSocket(d)
    BY <2>4 DEF RemoveSocket
  <2>5. CASE WritePid(d)
    BY <2>5 DEF WritePid
  <2>6. CASE Listen(d)
    BY <2>6 DEF Listen
  <2>7. CASE Finish(d)
    BY <2>7 DEF Finish
  <2>8. CASE CloseListener(d)
    BY <2>8 DEF CloseListener
  <2>9. CASE Exit(d)
    BY <2>9 DEF Exit
  <2> QED
    BY <1>2, <2>1, <2>2, <2>3, <2>4, <2>5, <2>6, <2>7, <2>8, <2>9 DEF Daemon
<1>3. CASE KillSession
  BY <1>3 DEF KillSession
<1>4. CASE UNCHANGED localVars
  BY <1>4 DEF localVars
<1>5. ASSUME NEW p \in Processes, Die(p) PROVE LocalTypeOK'
  <2>1. forsaken' \subseteq Daemons
    BY <1>5 DEF Die, Unreachable
  <2>2. deaths' \in 0..MaxDeaths
    BY <1>5 DEF Die
  <2> QED
    BY <1>5, <2>1, <2>2 DEF Die
<1> QED
  BY <1>1, <1>2, <1>3, <1>4, <1>5 DEF LocalNext

\* A step that moves no daemon and no scan keeps the scans as they cover.
LEMMA ScansCoverKept ==
  ASSUME ScansCover,
         \A d \in Daemons : at'[d] = at[d] \/ at'[d] = "gone",
         \A d \in Daemons : victims'[d] = victims[d]
  PROVE  ScansCover'
BY DEF ScansCover, Covered, TookOver, Running

LEMMA StepScansCover == LocalIInv /\ [LocalNext]_localVars => ScansCover'
<1> SUFFICES ASSUME LocalTypeOK, ScansCover, [LocalNext]_localVars
             PROVE  ScansCover'
  BY DEF LocalIInv
<1> USE ProcessAssumption DEF LocalTypeOK, Processes, Step, files, clientVars, history
<1>1. ASSUME NEW c \in Clients, Client(c) PROVE ScansCover'
  <2>1. CASE Spawn(c)
    <3>1. PICK d \in Daemons :
            /\ at[d] = "unborn"
            /\ at' = [at EXCEPT ![c] = "poll", ![d] = "start"]
            /\ victims' = victims
      BY <2>1 DEF Spawn
    <3>2. at'[d] = "start" /\ \A e \in Daemons \ {d} : at'[e] = at[e]
      BY <3>1
    <3> QED
      BY <3>1, <3>2 DEF ScansCover, Covered, TookOver, Running
  <2>2. CASE ~Spawn(c)
    <3>1. (\A d \in Daemons : at'[d] = at[d]) /\ victims' = victims
      BY <1>1, <2>2 DEF Client, Start, Attach, OpenLock, Lock, NoLock, Recheck, RemoveStale,
         GiveUp, Leave
    <3> QED
      BY <3>1, ScansCoverKept
  <2> QED
    BY <2>1, <2>2
<1>2. ASSUME NEW d \in Daemons, Daemon(d) PROVE ScansCover'
  <2>1. CASE KillByPidFile(d)
    <3>1. /\ at[d] = "start" /\ at'[d] = "pid"
          /\ \A e \in Daemons \ {d} : at'[e] = at[e] \/ at'[e] = "gone"
          /\ victims' = victims
      BY <2>1 DEF KillByPidFile, Kill
    <3> QED
      BY <3>1 DEF ScansCover, Covered, TookOver, Running
  <2>2. CASE List(d)
    <3>1. /\ at[d] = "pid" /\ at'[d] = "listed"
          /\ \A e \in Daemons \ {d} : at'[e] = at[e] /\ victims'[e] = victims[e]
          /\ \A e \in Daemons \ {d} : Running(e) => e \in victims'[d]
      BY <2>2 DEF List, Running
    <3> QED
      BY <3>1 DEF ScansCover, Covered, TookOver, Running
  <2>3. CASE KillListed(d)
    <3>1. /\ \A e \in Daemons : at'[e] = at[e] \/ at'[e] = "gone"
          /\ \A e \in victims[d] : ~Running(e)'
          /\ \A e \in Daemons \ {d} : victims'[e] = victims[e]
      BY <2>3 DEF KillListed, Kill, Running
    <3>2. d \notin victims[d] /\ victims'[d] = {}
      BY <2>3 DEF KillListed
    <3>3. ASSUME NEW a \in Daemons, NEW b \in Daemons, a # b,
                 TookOver(a)' \/ (at'[a] = "listed" /\ b \notin victims'[a])
          PROVE  Covered(a, b)'
      <4>1. TookOver(a) \/ at[a] = "listed"
        BY <3>1, <3>3 DEF TookOver
      <4>2. CASE a = d /\ b \in victims[d]
        BY <3>1, <4>2 DEF Covered
      <4>3. CASE a # d \/ b \notin victims[d]
        <5>1. Covered(a, b)
          BY <3>1, <3>3, <4>1, <4>3 DEF ScansCover, TookOver
        <5>2. b = d /\ a \in victims[d] => ~Running(a)'
          BY <3>1
        <5> QED
          BY <3>1, <3>3, <5>1, <5>2 DEF Covered, Running, TookOver
      <4> QED
        BY <4>2, <4>3
    <3> QED
      BY <3>3 DEF ScansCover
  <2>4. CASE RemoveSocket(d)
    <3>1. /\ at[d] = "listed" /\ victims[d] = {} /\ at'[d] = "alone"
          /\ \A e \in Daemons \ {d} : at'[e] = at[e]
          /\ victims' = victims
      BY <2>4 DEF RemoveSocket
    <3> QED
      BY <3>1 DEF ScansCover, Covered, TookOver, Running
  <2>5. CASE WritePid(d) \/ Listen(d) \/ Finish(d) \/ CloseListener(d)
    <3>1. /\ TookOver(d) /\ TookOver(d)'
          /\ \A e \in Daemons \ {d} : at'[e] = at[e]
          /\ victims' = victims
      BY <2>5 DEF WritePid, Listen, Finish, CloseListener, TookOver
    <3> QED
      BY <3>1 DEF ScansCover, Covered, TookOver, Running
  <2>6. CASE Exit(d)
    <3>1. /\ \A e \in Daemons : at'[e] = at[e] \/ at'[e] = "gone"
          /\ victims' = victims
      BY <2>6 DEF Exit
    <3> QED
      BY <3>1, ScansCoverKept
  <2> QED
    BY <1>2, <2>1, <2>2, <2>3, <2>4, <2>5, <2>6 DEF Daemon
<1>3. CASE KillSession \/ UNCHANGED localVars
  <2>1. at' = at /\ victims' = victims
    BY <1>3 DEF KillSession, localVars
  <2> QED
    BY <2>1, ScansCoverKept
<1>4. ASSUME NEW p \in Processes, Die(p) PROVE ScansCover'
  <2>1. (\A d \in Daemons : at'[d] = at[d] \/ at'[d] = "gone") /\ victims' = victims
    BY <1>4 DEF Die
  <2> QED
    BY <2>1, ScansCoverKept
<1> QED
  BY <1>1, <1>2, <1>3, <1>4 DEF LocalNext

\* The state keeps its types, and no scan lists the daemon it serves.
THEOREM TypeCorrect == LocalSpec => []LocalTypeOK
<1>1. LocalInit => LocalTypeOK
  BY InitIInv DEF LocalIInv
<1> QED
  BY <1>1, StepTypeOK, PTL DEF LocalSpec

LEMMA LocalInvariance == LocalSpec => []LocalIInv
<1>1. LocalIInv /\ [LocalNext]_localVars => LocalIInv'
  BY StepTypeOK, StepScansCover DEF LocalIInv
<1> QED
  BY <1>1, InitIInv, PTL DEF LocalSpec

\* However many clients and daemons of a socket race, and whatever becomes of
\* the socket, the pid file and the lock file, at most one daemon gets past
\* its scan and serves.
THEOREM OneDaemonServes == LocalSpec => []OneServes
<1>1. LocalIInv => OneServes
  BY DEF LocalIInv, ScansCover, OneServes, Covered, TookOver, Running
<1> QED
  BY <1>1, LocalInvariance, PTL

-----------------------------------------------------------------------------
(* Where a daemon that serves is found.                                    *)

\* A daemon that took over has killed what it listed, and what a scan has
\* listed had been born.
ListsAreLive ==
  \A d \in Daemons :
    /\ TookOver(d) => victims[d] = {}
    /\ \A p \in victims[d] : at[p] # "unborn"

\* A client that started a daemon does not come back to start another.
SpawnersPoll ==
  \A d \in Daemons : spawner[d] # None => at[spawner[d]] \in {"poll", "attached", "gone"}

\* Past the scan of d, a process that d has not listed was born after the
\* scan: a list that has it is younger still, and has d too.
LaterListsHave ==
  \A d, e \in Daemons : \A p \in victims[e] :
    /\ p # d /\ p # spawner[d] /\ Running(p)
    /\ TookOver(d) \/ (at[d] = "listed" /\ p \notin victims[d])
    => d \in victims[e]

RInv == LocalIInv /\ ListsAreLive /\ SpawnersPoll /\ LaterListsHave /\ ServingIsReachable

LEMMA InitRInv == LocalInit => RInv
<1> SUFFICES ASSUME LocalInit PROVE RInv
  OBVIOUS
<1>1. ListsAreLive /\ SpawnersPoll /\ LaterListsHave /\ ServingIsReachable
  BY ProcessAssumption
     DEF LocalInit, ListsAreLive, SpawnersPoll, LaterListsHave, ServingIsReachable, TookOver, Processes
<1> QED
  BY <1>1, InitIInv DEF RInv

\* The steps of clients but Spawn: no daemon, scan or spawner is touched,
\* and who starts a daemon is not killed.
LEMMA ClientSteps ==
  ASSUME LocalTypeOK, NEW c \in Clients, Client(c), ~Spawn(c)
  PROVE  /\ \A p \in Processes \ {c} : at'[p] = at[p]
         /\ c \in Processes \ Daemons
         /\ at[c] # "gone" /\ at'[c] # "unborn"
         /\ at[c] # "unborn" => Running(c)
         /\ at[c] \in {"poll", "attached"} => at'[c] \in {"poll", "attached", "gone"}
         /\ at[c] # "spawn"
         /\ at[c] = "unborn" => at'[c] = "try"
         /\ victims' = victims /\ spawner' = spawner
         /\ UNCHANGED <<lockFile, viaMux, pidFile>>
         /\ sock' = sock \/ (at'[c] = "spawn" /\ sock' = None)
<1> USE ProcessAssumption DEF LocalTypeOK, Processes, Step, Running, files, clientVars, history
<1>1. CASE Start(c)
  BY <1>1 DEF Start
<1>2. CASE Attach(c)
  BY <1>2 DEF Attach
<1>3. CASE OpenLock(c)
  BY <1>3 DEF OpenLock
<1>4. CASE Lock(c)
  BY <1>4 DEF Lock
<1>5. CASE Recheck(c)
  BY <1>5 DEF Recheck
<1>6. CASE GiveUp(c)
  BY <1>6 DEF GiveUp
<1>7. CASE Leave(c)
  BY <1>7 DEF Leave
<1>8. CASE NoLock(c)
  BY <1>8 DEF NoLock
<1>9. CASE RemoveStale(c)
  BY <1>9 DEF RemoveStale
<1> QED
  BY <1>1, <1>2, <1>3, <1>4, <1>5, <1>6, <1>7, <1>8, <1>9 DEF Client

\* A daemon is born.
LEMMA SpawnStep ==
  ASSUME LocalTypeOK, NEW c \in Clients, Spawn(c)
  PROVE  \E d \in Daemons :
           /\ at[c] = "spawn" /\ at[d] = "unborn"
           /\ at'[c] = "poll" /\ at'[d] = "start"
           /\ \A p \in Processes \ {c, d} : at'[p] = at[p]
           /\ spawner'[d] = c /\ \A e \in Daemons \ {d} : spawner'[e] = spawner[e]
           /\ UNCHANGED <<victims, sock, lockFile>>
BY ProcessAssumption DEF LocalTypeOK, Processes, Spawn, files

\* The steps of daemons that move one daemon past its scan.
LEMMA LateSteps ==
  ASSUME LocalTypeOK, NEW d \in Daemons,
         RemoveSocket(d) \/ WritePid(d) \/ Listen(d) \/ Finish(d) \/ CloseListener(d) \/ Exit(d)
  PROVE  /\ \A p \in Processes \ {d} : at'[p] = at[p]
         /\ at[d] = "listed" => victims[d] = {}
         /\ at[d] = "listed" \/ TookOver(d)
         /\ at'[d] \in {"alone", "pidWritten", "serving", "leaving", "closed", "gone"}
         /\ victims' = victims /\ spawner' = spawner /\ lockFile' = lockFile
         /\ sock' = sock \/ (at[d] # "serving" /\ sock' \in {None, d})
         /\ at'[d] = "serving" => sock' = d
BY ProcessAssumption DEF LocalTypeOK, Processes, Step, files, clientVars, history, TookOver,
   RemoveSocket, WritePid, Listen, Finish, CloseListener, Exit

\* A process that ends by itself takes no other with it.
LEMMA DieStep ==
  ASSUME LocalTypeOK, NEW p \in Processes, Die(p)
  PROVE  /\ at'[p] = "gone" /\ Running(p)
         /\ \A q \in Processes \ {p} : at'[q] = at[q]
         /\ victims' = victims /\ spawner' = spawner /\ sock' = sock
         /\ p \in Daemons \/ at[p] = "spawn" => Unreachable \subseteq forsaken'
BY DEF LocalTypeOK, Die, files

LEMMA StepListsAreLive == RInv /\ [LocalNext]_localVars => ListsAreLive'
<1> SUFFICES ASSUME LocalTypeOK, ListsAreLive, [LocalNext]_localVars PROVE ListsAreLive'
  BY DEF RInv, LocalIInv
<1> USE ProcessAssumption DEF ListsAreLive
<1>t. \A d \in Daemons : victims[d] \subseteq Processes
  BY DEF LocalTypeOK
<1>1. ASSUME NEW c \in Clients, Client(c), ~Spawn(c) PROVE ListsAreLive'
  BY <1>1, <1>t, ClientSteps DEF TookOver, Processes
<1>2. ASSUME NEW c \in Clients, Spawn(c) PROVE ListsAreLive'
  BY <1>2, <1>t, SpawnStep DEF TookOver, Processes
<1>3. ASSUME NEW d \in Daemons, KillByPidFile(d) PROVE ListsAreLive'
  BY <1>3, <1>t DEF KillByPidFile, Kill, TookOver, LocalTypeOK, Processes, clientVars, history
<1>4. ASSUME NEW d \in Daemons, List(d) PROVE ListsAreLive'
  BY <1>4, <1>t DEF List, Step, TookOver, LocalTypeOK, Processes, Running
<1>5. ASSUME NEW d \in Daemons, KillListed(d) PROVE ListsAreLive'
  BY <1>5, <1>t DEF KillListed, Kill, TookOver, LocalTypeOK, Processes
<1>6. ASSUME NEW d \in Daemons,
             RemoveSocket(d) \/ WritePid(d) \/ Listen(d) \/ Finish(d) \/ CloseListener(d) \/ Exit(d)
      PROVE  ListsAreLive'
  BY <1>6, <1>t, LateSteps DEF TookOver, Processes
<1>7. CASE KillSession \/ UNCHANGED localVars
  BY <1>7 DEF KillSession, localVars, clientVars, history, TookOver
<1>8. ASSUME NEW p \in Processes, Die(p) PROVE ListsAreLive'
  BY <1>8, <1>t, DieStep DEF TookOver, Processes
<1> QED
  BY <1>1, <1>2, <1>3, <1>4, <1>5, <1>6, <1>7, <1>8 DEF LocalNext, Daemon

LEMMA StepSpawnersPoll == RInv /\ [LocalNext]_localVars => SpawnersPoll'
<1> SUFFICES ASSUME LocalTypeOK, SpawnersPoll, [LocalNext]_localVars PROVE SpawnersPoll'
  BY DEF RInv, LocalIInv
<1> USE ProcessAssumption DEF SpawnersPoll
<1>t. \A d \in Daemons : spawner[d] # None => spawner[d] \in Processes \ Daemons
  BY DEF LocalTypeOK, Processes
<1>1. ASSUME NEW c \in Clients, Client(c), ~Spawn(c) PROVE SpawnersPoll'
  BY <1>1, <1>t, ClientSteps
<1>2. ASSUME NEW c \in Clients, Spawn(c) PROVE SpawnersPoll'
  BY <1>2, <1>t, SpawnStep DEF Processes
<1>3. ASSUME NEW d \in Daemons, KillByPidFile(d) PROVE SpawnersPoll'
  BY <1>3, <1>t DEF KillByPidFile, Kill, LocalTypeOK, Processes, clientVars, history
<1>4. ASSUME NEW d \in Daemons, List(d) PROVE SpawnersPoll'
  BY <1>4, <1>t DEF List, Step, LocalTypeOK, Processes, clientVars, history
<1>5. ASSUME NEW d \in Daemons, KillListed(d) PROVE SpawnersPoll'
  BY <1>5, <1>t DEF KillListed, Kill, LocalTypeOK, Processes, clientVars, history
<1>6. ASSUME NEW d \in Daemons,
             RemoveSocket(d) \/ WritePid(d) \/ Listen(d) \/ Finish(d) \/ CloseListener(d) \/ Exit(d)
      PROVE  SpawnersPoll'
  BY <1>6, <1>t, LateSteps
<1>7. CASE KillSession \/ UNCHANGED localVars
  BY <1>7 DEF KillSession, localVars, clientVars, history
<1>8. ASSUME NEW p \in Processes, Die(p) PROVE SpawnersPoll'
  BY <1>8, <1>t, DieStep
<1> QED
  BY <1>1, <1>2, <1>3, <1>4, <1>5, <1>6, <1>7, <1>8 DEF LocalNext, Daemon

LEMMA StepLaterListsHave == RInv /\ [LocalNext]_localVars => LaterListsHave'
<1> SUFFICES ASSUME LocalTypeOK, ListsAreLive, LaterListsHave, [LocalNext]_localVars PROVE LaterListsHave'
  BY DEF RInv, LocalIInv
<1> USE ProcessAssumption DEF LaterListsHave
<1>t. \A d \in Daemons : victims[d] \subseteq Processes
  BY DEF LocalTypeOK
<1>1. ASSUME NEW c \in Clients, Client(c), ~Spawn(c) PROVE LaterListsHave'
  <2>1. \A p \in Processes : Running(p)' /\ ~Running(p) => at[p] = "unborn"
    BY <1>1, ClientSteps DEF Running
  <2>2. \A d \in Daemons : at'[d] = at[d]
    BY <1>1, ClientSteps DEF Processes
  <2> QED
    BY <1>1, <1>t, <2>1, <2>2, ClientSteps DEF TookOver, ListsAreLive
<1>2. ASSUME NEW c \in Clients, Spawn(c) PROVE LaterListsHave'
  BY <1>2, <1>t, SpawnStep DEF TookOver, ListsAreLive, Running, Processes
<1>3. ASSUME NEW d \in Daemons, KillByPidFile(d) PROVE LaterListsHave'
  <2>1. /\ at'[d] = "pid" /\ victims' = victims /\ spawner' = spawner
        /\ at[d] = "start"
        /\ \A p \in Processes \ {d} : at'[p] = at[p] \/ at'[p] = "gone"
    BY <1>3 DEF KillByPidFile, Kill, LocalTypeOK, Processes, clientVars, history
  <2> QED
    BY <2>1, <1>t DEF TookOver, Running, Processes
<1>4. ASSUME NEW d \in Daemons, List(d) PROVE LaterListsHave'
  <2>1. /\ at[d] = "pid" /\ at'[d] = "listed" /\ spawner' = spawner
        /\ \A p \in Processes \ {d} : at'[p] = at[p]
        /\ victims'[d] = {p \in Processes : Running(p)} \ {d, spawner[d]}
        /\ \A e \in Daemons \ {d} : victims'[e] = victims[e]
    BY <1>4 DEF List, Step, LocalTypeOK, Processes, clientVars, history
  <2>2. \A p \in Processes : Running(p)' <=> Running(p)
    BY <2>1 DEF Running, Processes
  <2>3. \A a \in Daemons \ {d} : TookOver(a)' \/ at'[a] = "listed" => a \in Processes /\ Running(a)
    BY <2>1 DEF TookOver, Running, Processes
  <2>4. spawner[d] \notin Daemons
    BY DEF LocalTypeOK
  <2>5. ASSUME NEW a \in Daemons, NEW e \in Daemons, NEW p \in victims'[e],
               p # a, p # spawner'[a], Running(p)',
               TookOver(a)' \/ (at'[a] = "listed" /\ p \notin victims'[a])
        PROVE  a \in victims'[e]
    <3>1. CASE a = d
      BY <2>1, <2>2, <2>5, <3>1, <1>t DEF TookOver
    <3>2. CASE a # d /\ e = d
      BY <2>1, <2>3, <2>4, <2>5, <3>2
    <3>3. CASE a # d /\ e # d
      <4>1. p \in Processes
        BY <2>1, <2>5, <3>3, <1>t
      <4> QED
        BY <2>1, <2>2, <2>5, <3>3, <4>1 DEF TookOver, Processes
    <3> QED
      BY <3>1, <3>2, <3>3
  <2> QED
    BY <2>5
<1>5. ASSUME NEW d \in Daemons, KillListed(d) PROVE LaterListsHave'
  <2>1. /\ victims'[d] = {} /\ spawner' = spawner
        /\ \A p \in victims[d] : ~Running(p)'
        /\ \A p \in Processes : at'[p] = at[p] \/ at'[p] = "gone"
        /\ \A e \in Daemons \ {d} : victims'[e] = victims[e]
    BY <1>5, <1>t DEF KillListed, Kill, LocalTypeOK, Processes, clientVars, Running
  <2>2. \A p \in Processes : Running(p)' => Running(p)
    BY <2>1 DEF Running
  <2>3. \A a \in Daemons : /\ TookOver(a)' => TookOver(a)
                           /\ at'[a] = "listed" => at[a] = "listed"
    BY <2>1 DEF TookOver, Processes
  <2> QED
    BY <1>t, <2>1, <2>2, <2>3
<1>6. ASSUME NEW d \in Daemons,
             RemoveSocket(d) \/ WritePid(d) \/ Listen(d) \/ Finish(d) \/ CloseListener(d) \/ Exit(d)
      PROVE  LaterListsHave'
  <2>1. \A p \in Processes : Running(p)' => Running(p)
    BY <1>6, LateSteps DEF Running, TookOver
  <2>2. \A a \in Daemons : /\ at'[a] = "listed" => at[a] = "listed"
                           /\ TookOver(a)' => TookOver(a) \/ (at[a] = "listed" /\ victims[a] = {})
    BY <1>6, LateSteps DEF TookOver, Processes
  <2> QED
    BY <1>t, <1>6, <2>1, <2>2, LateSteps
<1>7. CASE KillSession \/ UNCHANGED localVars
  BY <1>7 DEF KillSession, localVars, clientVars, TookOver, Running
<1>8. ASSUME NEW q \in Processes, Die(q) PROVE LaterListsHave'
  <2>1. \A p \in Processes : at'[p] = at[p] \/ at'[p] = "gone"
    BY <1>8, DieStep
  <2>2. \A p \in Processes : Running(p)' => Running(p)
    BY <2>1 DEF Running
  <2>3. \A a \in Daemons : /\ TookOver(a)' => TookOver(a)
                           /\ at'[a] = "listed" => at[a] = "listed"
    BY <2>1 DEF TookOver, Processes
  <2> QED
    BY <1>t, <1>8, <2>2, <2>3, DieStep
<1> QED
  BY <1>1, <1>2, <1>3, <1>4, <1>5, <1>6, <1>7, <1>8 DEF LocalNext, Daemon

\* Who a scan that spares d has listed is no more: what is about to replace
\* d is killed only together with d.
LEMMA ReplacementLives ==
  ASSUME RInv, NEW d \in Daemons, at[d] = "serving", NEW e \in Daemons, d \notin victims[e],
         NEW p \in Processes \ {d}, Running(p), p \in Daemons \/ at[p] = "spawn"
  PROVE  p \notin victims[e]
<1>1. p # spawner[d]
  BY ProcessAssumption DEF RInv, LocalIInv, LocalTypeOK, SpawnersPoll, Running, Processes
<1> QED
  BY <1>1 DEF RInv, LaterListsHave, TookOver

\* What is lost stays on the record.
LEMMA ForsakenStay == [LocalNext]_localVars => forsaken \subseteq forsaken'
BY DEF LocalNext, Client, Daemon, KillSession, Die, localVars, Start, Attach, OpenLock, Lock,
   NoLock, Recheck, RemoveStale, Spawn, GiveUp, Leave, KillByPidFile, List, KillListed,
   RemoveSocket, WritePid, Listen, Finish, CloseListener, Exit, clientVars, history

LEMMA StepServingIsReachable == RInv /\ [LocalNext]_localVars => ServingIsReachable'
<1> SUFFICES ASSUME RInv, [LocalNext]_localVars,
                    NEW d \in Daemons, at'[d] = "serving", sock' # d, d \notin forsaken'
             PROVE  \/ \E c \in Clients : at'[c] = "spawn"
                    \/ \E e \in Daemons \ {d} : Running(e)'
  BY DEF ServingIsReachable
<1> USE ProcessAssumption DEF RInv, LocalIInv
<1>o. \A e \in Daemons : TookOver(e) \/ (at[e] = "listed" /\ victims[e] = {}) =>
                           e = d \/ at[d] # "serving"
  BY DEF ScansCover, Covered, TookOver, Running
<1>l. d \notin forsaken
  BY ForsakenStay
<1>s. at[d] = "serving" /\ sock # d =>
        \/ \E c \in Clients : at[c] = "spawn"
        \/ \E e \in Daemons \ {d} : Running(e)
  BY <1>l DEF ServingIsReachable
<1>1. ASSUME NEW c \in Clients, Client(c), ~Spawn(c)
      PROVE  \/ \E b \in Clients : at'[b] = "spawn"
             \/ \E e \in Daemons \ {d} : Running(e)'
  BY <1>1, <1>s, ClientSteps DEF Processes, Running
<1>2. ASSUME NEW c \in Clients, Spawn(c) PROVE \E e \in Daemons \ {d} : Running(e)'
  BY <1>2, SpawnStep DEF Running
<1>3. ASSUME NEW e \in Daemons, KillByPidFile(e) PROVE Running(e)' /\ e # d
  BY <1>3 DEF KillByPidFile, Kill, Running, LocalTypeOK, Processes
<1>4. ASSUME NEW e \in Daemons, List(e) PROVE Running(e)' /\ e # d
  BY <1>4 DEF List, Step, Running, LocalTypeOK, Processes
<1>5. ASSUME NEW e \in Daemons, KillListed(e)
      PROVE  \/ \E c \in Clients : at'[c] = "spawn"
             \/ \E a \in Daemons \ {d} : Running(a)'
  <2>1. /\ at[d] = "serving" /\ d \notin victims[e] /\ sock' = sock
        /\ \A p \in Processes \ victims[e] : at'[p] = at[p]
    BY <1>5 DEF KillListed, Kill, LocalTypeOK, Processes, files, Running
  <2>2. PICK p \in Processes \ {d} : Running(p) /\ (p \in Daemons \/ (p \in Clients /\ at[p] = "spawn"))
    BY <1>s, <2>1 DEF Processes, Running
  <2>3. p \notin victims[e]
    BY <2>1, <2>2, ReplacementLives
  <2> QED
    BY <2>1, <2>2, <2>3 DEF Running
<1>6. ASSUME NEW e \in Daemons,
             RemoveSocket(e) \/ WritePid(e) \/ Listen(e) \/ Finish(e) \/ CloseListener(e) \/ Exit(e)
      PROVE  FALSE
  <2>1. e # d
    BY <1>6, LateSteps
  <2>2. at[d] = "serving"
    BY <1>6, <2>1, LateSteps DEF Processes
  <2> QED
    BY <1>6, <1>o, <2>1, <2>2, LateSteps
<1>7. CASE KillSession
  <2>1. at' = at /\ sock # d
    BY <1>7 DEF KillSession
  <2> QED
    BY <1>s, <2>1 DEF Running
<1>8. CASE UNCHANGED localVars
  BY <1>8, <1>s DEF localVars, Running
<1>9. ASSUME NEW p \in Processes, Die(p)
      PROVE  \/ \E c \in Clients : at'[c] = "spawn"
             \/ \E e \in Daemons \ {d} : Running(e)'
  <2>1. d # p /\ at[d] = "serving" /\ sock # d
    BY <1>9, DieStep DEF Processes
  <2>2. p \in Clients /\ at[p] # "spawn"
    BY <1>9, <2>1, DieStep DEF Unreachable, Processes
  <2> QED
    BY <1>9, <1>s, <2>1, <2>2, DieStep DEF Running, Processes
<1> QED
  BY <1>1, <1>2, <1>3, <1>4, <1>5, <1>6, <1>7, <1>8, <1>9 DEF LocalNext, Daemon

LEMMA ReachInvariance == LocalSpec => []RInv
<1>1. RInv /\ [LocalNext]_localVars => RInv'
  BY StepTypeOK, StepScansCover, StepListsAreLive, StepSpawnersPoll, StepLaterListsHave,
     StepServingIsReachable DEF RInv, LocalIInv
<1> QED
  BY <1>1, InitRInv, PTL DEF LocalSpec

\* However many clients and daemons of a socket race with or without the lock,
\* and end at any step (main.go:34-80, 180-204, 262-273, 1493-1523), a daemon
\* that serves is found at its socket, unless opKillSession removed it, another
\* daemon is about to take over, or the one that was about to has ended.
THEOREM ServersAreReachable == LocalSpec => []ServingIsReachable
<1>1. RInv => ServingIsReachable
  BY DEF RInv
<1> QED
  BY <1>1, ReachInvariance, PTL
=============================================================================
