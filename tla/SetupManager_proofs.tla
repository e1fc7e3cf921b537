------------------------ MODULE SetupManager_proofs ------------------------
(***************************************************************************)
(* Proofs about SetupManager, for any number of connections, projects and  *)
(* hosts: its invariants, that an invalidation sticks, and that it         *)
(* implements SingleFlight.                                                *)
(***************************************************************************)
EXTENDS SetupManager, TLAPS

\* The mutex of a host belongs to the caller that works on the host.
LockHeld ==
  /\ \A c \in Callers : pc[c] \in LockedPoints => hostLock[HostOfCall(c)] = c
  /\ \A h \in Hosts : hostLock[h] # Nobody =>
       pc[hostLock[h]] \in LockedPoints /\ HostOfCall(hostLock[h]) = h

\* The cache may lag behind the latest result on a host only between that result
\* and the mark, and the caller that is about to mark holds the mutex.
MarksPending ==
  /\ \A c \in Callers : pc[c] = "markFailed" => lastWork[HostOfCall(c)] = "failed"
  /\ \A h \in unreachable :
       \/ lastWork[h] = "failed"
       \/ /\ hostLock[h] \in Callers
          /\ pc[hostLock[h]] = "markHealthy"

\* A run publishes a final state, and "ready" only for what it has earned.
ResultEarned ==
  \A c \in Callers :
    /\ pc[c] = "markHealthy" => earned[ps[c]] = req[c]
    /\ pc[c] \in {"unlock", "publish"} =>
         \/ answer[c] = "failed"
         \/ answer[c] = "ready" /\ earned[ps[c]] = req[c]

\* The map never shares an object, and the entry a call runs is its project's.
MapInjective ==
  /\ \A p, q \in Projects : projects[p] = projects[q] /\ projects[p] # NoSetup => p = q
  /\ \A c \in Callers, p \in Projects :
       projects[p] = ps[c] /\ pc[c] # "idle" => req[c] = p

IInv ==
  /\ TypeOK
  /\ LockHeld
  /\ MarksPending
  /\ OneRunPerSetup
  /\ ResultEarned
  /\ MapInjective
  /\ ReadyIsEarned

LEMMA InitIInv == Init => IInv
BY HostOfAssumption, NullsAssumption
   DEF Init, IInv, TypeOK, PointersOK, LockHeld, MarksPending, OneRunPerSetup,
       ResultEarned, MapInjective, ReadyIsEarned, States, RunPoints, LockedPoints

LEMMA StepIInv == IInv /\ [Next]_vars => IInv'
<1> SUFFICES ASSUME IInv, [Next]_vars
             PROVE  IInv'
  OBVIOUS
<1> USE HostOfAssumption, NullsAssumption
    DEF IInv, TypeOK, PointersOK, LockHeld, MarksPending, OneRunPerSetup,
        ResultEarned, MapInjective, ReadyIsEarned, States, RunPoints, LockedPoints,
        Referenced, InMap, HostOfCall, Call, Return, Goto, Forget, callVars, healthVars
<1>1. ASSUME NEW c \in Callers, NEW p \in Projects, CallReady(c, p) PROVE IInv'
  BY <1>1 DEF CallReady
<1>2. ASSUME NEW c \in Callers, NEW p \in Projects, CallWait(c, p) PROVE IInv'
  BY <1>2 DEF CallWait
<1>3. ASSUME NEW c \in Callers, NEW p \in Projects, CallRun(c, p) PROVE IInv'
  <2>1. TypeOK'
    BY <1>3 DEF CallRun
  <2>2. LockHeld' /\ MarksPending'
    BY <1>3 DEF CallRun
  <2>3. OneRunPerSetup'
    BY <1>3 DEF CallRun
  <2>4. ResultEarned' /\ MapInjective' /\ ReadyIsEarned'
    BY <1>3 DEF CallRun
  <2> QED
    BY <2>1, <2>2, <2>3, <2>4
<1>4. ASSUME NEW c \in Callers, HostMarkedUnreachable(c) PROVE IInv'
  BY <1>4 DEF HostMarkedUnreachable
<1>5. ASSUME NEW c \in Callers, HostWorthTrying(c) PROVE IInv'
  BY <1>5 DEF HostWorthTrying
<1>6. ASSUME NEW c \in Callers, LockHost(c) PROVE IInv'
  <2>1. TypeOK'
    BY <1>6 DEF LockHost
  <2>2. LockHeld' /\ MarksPending'
    BY <1>6 DEF LockHost
  <2>3. OneRunPerSetup'
    BY <1>6 DEF LockHost
  <2>4. ResultEarned' /\ MapInjective' /\ ReadyIsEarned'
    BY <1>6 DEF LockHost
  <2> QED
    BY <2>1, <2>2, <2>3, <2>4
<1>7. ASSUME NEW c \in Callers, DeployBundle(c) PROVE IInv'
  BY <1>7 DEF DeployBundle
<1>8. ASSUME NEW c \in Callers, SshFails(c) PROVE IInv'
  <2>1. TypeOK'
    BY <1>8 DEF SshFails
  <2>2. LockHeld' /\ MarksPending'
    BY <1>8 DEF SshFails
  <2>3. OneRunPerSetup'
    BY <1>8 DEF SshFails
  <2>4. ResultEarned' /\ MapInjective' /\ ReadyIsEarned'
    BY <1>8 DEF SshFails
  <2> QED
    BY <2>1, <2>2, <2>3, <2>4
<1>20. ASSUME NEW c \in Callers, BundleFails(c) PROVE IInv'
  <2>1. TypeOK'
    BY <1>20 DEF BundleFails
  <2>2. LockHeld' /\ MarksPending'
    BY <1>20 DEF BundleFails
  <2>3. OneRunPerSetup'
    BY <1>20 DEF BundleFails
  <2>4. ResultEarned' /\ MapInjective' /\ ReadyIsEarned'
    BY <1>20 DEF BundleFails
  <2> QED
    BY <2>1, <2>2, <2>3, <2>4
<1>9. ASSUME NEW c \in Callers, RunBelveSetup(c) PROVE IInv'
  <2>1. TypeOK'
    BY <1>9 DEF RunBelveSetup
  <2>2. LockHeld' /\ MarksPending'
    BY <1>9 DEF RunBelveSetup
  <2>3. OneRunPerSetup'
    BY <1>9 DEF RunBelveSetup
  <2>4. ResultEarned' /\ MapInjective' /\ ReadyIsEarned'
    BY <1>9 DEF RunBelveSetup
  <2> QED
    BY <2>1, <2>2, <2>3, <2>4
<1>10. ASSUME NEW c \in Callers, MarkFailed(c) PROVE IInv'
  <2>1. TypeOK'
    BY <1>10 DEF MarkFailed
  <2>2. LockHeld' /\ MarksPending'
    BY <1>10 DEF MarkFailed
  <2>3. OneRunPerSetup'
    BY <1>10 DEF MarkFailed
  <2>4. ResultEarned' /\ MapInjective' /\ ReadyIsEarned'
    BY <1>10 DEF MarkFailed
  <2> QED
    BY <2>1, <2>2, <2>3, <2>4
<1>11. ASSUME NEW c \in Callers, MarkHealthy(c) PROVE IInv'
  <2>1. TypeOK'
    BY <1>11 DEF MarkHealthy
  <2>2. LockHeld'
    BY <1>11 DEF MarkHealthy
  <2>3. MarksPending'
    <3>1. hostLock[HostOfCall(c)] = c
      BY <1>11 DEF MarkHealthy
    <3>2. ASSUME NEW h \in unreachable', lastWork[h] # "failed"
          PROVE  hostLock[h] \in Callers /\ hostLock[h] # c /\ pc[hostLock[h]] = "markHealthy"
      BY <1>11, <3>1, <3>2 DEF MarkHealthy
    <3> QED
      BY <1>11, <3>1, <3>2 DEF MarkHealthy
  <2>4. OneRunPerSetup'
    BY <1>11 DEF MarkHealthy
  <2>5. ResultEarned' /\ MapInjective' /\ ReadyIsEarned'
    BY <1>11 DEF MarkHealthy
  <2> QED
    BY <2>1, <2>2, <2>3, <2>4, <2>5
<1>12. ASSUME NEW c \in Callers, UnlockHost(c) PROVE IInv'
  <2>1. TypeOK'
    BY <1>12 DEF UnlockHost
  <2>2. LockHeld'
    BY <1>12 DEF UnlockHost
  <2>3. MarksPending'
    <3>1. hostLock[HostOfCall(c)] = c
      BY <1>12 DEF UnlockHost
    <3>2. ASSUME NEW h \in unreachable', lastWork[h] # "failed"
          PROVE  hostLock[h] \in Callers /\ hostLock[h] # c /\ pc[hostLock[h]] = "markHealthy"
      BY <1>12, <3>1, <3>2 DEF UnlockHost
    <3> QED
      BY <1>12, <3>1, <3>2 DEF UnlockHost
  <2>4. OneRunPerSetup'
    BY <1>12 DEF UnlockHost
  <2>5. ResultEarned' /\ MapInjective' /\ ReadyIsEarned'
    BY <1>12 DEF UnlockHost
  <2> QED
    BY <2>1, <2>2, <2>3, <2>4, <2>5
<1>13. ASSUME NEW c \in Callers, Publish(c) PROVE IInv'
  <2>1. TypeOK'
    BY <1>13 DEF Publish, Finish
  <2>2. LockHeld' /\ MarksPending'
    BY <1>13 DEF Publish, Finish
  <2>3. OneRunPerSetup'
    BY <1>13 DEF Publish, Finish
  <2>4. ResultEarned' /\ MapInjective' /\ ReadyIsEarned'
    BY <1>13 DEF Publish, Finish
  <2> QED
    BY <2>1, <2>2, <2>3, <2>4
<1>14. ASSUME NEW c \in Callers, Reread(c) PROVE IInv'
  BY <1>14 DEF Reread
<1>15. ASSUME NEW p \in Projects, Invalidate(p) PROVE IInv'
  BY <1>15 DEF Invalidate
<1>16. ASSUME NEW h \in Hosts, InvalidateForHost(h) PROVE IInv'
  BY <1>16 DEF InvalidateForHost
<1>17. ASSUME NEW h \in Hosts, ResetHostHealth(h) PROVE IInv'
  BY <1>17 DEF ResetHostHealth
<1>18. CASE InvalidateAll
  BY <1>18 DEF InvalidateAll
<1>19. CASE UNCHANGED vars
  BY <1>19 DEF vars
<1> QED
  BY ZenonT(40), <1>1, <1>2, <1>3, <1>4, <1>5, <1>6, <1>7, <1>8, <1>9, <1>10, <1>11, <1>12, <1>13, <1>14, <1>15, <1>16, <1>17, <1>18, <1>19, <1>20
     DEF Next, RunStep, SshEnds

\* Every conjunct of the invariant holds in every reachable state.
THEOREM Invariance == Spec => []IInv
BY InitIInv, StepIInv, PTL DEF Spec

THEOREM TypeCorrect == Spec => []TypeOK
<1>1. IInv => TypeOK
  BY DEF IInv
<1> QED
  BY <1>1, Invariance, PTL

\* scp and ssh never run twice at a time on a host: two callers there would
\* both hold the mutex of the host.
THEOREM SshExclusion == Spec => []OneSshPerHost
<1>1. IInv => OneSshPerHost
  BY DEF IInv, LockHeld, OneSshPerHost, SshPoints, LockedPoints
<1> QED
  BY <1>1, Invariance, PTL

\* `done` of an object is closed once per run, and whoever waits is woken by it.
THEOREM RunsAreSingle == Spec => []OneRunPerSetup
<1>1. IInv => OneRunPerSetup
  BY DEF IInv
<1> QED
  BY <1>1, Invariance, PTL

\* The fast path answers "ready" only after a complete setup of the project.
THEOREM ReadyEarned == Spec => []ReadyIsEarned
<1>1. IInv => ReadyIsEarned
  BY DEF IInv
<1> QED
  BY <1>1, Invariance, PTL

\* With nobody at work on a host, it is marked unreachable only if the latest
\* work there failed, in preparing the bundle or over SSH.
THEOREM CacheHonest == Spec => []HealthCacheHonest
<1>1. IInv => HealthCacheHonest
  BY NullsAssumption DEF IInv, MarksPending, HealthCacheHonest
<1> QED
  BY <1>1, Invariance, PTL

\* An overtaken run never brings its object back into the map.
THEOREM Invalidated == Spec => InvalidationSticks
<1>1. IInv /\ [Next]_vars =>
        [\A o \in Setups : Referenced(o) /\ o \notin InMap => o \notin InMap']_vars
  <2> SUFFICES ASSUME IInv, Next, NEW o \in Setups, Referenced(o), o \notin InMap
               PROVE  o \notin InMap'
    BY DEF vars
  <2> USE DEF IInv, TypeOK, Referenced, InMap
  <2>1. ASSUME NEW c \in Callers, NEW p \in Projects, CallRun(c, p)
        PROVE  o \notin InMap'
    BY <2>1 DEF CallRun
  <2>2. ASSUME NEW P \in SUBSET Projects, Forget(P)
        PROVE  o \notin InMap'
    BY <2>2 DEF Forget
  <2>3. CASE UNCHANGED projects
    BY <2>3
  <2>4. \/ UNCHANGED projects
        \/ \E c \in Callers, p \in Projects : CallRun(c, p)
        \/ \E P \in SUBSET Projects : Forget(P)
    <3>1. CASE \E p \in Projects : Invalidate(p)
      BY <3>1 DEF Invalidate
    <3>2. CASE \E h \in Hosts : InvalidateForHost(h)
      BY <3>2 DEF InvalidateForHost
    <3>3. CASE InvalidateAll
      BY <3>3 DEF InvalidateAll
    <3>4. ASSUME NEW c \in Callers, NEW p \in Projects, CallReady(c, p) \/ CallWait(c, p)
          PROVE  UNCHANGED projects
      BY <3>4 DEF CallReady, CallWait
    <3>5. ASSUME NEW c \in Callers, RunStep(c) \/ SshEnds(c) \/ LockHost(c)
          PROVE  UNCHANGED projects
      BY <3>5 DEF RunStep, SshEnds, HostMarkedUnreachable, HostWorthTrying, LockHost,
             DeployBundle, BundleFails, SshFails, RunBelveSetup, MarkFailed, MarkHealthy,
             UnlockHost, Publish, Finish, Reread
    <3>6. ASSUME NEW h \in Hosts, ResetHostHealth(h)
          PROVE  UNCHANGED projects
      BY <3>6 DEF ResetHostHealth
    <3> QED
      BY <3>1, <3>2, <3>3, <3>4, <3>5, <3>6 DEF Next
  <2> QED
    BY <2>1, <2>2, <2>3, <2>4
<1> QED
  BY <1>1, Invariance, PTL DEF Spec, InvalidationSticks

-----------------------------------------------------------------------------
(* SetupManager implements SingleFlight: a run is a flight for its object.  *)

LEMMA InitFlights == Init => Flights!Init
BY DEF Init, Flights!Init, Role, RunPoints

LEMMA StepFlights == IInv /\ [Next]_vars => [Flights!Next]_Flights!vars
<1> SUFFICES ASSUME IInv, [Next]_vars
             PROVE  Flights!Next \/ UNCHANGED Flights!vars
  BY DEF Flights!vars
<1> USE NullsAssumption
    DEF IInv, TypeOK, PointersOK, RunPoints, Role, Call, Return, Goto,
        callVars, healthVars, Flights!vars
<1>1. ASSUME NEW c \in Callers, NEW p \in Projects, CallReady(c, p)
      PROVE  UNCHANGED Flights!vars
  BY <1>1 DEF CallReady
<1>2. ASSUME NEW c \in Callers, NEW p \in Projects, CallWait(c, p)
      PROVE  Flights!Join(c, projects[p])
  BY <1>2 DEF CallWait, Flights!Join
<1>3. ASSUME NEW c \in Callers, NEW p \in Projects, CallRun(c, p)
      PROVE  \E o \in Setups : Flights!Lead(c, o)
  <2>1. PICK o \in Setups :
          /\ \/ o = projects[p] /\ state[o] \in {"idle", "failed"}
             \/ projects[p] = NoSetup /\ ~Referenced(o)
          /\ Call(c, p, o, "check")
          /\ state' = [state EXCEPT ![o] = "running"]
    BY <1>3 DEF CallRun
  <2>2. state[o] # "running"
    BY <2>1 DEF OneRunPerSetup, Referenced
  <2>3. {x \in Setups : state'[x] = "running"}
          = {x \in Setups : state[x] = "running"} \union {o}
    BY <2>1
  <2> QED
    BY <2>1, <2>2, <2>3 DEF Flights!Lead
<1>4. ASSUME NEW c \in Callers,
             \/ HostMarkedUnreachable(c) \/ HostWorthTrying(c) \/ LockHost(c)
             \/ DeployBundle(c) \/ BundleFails(c) \/ SshFails(c) \/ RunBelveSetup(c)
             \/ MarkFailed(c) \/ MarkHealthy(c) \/ UnlockHost(c)
      PROVE  UNCHANGED Flights!vars
  BY <1>4 DEF HostMarkedUnreachable, HostWorthTrying, LockHost, DeployBundle,
         BundleFails, SshFails, RunBelveSetup, MarkFailed, MarkHealthy, UnlockHost
<1>5. ASSUME NEW c \in Callers, Publish(c)
      PROVE  Flights!Land(c)
  BY <1>5 DEF Publish, Finish, Flights!Land, ResultEarned
<1>6. ASSUME NEW c \in Callers, Reread(c)
      PROVE  Flights!Leave(c)
  BY <1>6 DEF Reread, Flights!Leave
<1>7. CASE \/ \E p \in Projects : Invalidate(p)
           \/ \E h \in Hosts : InvalidateForHost(h) \/ ResetHostHealth(h)
           \/ InvalidateAll
  BY <1>7 DEF Invalidate, InvalidateForHost, ResetHostHealth, InvalidateAll, Forget
<1>8. CASE UNCHANGED vars
  BY <1>8 DEF vars
<1>9. ASSUME NEW c \in Callers, NEW p \in Projects, CallWait(c, p)
      PROVE  projects[p] \in Setups
  BY <1>9 DEF CallWait
<1> HIDE DEF IInv, TypeOK, PointersOK, RunPoints, Role, Call, Return, Goto,
             callVars, healthVars, Flights!vars
<1> QED
  BY <1>1, <1>2, <1>3, <1>4, <1>5, <1>6, <1>7, <1>8, <1>9
     DEF Next, RunStep, SshEnds, Flights!Next

\* Calls for the same object are single flights: one leads, the others wait
\* and are all told when it lands.
THEOREM Refinement == Spec => SetupsAreFlights
BY InitFlights, StepFlights, Invariance, PTL DEF Spec, SetupsAreFlights, Flights!Spec
=============================================================================
