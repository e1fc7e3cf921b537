---------------------------- MODULE SetupManager ----------------------------
(***************************************************************************)
(* The setup orchestration of the Mac master daemon                        *)
(* (tools/belve-persist/setup.go) with the host reachability cache it      *)
(* consults (host_health.go).                                              *)
(*                                                                         *)
(* A caller is one connection to the master: handleMasterConn serves the   *)
(* requests of a connection one after the other, so a connection has at    *)
(* most one ensureSetup call in progress and calls of several connections  *)
(* interleave.  A projectSetup is a heap object: the map `projects` points *)
(* to it, a call in progress keeps its own pointer, and an invalidation    *)
(* only takes it out of the map.  An object nobody points to any more is   *)
(* garbage and may be allocated again.                                     *)
(*                                                                         *)
(* A project's host never changes (ProjectStore.connectSSH makes a project *)
(* with a new id), so HostOf stands for both projectSetup.host and         *)
(* setupReq.Host.  Calls with an empty field and markReady, which nothing  *)
(* calls, are left out.                                                    *)
(***************************************************************************)
CONSTANTS
  Callers,    \* connections to the master
  Projects,   \* project ids
  Hosts,      \* SSH hosts
  HostOf,     \* the host of each project
  Setups,     \* the heap cells for projectSetup objects
  NoSetup,    \* "no entry in the map"
  NoProject,
  Nobody

ASSUME HostOfAssumption == HostOf \in [Projects -> Hosts]
ASSUME NullsAssumption ==
  /\ NoSetup \notin Setups
  /\ NoProject \notin Projects
  /\ Nobody \notin Callers

VARIABLES
  projects,     \* setupManager.projects
  state,        \* projectSetup.state of each object
  hostLock,     \* who holds the mutex of each host
  unreachable,  \* the hosts whose hostHealthState.failedAt is set
  pc,           \* where each caller is in ensureSetup / runSetup
  req,          \* the project of each caller's current call
  ps,           \* the caller's pointer to its projectSetup
  answer,       \* the setupState the call returned, or is about to return;
                \* "idle" while it is not known
  earned,       \* history: the project whose belve-setup ended well for the
                \* current run of an object
  lastWork      \* history: how the latest work under the mutex of each host
                \* ended: the bundle, scp, ssh and belve-setup

healthVars == <<unreachable, lastWork>>
callVars == <<req, ps>>
vars == <<projects, state, hostLock, unreachable, pc, req, ps, answer,
          earned, lastWork>>

States == {"idle", "running", "ready", "failed"}

\* The points of a call that leads a run, before its result is published.
RunPoints == {"check", "lock", "deploy", "install", "markFailed",
              "markHealthy", "unlock", "publish"}
\* The points at which the caller holds the mutex of its host ...
LockedPoints == {"deploy", "install", "markFailed", "markHealthy", "unlock"}
\* ... and those at which the bundle is made or an SSH command of its runs.
SshPoints == {"deploy", "install"}

InMap == {projects[p] : p \in Projects} \ {NoSetup}
Referenced(o) == o \in InMap \/ \E c \in Callers : ps[c] = o

HostOfCall(c) == HostOf[req[c]]

Init ==
  /\ projects = [p \in Projects |-> NoSetup]
  /\ state = [o \in Setups |-> "idle"]
  /\ hostLock = [h \in Hosts |-> Nobody]
  /\ unreachable = {}
  /\ pc = [c \in Callers |-> "idle"]
  /\ req = [c \in Callers |-> NoProject]
  /\ ps = [c \in Callers |-> NoSetup]
  /\ answer = [c \in Callers |-> "idle"]
  /\ earned = [o \in Setups |-> NoProject]
  /\ lastWork = [h \in Hosts |-> "none"]

-----------------------------------------------------------------------------
(* ensureSetup: the part under sm.mu that decides what the call does.      *)

Call(c, p, o, point) ==
  /\ pc[c] = "idle"
  /\ pc' = [pc EXCEPT ![c] = point]
  /\ req' = [req EXCEPT ![c] = p]
  /\ ps' = [ps EXCEPT ![c] = o]
  /\ answer' = [answer EXCEPT ![c] = "idle"]

Return(c, st) ==
  /\ req' = [req EXCEPT ![c] = NoProject]
  /\ ps' = [ps EXCEPT ![c] = NoSetup]
  /\ answer' = [answer EXCEPT ![c] = st]

\* The setup of the project is done: answer at once.
CallReady(c, p) ==
  /\ pc[c] = "idle"
  /\ projects[p] # NoSetup
  /\ state[projects[p]] = "ready"
  /\ Return(c, "ready")
  /\ UNCHANGED <<projects, state, hostLock, pc, earned, healthVars>>

\* A run is in progress: wait for its done channel.
CallWait(c, p) ==
  /\ projects[p] # NoSetup
  /\ state[projects[p]] = "running"
  /\ Call(c, p, projects[p], "wait")
  /\ UNCHANGED <<projects, state, hostLock, earned, healthVars>>

\* Broken variant: a second call runs although a run is in progress.
CallRunAnyway(c, p) ==
  \E o \in Setups :
    /\ \/ o = projects[p] /\ state[o] # "ready"
       \/ projects[p] = NoSetup /\ ~Referenced(o)
    /\ Call(c, p, o, "check")
    /\ projects' = [projects EXCEPT ![p] = o]
    /\ state' = [state EXCEPT ![o] = "running"]
    /\ earned' = [earned EXCEPT ![o] = NoProject]
    /\ UNCHANGED <<hostLock, healthVars>>

\* The previous run failed, or the project has no entry: this caller runs.
CallRun(c, p) ==
  \E o \in Setups :
    /\ \/ o = projects[p] /\ state[o] \in {"idle", "failed"}
       \/ projects[p] = NoSetup /\ ~Referenced(o)
    /\ Call(c, p, o, "check")
    /\ projects' = [projects EXCEPT ![p] = o]
    /\ state' = [state EXCEPT ![o] = "running"]
    /\ earned' = [earned EXCEPT ![o] = NoProject]
    /\ UNCHANGED <<hostLock, healthVars>>

-----------------------------------------------------------------------------
(* runSetup, by the caller that leads the run.                             *)

Goto(c, from, to) ==
  /\ pc[c] = from
  /\ pc' = [pc EXCEPT ![c] = to]

\* checkOrFail: the host failed less than 60 s ago, no SSH.
HostMarkedUnreachable(c) ==
  /\ Goto(c, "check", "publish")
  /\ HostOfCall(c) \in unreachable
  /\ answer' = [answer EXCEPT ![c] = "failed"]
  /\ UNCHANGED <<projects, state, hostLock, callVars, earned, healthVars>>

\* checkOrFail: never failed, or failed long enough ago, which also clears
\* the mark.
HostWorthTrying(c) ==
  /\ Goto(c, "check", "lock")
  /\ unreachable' = unreachable \ {HostOfCall(c)}
  /\ UNCHANGED <<projects, state, hostLock, callVars, answer, earned, lastWork>>

\* Broken variant: the mutex is taken without waiting for its holder.
LockHostAnyway(c) ==
  /\ Goto(c, "lock", "deploy")
  /\ hostLock' = [hostLock EXCEPT ![HostOfCall(c)] = c]
  /\ UNCHANGED <<projects, state, callVars, answer, earned, healthVars>>

LockHost(c) ==
  /\ Goto(c, "lock", "deploy")
  /\ hostLock[HostOfCall(c)] = Nobody
  /\ hostLock' = [hostLock EXCEPT ![HostOfCall(c)] = c]
  /\ UNCHANGED <<projects, state, callVars, answer, earned, healthVars>>

DeployBundle(c) ==
  /\ Goto(c, "deploy", "install")
  /\ UNCHANGED <<projects, state, hostLock, callVars, answer, earned, healthVars>>

\* Broken variant: an error of belve-setup is ignored.
SshFailureIgnored(c) ==
  /\ Goto(c, "deploy", "markFailed") \/ Goto(c, "install", "markHealthy")
  /\ lastWork' = [lastWork EXCEPT ![HostOfCall(c)] = "failed"]
  /\ UNCHANGED <<projects, state, hostLock, callVars, answer, earned, unreachable>>

\* Broken variant: the mutex is released before the failure is recorded.
SshFailsUnlocked(c) ==
  /\ Goto(c, "deploy", "markFailed") \/ Goto(c, "install", "markFailed")
  /\ lastWork' = [lastWork EXCEPT ![HostOfCall(c)] = "failed"]
  /\ hostLock' = [hostLock EXCEPT ![HostOfCall(c)] = Nobody]
  /\ UNCHANGED <<projects, state, callVars, answer, earned, unreachable>>

\* The bundle cannot be made on this Mac (temporary files, copies, tar, md5).
\* No SSH was tried, and runSetup marks the host all the same.
BundleFails(c) ==
  /\ Goto(c, "deploy", "markFailed")
  /\ lastWork' = [lastWork EXCEPT ![HostOfCall(c)] = "failed"]
  /\ UNCHANGED <<projects, state, hostLock, callVars, answer, earned, unreachable>>

\* scp or ssh of deployBundle, or belve-setup itself, ends with an error.
SshFails(c) ==
  /\ Goto(c, "deploy", "markFailed") \/ Goto(c, "install", "markFailed")
  /\ lastWork' = [lastWork EXCEPT ![HostOfCall(c)] = "failed"]
  /\ UNCHANGED <<projects, state, hostLock, callVars, answer, earned, unreachable>>

RunBelveSetup(c) ==
  /\ Goto(c, "install", "markHealthy")
  /\ lastWork' = [lastWork EXCEPT ![HostOfCall(c)] = "ok"]
  /\ earned' = [earned EXCEPT ![ps[c]] = req[c]]
  /\ UNCHANGED <<projects, state, hostLock, callVars, answer, unreachable>>

\* Broken variant: the error path returns without the deferred unlock.
MarkFailedKeepsLock(c) ==
  /\ Goto(c, "markFailed", "publish")
  /\ unreachable' = unreachable \union {HostOfCall(c)}
  /\ answer' = [answer EXCEPT ![c] = "failed"]
  /\ UNCHANGED <<projects, state, hostLock, callVars, earned, lastWork>>

MarkFailed(c) ==
  /\ Goto(c, "markFailed", "unlock")
  /\ unreachable' = unreachable \union {HostOfCall(c)}
  /\ answer' = [answer EXCEPT ![c] = "failed"]
  /\ UNCHANGED <<projects, state, hostLock, callVars, earned, lastWork>>

MarkHealthy(c) ==
  /\ Goto(c, "markHealthy", "unlock")
  /\ unreachable' = unreachable \ {HostOfCall(c)}
  /\ answer' = [answer EXCEPT ![c] = "ready"]
  /\ UNCHANGED <<projects, state, hostLock, callVars, earned, lastWork>>

\* The deferred hl.Unlock().
UnlockHost(c) ==
  /\ Goto(c, "unlock", "publish")
  /\ hostLock' = [hostLock EXCEPT ![HostOfCall(c)] = Nobody]
  /\ UNCHANGED <<projects, state, callVars, answer, earned, healthVars>>

-----------------------------------------------------------------------------
(* ensureSetup: the end of a run and the waiters it wakes.                 *)

Finish(c, woken) ==
  /\ pc[c] = "publish"
  /\ state' = [state EXCEPT ![ps[c]] = answer[c]]
  /\ pc' = [d \in Callers |->
              IF d = c THEN "idle"
              ELSE IF pc[d] = "wait" /\ ps[d] = ps[c] THEN woken
              ELSE pc[d]]
  /\ Return(c, answer[c])
  /\ UNCHANGED <<hostLock, earned, healthVars>>

\* Broken variant: a waiter does not look at the result.
PublishAndForget(c) == Finish(c, "idle") /\ UNCHANGED projects

\* Broken variant: the waiters of a run that failed are not told.
PublishSuccess(c) ==
  /\ Finish(c, IF answer[c] = "ready" THEN "told" ELSE "wait")
  /\ UNCHANGED projects

\* Broken variant: the object is written back into the map.
PublishIntoMap(c) ==
  Finish(c, "told") /\ projects' = [projects EXCEPT ![req[c]] = ps[c]]

\* The result goes into the caller's own object, in the map or not any more,
\* and close(done) makes every waiter of the object runnable.
Publish(c) == Finish(c, "told") /\ UNCHANGED projects

\* A woken waiter takes sm.mu again and returns whatever state it finds.
Reread(c) ==
  /\ Goto(c, "told", "idle")
  /\ Return(c, state[ps[c]])
  /\ UNCHANGED <<projects, state, hostLock, earned, healthVars>>

-----------------------------------------------------------------------------
(* The operations that reset something.  Nobody waits for them.            *)

Forget(P) ==
  /\ projects' = [p \in Projects |-> IF p \in P THEN NoSetup ELSE projects[p]]
  /\ UNCHANGED <<state, hostLock, pc, callVars, answer, earned, healthVars>>

Invalidate(p) == projects[p] # NoSetup /\ Forget({p})

\* Called by the tunnel health check when it re-establishes a forward.
InvalidateForHost(h) == Forget({p \in Projects : HostOf[p] = h})

InvalidateAll == Forget(Projects)

\* opResetHostHealth: the user's Cmd+R / Retry.  The `ssh -O exit` that
\* follows may break an SSH command in progress, which SshFails allows.
ResetHostHealth(h) ==
  /\ unreachable' = unreachable \ {h}
  /\ UNCHANGED <<projects, state, hostLock, pc, callVars, answer, earned, lastWork>>

-----------------------------------------------------------------------------
\* The ends of what runs under the mutex, among them SSH commands without a
\* deadline: exec.Command without a context, and only connecting times out.
SshEnds(c) ==
  DeployBundle(c) \/ BundleFails(c) \/ SshFails(c) \/ RunBelveSetup(c)

RunStep(c) ==
  \/ HostMarkedUnreachable(c) \/ HostWorthTrying(c)
  \/ MarkFailed(c) \/ MarkHealthy(c) \/ UnlockHost(c)
  \/ Publish(c) \/ Reread(c)

Next ==
  \/ \E c \in Callers :
       \/ \E p \in Projects : CallReady(c, p) \/ CallWait(c, p) \/ CallRun(c, p)
       \/ RunStep(c) \/ SshEnds(c)
       \/ LockHost(c)
  \/ \E p \in Projects : Invalidate(p)
  \/ \E h \in Hosts : InvalidateForHost(h) \/ ResetHostHealth(h)
  \/ InvalidateAll

Spec == Init /\ [][Next]_vars

\* A goroutine that can run does, and sync.Mutex serves a waiter eventually
\* (its starvation mode), hence SF for the host mutex.  Nothing is assumed of
\* SSH commands: one may hang for ever, with the mutex of its host.
Fairness ==
  \A c \in Callers : WF_vars(RunStep(c)) /\ SF_vars(LockHost(c))

FairSpec == Spec /\ Fairness

-----------------------------------------------------------------------------
\* A caller in a call has a project and an object; outside it has neither.
PointersOK ==
  \A c \in Callers :
    IF pc[c] = "idle" THEN req[c] = NoProject /\ ps[c] = NoSetup
    ELSE req[c] \in Projects /\ ps[c] \in Setups

TypeOK ==
  /\ projects \in [Projects -> Setups \union {NoSetup}]
  /\ state \in [Setups -> States]
  /\ hostLock \in [Hosts -> Callers \union {Nobody}]
  /\ unreachable \in SUBSET Hosts
  /\ pc \in [Callers -> {"idle", "wait", "told"} \union RunPoints]
  /\ req \in [Callers -> Projects \union {NoProject}]
  /\ ps \in [Callers -> Setups \union {NoSetup}]
  /\ answer \in [Callers -> States]
  /\ earned \in [Setups -> Projects \union {NoProject}]
  /\ lastWork \in [Hosts -> {"none", "ok", "failed"}]
  /\ PointersOK

\* Setup's design rule "at most one SSH session per host": no two callers run
\* scp/ssh on the same host at a time, whatever projects they set up.
OneSshPerHost ==
  \A c, d \in Callers :
    /\ c # d
    /\ pc[c] \in SshPoints
    /\ pc[d] \in SshPoints
    => HostOfCall(c) # HostOfCall(d)

\* An object is in state running exactly while one call leads a run of it, so
\* `done` is closed once per run (a second close would panic the daemon), and
\* nobody waits on an object that no call will publish.
OneRunPerSetup ==
  /\ \A o \in Setups :
       state[o] = "running" <=>
         \E c \in Callers : pc[c] \in RunPoints /\ ps[c] = o
  /\ \A c, d \in Callers :
       /\ c # d
       /\ pc[c] \in RunPoints
       /\ pc[d] \in RunPoints
       => ps[c] # ps[d]
  /\ \A c \in Callers : pc[c] = "wait" => state[ps[c]] = "running"

\* An entry that answers "ready" at once was earned by a complete deploy and
\* belve-setup for that very project, whichever calls and invalidations
\* raced.
ReadyIsEarned ==
  \A p \in Projects :
    projects[p] # NoSetup /\ state[projects[p]] = "ready"
      => earned[projects[p]] = p

\* While nobody works on a host, a host marked unreachable is one whose latest
\* work under its mutex failed, on this Mac or over SSH: the results of two runs
\* are recorded in the order they happened.
HealthCacheHonest ==
  \A h \in Hosts :
    h \in unreachable /\ hostLock[h] = Nobody => lastWork[h] = "failed"

\* An invalidation sticks: a run that is overtaken by one never brings its
\* object, with its outdated result, back into the map.
InvalidationSticks ==
  [][\A o \in Setups : Referenced(o) /\ o \notin InMap => o \notin InMap']_vars

InCall(c, h) == pc[c] # "idle" /\ HostOfCall(c) = h

\* Every ensureSetup call is answered, unless the work under the mutex of its
\* host hangs for ever: whatever fails and races, only such a hang keeps calls
\* waiting, and only calls of that host.
CallsAnswered ==
  \A h \in Hosts :
    \/ <>[](\E c \in Callers : pc[c] \in SshPoints /\ InCall(c, h))
    \/ \A c \in Callers : InCall(c, h) ~> pc[c] = "idle"

-----------------------------------------------------------------------------
\* The setups as flights: a call leads a run, or waits for it.
Role(c) ==
  IF pc[c] \in RunPoints THEN "lead"
  ELSE IF pc[c] = "idle" THEN "out"
  ELSE pc[c]

Flights == INSTANCE SingleFlight WITH
  Workers <- Callers,
  Keys <- Setups,
  NoKey <- NoSetup,
  flying <- {o \in Setups : state[o] = "running"},
  role <- [c \in Callers |-> Role(c)],
  key <- ps

\* Setups are single flights per projectSetup object.
SetupsAreFlights == Flights!Spec
=============================================================================
