----------------------------- MODULE MuxManager -----------------------------
(***************************************************************************)
(* The Mac side of the multiplexed channel to each host                    *)
(* (tools/belve-persist/mux.go): one Unix socket listener and one yamux    *)
(* session per host, and one stream per pane client that connects.         *)
(*                                                                         *)
(* A client is an accepted connection, served by its own goroutine.  A     *)
(* session is a heap object: the map points to the current one, its        *)
(* clients and its watcher keep their own pointers.  A session nobody      *)
(* points to any more may be allocated again.                              *)
(***************************************************************************)
CONSTANTS
  Clients,    \* connections to the Unix sockets
  Openers,    \* ensureSetup calls that end in ensureListener
  Hosts,
  Sessions,   \* the heap cells for yamux sessions
  NoSession,
  NoHost

\* What a socket path leads to, when it is not the socket of a call of
\* ensureListener that is still to start its accept loop.
PathStates == {"nothing", "loop", "deaf"}

ASSUME NullsAssumption ==
  NoSession \notin Sessions /\ NoHost \notin Hosts /\ Openers \cap PathStates = {}

VARIABLES
  sessions,   \* muxManager.sessions
  spawning,   \* the hosts in muxManager.sessionsSpawning
  open,       \* the sessions that are not closed
  watched,    \* the sessions whose watchSession goroutine still runs
  peer,       \* the host each session leads to
  at,         \* where each client's handleClient is
  host,       \* the host each client wants
  sess,       \* each client's session: spawned, found or in use
  listeners,  \* the hosts in muxManager.listeners
  path,       \* what the socket path of each host leads to: nothing, the
              \* socket an ensureListener call has just made, a listener with
              \* its accept loop, or one whose loop has returned
  opener,     \* where each ensureListener call is
  target,     \* the host each ensureListener call is for
  refused     \* history: the hosts whose latest listen or accept the system
              \* refused

sessionVars == <<sessions, spawning, open, watched, peer>>
clientVars == <<at, host, sess>>
listenVars == <<listeners, path, opener, target, refused>>
muxVars == <<sessions, spawning, open, watched, peer, at, host, sess,
          listeners, path, opener, target, refused>>

MuxInit ==
  /\ sessions = [h \in Hosts |-> NoSession]
  /\ spawning = {}
  /\ open = {}
  /\ watched = {}
  /\ peer = [s \in Sessions |-> NoHost]
  /\ at = [c \in Clients |-> "idle"]
  /\ host = [c \in Clients |-> NoHost]
  /\ sess = [c \in Clients |-> NoSession]
  /\ listeners = {}
  /\ path = [h \in Hosts |-> "nothing"]
  /\ opener = [l \in Openers |-> "idle"]
  /\ target = [l \in Openers |-> NoHost]
  /\ refused = {}

-----------------------------------------------------------------------------
(* ensureListener.                                                         *)

ListenStep(l, from, to) ==
  /\ opener[l] = from
  /\ opener' = [opener EXCEPT ![l] = to]

\* The check under mm.mu; the lock is released before the socket is made.
CheckListener(l) ==
  \E h \in Hosts \ listeners :
    /\ ListenStep(l, "idle", "remove")
    /\ target' = [target EXCEPT ![l] = h]
    /\ UNCHANGED <<listeners, path, refused, sessionVars, clientVars>>

\* os.Remove: also unlinks the socket of a call that raced ahead, whose
\* listener nobody can reach from then on.
RemoveSocket(l) ==
  /\ ListenStep(l, "remove", "listen")
  /\ path' = [path EXCEPT ![target[l]] = "nothing"]
  /\ UNCHANGED <<listeners, target, refused, sessionVars, clientVars>>

Listen(l) ==
  /\ ListenStep(l, "listen", "record")
  /\ path[target[l]] = "nothing"
  /\ path' = [path EXCEPT ![target[l]] = l]
  /\ refused' = refused \ {target[l]}
  /\ UNCHANGED <<listeners, target, sessionVars, clientVars>>

\* The error is logged, and the next call for the host tries again.
GiveUp(l) ==
  /\ ListenStep(l, "listen", "idle")
  /\ target' = [target EXCEPT ![l] = NoHost]

\* Broken variant: the error path cleans up the socket file.
ListenFailsAndRemoves(l) ==
  /\ GiveUp(l)
  /\ path[target[l]] # "nothing"
  /\ path' = [path EXCEPT ![target[l]] = "nothing"]
  /\ UNCHANGED <<listeners, refused, sessionVars, clientVars>>

\* The path is taken again: "address already in use".
ListenFails(l) ==
  /\ GiveUp(l)
  /\ path[target[l]] # "nothing"
  /\ UNCHANGED <<listeners, path, refused, sessionVars, clientVars>>

\* No directory, no descriptor, ...: mkdir or listen is refused, after the
\* socket that was there has been unlinked.
ListenRefused(l) ==
  /\ GiveUp(l)
  /\ refused' = refused \union {target[l]}
  /\ UNCHANGED <<listeners, path, sessionVars, clientVars>>

\* The accept loop starts; the path leads to it unless another call has
\* unlinked it meanwhile.
RecordListener(l) ==
  /\ ListenStep(l, "record", "idle")
  /\ listeners' = listeners \union {target[l]}
  /\ path' = IF path[target[l]] = l THEN [path EXCEPT ![target[l]] = "loop"] ELSE path
  /\ target' = [target EXCEPT ![l] = NoHost]
  /\ UNCHANGED <<refused, sessionVars, clientVars>>

\* Accept ends with an error: the loop returns, and the socket and the entry
\* in listeners stay.
AcceptFails(h) ==
  /\ path[h] = "loop"
  /\ path' = [path EXCEPT ![h] = "deaf"]
  /\ refused' = refused \union {h}
  /\ UNCHANGED <<listeners, opener, target, sessionVars, clientVars>>

-----------------------------------------------------------------------------
(* handleClient and ensureSession.                                         *)

Step(c, from, to) == at[c] = from /\ at' = [at EXCEPT ![c] = to]

Live(h) == sessions[h] # NoSession /\ sessions[h] \in open

Accept(c) ==
  \E h \in Hosts :
    /\ path[h] = "loop"
    /\ Step(c, "idle", "ensure")
    /\ host' = [host EXCEPT ![c] = h]
    /\ UNCHANGED <<sess, sessionVars, listenVars>>

\* The deferred client.Close(), and that of the stream if there is one.
Close(c) ==
  /\ at' = [at EXCEPT ![c] = "idle"]
  /\ host' = [host EXCEPT ![c] = NoHost]
  /\ sess' = [sess EXCEPT ![c] = NoSession]

UseSession(c) ==
  /\ Step(c, "ensure", "open")
  /\ Live(host[c])
  /\ sess' = [sess EXCEPT ![c] = sessions[host[c]]]
  /\ UNCHANGED <<host, sessionVars, listenVars>>

WaitForSpawn(c) ==
  /\ Step(c, "ensure", "wait")
  /\ ~Live(host[c])
  /\ host[c] \in spawning
  /\ UNCHANGED <<host, sess, sessionVars, listenVars>>

\* Broken variant: a client spawns without looking at sessionsSpawning.
SpawnAnyway(c) ==
  /\ Step(c, "ensure", "spawn")
  /\ ~Live(host[c])
  /\ spawning' = spawning \union {host[c]}
  /\ UNCHANGED <<sessions, open, watched, peer, host, sess, listenVars>>

StartSpawn(c) ==
  /\ Step(c, "ensure", "spawn")
  /\ ~Live(host[c])
  /\ host[c] \notin spawning
  /\ spawning' = spawning \union {host[c]}
  /\ UNCHANGED <<sessions, open, watched, peer, host, sess, listenVars>>

Reachable(s) ==
  \/ \E h \in Hosts : sessions[h] = s
  \/ \E c \in Clients : sess[c] = s
  \/ s \in watched

\* spawnSession: forward, dial and yamux.Client all succeed.
SpawnSession(c) ==
  \E s \in Sessions :
    /\ ~Reachable(s)
    /\ Step(c, "spawn", "spawned")
    /\ sess' = [sess EXCEPT ![c] = s]
    /\ open' = open \union {s}
    /\ peer' = [peer EXCEPT ![s] = host[c]]
    /\ UNCHANGED <<sessions, spawning, watched, host, listenVars>>

WakeWaiters(c, result) ==
  at' = [d \in Clients |->
           IF d = c THEN result
           ELSE IF at[d] = "wait" /\ host[d] = host[c] THEN "told"
           ELSE at[d]]

SpawnFails(c) ==
  /\ at[c] = "spawn"
  /\ WakeWaiters(c, "idle")
  /\ spawning' = spawning \ {host[c]}
  /\ host' = [host EXCEPT ![c] = NoHost]
  /\ UNCHANGED <<sessions, open, watched, peer, sess, listenVars>>

\* Broken variant: close(waitCh) is forgotten.
PublishQuietly(c) ==
  /\ Step(c, "spawned", "open")
  /\ spawning' = spawning \ {host[c]}
  /\ sessions' = [sessions EXCEPT ![host[c]] = sess[c]]
  /\ watched' = watched \union {sess[c]}
  /\ UNCHANGED <<open, peer, host, sess, listenVars>>

\* The session goes into the map, its watcher starts, close(waitCh).
PublishSession(c) ==
  /\ at[c] = "spawned"
  /\ WakeWaiters(c, "open")
  /\ spawning' = spawning \ {host[c]}
  /\ sessions' = [sessions EXCEPT ![host[c]] = sess[c]]
  /\ watched' = watched \union {sess[c]}
  /\ UNCHANGED <<open, peer, host, sess, listenVars>>

\* A woken waiter takes the session if there is a live one, else it gives up.
TakeSession(c) ==
  /\ at[c] = "told"
  /\ IF Live(host[c])
     THEN /\ Step(c, "told", "open")
          /\ sess' = [sess EXCEPT ![c] = sessions[host[c]]]
          /\ UNCHANGED host
     ELSE Close(c)
  /\ UNCHANGED <<sessionVars, listenVars>>

OpenStream(c) ==
  /\ sess[c] \in open
  /\ Step(c, "open", "pipe")
  /\ UNCHANGED <<host, sess, sessionVars, listenVars>>

OpenStreamFails(c) ==
  /\ at[c] = "open"
  /\ Close(c)
  /\ UNCHANGED <<sessionVars, listenVars>>

\* One of the two copies ends: the pane client, or the far end of the stream,
\* has closed its direction.  The other copy goes on.
EndStream(c) ==
  /\ Step(c, "pipe", "ended")
  /\ UNCHANGED <<host, sess, sessionVars, listenVars>>

\* The stream ends with its session.
LoseSession(c) == sess[c] \notin open /\ EndStream(c)

\* handleClient does not wait for the other copy; its deferred closes end it.
Return(c) ==
  /\ at[c] = "ended"
  /\ Close(c)
  /\ UNCHANGED <<sessionVars, listenVars>>

-----------------------------------------------------------------------------
(* Sessions die (keepalive, the tunnel, the router); the watcher clears up. *)

SessionDies(s) ==
  /\ s \in open
  /\ open' = open \ {s}
  /\ UNCHANGED <<sessions, spawning, watched, peer, clientVars, listenVars>>

\* Broken variant: the entry of the host goes, whatever session it points to.
ForgetHost(s) ==
  /\ s \in watched \ open
  /\ watched' = watched \ {s}
  /\ sessions' = [sessions EXCEPT ![peer[s]] = NoSession]
  /\ UNCHANGED <<spawning, open, peer, clientVars, listenVars>>

WatchSession(s) ==
  /\ s \in watched \ open
  /\ watched' = watched \ {s}
  /\ sessions' = IF sessions[peer[s]] = s
                 THEN [sessions EXCEPT ![peer[s]] = NoSession]
                 ELSE sessions
  /\ UNCHANGED <<spawning, open, peer, clientVars, listenVars>>

-----------------------------------------------------------------------------
ClientStep(c) ==
  \/ UseSession(c) \/ WaitForSpawn(c) \/ StartSpawn(c)
  \/ PublishSession(c) \/ TakeSession(c)
  \/ OpenStream(c) \/ OpenStreamFails(c) \/ LoseSession(c) \/ Return(c)

SpawnEnds(c) == SpawnSession(c) \/ SpawnFails(c)

OpenerStep(l) ==
  RemoveSocket(l) \/ Listen(l) \/ ListenFails(l) \/ ListenRefused(l) \/ RecordListener(l)

MuxNext ==
  \/ \E c \in Clients : Accept(c) \/ ClientStep(c) \/ SpawnEnds(c) \/ EndStream(c)
  \/ \E l \in Openers : CheckListener(l) \/ OpenerStep(l)
  \/ \E h \in Hosts : AcceptFails(h)
  \/ \E s \in Sessions : SessionDies(s) \/ WatchSession(s)

MuxSpec == MuxInit /\ [][MuxNext]_muxVars

\* Goroutines that can run do.  Clients need not connect or leave, sessions need
\* not die, and a spawn, which runs ssh without a deadline, need not end.
MuxFairness ==
  /\ \A c \in Clients : WF_muxVars(ClientStep(c))
  /\ \A l \in Openers : WF_muxVars(OpenerStep(l))
  /\ \A s \in Sessions : WF_muxVars(WatchSession(s))

MuxFairSpec == MuxSpec /\ MuxFairness

-----------------------------------------------------------------------------
\* Types, and: a client waits only while a spawn for its host is in progress.
MuxTypeOK ==
  /\ sessions \in [Hosts -> Sessions \union {NoSession}]
  /\ spawning \subseteq Hosts
  /\ open \subseteq Sessions
  /\ watched \subseteq Sessions
  /\ peer \in [Sessions -> Hosts \union {NoHost}]
  /\ at \in [Clients -> {"idle", "ensure", "wait", "spawn", "spawned", "told",
                         "open", "pipe", "ended"}]
  /\ host \in [Clients -> Hosts \union {NoHost}]
  /\ sess \in [Clients -> Sessions \union {NoSession}]
  /\ listeners \subseteq Hosts
  /\ path \in [Hosts -> Openers \union PathStates]
  /\ opener \in [Openers -> {"idle", "remove", "listen", "record"}]
  /\ target \in [Openers -> Hosts \union {NoHost}]
  /\ refused \subseteq Hosts
  /\ \A c \in Clients : (at[c] = "idle") = (host[c] = NoHost)
  /\ \A c \in Clients : at[c] = "wait" => host[c] \in spawning

\* "One yamux client session per host": two sessions to a host are never open
\* at a time, so no tunnel connection is left behind unused.
OneSessionPerHost ==
  \A s, t \in open : s # t => peer[s] # peer[t]

\* ensureSession in every state: its waiters have a spawn to wait for, and
\* spawns never leave two sessions to a host.
MuxInv == MuxTypeOK /\ OneSessionPerHost

\* A loop accepts at the socket path of the host, or a call of ensureListener
\* is about to make it so.
Served(h) ==
  \/ path[h] = "loop"
  \/ \E l \in Openers :
       /\ target[l] = h
       /\ opener[l] = "listen" \/ (opener[l] = "record" /\ path[h] = l)

\* Once a host has its listener, its socket path is served, however calls of
\* ensureListener unlink each other's sockets; unless the latest listen or
\* accept there was refused by the system.  That alone leaves a host that
\* listeners has, so that nobody opens it again, without anybody at its path.
PathIsServed == \A h \in listeners : Served(h) \/ h \in refused

\* The spawn of a host's session runs.
SpawnRuns(h) == \E c \in Clients : at[c] = "spawn" /\ host[c] = h

\* A pane client never hangs: it is piped or closed after it connects, and
\* closed, so that it reconnects, when one direction of its stream ends and when
\* the session it is piped through dies.  Only a spawn that never ends can keep
\* clients waiting, and only those of its host.
ClientsGetAnAnswer ==
  /\ \A h \in Hosts :
       \/ <>[]SpawnRuns(h)
       \/ \A c \in Clients :
            at[c] = "ensure" /\ host[c] = h ~> at[c] \in {"pipe", "idle"}
  /\ \A c \in Clients :
       at[c] = "ended" \/ (at[c] = "pipe" /\ sess[c] \notin open) ~> at[c] = "idle"

\* A live session stays the session of its host: neither a late watcher of an
\* earlier session nor a second spawn displaces it.
LiveSessionStays ==
  [][\A h \in Hosts :
       Live(h) /\ sessions[h] \in open' => sessions'[h] = sessions[h]]_muxVars

\* A dead session does not stay in the map.
DeadSessionsLeave ==
  \A h \in Hosts, s \in Sessions :
    sessions[h] = s /\ s \notin open ~> sessions[h] # s \/ s \in open

\* The map of ensureSession follows the sessions, however watchers, spawns and
\* deaths overlap: a live session is never displaced, a dead one never stays.
MapFollowsSessions == LiveSessionStays /\ DeadSessionsLeave

=============================================================================
