# Verification of Belve's sessions, connections and pages

Belve is a macOS terminal and editor for local, SSH and DevContainer projects.
This directory holds TLA+ specifications of the parts of it that are concurrent,
have to survive failures, or keep the same thing in two places:

* the Go program `tools/belve-persist`, which runs as several daemons on the Mac
  and on the VM, and the Swift client that talks to it;
* the pages of the app's web views (terminal, code editor, Markdown preview, diff
  view), with the Swift coordinators that own them.

Line numbers in text are those of the file named last; bare names of Go files are
in `src/tools/belve-persist/`.

Contents: 1 the system, 2 the modules, 3 the runs, 4 bounds, fairness and
assumptions, 5 what was found, 6 the proofs, 7 what is not modelled, 8 the plan.

## 1. The system

```
 Mac                                                     VM
 app ── control RPC ──┐                                  router ─┬─ session broker ─ PTYs
  │                   ├─ Mac master: mux listener ═yamux═ (ssh -L) │
 pane client ─ pane backend daemon ─┘   │                          └─ control server
      (one pair per remote pane)        ├─ tunnel manager (ssh forwards)
 pane client ─ local session daemon     └─ setup manager (scp, ssh)
      (one per local pane)

 app: XTermTerminalView    ⇄ terminal-entry.js          (page with xterm.js)
      CodeEditorView       ⇄ editor-entry.js            (page with CodeMirror)
      MarkdownPreviewView  ⇄ markdown-preview-entry.js  (page with marked, mermaid)
      ChangesView          → diff-shiki-entry.js        (page with shiki)
```

| Component | State it keeps | Operations | Talks to |
|---|---|---|---|
| Setup orchestration (`setup.go`) | map project → projectSetup (state, done channel), a mutex per host | ensureSetup, runSetup, invalidate, invalidateForHost, invalidateAll | host health; scp and ssh to the VM; called by connections of the app |
| Host reachability (`host_health.go`) | time of the last failure of each host | checkOrFail, markFailed, markHealthy, reset | setup, and the app through the master |
| Mux manager (`mux.go`) | one Unix listener and one yamux session per host, in-flight spawns | ensureListener, handleClient, ensureSession, watchSession | tunnel manager; pane backends and RPC clients connect to it |
| Tunnel manager (`tunnel.go`) | host → local port, allocated ports, in-flight spawns, a JSON file | ensureRouterForward, ...OnPort, ensureControlMaster, health loop, teardownAll, load and save | ssh processes that outlive the daemon |
| Session broker (`main.go` 480-1030) | session name → PTY, replay buffer, clients, size | handshake, create or join, addClient, broadcast, resize, respawn, end | PTYs; connections of backends |
| Pane backend (`main.go` 1032-1250) | connection to the broker, replay buffer, pane clients, size | reconnect loop, receive, attach, detach, resize | mux manager, pane clients |
| Local sessions (`main.go` 80-470, 1251-1551) | socket, pid and lock files; processes | attach, spawn under flock, killOldDaemons, take over, exit, opKillSession | the operating system |
| Remote RPC client (`RemoteRPCClient.swift`) | one NWConnection, pending requests, next id | send, connect, disconnect, callbacks, timeout | control server through the mux |
| Terminal page (`terminal-entry.js`) | size and `_lastFit`, WebGL addon and its retry, Cmd flags, hovered link, underlines, link cache, drag | fit, refit, font, reload of WebGL, keys, hover, click, select, write | coordinator by messages and scripts; xterm.js |
| Terminal coordinator (`XTermTerminalView.swift`) | ready, font, lastResize, PTY, timers, retries | messages, refit, font change, start, exit and retry of the PTY | page, PTY |
| Editor page (`editor-entry.js`) | text, debounce of edits, jump target and its mark, hover requests, diff markers, scroll | edit, Cmd and pointer, hover, definition, scroll, scripts | coordinator |
| Editor coordinator and PreviewArea | ready, pending and last opened file; open file, edits, saved reference, dirty | open, save, reload on file events, hunks, definition, hover | page, file system, language server |
| Preview page (`markdown-preview-entry.js`) | children of #preview, last blocks, render token, find bar and marks, scroll | render with block diff, diagrams, find, click, scroll | coordinator, mermaid |
| Preview coordinator (`MarkdownPreviewView.swift`) | ready, pending and last content, scroll to restore | update, messages, restore scroll | page |
| Diff view (`ChangesView.swift`, `diff-shiki-entry.js`) | none; a promise of the highlighter | rows of a diff, highlighting of cells | page |
| Control server (`control.go`) | LSP processes and watchers of a connection | file, git, search, watch and LSP operations, shutdown | RPC clients |
| Port forwards, master client, agent sessions, projects, PTY service, LSP, ... | per object | see `PROJECT.json` | the above |

What is hard in it, and what has to hold:

* *"Somebody is already doing it, so wait."* Setup, mux and tunnel each have
  their own form of it: a map entry and a channel that the leader closes. The
  leader must close it on every path, for the right waiters, once; a second
  leader must not start meanwhile; what the waiter reads after it is woken may
  be newer than what it waited for.
* *Maps of heap objects.* An entry is replaced (invalidation, a dead session, a
  dead forward) while goroutines hold pointers to the old object and finish
  their work on it: they must not undo the replacement.
* *Two owners of one truth.* The Mac master dies and comes back; its ssh
  processes and the ports they hold, and the pane processes that dial them,
  survive. Ports must be on disk, and not given out twice.
* *A pane over a connection that breaks.* The daemon and the broker notice at
  different times; output in flight is lost; a new connection joins a session
  that may be about to end; two replay buffers have different bounds. The pane
  must show the session's output without gaps or repetitions.
* *Processes that kill each other.* Local daemons take a socket over by killing
  whoever else has it in its command line, several at a time.
* *Callbacks of connections that are no longer the current one*, and
  continuations that have to be resumed once and only once.
* *The page and the app each remember the size, the text, the position.* Both
  skip work when the new value equals the remembered one; messages and scripts
  cross; edits, sizes and positions are posted after a debounce or a frame. What
  the app would save, restore or give to the PTY should be what the page shows.
* *Awaits in a page.* Diagrams are drawn one after the other while the file
  changes; a hover request may be answered late, never, or after its successor.
* *What fails half-way.* A bundle that cannot be made, a state file that cannot be
  written, a socket that cannot be bound, an ssh that never ends, a daemon that
  dies before it has replaced another, a PTY that cannot be started: the code
  mostly logs these and goes on. They are steps of the models, and a property that
  does not survive one of them says so.
* *Events that do not come.* Cmd released over another window, a mouseup the web
  view swallows, a WebGL context that is lost again while it is restored.
* *Text that is transformed.* A link broken over rows is joined by two
  algorithms; a file becomes a template literal in a script; a diff becomes a
  table and its cells HTML.

## 2. The modules

| Module | Models | Notes |
|---|---|---|
| `SingleFlight` | the promise of the waiting idiom | abstract specification |
| `SetupManager`, `MCSetupManager` | `setup.go`, `host_health.go` | implements SingleFlight, one key per projectSetup; proved in `SetupManager_proofs` |
| `MuxManager` | `mux.go` | proved in `RPCClient_proofs`, which extends both modules: what both would define bears the prefix Mux here |
| `TunnelManager` | `tunnel.go` | implements SingleFlight, one key per host; proved in `TunnelManager_proofs` |
| `SessionBroker` | the broker of `main.go` | one connection's view of the other end is a queue |
| `PaneBackend` | `runMasterBackend` of `main.go` | |
| `PaneTransport`, `MCPaneTransport` | the two joined by connections that break | INSTANCEs both; adds the network; proved in `PaneTransport_proofs` |
| `LocalSession`, `MCLocalSession` | processes around one local socket | proved in `TunnelManager_proofs`; prefix Local, for the same reason as MuxManager |
| `RPCClient` | `RemoteRPCClient.swift` | proved in `RPCClient_proofs` |
| `TerminalView` | size, PTY and WebGL of a pane: page, coordinator and PTY | proved in `TerminalInput_proofs`; prefix View, for the same reason |
| `TerminalLinks` | how links that are broken over rows are joined; string indices and cells | operators only |
| `TerminalInput`, `MCTerminalInput` | keys, pointer, links, selection and output of the terminal page | EXTENDS TerminalLinks; proved in `TerminalInput_proofs` |
| `CodeEditor`, `MCCodeEditor` | editor page, its coordinator, the open file in PreviewArea | proved in `CodeEditor_proofs` |
| `BlockDiff` | the block diff of the preview (LCS, ghosts) | operators only |
| `MarkdownPreview`, `MCMarkdownPreview` | preview page and coordinator | EXTENDS BlockDiff; proved in `MarkdownPreview_proofs` |
| `PageText` | escaping, languages, image paths, identifiers, positions in a text | operators only |
| `DiffRows` | rows, numbers and cells of a diff | operators only, EXTENDS PageText |
| `PageFunctions`, `MCPageFunctions` | the four modules of operators against what they are for | one state per input; proved in `PageFunctions_proofs`, which the proofs of the other pages extend for its lemmas |

`PROJECT.json` ("map") names the lines each definition stands for. In outline:

**SetupManager.** A caller is a connection to the master (handleMasterConn
serves a connection's requests one by one). `Setups` are the heap cells of
projectSetup objects; `projects` is the map, `ps` the pointer a call keeps. An
object nobody points to may be allocated again, as the garbage collector does.
`CallReady`, `CallWait` and `CallRun` are the three ways through the first
critical section of ensureSetup; `LockHost` ... `UnlockHost` is runSetup, with
one step for each part of the work under the mutex that succeeds and two for its
failures: `BundleFails`, when the bundle cannot be made on the Mac and no ssh was
tried, and `SshFails`. `SshEnds` collects these; an ssh that hangs does not take it.
`Publish` is the second critical section with the close of `done`; `Reread` is
what a woken waiter does. `HostMarkedUnreachable` and `HostWorthTrying` are
checkOrFail; the 60 s expiry of a mark makes the latter possible at any time.
`earned` and `lastWork` (how the latest work under the mutex of a host ended) are
history variables.

**MuxManager.** A client is an accepted connection, with the goroutine of
handleClient; a session is a heap cell; `watched` are the sessions whose
watchSession goroutine has not run to its end. `path` is what the socket path of a
host leads to: nothing, the socket an ensureListener call has just bound, a
listener with its accept loop, or a deaf one, whose loop has returned on an error
(`AcceptFails`). A listen fails because another call has bound the path
(`ListenFails`), or because mkdir or listen is refused (`ListenRefused`). `EndStream`
is the end of one of the two copies of a stream, in either direction, and `Return`
what handleClient then does. The bytes and the number of streams in a session are
left out.

**TunnelManager.** ensureRouterForward and ensureRouterForwardOnPort call each
other, so a worker has a `stack`. Workers are the spawnSession of each host
(muxManager serialises these) and the health loop. `owner` says who listens on
a port, `masters` which ControlMasters answer; these belong to the operating
system and survive `Restart`. `SaveState` writes the state file or, when mkdir,
the write or the rename fails, leaves it as it was, and the caller goes on;
`unsaved` remembers that the latest write failed. Where an `ssh -O exit` fails and
the control socket is removed all the same, the ControlMaster and its forwards live
on unknown (`OrphanMaster`). `Disturb` bounds what happens from outside: a
master dies (its ports fall free), a port is taken by another process, a tunnel
hangs, the app tears everything down, the daemon restarts.

**SessionBroker, PaneBackend, PaneTransport.** Output is a sequence of chunks
named by shell and number, so that gaps, repetitions and output of an earlier
shell can be told apart; on the wire a chunk also bears its connection. Each
connection has a goroutine at the broker (`at`) that may serve it long after
the daemon has left it. `Cut` breaks a connection: it truncates what the broker
sent at any point, and each end notices by itself. A session is a heap object
with the PTY goroutine `runner` and the channel `pipe` between the PTY reader
and `broadcast`. Input bytes are left out.

**LocalSession.** `Clients` and `Daemons` are processes. A scan (`ps`/`pgrep`
of killOldDaemons) lists its victims in one step and kills them in another. The
lock is on an inode, which opKillSession unlinks, hence `lockFile` numbers and
the number each client has opened; who cannot open or take it goes on without
(`NoLock`). The re-check inside the lock and the removal of the socket are two steps
(`Recheck`, `RemoveStale`), between which a daemon may bind it. A process ends by
itself in any state (`Die`): a signal, a parent that is gone, a Listen, a shell or a
daemon that cannot be started. `viaMux` distinguishes the daemons of remote
panes, which ignore the end of a shell.

**RPCClient.** Blocks of the client's serial queue are a sequence, `conn` and
`ready` are read outside the queue by `EnsureFast` and `Send` as in the code.
`Resume` is the resumption of continuations; `misused` records a second
resumption, which stops a Swift program. A cancelled NWConnection keeps its
handler unless connectInternal took it off.

**TerminalView.** Columns and rows are one number; a container of size w holds
w ÷ font cells. `toPage` are the scripts the coordinator evaluates, `toApp` the
messages the page posts, each a FIFO. `ResizeObserved` and `DoFit` are the
observer and its frame, `PtyTimerFires` the 150 ms debounce, `TerminalFit` the
refit on request with its answer, `Proposed` what the fit addon proposes. A WebGL
loader is one call of loadWebgl with its own retry counter and timer; `current`
is `_currentWebgl`. A remote PTY comes up in two steps (`StartPty`, `SetupDone`),
a local one in one; in either case the spawn may fail (`SpawnPty`), which ends in an
error overlay. `ChangeWindow` is the registry's: the web view is in a window or kept
in none, where the exit of its PTY is not acted on (`PtyExitsUnseen`).

**TerminalInput.** The screen is a sequence of rows, a row of words. `asked` and
`hover` are xterm's: what its providers answered for the row under the pointer
and the link there. `keys.cmd` is the real key, `metaUrl` and `metaPath` the two
flags of the page. `TerminalWrite` is the output with the callback that empties
the cache and xterm's rendering; `Reflow` the rows after a resize.

**CodeEditor.** `jobs` are what background queues and delayed blocks still do
(read, write, watch, definition, hover, hunks); `disk` is changed by the user's
saves and by others, each followed by a file event. `jump` and `tip` are the
requests of the page for a target and a tooltip with their ids and timers. The
position is a share of the height of the text, so every change of the text may
move it (`Drift`), with a scroll event (the page had to clamp) or without.
`overtaken` remembers that a save ended after the text had gone on.

**MarkdownPreview.** A child of #preview has the identity of its element, so that
marks and diagram runs can refer to one that is gone. `MermaidAnswers` is one
await of renderMermaidBlocks; a run keeps the set of the diagrams it still has to
draw and takes the first, as the elements were numbered in the order of the page.
Ghosts are the deleted blocks that fade away.

**PageFunctions.** Its state is one input of `Inputs`, which its MC module
enumerates; each property says what one of the functions is for.

## 3. The runs

Runs that pass:

| Run | Properties | Question | States |
|---|---|---|---|
| `setup` | TypeOK, OneSshPerHost, OneRunPerSetup, ReadyIsEarned, HealthCacheHonest, InvalidationSticks, SetupsAreFlights, CallsAnswered | Do setups of one host exclude each other, is "ready" earned, and can nothing but work on its own host that hangs keep a call from being answered, however invalidations and host resets fall? | 161 827 |
| `mux` | MuxInv, PathIsServed, MapFollowsSessions, ClientsGetAnAnswer | Do panes share one session, through deaths at any point; does no client hang unless a spawn does; is a recorded socket served unless the system refused a listen or accept? | 32 488 |
| `tunnel` | Inv, ForwardsAreFlights, CallsReturn | Is every port that was handed out on disk unless the latest write failed, and do the mutually recursive calls return unless an ssh hangs? | 507 939 |
| `pane` | Inv, ScreensAreContiguous, ScreensCatchUp | Does a pane show its session's output, whole and in order, over reconnections? | 2 123 322 |
| `local` | LocalTypeOK, OneServes, ServingIsReachable | Does one daemon end up serving a socket, and is it found there unless who took the socket away came to nothing? | 784 395 |
| `rpc` | Inv, RequestsEnd | Is each request ended once, with its own answer or an error? | 904 348 |
| `terminal_view` | ViewInv, TermFits, TerminalComesBack | Are the remembered sizes and addons true, and does the terminal end with its container's size, a renderer and, unless a start failed or an exit went unseen, a PTY? | 183 493 |
| `terminal_input` | Inv, CacheIsCurrent, DragEnds | Does the page know the Cmd key, the hovered link and the end of a drag although events are missed? | 155 604 |
| `editor` | Inv, PageReachesApp, HoverSettles | Does the app end with the text of the page, able to save it unless a save was overtaken by an edit, and with the position scrolled to last; do marks belong to their target, do tooltips end? | 244 448 |
| `preview` | Inv, MarksAreKnown, PreviewShowsContent, DiagramsAreDrawn | Does the page end with the last content and its diagrams, without old drawings and forgotten marks? | 209 390 |
| `page_functions` | LinksAreWhole, TextIsKept, BlocksAreKept, DiffIsShown | Do the pure functions do what they are for? | 25 455 |

Where a module has an `Inv` (MuxInv, ViewInv), it is its type invariant with the
safety invariants of its components, each a definition of its own with the code it is
about:
OneSessionPerHost in MuxManager, MappingsSurviveCrash in TunnelManager, OneShell
and ReplayIsOfThisShell in PaneTransport, ResumedOnce and AnswersMatch in
RPCClient, CurrentIsLive, TermIsLastFit and LocalPtySize (of `_currentWebgl`,
`_lastFit` and lastResize) in TerminalView, UrlNeedsCmd and UnderlinesAreHovered in
TerminalInput, MarkIsOfTarget in CodeEditor, NoOldDrawing in MarkdownPreview.

The run `rpc_calls` finds a disagreement between the code and what the
repository says of it (section 5).

For each property of a passing run, `PROJECT.json` names a mutant: a broken
variant of a definition, kept in the module next to it, with which the run must
fail. Thus `HealthCacheHonest` fails if the failure mark is written after the host
mutex is released, `OneServes` if the scan lists nothing, `TermFits` if a font
change does not fit again, `LinksAreWhole` if the upward scan knows no list
markers, and `TextIsKept` if the backslash is escaped last.

## 4. Bounds, fairness and assumptions

* `setup`: two callers, two projects of one host and a third of another, two
  objects. With two callers there is at most one waiter for a run, and the second
  object exists after an invalidation: the interesting races are of a run, an
  invalidation and the next run. The other host shows that work which hangs on one
  host keeps nobody else waiting. Callers and objects are symmetric, but the run
  checks liveness and so uses no symmetry.
* `mux`: two clients, two overlapping ensureListener calls, two sessions, one
  host. Nothing in `mux.go` relates two hosts except the mutex, held within a
  step. Everything may stop there: a host with a deaf socket, or none, gets no
  more clients.
* `tunnel`: one host, two ports, two disturbances of any kind in any order,
  recursion up to depth 4 (two disturbances make it no deeper: with depth 6 TLC
  finds the same states).
* `pane`: one pane, two connections (the race of an old one with a new one),
  two shells (a crash and a respawn, or an end and a new session), two chunks
  per shell over a broker's buffer of one and a daemon's of two, so that both
  overflow, two sizes and one change of size. Sizes and heap cells are symmetric,
  and the run checks invariants only. The code's bounds are 100 reconnections and 10
  respawns. A session is dropped from the table after its end, so two objects
  suffice for two connections.
* `local`: three clients and three daemons, so that a client can start a daemon
  while one dies and another takes over; one opKillSession, and two processes that
  end by themselves. Symmetric, and invariants only.
* `rpc`: two calls, each of at most two tries, over four connections, one
  disconnect by the registry.
* `terminal_view`: containers of 0 (not measurable), 6 and 12, fonts 1 and 2:
  sizes too small for a PTY, equal sizes from different containers and different
  fonts occur. Two events of layout, window, user, GPU or process after the start.
* `terminal_input`: two screens, which have a URL that goes on in an indented row,
  one beside a path, and a path that goes on in a soft-wrapped row; two changes
  of the screen; keys and pointer without bound.
* `editor`: two texts, two words, three events, of which besides edits only those
  of one group (saving, pointing, scrolling) occur in a behaviour: the groups
  share no state but the text. The position is followed only in the last group,
  where edits and writes of others occur too.
* `preview`: three documents of one to three blocks (two diagrams and a paragraph, a
  changed paragraph beside a diagram, a paragraph that has only another format); two changes
  among four events; in a behaviour the user searches or reads.
* `page_functions`: all screens of three rows over the words that the rules tell
  apart, texts over the characters they tell apart, pairs of documents and paths
  of small sizes, and diffs of up to three hunks with two lines each, after a
  header or none, among them lines of either sign and of none, empty ones, and lines
  of the text that look like a header.

`CHECK_DEADLOCK FALSE` stands where the bounds end the behaviour: a pane whose
connections are used up, processes that are all gone, calls that are all done,
pages on which no more happens.

Fairness. *Setup*: goroutines run, and the host mutex is served strongly fairly, as
sync.Mutex's starvation mode does. Nothing is assumed of scp and ssh: setup.go starts
them without a deadline (281, 308, 339; only connecting times out), so CallsAnswered
says that a call returns or the work of its host hangs for ever. *Mux*: goroutines
run; no client need connect, no session need die, and no spawn need end, so
ClientsGetAnAnswer too is about hosts whose spawns do not hang. *Tunnel*: goroutines
run; ssh may hang, and may fail each time it is tried: CallsReturn says that the
recursion ends unless an ssh hangs. *RPC*: `rpc`
assumes only that timers fire; `rpc_calls` also that tasks and the queue run
and that a connection which is preparing or cancelled reports it. *Terminal*: the
main thread, the page's tasks, timers and frames run, and a remote setup returns;
DragEnds assumes that the
pointer moves on over the terminal. *Editor*: main thread, page, timers and frames;
nothing of background jobs, since a language server may never answer. *Preview*:
no more than that, as long as the app or the page has something to do, some of it is
done; that includes mermaid's answers, a drawing or an error to each call. The
broker, the panes and the local sessions are checked for safety only.

External behaviour that is assumed: a Unix listener that is unlinked keeps
accepting on nothing; a serial DispatchQueue runs its blocks in order; flock
follows the inode; `ssh -O forward` either listens or fails; evaluateJavaScript
and script messages arrive in order; xterm.js asks its link providers when the
pointer enters a row and again when the row of the hovered link is rendered.

## 5. What was found

**`CallsEnd`** (`rpc_calls`). When two calls find no connection, the second takes
the handler off the first one's connection and cancels it
(RemoteRPCClient.swift:169), and the first call never returns: the only holder of
its continuation is gone and its timeout has not started.

Where the code differs from a comment or document beside it, found while
modelling; the models have this behaviour, and no run reports it:

* A waiter in ensureSetup re-reads `ps.state` after the run it waited for has
  failed; another call may have restarted the object by then, and the waiter
  returns "running" and no error (`setup.go` 141; the comment at 123 promises a
  final state).
* A failure to make the bundle on the Mac (no temporary file, copy, tar or md5,
  `setup.go` 216-276) marks the host as unreachable (184), and calls within the next
  minute fail without ssh; markFailed is for a failed SSH operation (host_health.go:65).
* The health loop frees the port of a dead forward before it recovers on it
  (`tunnel.go` 206); another host may be given the port meanwhile (against 40).
  After one failed recovery the mapping is gone (204-216), so the loop never
  tries again, while the panes rely on it (138).
* A resize while the daemon connects or is disconnected is dropped (`main.go`
  1086), the size in the handshake of the next connection is not applied to a
  session that lives (672), and one that arrives between setPtySize (816) and the
  assignment of ptyFd (886) is recorded only; see
  docs/notes/2026-04-15-persist-tcp-migration.md:80.
* The spawn lock is released before the new daemon listens (`main.go` 192), so a
  client that queued for it spawns a second daemon, which kills the first with its
  shell. The comment at 185 promises one.
* The editor reloads on the file event of its own save (against the comment at
  PreviewArea.swift:723-724), so text typed while the save is under way is
  overwritten. The end of that save clears isDirty over the newer text (725), so
  that it cannot be saved either until the next edit (717).
* Comments in `diff-shiki-entry.js` (8-9, 61-62) say that the code cell carries
  the sign; ChangesView puts it in a cell of its own.
* The trailing punctuation of a URL is taken off only on the row where it starts
  (`terminal-entry.js` 202-209); a continuation row opens the URL with its trailing
  full stop (254-270).
* A removed line that starts with "--", or an added one that starts with "++", is taken
  for a file header of the diff, has no row and is not counted (ChangesView.swift:1221), so a removed
  SQL comment is missing and the numbers shift to the end of the hunk; "\ No newline"
  counts as a line, and so does a line before the first hunk that is no header to it
  ("new file mode").

Further behaviour the models have, on which the repository is silent or whose
consequence is outside the models.

*Go program and RPC client.*

* Calls that queue on a host mutex have passed the reachability check already,
  so after a failure each of them tries ssh in turn (`setup.go` 175-181). An scp or
  ssh that hangs keeps the mutex of its host for ever (281, 308, 339), and with it
  every later call for the host.
* An error of Accept ends the accept loop for good while listeners keeps the host
  (`mux.go` 94). A listen that is refused after the old socket has been removed (71-81)
  leaves a host that another call has recorded meanwhile without a socket; nobody opens
  it again.
* A table of forwards that cannot be written is only logged (`tunnel.go` 113-129): the
  ports are given out all the same and the next daemon does not know them. A
  ControlMaster whose exit fails lives on with its ports (197-198).
* The recovery of the health loop and a concurrent ensureRouterForward can leave
  two forwards of one host (`tunnel.go` 214); a mapped port may be answered by
  somebody else (275); the port of a replaced mapping stays allocated for good
  (287); two callers may each spawn a ControlMaster (381).
* Clients of a session whose shell has exited stay attached to the dead object
  (`main.go` 1000); a background child that keeps the PTY open keeps the session
  from ending. broadcast writes to every client under the session's mutex (585).
* A client of a remote pane removes the socket whoever has bound it since it looked
  (`main.go` 188-191): the daemon there serves on unseen until the client's own one
  kills it, and for good if that one dies first. The same holds of any replacement
  that dies after it has removed the socket.
* A session that dies between its look-up and addClient (754-755) leaves the client
  attached to a dead object, until its connection breaks.
* A client that finds a daemon in its re-check stays attached inside the spawn
  lock (186), so others wait for the lock as long as its session lives. Two
  daemons that have listed each other kill each other, and clients that wait
  (1519); the clients try again. opKillSession removes the socket of a daemon that
  lives on (`master.go` 484).
* A stale callback of an RPC connection disconnects its successor; requests fail
  with connectionLost and are tried once more, so an operation may run twice. A
  request written to a connection that is not ready yet precedes the router's
  preamble, and is lost with the connection.

*Terminal.*

* The PTY does not always follow the terminal: a stale 150 ms timer, a font
  change whose fit result is dropped, a refit forgotten while a remote PTY is
  being set up. A second size message during a remote setup starts a second PTY.
  If the initial fit answers nothing and a later refit sets lastResize, the PTY is
  not started by a message of the same size.
* A PTY that cannot be started (XTermTerminalView.swift:632-636), or whose binary is
  missing (515-521), is not tried again. One that exits while its web view is in no
  window (1090) is not retried, and ptyService still holds it when the view comes back.
* A reload of WebGL while a retry is pending leaves two live addons; a load that
  throws is not retried; the counter is reset with every load, so its maximum is
  not reached.
* The first word of a soft-wrapped row is appended to a URL before it, and so is a
  row of a diff that starts with "+". Path links are activated without looking at
  Cmd. A resize does not empty the link cache. terminalSetMetaPressed is defined
  twice; the second definition wins.

*Editor.*

* A jump to a definition in the same file drops the line and unsaved edits, and
  so does switching a Markdown file between edit and preview. Hunks are those of
  the text when git was asked. Cmd+F before the page has its file is lost.
* The scroll percentage is of a height that depends on the text, and is posted on
  scroll events only (`editor-entry.js` 682-698): after an edit or a reload the stored
  one is that of the old text.

*Preview and diff.*

* After a rendering the find bar still says how many it found; a mark directly
  under #preview has no parent after it, so that clearMarks throws; after Escape
  the hidden input keeps the focus. Ghosts are inserted where
  `container.children[...]` counts the ghosts before them. The language of a code block
  goes into its class attribute unescaped (`markdown-preview-entry.js` 73). Cmd+F
  reaches every preview. The check of the token is not what protects the page: the elements of an
  old rendering are gone.
* An image path that climbs above its start loses its ".."; an alternative text or
  title is cut at a double quote.
* The number of hidden lines before a hunk is counted from the last old line that has
  a row, and so is too large after a hunk without old lines or with a dropped one. A
  highlighter that could not be loaded is not loaded again.

## 6. Proofs

All from the named assumptions on the constants, for every value of them.

`SetupManager_proofs`, for any number of connections, projects, hosts and
objects. `IInv` is inductive: types and pointers; `LockHeld` (a caller that works
on a host holds its mutex, and only such a caller does); `MarksPending` (a mark
that disagrees with the latest result of the work on its host, bundle or ssh, is about
to be corrected by the holder of the mutex); `OneRunPerSetup`; `ResultEarned` (what a run is about to publish, it
earned); `MapInjective` (the map never shares an object); `ReadyIsEarned`. Each
property of the run follows: OneSshPerHost from LockHeld, HealthCacheHonest from
MarksPending, ReadyIsEarned by way of ResultEarned, since the object is not
published until its run ends. InvalidationSticks needs only that the object a call
allocates is one nobody refers to. `Refinement`: `Spec => Flights!Spec`, step by
step: CallRun is Lead, CallWait is Join, Publish is Land and Reread is Leave; every
other step stutters.

`RPCClient_proofs` on MuxManager, for any number of clients, ensureListener calls,
hosts and sessions: `SessionsAreSingle`, `PathsAreServed`, `LiveSessionsStay`.
OneSessionPerHost is not inductive. It rests on `SpawnersExclude` (sessionsSpawning
is a lock: one spawner for each host in it, and no live session for the host in the
map meanwhile), on `SpawnedLeadsHome` (what a spawner holds leads to its host) and
on `OpenIsKnown` (an open session is in the map or in the hands of its spawner).
LiveSessionStays follows: publishing replaces only a session that is not live, and
a watcher removes only its own, dead one. For the sockets, who unlinks the path is
about to listen on it, and a recorded listener was preceded by one who did, unless
the system refused: a socket without an accept loop is that of a call about to start
one (`NewSocketsAreRecorded`), a deaf one was refused (`DeafIsRefused`), and a refusal
is forgotten only when somebody has listened at the path again.

`TunnelManager_proofs` on LocalSession, for any number of clients and daemons:
`OneDaemonServes`.
OneServes is not inductive. `ScansCover` is, with the types: of two daemons of
which one has listed its victims, the other is among them, or has yet to list its
own, or has listed the first. A daemon that lists after another sees it, and one
that lists before it is seen by it, so the two cannot both survive; the socket,
pid and lock files play no part in the argument. `ServersAreReachable`:
a daemon that is not found at its socket has a rival that is still on its way, or
somebody is about to start one, or it is forsaken: opKillSession took its socket, or
who was to replace it has ended by itself. Otherwise the argument is about the end of that rival: it is
killed by a third whose list has it, and by `LaterListsHave` that list has the
first daemon too (what a daemon has not listed was born after its scan, so a list
that has it is younger still). `ListsAreLive` and `SpawnersPoll` support it: lists
name nobody unborn, who took over has killed what it listed, and a client does not
come back to start a second daemon.

`RPCClient_proofs`, for any number of calls: `CallsEndOnce`. A suspended call is
held in one place, and the place holds only calls that are suspended there: a
block of the queue (`QueuedCalls`), the waiter of a connection (`ConnectingCalls`),
an entry of pending (`WaitingCalls`); whoever resumes it takes it out of that place
in the same step, so no continuation is resumed twice. `SentRequests` says that
what is on a connection was sent by the call that waits under its id, in its
present try; with ids that are never used again, answers go where they belong.
That ids do not run out is a count: `IdsSuffice`, one id for each try that has sent
or ended.

`TunnelManager_proofs`, for any number of hosts, ports and disturbances and any
depth of the recursion: `PortsAreSaved` and `Refinement`. TypeOK is not inductive:
it rests on `HostsAreKnown` (a worker inside ensureRouterForward has a host) and on
`LeadersExclude` (forwardsSpawning and mastersSpawning are locks: one leader for
each host in them, so that who lands finds its own channel there).
MappingsSurviveCrash follows because whoever records a port saves the table in the
same critical section, and whoever forgets one leaves the file alone; a write that
fails is known as `unsaved` until the next that succeeds.
`Refinement`: LookupUnknown and Join are Lead or Join, Land is Land, Woken is
Leave; a restart empties the table of flights, and every other step leaves the
roles of all workers alone (`Quiet`).

`TerminalInput_proofs`, for any set of equally high screens: `PageIsTrue`. With
`LinksAgree` (below) every link anybody remembers lies where it is underlined
(`LinksAreGood`), hoveredRanges are those of the hovered URL (`RangesAreHovered`),
and so pressing Cmd, output, blur and moves keep the underlines and the Cmd flag
true. `CacheStaysCurrent`: the links in the cache are those of the screen, unless it
was reflowed.

`PaneTransport_proofs`, for any number of connections, panes, heap cells, shells and
chunks: `PanesHaveOneShell`. OneShell rests on `OnlyCurrentRuns`: no session but
the one in the table is alive, since a session is created only when that one is
dead, and only a live one has or is about to have a shell. ReplayIsOfThisShell
rests on `OutputIsOwn`: channel and replay of a session are empty when a shell
starts, because a respawn waits for the channel to drain and clears the replay,
and what is read afterwards is that shell's. That both buffers keep within their bounds
is part of TypeOK (`ReplayFits` for the broker's, `BufferTypes` for the daemon's).
`ScreensHaveNoGap` and `ScreensAreCurrent`:
each place output passes is a chain of consecutive chunks, and each joins the
next: the replay and the pipe of a session (`OutputRuns`), the daemon's buffer and
what is on the wire (`StreamsRun`), the buffer and every attached screen
(`ScreensRun`). `SentIsLatest` closes the circle: the last chunk a client was sent,
or has buffered of this connection, is the last of the replay, so the next one
broadcast goes on from it, also where replay and buffer overflow. It needs that a
client is registered with the session it has joined (`ClientsAreIn`), that nothing
came over a connection before (`NothingBefore`), that only the connection of the
present attempt is in use (`OneConnection`), and that no chunk bears the number of
a shell still to come (`ShellsHaveStarted`), which the next replay is told apart by.

`CodeEditor_proofs`, for any texts, words and number of events:
`MarksAreOfTargets`. MarkIsOfTarget is not inductive. `QuestionsAreSingle` is, with
the types: a question about a target is in one place, as a message, a search or an
answer, and there once, and its target is not refused yet. So a refused target
cannot be marked by a second answer, and a new target has a new id.

`TerminalInput_proofs` on TerminalView, for any sizes, fonts and bounds:
`ViewIsTrue`. That there is always a free loader for a load is a count
(`ReloadsAreCounted`: the loads so far and the refits under way, in either
direction, are at most one more than the events), and so `_currentWebgl` is 0 or an
addon that lives. `_lastFit` is the terminal's size through every route by which a
fit is answered. That a local PTY has the size of lastResize, also through spawns that
fail and exits nobody saw, rests on
`LocalSizeIsKnown`: a local project waits for no setup, and where a PTY ran or a
retry is due, lastResize is known.

`MarkdownPreview_proofs`, for any set of documents (`DocsAreSequences`) and any
bounds: `PreviewIsTrue` and `MarksStayKnown`. The page is good (`PageIsGood`) when
its live children are numbered 1, 2, ... in the order of the last rendering with
ghosts between them anywhere, only diagrams are drawn, every mark in a child is one
clearMarks() knows, and each run of the present token draws blocks of the present
document. That a rendering makes a good page is a fact on the block diff
(`ChildrenAreListed`). `RenderingsAreCounted` bounds the tokens:
renderings made, under way or due are at most one more than the changes of the file;
it rests on `Handshake` (the page says once that it is ready, first of all).

`PageFunctions_proofs`, for any inputs of the kinds `InputsAreGiven` names.
`LinksStayWhole` has two parts. `LinksAgree`: a row that the upward scan links is a part
of the link it shows, and the row where the URL starts shows a link of just the same
rows, which opens the URL of the former without its trailing punctuation: the same
one if and only if there is none (`SameLink`).
The rows in between are nothing but continuations, so buildFullUrl() counts at least
as many (`RunIsLongEnough`, a cardinality argument); it need not stop where the scan
started, and the link is the longer one on both sides. `CellIsFound`: offsets only
grow at cells with a width (`OffsetsGrow`), so the first cell that reaches beyond
an index is the one before the first offset beyond it, and the index is in it.
`BlocksStayKept`: the table of the LCS (`LcsTableValues`) bounds every common
subsequence from above, since at most one pair of it is in the last row or column
of a cell (`CommonIsNoLonger`), and the way back from each cell collects one of just
that length (`WayBackIsCommon`); then the list of children has the new blocks in
their order (`ChildrenAreListed`) and one ghost for each block that was not matched
(`DeletedHaveGhosts`), wherever the ghosts are put in. The recursions here are
functions; that they exist, and what each step keeps, is proved once for functions
on a .. n (`LineExists`, `LineKeeps`) and on a table (`TableExists`, `TableKeeps`), by
induction on a set of numbers.

`TextStaysKept`, for texts of any characters. What reads a text back (HTML,
attributes, a template literal) is one such function, from the end of the text to
its start. A reading depends only on what follows (`ReadingLater`, `ValueLater`), so
the escape of a character is read as that character whatever comes after it, and
what is escaped piece by piece is read as a whole: `EscapedTextArrives`,
`CodeArrives`, `AttributeArrives`, and `ScriptArrives`, where the three replacements
are first shown to be one, character by character (`EscapeForTemplateCons`). Places:
lines are counted by the starts at or before a position, a number that rises by one
at each start (`RankRises`, `RankIsReached`), so a position is found again in its line
(`PositionIsFound`) and a place beyond a line at its end (`PlaceIsFound`). The
identifier at a position is the one run of characters around it (`RunIsFound`,
`IdentifierIsFound`). Paths: normalizePath() is a walk that starts at the root, and a
walk that never leaves its start goes the same way from anywhere (`WalkFromStart`,
`WalkGoesDown`), so the normalized path, walked from that start, ends where the
written one does (`NormalizedIsFound`, `ImagePathIsFound`).

`DiffStaysShown`, for any sequence of heads of hunks and lines of text. The state of the
loop in buildDiffRows() after k lines has the numbers the next lines of both files
have, counted from the last hunk over the lines that have a row, and prevOldEnd is the
last line of the old file that was shown (`StatesAreCounted`, an invariant of the loop,
with `LastIsLast`). So a line gets its numbers (`LineIsWanted`) or, if it is empty or
taken for a header, nothing (`NothingIsWanted`), and a hunk the count of lines hidden
before it (`HunkIsWanted`); and since a cell shows its text before and after
highlighting (`HighlightedIsRead`), the table is line by line what is wanted
(`TableIsWanted`). What is wanted is stated over the lines that have a row: that some
lines of a file have none is the code's doing (section 5). That the tables of languages agree (`LanguagesOfFile`) is shown
for every name and suffix of a file.

Only model-checked: liveness (CallsAnswered, ClientsGetAnAnswer, DeadSessionsLeave,
CallsReturn, RequestsEnd, TermFits, TerminalComesBack, DragEnds, PageReachesApp,
HoverSettles, PreviewShowsContent, DiagramsAreDrawn), which is beyond TLAPS. Every
invariant and every action property of the passing runs has a theorem; of
MapFollowsSessions it is the safety half, LiveSessionStays.

## 7. Not modelled

`PROJECT.json` lists every part with its reason. In short:

* The router (pipes bytes after one line and keeps nothing), the bytes of terminals
  and of files, the single-command operations of the master (tmux, image transfer,
  rename) and of the control server (files, git, search), the input direction of
  panes, environment files, logs; settings, layout, drawing; installers and build
  scripts.
* Of the Go program: calls with an empty field; markReady and
  hostFromControlSocket, which nothing calls; a write that blocks.
* Of the RPC client: push and reconnect handlers and the read buffer.
* Of the terminal page: themes, clear, debug functions, the serialize and restore
  functions nothing calls, the width patch that is switched off.
* Of the editor page: themes, key bindings, what CodeMirror's search panel does.
* Of the preview page: highlighting of code blocks, their class attribute, and themes
  of diagrams.
* The bundles in `src/Sources/Belve/Resources/` are built from the entry files and
  third-party packages (xterm.js, CodeMirror, marked, mermaid, shiki); the entry
  files are modelled, the packages as far as the entry files use them.

## 8. Plan

Done, in this order: SingleFlight, SetupManager and its proofs, MuxManager,
TunnelManager, SessionBroker with PaneBackend in PaneTransport, LocalSession and
its proofs, RPCClient; the pages: TerminalView, TerminalLinks and TerminalInput,
CodeEditor, MarkdownPreview with BlockDiff, PageText and DiffRows with
PageFunctions; proofs of TerminalInput, MuxManager, RPCClient, TunnelManager,
PaneTransport and CodeEditor, then of the reachability of daemons (LocalSession), the
streams of a pane (PaneTransport), TerminalView, MarkdownPreview, and all of
PageFunctions: links, blocks, texts and diffs. Next:

1. `ControlServer` (`control.go`): the handlers of a connection, LSP processes
   and watchers, and shutdown. To settle: `lspProcess.stop` holds the mutex that
   the request it sends takes again, so stopping would not return; an operation
   that arrives during shutdown recreates the maps and leaks what it starts;
   header and body of a message to a server are written in two calls; server
   requests share the id space of the client's.
2. `PortForwards` (`PortForwardManager.swift`): sync, teardown and health poll of
   one project interleave at every await. Two overlapping syncs establish a
   forward twice; a teardown during establish leaves one nobody cancels; a
   removed forward is cancelled with port 0. "Idempotent: forwards already
   established are left alone" (line 82) is the property to check.
3. `MasterClient`: connect, version check (the versions the two sides expect
   differ), respawn, and requests that are pending when the connection is replaced.
4. `AgentSessions`: the stores of agent status, over status events that come from
   several sources and late, against the tests in `Tests/BelveTests`.
5. A composition of MuxManager and TunnelManager, so that the forward under a
   session is the one TunnelManager gives out, and of TerminalView with
   PaneTransport, so that the size a pane reports is the one the broker's PTY gets.

To check everything: `tlc -workers 2 -config X.cfg M` for each run of
`PROJECT.json`, and `tlapm` on each `*_proofs.tla`.
