---------------------------- MODULE TerminalView ----------------------------
(***************************************************************************)
(* One terminal pane of the app: the page that runs xterm.js               *)
(* (scripts/terminal-entry.js), the Swift coordinator of its web view      *)
(* (XTermTerminalView.swift) and the PTY behind them.  The page fits the   *)
(* terminal to its container and reports the size after a debounce, the    *)
(* app asks for refits when views are switched, and both decide when the   *)
(* PTY is started and which size it has.  The page also owns the WebGL     *)
(* addon that draws the terminal.                                          *)
(*                                                                         *)
(* Columns and rows are one number here.  A container of size w holds      *)
(* w \div f cells under a font of size f; 0 is a container that cannot be  *)
(* measured.  The calls of the app to the page and the page's answers and  *)
(* messages are two FIFO channels.                                         *)
(*                                                                         *)
(* The names of the state predicates and of the specification have the     *)
(* prefix View, so that a module can extend this one and TerminalInput.    *)
(***************************************************************************)
EXTENDS Naturals, Sequences, FiniteSets

CONSTANTS Sizes,       \* container sizes
          Fonts,       \* font sizes
          PageFont,    \* the font size the page starts with
          FitMin,      \* the smallest size the fit addon proposes
          PtyMin,      \* smaller sizes are bogus for the PTY
          Default,     \* the size of a terminal that was never fitted
          MaxRetries,    \* retries of a lost WebGL context
          PtyMaxRetries, \* retries of a PTY that exited
          MaxEvents      \* bound: how often users, layout, GPU and processes intervene

ASSUME SizesAreNumbers == Sizes \subseteq Nat /\ 0 \in Sizes
ASSUME FontsAreNumbers == Fonts \subseteq Nat \ {0} /\ PageFont \in Fonts
ASSUME FitMinIsPositive == FitMin \in Nat \ {0}
ASSUME BoundsAreNumbers == {Default, MaxRetries, PtyMaxRetries, MaxEvents} \subseteq Nat

VARIABLES
  page,      \* the page: container, font, term, lastFit and its timers
  gpu,       \* the WebGL loaders: [1..] -> [retries, timer, live], and current
  toApp, toPage,
  app,       \* the coordinator: ready, font, lastResize, its timers
  pty,       \* the PTY it holds, or NoPty
  starting,  \* the sizes of the PTYs a remote setup is awaited for
  remote,    \* is the project remote?
  env        \* the window, how often it was disturbed, and what failed or went unseen

viewVars == <<page, gpu, toApp, toPage, app, pty, starting, remote, env>>

NoPty == [live |-> FALSE, size |-> 0]
NoTimer == 0
Loaders == 1 .. (MaxEvents + 1)
Idle == [retries |-> 0, timer |-> FALSE, live |-> FALSE]

(* One more disturbance from outside. *)
Disturb == env.events < MaxEvents /\ env' = [env EXCEPT !.events = @ + 1]

(***************************************************************************)
(* The fit addon (external): what it proposes for the container.           *)
(***************************************************************************)
Proposed(p) ==
  IF p.container = 0 THEN 0
  ELSE IF p.container \div p.font < FitMin THEN FitMin ELSE p.container \div p.font

ViewTypeOK ==
  /\ page \in [container: Sizes, font: Fonts, term: Nat, lastFit: Nat,
               resized: BOOLEAN, fitTimer: BOOLEAN, ptyTimer: Nat, announced: BOOLEAN]
  /\ gpu \in [loaders: [Loaders -> [retries: 0 .. MaxRetries, timer: BOOLEAN, live: BOOLEAN]],
              loads: 0 .. (MaxEvents + 1), current: {0} \cup Loaders]
  /\ app \in [ready: BOOLEAN, font: Fonts, lastResize: Nat,
              initialFit: BOOLEAN, retry: 0 .. MaxEvents, retries: 0 .. PtyMaxRetries]
  /\ pty \in [live: BOOLEAN, size: Nat]
  /\ starting \in Seq(Nat)

-----------------------------------------------------------------------------
(* The page starts: the terminal is created and opened at its default      *)
(* size, the first WebGL addon is loaded, the observer will see the         *)
(* container once, and the ready message is due at the next frame.         *)
CreateTerminal(w) ==
  [container |-> w, font |-> PageFont, term |-> Default, lastFit |-> 0, resized |-> TRUE,
   fitTimer |-> FALSE, ptyTimer |-> NoTimer, announced |-> FALSE]

Loaded(g, k) ==
  [g EXCEPT !.loaders[k] = [retries |-> 0, timer |-> FALSE, live |-> TRUE], !.current = k]
LoadThrew(g, k) == [g EXCEPT !.loaders[k].timer = FALSE, !.current = 0]

(* loadWebgl(): a new loader, with its own retry counter. *)
LoadWebgl(g, ok) ==
  LET k == g.loads + 1
      h == [g EXCEPT !.loads = k]
  IN  IF ok THEN Loaded(h, k) ELSE LoadThrew(h, k)

ViewInit ==
  /\ \E w \in Sizes : page = CreateTerminal(w)
  /\ gpu = LoadWebgl([loaders |-> [k \in Loaders |-> Idle], loads |-> 0, current |-> 0], TRUE)
  /\ toApp = <<>> /\ toPage = <<>>
  /\ \E f \in Fonts :
       app = [ready |-> FALSE, font |-> f, lastResize |-> 0,
              initialFit |-> FALSE, retry |-> 0, retries |-> 0]
  /\ pty = NoPty
  /\ starting = <<>>
  /\ remote \in BOOLEAN
  /\ env = [events |-> 0, window |-> TRUE, threw |-> FALSE, failed |-> FALSE, unseen |-> FALSE]

-----------------------------------------------------------------------------
(* The page.                                                               *)

Layout(w) ==
  /\ Disturb
  /\ w # page.container
  /\ page' = [page EXCEPT !.container = w, !.resized = TRUE]
  /\ UNCHANGED <<gpu, toApp, toPage, app, pty, starting, remote>>

(* The ResizeObserver restarts the 16 ms debounce. *)
ResizeObserved ==
  /\ page.resized
  /\ page' = [page EXCEPT !.resized = FALSE, !.fitTimer = TRUE]
  /\ UNCHANGED <<gpu, toApp, toPage, app, pty, starting, remote, env>>

Fitted(p, dims) == [p EXCEPT !.term = dims, !.lastFit = dims]

DoFit ==
  LET dims == Proposed(page)
      p == [page EXCEPT !.fitTimer = FALSE]
  IN  /\ page.fitTimer
      /\ page' = IF dims < FitMin \/ dims = page.lastFit
                 THEN p
                 ELSE [Fitted(p, dims) EXCEPT !.ptyTimer = dims]
      /\ UNCHANGED <<gpu, toApp, toPage, app, pty, starting, remote, env>>

(* The 150 ms timer posts the size its closure captured. *)
PtyTimerFires ==
  /\ page.ptyTimer # NoTimer
  /\ page' = [page EXCEPT !.ptyTimer = NoTimer]
  /\ toApp' = Append(toApp, [type |-> "resize", size |-> page.ptyTimer])
  /\ UNCHANGED <<gpu, toPage, app, pty, starting, remote, env>>

PostReady ==
  /\ ~page.announced
  /\ page' = [page EXCEPT !.announced = TRUE]
  /\ toApp' = Append(toApp, [type |-> "ready"])
  /\ UNCHANGED <<gpu, toPage, app, pty, starting, remote, env>>

Called(name) == toPage # <<>> /\ Head(toPage).call = name

(* terminalFit(): the fit, and its answer to the app (0 for null). *)
\* Broken variant: _lastFit is not updated.
FitNowForgets(p) ==
  LET dims == Proposed(p) IN IF dims < FitMin THEN p ELSE [p EXCEPT !.term = dims]
FitNow(p) == LET dims == Proposed(p) IN IF dims < FitMin THEN p ELSE Fitted(p, dims)
FitAnswer(p) == LET dims == Proposed(p) IN IF dims < FitMin THEN 0 ELSE dims

TerminalFit ==
  /\ Called("fit")
  /\ page' = FitNow(page)
  /\ toApp' = Append(toApp, [type |-> "fitted", for |-> Head(toPage).for, size |-> FitAnswer(page)])
  /\ toPage' = Tail(toPage)
  /\ UNCHANGED <<gpu, app, pty, starting, remote, env>>

(* terminalSetFontSize() refits, and drops what terminalFit() returns. *)
\* Broken variant: no refit.
SetFontSizeOnly ==
  /\ Called("setFontSize")
  /\ page' = [page EXCEPT !.font = Head(toPage).size]
  /\ toPage' = Tail(toPage)
  /\ UNCHANGED <<gpu, toApp, app, pty, starting, remote, env>>
TerminalSetFontSize ==
  /\ Called("setFontSize")
  /\ LET f == Head(toPage).size
     IN  page' = IF page.font = f THEN page ELSE FitNow([page EXCEPT !.font = f])
  /\ toPage' = Tail(toPage)
  /\ UNCHANGED <<gpu, toApp, app, pty, starting, remote, env>>

-----------------------------------------------------------------------------
(* The WebGL addon.                                                        *)

MayLoad(ok) == (ok \/ ~env.threw) /\ env' = [env EXCEPT !.threw = @ \/ ~ok]

Dispose(g, k) == [g EXCEPT !.loaders[k].live = FALSE]

TerminalReloadWebgl(ok) ==
  /\ Called("reloadWebgl")
  /\ MayLoad(ok)
  /\ LET g == IF gpu.current = 0 THEN gpu
              ELSE [Dispose(gpu, gpu.current) EXCEPT !.current = 0]
     IN  gpu' = LoadWebgl(g, ok)
  /\ toPage' = Tail(toPage)
  /\ UNCHANGED <<page, toApp, app, pty, starting, remote>>

(* The context of loader k's addon is lost (GPU reclaimed). *)
ContextLoss(k) ==
  /\ gpu.loaders[k].live
  /\ Disturb
  /\ LET g == [Dispose(gpu, k) EXCEPT !.current = IF @ = k THEN 0 ELSE @]
     IN  gpu' = IF gpu.loaders[k].retries < MaxRetries
                THEN [g EXCEPT !.loaders[k].retries = @ + 1, !.loaders[k].timer = TRUE]
                ELSE g
  /\ UNCHANGED <<page, toApp, toPage, app, pty, starting, remote>>

RetryLoad(k, ok) ==
  /\ gpu.loaders[k].timer
  /\ MayLoad(ok)
  /\ gpu' = IF ok THEN Loaded(gpu, k) ELSE LoadThrew(gpu, k)
  /\ UNCHANGED <<page, toApp, toPage, app, pty, starting, remote>>

-----------------------------------------------------------------------------
(* The app.                                                                *)

Received(type) == toApp # <<>> /\ Head(toApp).type = type

(* The spawn may fail, or the binary be missing: the pane then keeps what   *)
(* PTY it has, and nothing tries again by itself.                          *)
SpawnPty(size) ==
  \/ pty' = [live |-> TRUE, size |-> size] /\ UNCHANGED env
  \/ env' = [env EXCEPT !.failed = TRUE] /\ UNCHANGED pty

(* startPTY: a remote project first awaits its setup. *)
StartPty(size) ==
  IF remote THEN starting' = Append(starting, size) /\ UNCHANGED <<pty, env>>
            ELSE SpawnPty(size) /\ UNCHANGED starting

OnReady ==
  /\ Received("ready")
  /\ app' = [app EXCEPT !.ready = TRUE, !.initialFit = TRUE]
  /\ toPage' = Append(toPage, [call |-> "setFontSize", size |-> app.font])
  /\ toApp' = Tail(toApp)
  /\ UNCHANGED <<page, gpu, pty, starting, remote, env>>

(* 0.15 s after ready: fit, unless a PTY runs by then. *)
InitialFitDue ==
  /\ app.initialFit
  /\ app' = [app EXCEPT !.initialFit = FALSE]
  /\ toPage' = IF pty = NoPty THEN Append(toPage, [call |-> "fit", for |-> "initial"]) ELSE toPage
  /\ UNCHANGED <<page, gpu, toApp, pty, starting, remote, env>>

\* Broken variant: a size that was seen before starts nothing.
OnInitialFitDeduped ==
  /\ Received("fitted") /\ Head(toApp).for = "initial"
  /\ IF pty = NoPty /\ Head(toApp).size \notin {0, app.lastResize}
     THEN /\ app' = [app EXCEPT !.lastResize = Head(toApp).size]
          /\ StartPty(Head(toApp).size)
     ELSE UNCHANGED <<app, pty, starting, env>>
  /\ toApp' = Tail(toApp)
  /\ UNCHANGED <<page, gpu, toPage, remote>>
OnInitialFit ==
  /\ Received("fitted") /\ Head(toApp).for = "initial"
  /\ IF pty = NoPty /\ Head(toApp).size # 0
     THEN /\ app' = [app EXCEPT !.lastResize = Head(toApp).size]
          /\ StartPty(Head(toApp).size)
     ELSE UNCHANGED <<app, pty, starting, env>>
  /\ toApp' = Tail(toApp)
  /\ UNCHANGED <<page, gpu, toPage, remote>>

OnResize ==
  /\ Received("resize")
  /\ LET size == Head(toApp).size
     IN  IF size < PtyMin \/ size = app.lastResize
         THEN UNCHANGED <<app, pty, starting, env>>
         ELSE /\ app' = [app EXCEPT !.lastResize = size]
              /\ IF pty = NoPty THEN StartPty(size)
                 ELSE pty' = [pty EXCEPT !.size = size] /\ UNCHANGED <<starting, env>>
  /\ toApp' = Tail(toApp)
  /\ UNCHANGED <<page, gpu, toPage, remote>>

(* A view is switched: performRefit fits, then reloads the renderer. *)
PerformRefit ==
  /\ Disturb
  /\ toPage' = Append(toPage, [call |-> "fit", for |-> "refit"])
  /\ UNCHANGED <<page, gpu, toApp, app, pty, starting, remote>>

OnRefit ==
  /\ Received("fitted") /\ Head(toApp).for = "refit"
  /\ LET size == Head(toApp).size
     IN  IF size = 0 \/ size = app.lastResize
         THEN UNCHANGED <<app, pty>>
         ELSE /\ app' = [app EXCEPT !.lastResize = size]
              /\ pty' = IF pty = NoPty THEN NoPty ELSE [pty EXCEPT !.size = size]
  /\ toPage' = Append(toPage, [call |-> "reloadWebgl"])
  /\ toApp' = Tail(toApp)
  /\ UNCHANGED <<page, gpu, starting, remote, env>>

(* The user changes the font size; the coordinator listens once ready. *)
ChangeFont(f) ==
  /\ Disturb
  /\ f # app.font
  /\ app' = [app EXCEPT !.font = f]
  /\ toPage' = IF app.ready THEN Append(toPage, [call |-> "setFontSize", size |-> f]) ELSE toPage
  /\ UNCHANGED <<page, gpu, toApp, pty, starting, remote>>

(* The setup of a remote project is done; the new PTY replaces the old. *)
SetupDone ==
  /\ starting # <<>>
  /\ SpawnPty(Head(starting))
  /\ starting' = Tail(starting)
  /\ UNCHANGED <<page, gpu, toApp, toPage, app, remote>>

(* ensureSetup throws: an error overlay, and no PTY. *)
SetupFails ==
  /\ starting # <<>>
  /\ starting' = Tail(starting)
  /\ env' = [env EXCEPT !.failed = TRUE]
  /\ UNCHANGED <<page, gpu, toApp, toPage, app, pty, remote>>

(* The registry keeps a web view that no view shows, in no window, and a    *)
(* later view takes it over.                                               *)
ChangeWindow ==
  /\ env.events < MaxEvents
  /\ env' = [env EXCEPT !.events = @ + 1, !.window = ~@]
  /\ UNCHANGED <<page, gpu, toApp, toPage, app, pty, starting, remote>>

(* The PTY exits: the coordinator forgets it and retries, a few times.      *)
PtyExits ==
  /\ pty.live
  /\ env.window
  /\ Disturb
  /\ IF app.retries < PtyMaxRetries
     THEN /\ app' = [app EXCEPT !.retries = @ + 1, !.retry = @ + 1]
          /\ pty' = NoPty
     ELSE /\ pty' = [pty EXCEPT !.live = FALSE]
          /\ UNCHANGED app
  /\ UNCHANGED <<page, gpu, toApp, toPage, starting, remote>>

(* In no window the exit goes unseen: no retry, and the coordinator holds   *)
(* on to a PTY that has ended.                                             *)
PtyExitsUnseen ==
  /\ pty.live
  /\ ~env.window
  /\ env.events < MaxEvents
  /\ env' = [env EXCEPT !.events = @ + 1, !.unseen = TRUE]
  /\ pty' = [pty EXCEPT !.live = FALSE]
  /\ UNCHANGED <<page, gpu, toApp, toPage, app, starting, remote>>

RetryPty ==
  /\ app.retry > 0
  /\ app' = [app EXCEPT !.retry = @ - 1]
  /\ StartPty(IF app.lastResize > 0 THEN app.lastResize ELSE Default)
  /\ UNCHANGED <<page, gpu, toApp, toPage, remote>>

-----------------------------------------------------------------------------
PageStep ==
  \/ ResizeObserved \/ DoFit \/ PtyTimerFires \/ PostReady
  \/ TerminalFit \/ TerminalSetFontSize
  \/ \E ok \in BOOLEAN : TerminalReloadWebgl(ok)
  \/ \E k \in Loaders, ok \in BOOLEAN : RetryLoad(k, ok)

AppStep ==
  \/ OnReady \/ InitialFitDue \/ OnInitialFit \/ OnResize \/ OnRefit
  \/ SetupDone \/ RetryPty

ViewNext ==
  \/ PageStep \/ AppStep
  \/ \E w \in Sizes : Layout(w)
  \/ \E f \in Fonts : ChangeFont(f)
  \/ PerformRefit \/ SetupFails \/ ChangeWindow \/ PtyExits \/ PtyExitsUnseen
  \/ \E k \in Loaders : ContextLoss(k)

(* Timers fire, frames come, channels are drained, a setup ends. *)
Fairness ==
  /\ WF_viewVars(ResizeObserved) /\ WF_viewVars(DoFit) /\ WF_viewVars(PtyTimerFires) /\ WF_viewVars(PostReady)
  /\ WF_viewVars(TerminalFit \/ TerminalSetFontSize \/ \E ok \in BOOLEAN : TerminalReloadWebgl(ok))
  /\ \A k \in Loaders : WF_viewVars(\E ok \in BOOLEAN : RetryLoad(k, ok))
  /\ WF_viewVars(OnReady \/ OnInitialFit \/ OnResize \/ OnRefit)
  /\ WF_viewVars(InitialFitDue) /\ WF_viewVars(SetupDone) /\ WF_viewVars(RetryPty)

ViewSpec == ViewInit /\ [][ViewNext]_viewVars /\ Fairness
-----------------------------------------------------------------------------
(***************************************************************************)
(* doFit() skips a fit when the proposal equals _lastFit (terminal-entry.js *)
(* 726), and two functions write _lastFit: whatever the order of fits,      *)
(* refits and font changes, it is the size the terminal really has.        *)
(***************************************************************************)
TermIsLastFit == page.lastFit # 0 => page.term = page.lastFit

(***************************************************************************)
(* The app drops a resize that equals lastResizeCols/Rows                  *)
(* (XTermTerminalView.swift:358).  For a local project that is safe: the   *)
(* PTY it holds always has that size, through starts by either message,    *)
(* refits while there is no PTY, exits and retries.  (A remote PTY is      *)
(* spawned later, with the size of the call that asked for it.)            *)
(***************************************************************************)
LocalPtySize == ~remote /\ pty # NoPty => pty.size = app.lastResize

(***************************************************************************)
(* _currentWebgl never refers to a disposed addon, although the loss of a  *)
(* context, a retry timer and a reload may come in any order: the reload   *)
(* would dispose the wrong one (terminal-entry.js 313-345).                *)
(***************************************************************************)
CurrentIsLive == gpu.current # 0 => gpu.loaders[gpu.current].live

(***************************************************************************)
(* However layouts, refits and font changes race with the debounce, the    *)
(* terminal ends with the size its container holds.                        *)
(***************************************************************************)
TermFits == <>[](page.container # 0 => page.term = Proposed(page))

(***************************************************************************)
(* The initial fit, the resize message, their deduplication, setups that   *)
(* overtake each other and the retries after exits do not leave a pane     *)
(* without its PTY: it ends with a running one, if its container can always *)
(* be measured, every setup and spawn it asked for succeeded (nothing      *)
(* retries one that failed), the retries were not used up and no PTY exited *)
(* while the web view was in no window (XTermTerminalView.swift:1090).      *)
(***************************************************************************)
GaveUp == app.retries = PtyMaxRetries /\ ~pty.live /\ pty # NoPty
PtyRuns ==
  [](page.container # 0 /\ ~env.failed /\ ~env.unseen) => <>[](pty.live \/ GaveUp)

(***************************************************************************)
(* When loading never throws, the terminal ends with a WebGL renderer,     *)
(* however contexts are lost and the addon is reloaded meanwhile.          *)
(***************************************************************************)
GpuComesBack == [](~env.threw) => <>[](\E k \in Loaders : gpu.loaders[k].live)

(***************************************************************************)
(* The view in every state: what the page and the app remember of a size   *)
(* or an addon, to skip work or to dispose of it, is true, and the retries  *)
(* stay within their bounds.                                               *)
(***************************************************************************)
ViewInv == ViewTypeOK /\ CurrentIsLive /\ TermIsLastFit /\ LocalPtySize

(***************************************************************************)
(* Whatever is lost or exits meanwhile, the terminal works in the end: it  *)
(* has its PTY and its renderer, unless something failed that the app does  *)
(* not try again.                                                          *)
(***************************************************************************)
TerminalComesBack == PtyRuns /\ GpuComesBack
=============================================================================
