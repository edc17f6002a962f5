----------------------------- MODULE WindowTray -----------------------------
(***************************************************************************)
(* The launcher window over its life: created by setup, closed by the      *)
(* user, handed to the tray, freed later by the event loop, created again  *)
(* by a restore; and how the event loop tells that an external browser     *)
(* window has gone (src/ui/{supervisor,state,browser}.rs, src/ui/window/). *)
(*                                                                         *)
(* This is the Windows build, where windows have handles; the handle and   *)
(* the pid of a window are its number.  dsh and the shutdown of the        *)
(* process are LaunchFlow's: here dsh is handed over, crashes, or not.     *)
(***************************************************************************)
EXTENDS Integers, FiniteSets

CONSTANTS
  Browser,      \* values ui.mode may have: TRUE for an external browser
  CloseToTray,  \* values ui.close_to_tray may have
  MaxAsk,       \* bound: requests to show the window, hides, crashes of dsh, lost
                \* WebViews, and windows that setup has to make again
  MaxAskWebView \* the same when ui.mode is not browser

ASSUME BoundsAssumption == MaxAsk \in Nat /\ MaxAskWebView \in 0 .. MaxAsk
ASSUME ConfigAssumption == Browser \subseteq BOOLEAN /\ CloseToTray \subseteq BOOLEAN

\* Bound: setup makes one window, and each of these at most one more.
Win    == 1 .. MaxAsk + 1
None   == 0
Maybe  == Win \cup {None}
\* Threads that build windows: the event loop's, and a caller of window_show.
Caller == {"main", "api"}
CONFIRM_TICKS == 3

VARIABLES
  \* ui/state.rs.
  id,            \* WINDOW_ID
  hwnd,          \* WEBVIEW_HWND
  pending,       \* PENDING_DESTROY
  trayed, restoring, setupDone, closePending, launched, shutdown, isBrowser,
  nav,           \* CRASH_NAVIGATE_PENDING
  keepalive,     \* KEEPALIVE: the window whose socket it holds
  closeToTray,   \* CLOSE_TO_TRAY
  prefer,        \* ui.mode is browser
  \* ui/browser.rs.
  bhwnd,         \* BROWSER_HWND
  teardown,      \* TEARDOWN_PID
  confirm,       \* CONFIRM
  navigated,     \* NAVIGATED_TO_DSH
  grace,         \* SHOWN_AT: never, within SHOW_GRACE_SECS, or before
  \* The windows themselves, and those that are browser windows.
  win, external,
  \* The event loop: its place in a pass, and the window it is freeing.
  main, victim,
  \* Per caller: its place in show_window, the window it makes, whether it is in
  \* setup rather than in a restore, and the attempts of setup.
  build, made, first, attempt,
  \* The close handler on webui's thread.
  handler, closing,
  \* Background threads: capture_webview_hwnd (window, handle read), the pid
  \* hunt (window, handle found), and navigations that await the browser.
  hunt, seen, capture, found, connector,
  \* Requests: the tray's restore, a second instance's activation.
  asked, asks,
  dsh,           \* dsh is being started, or the window was handed over to it
  \* History: a window was hidden while one was being made, or made by a restore
  \* that began after another had left the tray; a WebView died without its
  \* handler, and did so untracked or in the middle of a restore or a close; setup
  \* ran again; and the unbroken run of bad readings of the browser.
  mislaid, died, lost, rerun, streak

flagVars    == <<trayed, restoring, setupDone, closePending, launched, shutdown,
                 isBrowser, nav, closeToTray, prefer>>
nameVars    == <<id, hwnd, pending, keepalive>>
browserVars == <<bhwnd, teardown, confirm, navigated, grace, streak>>
winVars     == <<win, external>>
mainVars    == <<main, victim>>
buildVars   == <<build, made, first, attempt>>
handlerVars == <<handler, closing>>
bgVars      == <<hunt, seen, capture, found, connector>>
askVars     == <<asked, asks, dsh>>
history     == <<mislaid, died, lost, rerun>>
vars == <<flagVars, nameVars, browserVars, winVars, mainVars, buildVars,
          handlerVars, bgVars, askVars, history>>

Loop == {"top", "unname", "clear", "crash", "poll", "gone", "tray"}

TypeOK ==
  /\ {trayed, restoring, setupDone, closePending, launched, shutdown, isBrowser,
      nav, closeToTray, prefer, navigated, asked} \subseteq BOOLEAN
  /\ {id, hwnd, pending, keepalive, bhwnd, teardown, victim, closing, hunt, seen,
      found} \subseteq Maybe
  /\ confirm \in 0 .. CONFIRM_TICKS - 1
  /\ streak \in 0 .. CONFIRM_TICKS
  /\ grace \in {"none", "fresh", "old"}
  /\ win \in [Win -> {"none", "new", "up", "gone", "freed"}]
  /\ external \subseteq Win /\ connector \subseteq Win
  /\ main \in Loop \cup {"setup", "teardown", "ended"}
  /\ build \in [Caller -> {"idle", "decide", "create", "show", "untray", "open", "check",
                           "roll", "fail", "settle", "settled"}]
  /\ made \in [Caller -> Maybe]
  /\ first \in [Caller -> BOOLEAN]
  /\ attempt \in 1 .. 3
  /\ handler \in {"idle", "fired", "defer", "quit", "tray", "trayed", "close"}
  /\ capture \in Maybe
  /\ asks \in 0 .. MaxAsk
  /\ dsh \in {"starting", "serving"}
  /\ {mislaid, died, lost, rerun} \subseteq BOOLEAN

Init ==
  /\ id = None /\ hwnd = None /\ pending = None /\ keepalive = None
  /\ trayed = FALSE /\ restoring = FALSE /\ setupDone = FALSE
  /\ closePending = FALSE /\ launched = FALSE /\ shutdown = FALSE /\ nav = FALSE
  /\ isBrowser = FALSE
  /\ closeToTray \in CloseToTray /\ prefer \in Browser
  /\ bhwnd = None /\ teardown = None /\ confirm = 0 /\ streak = 0
  /\ navigated = FALSE /\ grace = "none"
  /\ win = [w \in Win |-> "none"]
  /\ external = {}
  /\ main = "setup" /\ victim = None
  /\ build = [t \in Caller |-> IF t = "main" THEN "create" ELSE "idle"]
  /\ made = [t \in Caller |-> None]
  /\ first = [t \in Caller |-> t = "main"]
  /\ attempt = 1
  /\ handler = "idle" /\ closing = None
  /\ hunt = None /\ seen = None /\ capture = None /\ found = None
  /\ connector = {}
  /\ asked = FALSE /\ asks = 0
  /\ dsh = "starting"
  /\ mislaid = FALSE /\ died = FALSE /\ lost = FALSE /\ rerun = FALSE

Running    == main # "ended"
Up         == {w \in Win : win[w] = "up"}
IsUp(w)    == w \in Up
Unused     == {w \in Win : win[w] = "none"}
NextWin    == CHOOSE w \in Unused : \A v \in Unused : w <= v
Limit      == IF prefer THEN MaxAsk ELSE MaxAskWebView
Ask        == Running /\ asks < Limit /\ asks' = asks + 1
Close(w)   == [win EXCEPT ![w] = IF @ = "up" THEN "gone" ELSE @]
Destroy(w) == IF w = None THEN win ELSE [win EXCEPT ![w] = "freed"]
Quiet      == \A t \in Caller : build[t] = "idle"
BuildAt(t, step) == Running /\ build[t] = step
Build(t, step)   == build' = [build EXCEPT ![t] = step]

\* webui::is_shown: the page's socket.  It is not there yet while a page loads,
\* it goes when the page navigates, and it may outlive the window a little.
IsShown(w) == IF w \in Win /\ win[w] \in {"up", "gone"} THEN BOOLEAN ELSE {FALSE}

(***************************************************************************)
(* ui/state.rs and ui/browser.rs: the transitions every path goes through. *)
(***************************************************************************)

\* enter_trayed_deferred and enter_trayed_now.
EnterTrayed(w) == keepalive' = None /\ pending' = w /\ trayed' = TRUE

\* browser::adopt.
Adopt(w) == bhwnd' = w /\ teardown' = w /\ confirm' = 0 /\ streak' = 0

\* browser::note_window_recreated.
NoteWindowRecreated == navigated' = FALSE /\ confirm' = 0 /\ grace' = "none"

\* capture_browser_pid: one hunt at a time, for the window of the moment.
CaptureBrowserPid(w) ==
  capture' = IF capture = None /\ found = None THEN w ELSE capture

(***************************************************************************)
(* Building a window: show_window, called by setup and by perform_rebuild. *)
(***************************************************************************)

\* Caller t has found TRAYED set and calls restore_from_tray, which does not look
\* at it again.
RestoreFromTray(t) == Build(t, "decide")

\* decide_restore_action: nothing, the browser that is still there, or a rebuild.
DecideRestore(t) ==
  /\ BuildAt(t, "decide")
  /\ \/ restoring /\ Build(t, "idle")
        /\ UNCHANGED <<trayed, restoring, bhwnd, teardown, confirm, streak, mislaid>>
     \/ /\ ~restoring /\ IsUp(bhwnd) /\ Build(t, "idle")
        /\ Adopt(bhwnd)
        /\ trayed' = FALSE
        /\ UNCHANGED <<restoring, mislaid>>
     \/ /\ ~restoring /\ ~IsUp(bhwnd) /\ Build(t, "create")
        /\ restoring' = TRUE
        /\ mislaid' = (mislaid \/ ~trayed)
        /\ UNCHANGED <<trayed, bhwnd, teardown, confirm, streak>>
  /\ UNCHANGED <<setupDone, closePending, launched, shutdown, isBrowser, nav, closeToTray,
                 prefer, nameVars, navigated, grace, winVars, mainVars, made, first,
                 attempt, handlerVars, bgVars, askVars, died, lost, rerun>>

\* Fault: a restore leaves SETUP_DONE set while the window is being made.
GateLeftOpen == setupDone' = setupDone
ShutGate == setupDone' = FALSE

\* The start of perform_rebuild, and create_window.
Create(t) ==
  LET w == NextWin
      ext == IF first[t] THEN prefer ELSE isBrowser IN
  /\ BuildAt(t, "create") /\ Build(t, "show")
  /\ id' = w /\ made' = [made EXCEPT ![t] = w]
  /\ win' = [win EXCEPT ![w] = "new"]
  /\ external' = IF ext THEN external \cup {w} ELSE external
  /\ streak' = 0
  /\ IF first[t]
       THEN UNCHANGED <<keepalive, closePending, setupDone, navigated, confirm, grace>>
       ELSE /\ keepalive' = None /\ closePending' = FALSE /\ ShutGate
            /\ IF isBrowser THEN NoteWindowRecreated
                            ELSE UNCHANGED <<navigated, confirm, grace>>
  /\ UNCHANGED <<trayed, restoring, launched, shutdown, isBrowser, nav, closeToTray,
                 prefer, hwnd, pending, bhwnd, teardown, mainVars, first, attempt,
                 handlerVars, bgVars, askVars, mislaid, died, lost, rerun>>

\* The window comes up while show waits for it.
WindowAppears(t) ==
  /\ BuildAt(t, "show") /\ win[made[t]] = "new"
  /\ win' = [win EXCEPT ![made[t]] = "up"]
  /\ UNCHANGED <<flagVars, nameVars, browserVars, external, mainVars, buildVars,
                 handlerVars, bgVars, askVars, history>>

\* show_webview of setup: no WebView on this machine, use a browser.
FallBack(t) ==
  /\ BuildAt(t, "show") /\ first[t] /\ made[t] \notin external
  /\ win[made[t]] = "new" /\ Ask
  /\ LET w == NextWin IN
       /\ id' = w /\ made' = [made EXCEPT ![t] = w] /\ streak' = 0
       /\ win' = [Destroy(made[t]) EXCEPT ![w] = "new"]
       /\ external' = external \cup {w}
  /\ UNCHANGED <<flagVars, hwnd, pending, keepalive, bhwnd, teardown, confirm,
                 navigated, grace, mainVars, build, first, attempt, handlerVars, bgVars,
                 asked, dsh, history>>

\* apply_post_show_state; whether there is a dsh url to go back to is left open.
PostShow(w, back) ==
  /\ isBrowser' = (w \in external)
  /\ IF w \in external
       THEN /\ grace' = "fresh"
            /\ connector' = IF back THEN connector \cup {w} ELSE connector
            /\ CaptureBrowserPid(w)
            /\ UNCHANGED <<keepalive, navigated>>
       ELSE /\ keepalive' = w
            /\ navigated' = (back \/ navigated)
            /\ UNCHANGED <<grace, connector, capture>>

\* show_window returns true; a restore then evaluates the rebuild.
ShowSucceeds(t) ==
  /\ BuildAt(t, "show") /\ IsUp(made[t])
  /\ \E back \in IF first[t] THEN {FALSE} ELSE BOOLEAN : PostShow(made[t], back)
  /\ made' = [made EXCEPT ![t] = None]
  /\ IF first[t] THEN Build(t, "settle") /\ UNCHANGED closePending
     ELSE /\ Build(t, IF closePending THEN "roll" ELSE "untray")
          /\ closePending' = FALSE
  /\ UNCHANGED <<trayed, restoring, setupDone, launched, shutdown, nav, closeToTray,
                 prefer, id, hwnd, pending, bhwnd, teardown, confirm, streak, winVars,
                 mainVars, first, attempt, handlerVars, hunt, seen, found,
                 askVars, history>>

\* show_window returns false: a WebView that did not come up, a browser that
\* went, or one that is there but did not connect in time.  setup tries again
\* unless the browser was seen, and gives up with a shutdown.  Bound: it also
\* gives up when Limit leaves no window to try with.
ShowFails(t) ==
  LET w == made[t]
      saw == IF w \in external /\ win[w] # "new" THEN BOOLEAN ELSE {FALSE} IN
  /\ BuildAt(t, "show") /\ (w \in external \/ win[w] # "up")
  /\ made' = [made EXCEPT ![t] = None]
  /\ \/ ~first[t] /\ Build(t, "roll") /\ UNCHANGED <<shutdown, attempt, win, asks>>
     \/ /\ first[t] /\ attempt < 3 /\ FALSE \in saw
        /\ Build(t, "create") /\ attempt' = attempt + 1 /\ Ask
        /\ win' = [v \in Win |-> IF win[v] = "none" THEN "none" ELSE "freed"]
        /\ UNCHANGED shutdown
     \/ /\ first[t] /\ (attempt = 3 \/ asks = Limit \/ TRUE \in saw)
        /\ Build(t, "settle") /\ shutdown' = TRUE /\ UNCHANGED <<attempt, win, asks>>
  /\ UNCHANGED <<trayed, restoring, setupDone, closePending, launched, isBrowser, nav,
                 closeToTray, prefer, nameVars, browserVars, external, mainVars,
                 first, handlerVars, bgVars, asked, dsh, history>>

\* Fault: SETUP_DONE is set before TRAYED is cleared.
UntrayLast(t) ==
  \/ BuildAt(t, "untray") /\ Build(t, "open") /\ setupDone' = TRUE /\ UNCHANGED trayed
  \/ BuildAt(t, "open") /\ Build(t, "check") /\ trayed' = FALSE /\ UNCHANGED setupDone

\* The success branch of perform_rebuild, one store at a time.
Untray(t) ==
  \/ BuildAt(t, "untray") /\ Build(t, "open") /\ trayed' = FALSE /\ UNCHANGED setupDone
  \/ BuildAt(t, "open") /\ Build(t, "check") /\ setupDone' = TRUE /\ UNCHANGED trayed

Publish(t) ==
  /\ Untray(t)
  /\ UNCHANGED <<restoring, closePending, launched, shutdown, isBrowser, nav,
                 closeToTray, prefer, nameVars, browserVars, winVars, mainVars, made,
                 first, attempt, handlerVars, bgVars, askVars, history>>

FinishRebuild(t) ==
  /\ BuildAt(t, "check")
  /\ closePending' = FALSE
  /\ IF closePending THEN Build(t, "roll") /\ UNCHANGED restoring
                  ELSE Build(t, "idle") /\ restoring' = FALSE
  /\ UNCHANGED <<trayed, setupDone, launched, shutdown, isBrowser, nav, closeToTray,
                 prefer, nameVars, browserVars, winVars, mainVars, made, first,
                 attempt, handlerVars, bgVars, askVars, history>>

RollBack(t) ==
  /\ BuildAt(t, "roll") /\ Build(t, "fail")
  /\ keepalive' = None /\ win' = Destroy(id)
  /\ UNCHANGED <<flagVars, id, hwnd, pending, browserVars, external, mainVars, made,
                 first, attempt, handlerVars, bgVars, askVars, history>>

\* Fault: a failed restore keeps the latch.
FailKeepsLatch == restoring' = restoring
FailReleases == restoring' = FALSE

\* finish_restore_fail.
FinishRestoreFail(t) ==
  /\ BuildAt(t, "fail") /\ Build(t, "idle")
  /\ id' = None /\ hwnd' = None /\ confirm' = 0 /\ streak' = 0
  /\ trayed' = TRUE /\ setupDone' = TRUE /\ FailReleases
  /\ UNCHANGED <<closePending, launched, shutdown, isBrowser, nav, closeToTray, prefer,
                 pending, keepalive, bhwnd, teardown, navigated, grace, winVars,
                 mainVars, made, first, attempt, handlerVars, bgVars, askVars, history>>

\* The end of setup: SETUP_DONE, then the close that came meanwhile.
Settle(t) ==
  /\ \/ /\ BuildAt(t, "settle") /\ Build(t, "settled") /\ setupDone' = TRUE
        /\ UNCHANGED <<closePending, shutdown, main, first, attempt>>
     \/ /\ BuildAt(t, "settled") /\ Build(t, "idle")
        /\ closePending' = FALSE /\ shutdown' = (shutdown \/ closePending)
        /\ main' = IF t = "main" THEN "top" ELSE main
        /\ first' = [first EXCEPT ![t] = FALSE] /\ attempt' = 1
        /\ UNCHANGED setupDone
  /\ UNCHANGED <<trayed, restoring, launched, isBrowser, nav, closeToTray, prefer,
                 nameVars, browserVars, winVars, victim, made, handlerVars, bgVars,
                 askVars, history>>

(***************************************************************************)
(* One pass of the event loop (run_loop), check by check.                  *)
(***************************************************************************)

\* A check runs once the restore that an earlier one started has returned.
MainAt(from)    == Running /\ main = from /\ build["main"] = "idle"
Step(from, to)  == MainAt(from) /\ main' = to
RequestShutdown == shutdown' = TRUE

\* SHOULD_EXIT and SHUTDOWN_REQUESTED, then PENDING_DESTROY: taken, to be freed
\* or put back.
TakePending ==
  /\ Step("top", IF shutdown THEN "teardown"
                 ELSE IF pending = None THEN "crash" ELSE "unname")
  /\ IF shutdown THEN UNCHANGED <<victim, pending>>
                 ELSE victim' = pending /\ pending' = None
  /\ UNCHANGED <<flagVars, id, hwnd, keepalive, browserVars, winVars, buildVars,
                 handlerVars, bgVars, askVars, history>>

FreePending ==
  /\ MainAt("unname") /\ victim' = None
  /\ \E shown \in IsShown(victim) :
       IF shown THEN main' = "crash" /\ pending' = victim /\ UNCHANGED win
       ELSE /\ win' = Destroy(victim)
            /\ main' = IF id = victim THEN "clear" ELSE "crash"
            /\ UNCHANGED pending
  /\ UNCHANGED <<flagVars, id, hwnd, keepalive, browserVars, external,
                 buildVars, handlerVars, bgVars, askVars, history>>

ClearId ==
  /\ Step("clear", "crash")
  /\ id' = None
  /\ UNCHANGED <<flagVars, hwnd, pending, keepalive, browserVars, winVars, victim,
                 buildVars, handlerVars, bgVars, askVars, history>>

\* CRASH_NAVIGATE_PENDING: back to the startup page.
NavigateBack ==
  /\ Step("crash", "poll")
  /\ nav' = FALSE
  /\ IF nav /\ trayed THEN RestoreFromTray("main") /\ UNCHANGED navigated
     ELSE navigated' = (navigated \/ (nav /\ isBrowser)) /\ UNCHANGED build
  /\ UNCHANGED <<trayed, restoring, setupDone, closePending, launched, shutdown, isBrowser,
                 closeToTray, prefer, nameVars, bhwnd, teardown, confirm, grace, streak,
                 winVars, victim, made, first, attempt, handlerVars, bgVars, askVars,
                 history>>

\* Fault: a handle that is known is taken for a window that is there.
TrustHandle ==
  IF bhwnd # None THEN {"good"}
  ELSE {IF shown THEN "good" ELSE IF navigated \/ grace # "old" THEN "unsure" ELSE "bad" :
          shown \in IsShown(id)}

\* poll_close: what this tick learns of the browser window.
Reading ==
  IF bhwnd # None THEN IF IsUp(bhwnd) THEN {"good"} ELSE {"bad"}
  ELSE {IF shown THEN "good" ELSE IF navigated \/ grace # "old" THEN "unsure" ELSE "bad" :
          shown \in IsShown(id)}

\* Fault: a good reading does not start the count again.
CountAll(r) == IF r = "bad" THEN (confirm + 1) % CONFIRM_TICKS ELSE confirm
\* Fault: the count does not start again once the window was judged gone.
CountOn(r) == CASE r = "good" -> 0 [] r = "bad" -> confirm + 1 [] OTHER -> confirm
Count(r) == CASE r = "good" -> 0
              [] r = "bad" -> (confirm + 1) % CONFIRM_TICKS
              [] OTHER -> confirm

\* wait_async has no window left and dsh has none yet.
StartupGone ==
  /\ Step("poll", "teardown")
  /\ ~launched /\ \A w \in Win : win[w] \notin {"new", "up"}
  /\ RequestShutdown
  /\ UNCHANGED <<trayed, restoring, setupDone, closePending, launched, isBrowser, nav,
                 closeToTray, prefer, nameVars, browserVars, winVars, victim,
                 buildVars, handlerVars, bgVars, askVars, history>>

\* browser_close_enter_tray, or a shutdown.
BrowserGone ==
  /\ IF launched /\ closeToTray
       THEN EnterTrayed(id) /\ navigated' = FALSE /\ grace' = "none" /\ UNCHANGED shutdown
       ELSE RequestShutdown /\ UNCHANGED <<keepalive, pending, trayed, navigated, grace>>

PollClose ==
  /\ Step("poll", "gone")
  /\ IF ~isBrowser \/ trayed
       THEN UNCHANGED <<keepalive, pending, trayed, shutdown, confirm, streak, navigated,
                        grace, capture>>
       ELSE \E r \in Reading :
         /\ confirm' = Count(r)
         /\ IF r = "bad" /\ confirm = CONFIRM_TICKS - 1
              THEN BrowserGone /\ streak' = 0 /\ UNCHANGED capture
              ELSE /\ streak' = CASE r = "good" -> 0
                                  [] r = "bad" /\ streak < CONFIRM_TICKS -> streak + 1
                                  [] OTHER -> streak
                   /\ IF bhwnd = None THEN CaptureBrowserPid(id) \/ UNCHANGED capture
                                      ELSE UNCHANGED capture
                   /\ UNCHANGED <<keepalive, pending, trayed, shutdown, navigated, grace>>
  /\ UNCHANGED <<restoring, setupDone, closePending, launched, isBrowser, nav,
                 closeToTray, prefer, id, hwnd, bhwnd, teardown, winVars, victim,
                 buildVars, handlerVars, hunt, seen, found, connector, askVars, history>>

\* The WebView's handle is dead although no close handler ran.
WindowGone ==
  /\ Step("gone", "tray")
  /\ IF launched /\ hwnd # None /\ ~IsUp(hwnd) /\ ~trayed
       THEN IF closeToTray
              THEN hwnd' = None /\ EnterTrayed(id) /\ UNCHANGED shutdown
              ELSE RequestShutdown /\ UNCHANGED <<hwnd, keepalive, pending, trayed>>
       ELSE UNCHANGED <<shutdown, hwnd, keepalive, pending, trayed>>
  /\ UNCHANGED <<restoring, setupDone, closePending, launched, isBrowser, nav,
                 closeToTray, prefer, id, browserVars, winVars, victim, buildVars,
                 handlerVars, bgVars, askVars, history>>

\* A tray click, or an activation by a second instance: the request is consumed,
\* and restores the window or only focuses it.  The two checks are alike; one
\* stands for both.
ServeRequest ==
  /\ Step("tray", "top")
  /\ asked' = FALSE
  /\ IF asked /\ trayed THEN RestoreFromTray("main") ELSE UNCHANGED build
  /\ UNCHANGED <<flagVars, nameVars, browserVars, winVars, victim, made, first, attempt,
                 handlerVars, bgVars, asks, dsh, history>>

\* exit::shutdown: webui is cleaned, stop_browser closes the browser it knows.
Teardown ==
  /\ Step("teardown", "ended")
  /\ win' = [w \in Win |-> IF w \notin external \/ w = teardown
                            THEN Close(w)[w] ELSE win[w]]
  /\ UNCHANGED <<flagVars, nameVars, browserVars, external, victim, buildVars,
                 handlerVars, bgVars, askVars, history>>

(***************************************************************************)
(* on_webview_close, on webui's thread.  A close it allows takes effect    *)
(* when it returns.                                                        *)
(***************************************************************************)
UserCloses(w) ==
  /\ Running /\ win[w] = "up"
  /\ IF w \in external
       THEN win' = Close(w) /\ UNCHANGED handlerVars
       ELSE handler = "idle" /\ handler' = "fired" /\ closing' = w /\ UNCHANGED win
  /\ UNCHANGED <<flagVars, nameVars, browserVars, external, mainVars, buildVars, bgVars,
                 askVars, history>>

HandlerAt(step) == Running /\ handler = step

DecideClose ==
  /\ HandlerAt("fired")
  /\ handler' = IF ~setupDone THEN "defer"
                ELSE IF closeToTray /\ launched /\ IsUp(closing) THEN "tray"
                ELSE "quit"
  /\ UNCHANGED <<flagVars, nameVars, browserVars, winVars, mainVars, buildVars, closing,
                 bgVars, askVars, history>>

DeferClose ==
  /\ HandlerAt("defer") /\ handler' = "idle" /\ closing' = None
  /\ closePending' = TRUE
  /\ UNCHANGED <<trayed, restoring, setupDone, launched, shutdown, isBrowser, nav,
                 closeToTray, prefer, nameVars, browserVars, winVars, mainVars, buildVars,
                 bgVars, askVars, history>>

CloseQuits ==
  /\ HandlerAt("quit") /\ handler' = "close"
  /\ RequestShutdown
  /\ UNCHANGED <<trayed, restoring, setupDone, closePending, launched, isBrowser, nav,
                 closeToTray, prefer, nameVars, browserVars, winVars, mainVars, buildVars,
                 closing, bgVars, askVars, history>>

\* Fault: the keep-alive is not stopped on the way to the tray.
KeepAliveStays == keepalive' = keepalive
StopKeepAlive == keepalive' = None

\* WEBVIEW_HWND and enter_trayed_deferred, in their order.
CloseToTrayNow ==
  /\ \/ /\ HandlerAt("tray") /\ handler' = "trayed"
        /\ hwnd' = None /\ StopKeepAlive /\ pending' = closing
        /\ UNCHANGED trayed
     \/ /\ HandlerAt("trayed") /\ handler' = "close"
        /\ trayed' = TRUE
        /\ UNCHANGED <<hwnd, keepalive, pending>>
  /\ UNCHANGED <<restoring, setupDone, closePending, launched, shutdown, isBrowser, nav,
                 closeToTray, prefer, id, browserVars, winVars, mainVars, buildVars,
                 closing, bgVars, askVars, history>>

HandlerReturns ==
  /\ HandlerAt("close") /\ handler' = "idle" /\ closing' = None
  /\ win' = Close(closing)
  /\ UNCHANGED <<flagVars, nameVars, browserVars, external, mainVars, buildVars,
                 bgVars, askVars, history>>

Handler == DecideClose \/ DeferClose \/ CloseQuits \/ CloseToTrayNow \/ HandlerReturns

(***************************************************************************)
(* Other threads.                                                          *)
(***************************************************************************)

\* capture_webview_hwnd: reads the handle of the window of the moment, then
\* stores it; gives up after ten seconds.
CaptureHwnd ==
  /\ Running
  /\ \/ /\ IsUp(hunt) /\ seen = None
        /\ seen' = hunt /\ hunt' = None /\ UNCHANGED hwnd
     \/ /\ hunt # None /\ hunt' = None /\ UNCHANGED <<seen, hwnd>>
     \/ /\ seen # None /\ seen' = None /\ hwnd' = seen /\ UNCHANGED hunt
  /\ UNCHANGED <<flagVars, id, pending, keepalive, browserVars, winVars, mainVars,
                 buildVars, handlerVars, capture, found, connector, askVars, history>>

\* locate_browser_pid: finds the window of its browser unless one is tracked,
\* adopts it; or gives up.
LocateBrowser ==
  /\ Running /\ capture # None
  /\ capture' = None
  /\ \/ IsUp(capture) /\ bhwnd = None /\ found' = capture
     \/ UNCHANGED found
  /\ UNCHANGED <<flagVars, nameVars, browserVars, winVars, mainVars, buildVars,
                 handlerVars, hunt, seen, connector, askVars, history>>

AdoptBrowser ==
  /\ Running /\ found # None
  /\ Adopt(found) /\ found' = None
  /\ UNCHANGED <<flagVars, nameVars, navigated, grace, winVars, mainVars, buildVars,
                 handlerVars, hunt, seen, capture, connector, askVars, history>>

\* The thread of apply_post_show_state that navigates a restored browser.
BrowserConnects ==
  /\ Running /\ \E w \in connector : connector' = connector \ {w}
  /\ IF shutdown THEN UNCHANGED navigated ELSE navigated' = TRUE
  /\ UNCHANGED <<flagVars, nameVars, bhwnd, teardown, confirm, grace, streak, winVars,
                 mainVars, buildVars, handlerVars, hunt, seen, capture, found, askVars,
                 history>>

\* SHOW_GRACE_SECS pass.
GraceEnds ==
  /\ Running /\ grace = "fresh" /\ grace' = "old"
  /\ UNCHANGED <<flagVars, nameVars, bhwnd, teardown, confirm, navigated, streak, winVars,
                 mainVars, buildVars, handlerVars, bgVars, askVars, history>>

\* The launch worker hands the window over to dsh (ui/launch.rs).
HandOff ==
  /\ Running /\ main # "setup" /\ ~shutdown
  /\ dsh = "starting" /\ dsh' = "serving"
  /\ launched' = TRUE
  /\ IF isBrowser THEN navigated' = TRUE /\ UNCHANGED hunt
                  ELSE hunt' = id /\ UNCHANGED navigated
  /\ UNCHANGED <<trayed, restoring, setupDone, closePending, shutdown, isBrowser, nav,
                 closeToTray, prefer, nameVars, bhwnd, teardown, confirm, grace, streak,
                 winVars, mainVars, buildVars, handlerVars, seen, capture, found,
                 connector, asked, asks, history>>

Background == CaptureHwnd \/ LocateBrowser \/ AdoptBrowser \/ BrowserConnects

(***************************************************************************)
(* Requests: the user, dsh, and a program that embeds the launcher.        *)
(***************************************************************************)
\* window_show waits for setup, which holds the lock of the kernel boot.
WindowShow ==
  /\ Ask /\ main # "setup" /\ build["api"] = "idle"
  /\ IF trayed THEN RestoreFromTray("api") /\ UNCHANGED <<first, attempt, rerun>>
     ELSE IF id = None
            THEN /\ Build("api", "create") /\ first' = [first EXCEPT !["api"] = TRUE]
                 /\ attempt' = 1 /\ rerun' = TRUE
            ELSE UNCHANGED <<build, first, attempt, rerun>>
  /\ UNCHANGED <<flagVars, nameVars, browserVars, winVars, mainVars, made, handlerVars,
                 bgVars, asked, dsh, mislaid, died, lost>>

WindowHide ==
  /\ Ask /\ closeToTray /\ id # None
  /\ hwnd' = None /\ EnterTrayed(id)
  /\ mislaid' = (mislaid \/ ~Quiet)
  /\ UNCHANGED <<restoring, setupDone, closePending, launched, shutdown, isBrowser, nav,
                 closeToTray, prefer, id, browserVars, winVars, mainVars, buildVars,
                 handlerVars, bgVars, asked, dsh, died, lost, rerun>>

Request ==
  /\ Ask
  /\ \/ asked' = TRUE /\ UNCHANGED <<nav, dsh>>
     \/ dsh = "serving" /\ dsh' = "starting" /\ nav' = TRUE /\ UNCHANGED asked
  /\ UNCHANGED <<trayed, restoring, setupDone, closePending, launched, shutdown,
                 isBrowser, closeToTray, prefer, nameVars, browserVars, winVars, mainVars,
                 buildVars, handlerVars, bgVars, history>>

\* Ctrl+C, the tray's quit, the exit of dsh.
Quit ==
  /\ Running /\ ~shutdown /\ RequestShutdown
  /\ UNCHANGED <<trayed, restoring, setupDone, closePending, launched, isBrowser, nav,
                 closeToTray, prefer, nameVars, browserVars, winVars, mainVars, buildVars,
                 handlerVars, bgVars, askVars, history>>

\* A WebView goes without its close handler.
WindowDies(w) ==
  /\ Ask /\ win[w] = "up" /\ w \notin external
  /\ handler = "idle" \/ closing # w
  /\ win' = Close(w)
  /\ died' = TRUE
  /\ lost' = (lost \/ w \notin {hwnd, seen} \/ ~Quiet \/ handler # "idle")
  /\ UNCHANGED <<flagVars, nameVars, browserVars, external, mainVars, buildVars,
                 handlerVars, bgVars, asked, dsh, mislaid, rerun>>

-----------------------------------------------------------------------------

Builder(t) == \/ DecideRestore(t) \/ Create(t) \/ WindowAppears(t) \/ FallBack(t)
              \/ ShowSucceeds(t) \/ ShowFails(t) \/ Publish(t) \/ FinishRebuild(t)
              \/ RollBack(t) \/ FinishRestoreFail(t) \/ Settle(t)

Pass == \/ TakePending \/ FreePending \/ ClearId \/ NavigateBack \/ StartupGone
        \/ PollClose \/ WindowGone \/ ServeRequest \/ Teardown

Environment == \/ WindowShow \/ WindowHide \/ Request \/ Quit \/ GraceEnds \/ HandOff
               \/ \E w \in Win : UserCloses(w) \/ WindowDies(w)

Ended == ~Running /\ UNCHANGED vars

Next == \/ \E t \in Caller : Builder(t)
        \/ Pass \/ Handler \/ Background \/ Environment \/ Ended

Spec == Init /\ [][Next]_vars

\* The loop, a caller in show_window, webui's thread and the grace timer go on.
Fairness ==
  /\ \A t \in Caller : WF_vars(Builder(t))
  /\ WF_vars(Pass) /\ WF_vars(Handler) /\ WF_vars(GraceEnds)

FairSpec == Spec /\ Fairness

(***************************************************************************)
(* Properties.                                                             *)
(***************************************************************************)

Rebuilding(t) == build[t] \notin {"idle", "decide"} /\ ~first[t]

\* window_show runs setup again when it finds neither a window nor the tray.
SetupOnce == ~rerun

\* Two restores never run at once, and the latch that sees to it is set exactly
\* while one runs: no path of a restore, failed, rolled back or cut short by a
\* close, leaves the tray unable to restore again.
RestoreExclusive ==
  /\ restoring <=> \E t \in Caller : Rebuilding(t)
  /\ \A t, u \in Caller : Rebuilding(t) /\ Rebuilding(u) => t = u

\* A close handler that may tear a WebView down is never at work on a window
\* that show_wv is still waiting for: that is the deadlock the deferral is for.
ShowUndisturbed ==
  SetupOnce =>
    \A t \in Caller :
      build[t] = "show" /\ handler \in {"quit", "tray", "trayed", "close"}
        => closing # made[t]

\* Once the launcher has no window and nothing is under way.
NoWindow ==
  /\ main \in Loop /\ ~shutdown /\ ~trayed /\ Up \cup external = {}
  /\ Quiet /\ handler = "idle" /\ SetupOnce

\* A launcher that uses the WebView and has no window is in the tray, or on its
\* way out, or it has a handle to notice with.  The exceptions: a window_hide in
\* the middle of a restore, a restore begun outside the tray, and a WebView that
\* died without its handler while no handle tracked it, or while a restore or a
\* close was under way.  No handle tracks a WebView that a restore made before
\* the next hand-over, although src/ui/window/restore.rs:88-90 has it re-captured.
NotStranded == NoWindow => hwnd # None \/ seen # None \/ lost \/ mislaid

\* In the tray, the keep-alive is not left on a window that has closed: its
\* server could never shut down; except after a window_hide in the middle of a
\* restore, a restore begun outside the tray, or a death without the handler.
KeepAliveStopped ==
  main \in Loop /\ trayed /\ Quiet /\ SetupOnce /\ handler = "idle" /\ keepalive # None
    => IsUp(keepalive) \/ mislaid \/ died

\* The browser is judged gone after CONFIRM_TICKS readings of one and the same
\* window that were bad in a row, never by adding up readings of two windows or
\* readings with a good one between them (while setup runs once).
Debounced ==
  [][main = "poll" /\ main' = "gone" /\ (trayed' # trayed \/ shutdown' # shutdown)
       => streak = CONFIRM_TICKS - 1 \/ ~SetupOnce]_vars

\* Once the handle that the event loop watches is dead, the launcher goes to the
\* tray or shuts down, unless a window comes up; it never stays without one.
LossNoticed ==
  (main \in Loop /\ launched
     /\ IF isBrowser THEN bhwnd # None /\ ~IsUp(bhwnd) ELSE hwnd # None /\ ~IsUp(hwnd))
    ~> (trayed \/ shutdown \/ Up # {})

=============================================================================
