-------------------------- MODULE WindowTrayProofs --------------------------
(***************************************************************************)
(* Proofs about WindowTray, for any number of requests and every           *)
(* configuration: IInv is an invariant, and with it TypeOK,                *)
(* RestoreExclusive, ShowUndisturbed, NotStranded and KeepAliveStopped;    *)
(* every step satisfies Debounced.                                         *)
(*                                                                         *)
(* The argument: SETUP_DONE is clear while a window is being made          *)
(* (SetupGate), so a close that is decided meanwhile is deferred and a     *)
(* window that comes up is neither being closed nor waiting to be freed    *)
(* (ShowUndisturbed, MadeSafe).  Hence it is still there when TRAYED is    *)
(* cleared (RestoreAnchored, OpenAnchored), and what the keep-alive is on  *)
(* stays up for as long as the launcher is in the tray (KeepAliveUp).      *)
(*                                                                         *)
(* Every step lemma splits Next by the thread that moves: the builders of  *)
(* windows (1), then the event loop, webui's thread, the others, the user. *)
(***************************************************************************)
EXTENDS WindowTray, TLAPS

\* The values, and the names actions give to a place in the code and to a frame.
USE DEF Maybe, None, Caller, Running, BuildAt, Build, MainAt, Step, HandlerAt,
        RequestShutdown, Ask, IsUp, Up, flagVars, nameVars, browserVars, winVars,
        mainVars, buildVars, handlerVars, bgVars, askVars, history

(***************************************************************************)
(* The inductive invariant.  First TypeOK, in parts that a step proof can  *)
(* take one at a time.                                                     *)
(***************************************************************************)
TypeFlags ==
  /\ trayed \in BOOLEAN /\ restoring \in BOOLEAN /\ setupDone \in BOOLEAN
  /\ closePending \in BOOLEAN /\ launched \in BOOLEAN /\ shutdown \in BOOLEAN
  /\ asked \in BOOLEAN

TypeModes ==
  /\ isBrowser \in BOOLEAN /\ nav \in BOOLEAN /\ closeToTray \in BOOLEAN
  /\ prefer \in BOOLEAN /\ navigated \in BOOLEAN
  /\ mislaid \in BOOLEAN /\ died \in BOOLEAN /\ lost \in BOOLEAN
  /\ rerun \in BOOLEAN

TypeNames ==
  /\ id \in Maybe /\ hwnd \in Maybe /\ pending \in Maybe /\ keepalive \in Maybe
  /\ victim \in Maybe /\ closing \in Maybe /\ made \in [Caller -> Maybe]

TypeBrowser ==
  /\ bhwnd \in Maybe /\ teardown \in Maybe /\ hunt \in Maybe /\ seen \in Maybe
  /\ found \in Maybe /\ capture \in Maybe /\ connector \subseteq Win
  /\ confirm \in 0 .. CONFIRM_TICKS - 1 /\ streak \in 0 .. CONFIRM_TICKS
  /\ grace \in {"none", "fresh", "old"}

TypeWins ==
  /\ win \in [Win -> {"none", "new", "up", "gone", "freed"}]
  /\ external \subseteq Win

Place == {"idle", "decide", "create", "show", "untray", "open", "check", "roll", "fail",
          "settle", "settled"}

TypePlaces ==
  /\ main \in Loop \cup {"setup", "teardown", "ended"}
  /\ build \in [Caller -> Place]
  /\ first \in [Caller -> BOOLEAN]
  /\ attempt \in 1 .. 3
  /\ handler \in {"idle", "fired", "defer", "quit", "tray", "trayed", "close"}
  /\ asks \in 0 .. MaxAsk
  /\ dsh \in {"starting", "serving"}

Typed == /\ TypeFlags /\ TypeModes /\ TypeNames /\ TypeBrowser
         /\ TypeWins /\ TypePlaces

\* Windows are made in order, and each of them, like each that is still owed to
\* somebody, is paid for by a request or by setup: there is always a next one.
Owes(b) == IF b THEN 1 ELSE 0
Owed == Owes(build["main"] \in {"decide", "create"})
        + Owes(build["api"] \in {"decide", "create"})
        + Owes(asked) + Owes(nav)
Budget == \E n \in 0 .. MaxAsk + 1 :
            /\ \A w \in Win : win[w] = "none" <=> w > n
            /\ n + Owed <= asks + 1

\* build[t] is "show" exactly while thread t has a window to wait for.
MadeShown == \A t \in Caller : build[t] = "show" <=> made[t] # None

\* A window that is yet to be made has no name anywhere.
NamesUsed ==
  /\ id \notin Unused /\ pending \notin Unused /\ victim \notin Unused
  /\ closing \notin Unused /\ keepalive \notin Unused
  /\ external \cap Unused = {}

\* The keep-alive and the close handler are a WebView's; while there is no
\* browser window none is tracked.
NoBrowser ==
  /\ keepalive \notin external /\ closing \notin external
  /\ external = {} => /\ ~isBrowser /\ bhwnd = None
                      /\ capture = None /\ found = None

\* Which of its places a thread reaches in setup and which in a restore.
Places ==
  /\ \A t \in Caller :
       /\ build[t] \in {"settle", "settled"} => first[t]
       /\ build[t] \in {"idle", "decide", "untray", "open", "check", "roll", "fail"}
            => ~first[t]
  /\ main = "setup" => /\ build["main"] # "idle" /\ first["main"]
                       /\ build["api"] = "idle"
  /\ main # "setup" => ~first["main"]

\* The handler has a window while it runs, and heads for the tray only with
\* dsh there to go on.
HandlerPlaces ==
  /\ handler = "idle" <=> closing = None
  /\ launched => main # "setup"
  /\ handler \in {"tray", "trayed"} => launched /\ closeToTray

LoopEnds == main \in {"teardown", "ended"} => shutdown

\* While setup runs once, it is the main thread's, and SETUP_DONE is clear from
\* the making of a window to its publication.
SetupGate ==
  SetupOnce =>
    /\ \A t \in Caller :
         first[t] /\ build[t] # "idle" => t = "main" /\ main = "setup"
    /\ \A t \in Caller : build[t] \in {"show", "untray", "open"} => ~setupDone
    /\ main = "setup" /\ build["main"] # "settled" => ~setupDone

\* TRAYED is set until a restore clears it, and not before the first window.
TrayedThere ==
  ~mislaid =>
    /\ \A t \in Caller :
         Rebuilding(t) /\ build[t] \in {"create", "show", "untray"} => trayed
    /\ main = "setup" => ~trayed

\* The window that is being made is not the one the loop is to free.
MadeSafe ==
  SetupOnce /\ ~mislaid =>
    \A t \in Caller : build[t] = "show" => pending # made[t] /\ victim # made[t]

\* The count of bad readings is the length of their unbroken run, and it is zero
\* whenever another window may become the one that is read.
Counted ==
  SetupOnce =>
    /\ confirm = streak
    /\ ~isBrowser \/ main = "setup" => confirm = 0
    /\ \A t \in Caller : build[t] = "show" /\ ~first[t]
                           => (made[t] \in external <=> isBrowser)

\* The behaviours without the losses that the code does not follow.
Clean == SetupOnce /\ ~mislaid /\ ~died

\* There is no keep-alive after a rollback, nor before the first window is up.
KeepAliveNew ==
  SetupOnce =>
    /\ \A t \in Caller : build[t] = "fail" => keepalive = None
    /\ main = "setup" /\ build["main"] \in {"create", "show"} => keepalive = None

\* What the keep-alive is on is not to be freed, nor on its way to the tray.
KeepAliveApart ==
  Clean /\ keepalive # None =>
    /\ pending # keepalive /\ victim # keepalive
    /\ handler = "trayed" => closing # keepalive

\* In the tray its window is up, and no close of it has been allowed.
KeepAliveUp ==
  Clean /\ keepalive # None =>
    /\ main # "ended" /\ (trayed \/ handler = "trayed") => IsUp(keepalive)
    /\ closing = keepalive /\ handler \in {"quit", "close"} => ~trayed

\* Why a close would not be allowed: it would go to the tray, or be deferred.
KeepAliveTray ==
  Clean /\ keepalive # None /\ trayed =>
    \/ launched /\ closeToTray
    \/ ~setupDone /\ \E t \in Caller : build[t] \in {"untray", "roll"}

\* Without browser windows and unnoticed losses, before a shutdown.
Plain == SetupOnce /\ ~mislaid /\ ~lost /\ ~shutdown /\ external = {}

\* The event loop has a handle, or is about to have one.
Watching == hwnd # None \/ seen # None

\* A window is up that nobody is about to close or free.
Anchored ==
  \E w \in Win : /\ IsUp(w) /\ pending # w /\ victim # w
                /\ ~(closing = w /\ handler \in {"tray", "trayed", "quit", "close"})

\* A restore that succeeded has such a window until it leaves the tray.
RestoreAnchored ==
  Plain => \A t \in Caller : build[t] = "untray" => Anchored

\* Out of the tray, with no window in the making, there is such a window, or the
\* handler is on its way to the tray or to a shutdown, or a handle is watched.
OpenAnchored ==
  /\ Plain /\ ~trayed
  /\ \A t \in Caller : build[t] \in {"idle", "decide", "open", "check", "settle", "settled"}
  => Anchored \/ Watching \/ handler \in {"tray", "trayed", "quit"}

IInv == /\ Typed /\ Budget /\ MadeShown /\ NamesUsed /\ NoBrowser
        /\ Places /\ HandlerPlaces /\ LoopEnds /\ SetupGate
        /\ RestoreExclusive /\ ShowUndisturbed /\ TrayedThere /\ MadeSafe
        /\ Counted /\ KeepAliveNew /\ KeepAliveApart /\ KeepAliveUp /\ KeepAliveTray
        /\ RestoreAnchored /\ OpenAnchored

(***************************************************************************)
(* Facts about states.                                                     *)
(***************************************************************************)

\* The parts of the type invariant are the type invariant.
LEMMA TypeParts == TypeOK <=> Typed
  BY DEF Typed, TypeOK, TypeFlags, TypeModes, TypeNames, TypeBrowser,
     TypeWins, Place, TypePlaces

\* None is not a window.
LEMMA NoneIsNoWindow == None \notin Win
  BY DEF Win

\* Whoever is to make a window, or may still ask for one, finds the next one.
LEMMA NextWinThere ==
  ASSUME Typed, Budget, (\E t \in Caller : build[t] = "create") \/ asks < Limit
  PROVE  /\ NextWin \in Win /\ win[NextWin] = "none"
         /\ \A w \in Win : win[w] = "none" <=> w >= NextWin
<1> USE BoundsAssumption DEF Win
<1>1. PICK n \in 0 .. MaxAsk + 1 : /\ \A w \in Win : win[w] = "none" <=> w > n
                                   /\ n + Owed <= asks + 1
  BY DEF Budget
<1>2. /\ asks \in 0 .. MaxAsk /\ Owed \in Nat
      /\ Owed >= 1 \/ asks < MaxAsk
  BY DEF Typed, TypePlaces, TypeFlags, TypeModes, Owed, Owes, Limit
<1>3. n + 1 \in Win
  BY <1>1, <1>2
<1>4. n + 1 \in Unused /\ \A v \in Unused : n + 1 <= v
  BY <1>1, <1>3 DEF Unused
<1>5. NextWin \in Unused /\ \A v \in Unused : NextWin <= v
  BY <1>4 DEF NextWin
<1>6. NextWin = n + 1
  BY <1>4, <1>5 DEF Unused
<1> QED
  BY <1>1, <1>3, <1>6

\* While setup runs once, one thread at a time builds a window.
LEMMA OneBuilder ==
  ASSUME Typed, Places, SetupGate, RestoreExclusive
  PROVE  SetupOnce =>
           \A t, u \in Caller : /\ build[t] \notin {"idle", "decide"}
                                 /\ build[u] \notin {"idle", "decide"} => t = u
  BY DEF Typed, TypePlaces, Places, SetupGate, RestoreExclusive, Rebuilding

\* A restore is decided: nothing, the browser that is there, or a rebuild.
LEMMA RestoreDecided ==
  ASSUME Typed, NEW t \in Caller, DecideRestore(t)
  PROVE  /\ build[t] = "decide"
         /\ \/ build' = [build EXCEPT ![t] = "idle"] /\ UNCHANGED <<restoring, mislaid>>
               /\ (trayed' = trayed \/ (~trayed' /\ ~restoring))
            \/ /\ build' = [build EXCEPT ![t] = "create"]
               /\ ~restoring /\ restoring' /\ trayed' = trayed
               /\ mislaid' = (mislaid \/ ~trayed)
         /\ UNCHANGED <<setupDone, closePending, launched, shutdown, isBrowser, nav,
                        closeToTray, prefer, id, hwnd, pending, keepalive, win, external,
                        main, victim, made, first, attempt, handler, closing, rerun, died,
                        lost, hwnd, seen>>
  BY DEF DecideRestore, Adopt, Typed, TypePlaces

(***************************************************************************)
(* Steps: the types.                                                       *)
(***************************************************************************)

\* Flags are set and reset.
LEMMA TypeFlagsStep ==
  ASSUME IInv, [Next]_vars
  PROVE  TypeFlags'
<1> USE DEF IInv, Typed, TypeFlags
<1>1. ASSUME NEW t \in Caller, Builder(t) PROVE TypeFlags'
  <2>1. CASE Create(t)
    BY <2>1 DEF Create, ShutGate
  <2>2. CASE WindowAppears(t)
    BY <2>2 DEF WindowAppears
  <2>3. CASE FallBack(t)
    BY <2>3 DEF FallBack
  <2>4. CASE ShowSucceeds(t)
    BY <2>4 DEF ShowSucceeds
  <2>5. CASE ShowFails(t)
    BY <2>5 DEF ShowFails
  <2>6. CASE Publish(t) \/ FinishRebuild(t)
    BY <2>6 DEF Publish, Untray, FinishRebuild
  <2>7. CASE RollBack(t) \/ FinishRestoreFail(t)
    BY <2>7 DEF RollBack, FinishRestoreFail, FailReleases
  <2>8. CASE Settle(t)
    BY <2>8 DEF Settle
  <2>9. CASE DecideRestore(t)
    BY <2>9 DEF DecideRestore, Adopt
  <2> QED
    BY <1>1, <2>1, <2>2, <2>3, <2>4, <2>5, <2>6, <2>7, <2>8, <2>9
       DEF Builder
<1>2. CASE TakePending \/ FreePending \/ ClearId
  BY <1>2 DEF TakePending, FreePending, ClearId
<1>3. CASE StartupGone \/ Teardown
  BY <1>3 DEF StartupGone, Teardown
<1>4. CASE NavigateBack \/ ServeRequest \/ WindowShow
  BY <1>4 DEF NavigateBack, RestoreFromTray, ServeRequest, WindowShow
<1>5. CASE PollClose
  BY <1>5 DEF PollClose, BrowserGone, EnterTrayed
<1>6. CASE WindowGone
  BY <1>6 DEF WindowGone, EnterTrayed
<1>7. CASE Handler
  BY <1>7 DEF Handler, DecideClose, DeferClose, CloseQuits, CloseToTrayNow,
     HandlerReturns
<1>8. CASE Background
  BY <1>8 DEF Background, CaptureHwnd, LocateBrowser, AdoptBrowser,
     BrowserConnects
<1>9. CASE WindowHide \/ Request
  BY <1>9 DEF WindowHide, EnterTrayed, Request
<1>10. CASE Quit \/ GraceEnds \/ HandOff
  BY <1>10 DEF Quit, GraceEnds, HandOff
<1>11. ASSUME NEW w \in Win, UserCloses(w) \/ WindowDies(w) PROVE TypeFlags'
  BY <1>11 DEF UserCloses, WindowDies
<1>12. CASE UNCHANGED vars
  BY <1>12 DEF vars
<1> QED
  BY <1>1, <1>2, <1>3, <1>4, <1>5, <1>6, <1>7, <1>8, <1>9, <1>10, <1>11,
     <1>12 DEF Next, Pass, Environment, Ended

\* Modes and histories: isBrowser becomes whether the new window is a browser's.
LEMMA TypeModesStep ==
  ASSUME IInv, [Next]_vars
  PROVE  TypeModes'
<1> USE DEF IInv, Typed, TypeModes
<1>1. ASSUME NEW t \in Caller, Builder(t) PROVE TypeModes'
  <2>1. CASE Create(t)
    BY <2>1 DEF Create, NoteWindowRecreated
  <2>2. CASE WindowAppears(t)
    BY <2>2 DEF WindowAppears
  <2>3. CASE FallBack(t)
    BY <2>3 DEF FallBack
  <2>4. CASE ShowSucceeds(t)
    <3>1. PICK back \in BOOLEAN : PostShow(made[t], back)
      BY <2>4 DEF ShowSucceeds
    <3>2. isBrowser' \in BOOLEAN /\ navigated' \in BOOLEAN
      BY <3>1 DEF PostShow
    <3> QED
      BY <2>4, <3>2 DEF ShowSucceeds
  <2>5. CASE ShowFails(t)
    BY <2>5 DEF ShowFails
  <2>6. CASE Publish(t) \/ FinishRebuild(t)
    BY <2>6 DEF Publish, FinishRebuild
  <2>7. CASE RollBack(t) \/ FinishRestoreFail(t)
    BY <2>7 DEF RollBack, FinishRestoreFail
  <2>8. CASE Settle(t)
    BY <2>8 DEF Settle
  <2>9. CASE DecideRestore(t)
    BY <2>9 DEF DecideRestore, Adopt
  <2> QED
    BY <1>1, <2>1, <2>2, <2>3, <2>4, <2>5, <2>6, <2>7, <2>8, <2>9
       DEF Builder
<1>2. CASE TakePending \/ FreePending \/ ClearId
  BY <1>2 DEF TakePending, FreePending, ClearId
<1>3. CASE StartupGone \/ Teardown
  BY <1>3 DEF StartupGone, Teardown
<1>4. CASE NavigateBack \/ ServeRequest \/ WindowShow
  BY <1>4 DEF NavigateBack, ServeRequest, WindowShow
<1>5. CASE PollClose
  BY <1>5 DEF PollClose, BrowserGone
<1>6. CASE WindowGone
  BY <1>6 DEF WindowGone
<1>7. CASE Handler
  BY <1>7 DEF Handler, DecideClose, DeferClose, CloseQuits, CloseToTrayNow,
     HandlerReturns
<1>8. CASE Background
  BY <1>8 DEF Background, CaptureHwnd, LocateBrowser, AdoptBrowser,
     BrowserConnects
<1>9. CASE WindowHide \/ Request
  BY <1>9 DEF WindowHide, Request
<1>10. CASE Quit \/ GraceEnds \/ HandOff
  BY <1>10 DEF Quit, GraceEnds, HandOff
<1>11. ASSUME NEW w \in Win, UserCloses(w) \/ WindowDies(w) PROVE TypeModes'
  BY <1>11 DEF UserCloses, WindowDies
<1>12. CASE UNCHANGED vars
  BY <1>12 DEF vars
<1> QED
  BY <1>1, <1>2, <1>3, <1>4, <1>5, <1>6, <1>7, <1>8, <1>9, <1>10, <1>11,
     <1>12 DEF Next, Pass, Environment, Ended

\* A name is that of a window or None.
LEMMA TypeNamesStep ==
  ASSUME IInv, [Next]_vars
  PROVE  TypeNames'
<1> USE DEF IInv, Typed, TypeNames, TypePlaces, TypeBrowser, MadeShown
<1>1. ASSUME NEW t \in Caller, Builder(t) PROVE TypeNames'
  <2>1. CASE Create(t)
    <3>1. NextWin \in Win /\ win[NextWin] = "none"
      BY <2>1, NextWinThere DEF Create
    <3> QED
      BY <2>1, <3>1 DEF Create
  <2>2. CASE WindowAppears(t)
    BY <2>2 DEF WindowAppears
  <2>3. CASE FallBack(t)
    <3>1. NextWin \in Win /\ win[NextWin] = "none"
      BY <2>3, NextWinThere DEF FallBack
    <3> QED
      BY <2>3, <3>1 DEF FallBack
  <2>4. CASE ShowSucceeds(t)
    BY <2>4 DEF ShowSucceeds, PostShow
  <2>5. CASE ShowFails(t)
    BY <2>5 DEF ShowFails
  <2>6. CASE Publish(t) \/ FinishRebuild(t)
    BY <2>6 DEF Publish, FinishRebuild
  <2>7. CASE RollBack(t) \/ FinishRestoreFail(t)
    BY <2>7 DEF RollBack, FinishRestoreFail
  <2>8. CASE Settle(t)
    BY <2>8 DEF Settle
  <2>9. CASE DecideRestore(t)
    BY <2>9 DEF DecideRestore, Adopt
  <2> QED
    BY <1>1, <2>1, <2>2, <2>3, <2>4, <2>5, <2>6, <2>7, <2>8, <2>9
       DEF Builder
<1>2. CASE TakePending \/ FreePending \/ ClearId
  BY <1>2 DEF TakePending, FreePending, ClearId
<1>3. CASE StartupGone \/ Teardown
  BY <1>3 DEF StartupGone, Teardown
<1>4. CASE NavigateBack
  BY <1>4 DEF NavigateBack
<1>5. CASE ServeRequest
  BY <1>5 DEF ServeRequest
<1>6. CASE WindowShow
  BY <1>6 DEF WindowShow
<1>7. CASE PollClose
  BY <1>7 DEF PollClose, BrowserGone, EnterTrayed
<1>8. CASE WindowGone
  BY <1>8 DEF WindowGone, EnterTrayed
<1>9. CASE Handler
  BY <1>9 DEF Handler, DecideClose, DeferClose, CloseQuits, CloseToTrayNow,
     StopKeepAlive, HandlerReturns
<1>10. CASE Background
  BY <1>10 DEF Background, CaptureHwnd, LocateBrowser, AdoptBrowser,
     BrowserConnects
<1>11. CASE WindowHide \/ Request
  BY <1>11 DEF WindowHide, EnterTrayed, Request
<1>12. CASE Quit \/ GraceEnds \/ HandOff
  BY <1>12 DEF Quit, GraceEnds, HandOff
<1>13. ASSUME NEW w \in Win, UserCloses(w) \/ WindowDies(w) PROVE TypeNames'
  BY <1>13 DEF UserCloses, WindowDies
<1>14. CASE UNCHANGED vars
  BY <1>14 DEF vars
<1> QED
  BY <1>1, <1>2, <1>3, <1>4, <1>5, <1>6, <1>7, <1>8, <1>9, <1>10, <1>11, <1>12,
     <1>13, <1>14 DEF Next, Pass, Environment, Ended

\* The tracking of the browser; a window that was shown is there.
LEMMA TypeBrowserStep ==
  ASSUME IInv, [Next]_vars
  PROVE  TypeBrowser'
<1> USE DEF IInv, Typed, TypeBrowser, TypeNames, MadeShown, CONFIRM_TICKS
<1>1. ASSUME NEW t \in Caller, Builder(t) PROVE TypeBrowser'
  <2>1. CASE Create(t)
    BY <2>1 DEF Create, NoteWindowRecreated
  <2>2. CASE WindowAppears(t)
    BY <2>2 DEF WindowAppears
  <2>3. CASE FallBack(t)
    BY <2>3 DEF FallBack
  <2>4. CASE ShowSucceeds(t)
    <3>1. made[t] \in Win
      BY <2>4 DEF ShowSucceeds
    <3> QED
      BY <2>4, <3>1 DEF ShowSucceeds, PostShow, CaptureBrowserPid
  <2>5. CASE ShowFails(t)
    BY <2>5 DEF ShowFails
  <2>6. CASE Publish(t) \/ FinishRebuild(t)
    BY <2>6 DEF Publish, FinishRebuild
  <2>7. CASE RollBack(t) \/ FinishRestoreFail(t)
    BY <2>7 DEF RollBack, FinishRestoreFail
  <2>8. CASE Settle(t)
    BY <2>8 DEF Settle
  <2>9. CASE DecideRestore(t)
    BY <2>9 DEF DecideRestore, Adopt
  <2> QED
    BY <1>1, <2>1, <2>2, <2>3, <2>4, <2>5, <2>6, <2>7, <2>8, <2>9
       DEF Builder
<1>2. CASE TakePending \/ FreePending \/ ClearId
  BY <1>2 DEF TakePending, FreePending, ClearId
<1>3. CASE StartupGone \/ Teardown
  BY <1>3 DEF StartupGone, Teardown
<1>4. CASE NavigateBack \/ ServeRequest \/ WindowShow
  BY <1>4 DEF NavigateBack, RestoreFromTray, Adopt, ServeRequest, WindowShow
<1>5. CASE PollClose
  BY <1>5 DEF PollClose, BrowserGone, CaptureBrowserPid, Count
<1>6. CASE WindowGone
  BY <1>6 DEF WindowGone
<1>7. CASE Handler
  BY <1>7 DEF Handler, DecideClose, DeferClose, CloseQuits, CloseToTrayNow,
     HandlerReturns
<1>8. CASE Background
  BY <1>8 DEF Background, CaptureHwnd, LocateBrowser, AdoptBrowser, Adopt,
     BrowserConnects
<1>9. CASE WindowHide \/ Request
  BY <1>9 DEF WindowHide, Request
<1>10. CASE Quit \/ GraceEnds \/ HandOff
  BY <1>10 DEF Quit, GraceEnds, HandOff
<1>11. ASSUME NEW w \in Win, UserCloses(w) \/ WindowDies(w) PROVE TypeBrowser'
  BY <1>11 DEF UserCloses, WindowDies
<1>12. CASE UNCHANGED vars
  BY <1>12 DEF vars
<1> QED
  BY <1>1, <1>2, <1>3, <1>4, <1>5, <1>6, <1>7, <1>8, <1>9, <1>10, <1>11,
     <1>12 DEF Next, Pass, Environment, Ended

\* The windows.
LEMMA TypeWinsStep ==
  ASSUME IInv, [Next]_vars
  PROVE  TypeWins'
<1> USE DEF IInv, Typed, TypeWins, TypeNames, MadeShown
<1>1. ASSUME NEW t \in Caller, Builder(t) PROVE TypeWins'
  <2>1. CASE Create(t)
    <3>1. NextWin \in Win /\ win[NextWin] = "none"
      BY <2>1, NextWinThere DEF Create
    <3> QED
      BY <2>1, <3>1 DEF Create
  <2>2. CASE WindowAppears(t)
    BY <2>2 DEF WindowAppears
  <2>3. CASE FallBack(t)
    <3>1. NextWin \in Win /\ win[NextWin] = "none"
      BY <2>3, NextWinThere DEF FallBack
    <3> QED
      BY <2>3, <3>1 DEF FallBack, Destroy
  <2>4. CASE ShowSucceeds(t)
    BY <2>4 DEF ShowSucceeds
  <2>5. CASE ShowFails(t)
    BY <2>5 DEF ShowFails
  <2>6. CASE Publish(t) \/ FinishRebuild(t)
    BY <2>6 DEF Publish, FinishRebuild
  <2>7. CASE RollBack(t) \/ FinishRestoreFail(t)
    BY <2>7 DEF RollBack, FinishRestoreFail, Destroy
  <2>8. CASE Settle(t)
    BY <2>8 DEF Settle
  <2>9. CASE DecideRestore(t)
    BY <2>9 DEF DecideRestore, Adopt
  <2> QED
    BY <1>1, <2>1, <2>2, <2>3, <2>4, <2>5, <2>6, <2>7, <2>8, <2>9
       DEF Builder
<1>2. CASE TakePending \/ FreePending \/ ClearId
  BY <1>2 DEF TakePending, FreePending, ClearId, Destroy
<1>3. CASE StartupGone \/ Teardown
  BY <1>3 DEF StartupGone, Teardown, Close
<1>4. CASE NavigateBack
  BY <1>4 DEF NavigateBack
<1>5. CASE ServeRequest
  BY <1>5 DEF ServeRequest
<1>6. CASE WindowShow
  BY <1>6 DEF WindowShow
<1>7. CASE PollClose
  BY <1>7 DEF PollClose
<1>8. CASE WindowGone
  BY <1>8 DEF WindowGone
<1>9. CASE Handler
  BY <1>9 DEF Handler, DecideClose, DeferClose, CloseQuits, CloseToTrayNow,
     HandlerReturns, Close
<1>10. CASE Background
  BY <1>10 DEF Background, CaptureHwnd, LocateBrowser, AdoptBrowser,
     BrowserConnects
<1>11. CASE WindowHide \/ Request
  BY <1>11 DEF WindowHide, Request
<1>12. CASE Quit \/ GraceEnds \/ HandOff
  BY <1>12 DEF Quit, GraceEnds, HandOff
<1>13. ASSUME NEW w \in Win, UserCloses(w) \/ WindowDies(w) PROVE TypeWins'
  BY <1>13 DEF UserCloses, WindowDies, Close
<1>14. CASE UNCHANGED vars
  BY <1>14 DEF vars
<1> QED
  BY <1>1, <1>2, <1>3, <1>4, <1>5, <1>6, <1>7, <1>8, <1>9, <1>10, <1>11, <1>12,
     <1>13, <1>14 DEF Next, Pass, Environment, Ended

\* The places in the code, and the bounds on attempts and requests.
LEMMA TypePlacesStep ==
  ASSUME IInv, [Next]_vars
  PROVE  TypePlaces'
<1> USE BoundsAssumption
    DEF IInv, Typed, TypePlaces, TypeModes, Loop, Place, Limit
<1>1. ASSUME NEW t \in Caller, Builder(t) PROVE TypePlaces'
  <2>1. CASE Create(t)
    BY <2>1 DEF Create
  <2>2. CASE WindowAppears(t)
    BY <2>2 DEF WindowAppears
  <2>3. CASE FallBack(t)
    BY <2>3 DEF FallBack
  <2>4. CASE ShowSucceeds(t)
    BY <2>4 DEF ShowSucceeds
  <2>5. CASE ShowFails(t)
    <3>1. build' \in [Caller -> Place]
      BY <2>5 DEF ShowFails
    <3>2. (UNCHANGED attempt) \/ (attempt < 3 /\ attempt' = attempt + 1)
      BY <2>5 DEF ShowFails
    <3>3. (UNCHANGED asks) \/ (asks < Limit /\ asks' = asks + 1)
      BY <2>5 DEF ShowFails
    <3>4. UNCHANGED <<main, first, handler, dsh>>
      BY <2>5 DEF ShowFails
    <3> QED
      BY <3>1, <3>2, <3>3, <3>4
  <2>6. CASE Publish(t) \/ FinishRebuild(t)
    BY <2>6 DEF Publish, Untray, FinishRebuild
  <2>7. CASE RollBack(t) \/ FinishRestoreFail(t)
    BY <2>7 DEF RollBack, FinishRestoreFail
  <2>8. CASE Settle(t)
    <3>1. build' \in [Caller -> Place]
      BY <2>8 DEF Settle
    <3>2. attempt' \in 1 .. 3
      BY <2>8 DEF Settle
    <3> QED
      BY <2>8, <3>1, <3>2 DEF Settle
  <2>9. CASE DecideRestore(t)
    BY <2>9 DEF DecideRestore, Adopt
  <2> QED
    BY <1>1, <2>1, <2>2, <2>3, <2>4, <2>5, <2>6, <2>7, <2>8, <2>9
       DEF Builder
<1>2. CASE TakePending \/ FreePending \/ ClearId
  BY <1>2 DEF TakePending, FreePending, ClearId
<1>3. CASE StartupGone \/ Teardown
  BY <1>3 DEF StartupGone, Teardown
<1>4. CASE NavigateBack
  BY <1>4 DEF NavigateBack, RestoreFromTray
<1>5. CASE ServeRequest
  BY <1>5 DEF ServeRequest, RestoreFromTray
<1>6. CASE WindowShow
  <2>1. build' \in [Caller -> Place]
    BY <1>6 DEF WindowShow, RestoreFromTray
  <2>2. first' \in [Caller -> BOOLEAN]
    BY <1>6 DEF WindowShow, RestoreFromTray
  <2>3. attempt' \in 1 .. 3
    BY <1>6 DEF WindowShow, RestoreFromTray
  <2>4. asks' \in 0 .. MaxAsk
    BY <1>6 DEF WindowShow, RestoreFromTray
  <2> QED
    BY <1>6, <2>1, <2>2, <2>3, <2>4 DEF WindowShow, RestoreFromTray
<1>7. CASE PollClose
  BY <1>7 DEF PollClose
<1>8. CASE WindowGone
  BY <1>8 DEF WindowGone
<1>9. CASE Handler
  BY <1>9 DEF Handler, DecideClose, DeferClose, CloseQuits, CloseToTrayNow,
     HandlerReturns
<1>10. CASE Background
  BY <1>10 DEF Background, CaptureHwnd, LocateBrowser, AdoptBrowser,
     BrowserConnects
<1>11. CASE WindowHide \/ Request
  BY <1>11 DEF WindowHide, Request
<1>12. CASE Quit \/ GraceEnds \/ HandOff
  BY <1>12 DEF Quit, GraceEnds, HandOff
<1>13. ASSUME NEW w \in Win, UserCloses(w) \/ WindowDies(w) PROVE TypePlaces'
  BY <1>13 DEF UserCloses, WindowDies
<1>14. CASE UNCHANGED vars
  BY <1>14 DEF vars
<1> QED
  BY <1>1, <1>2, <1>3, <1>4, <1>5, <1>6, <1>7, <1>8, <1>9, <1>10, <1>11, <1>12,
     <1>13, <1>14 DEF Next, Pass, Environment, Ended

(***************************************************************************)
(* Steps: the windows that are made and owed.                              *)
(***************************************************************************)

\* No window is made, and no more is owed than the new requests allow.
Kept == /\ \A w \in Win : win'[w] = "none" <=> win[w] = "none"
        /\ Owed' + asks <= Owed + asks'

\* The next window is made, and one less is owed, or one more request is there.
Grown == /\ \A w \in Win : win'[w] = "none" <=> (win[w] = "none" /\ w # NextWin)
         /\ Owed' + asks + 1 <= Owed + asks'

\* Only the two steps that make a window take the next one.
LEMMA BudgetMoves ==
  ASSUME IInv, [Next]_vars
  PROVE  Kept \/ Grown
<1> USE DEF IInv, Kept, MadeShown, NamesUsed, Unused, Owed, Owes, Places,
   Typed, TypeWins, TypePlaces, TypeFlags, TypeModes, TypeNames
<1>1. ASSUME NEW t \in Caller, Builder(t) PROVE Kept \/ Grown
  <2>1. CASE Create(t)
    <3>1. NextWin \in Win /\ win[NextWin] = "none"
      BY <2>1, NextWinThere DEF Create
    <3>2. \A w \in Win : win'[w] = "none" <=> (win[w] = "none" /\ w # NextWin)
      BY <2>1, <3>1 DEF Create
    <3>3. Owed' + asks + 1 <= Owed + asks'
      BY <2>1 DEF Create
    <3> QED
      BY <3>2, <3>3 DEF Grown
  <2>2. CASE WindowAppears(t)
    BY <2>2 DEF WindowAppears
  <2>3. CASE FallBack(t)
    <3>1. NextWin \in Win /\ win[NextWin] = "none"
      BY <2>3, NextWinThere DEF FallBack
    <3>2. \A w \in Win : win'[w] = "none" <=> (win[w] = "none" /\ w # NextWin)
      BY <2>3, <3>1 DEF FallBack, Destroy
    <3>3. Owed' + asks + 1 <= Owed + asks'
      BY <2>3 DEF FallBack
    <3> QED
      BY <3>2, <3>3 DEF Grown
  <2>4. CASE ShowSucceeds(t)
    BY <2>4 DEF ShowSucceeds
  <2>5. CASE ShowFails(t)
    <3>1. \A w \in Win : win'[w] = "none" <=> win[w] = "none"
      BY <2>5 DEF ShowFails
    <3>2. \/ UNCHANGED asks /\ (Build(t, "roll") \/ Build(t, "settle"))
          \/ asks' = asks + 1 /\ Build(t, "create")
      BY <2>5 DEF ShowFails
    <3>3. UNCHANGED <<asked, nav>>
      BY <2>5 DEF ShowFails
    <3>4. Owed' + asks <= Owed + asks'
      BY <3>2, <3>3
    <3> QED
      BY <3>1, <3>4
  <2>6. CASE Publish(t)
    BY <2>6 DEF Publish, Untray
  <2>7. CASE FinishRebuild(t)
    BY <2>7 DEF FinishRebuild
  <2>8. CASE RollBack(t)
    BY <2>8 DEF RollBack, Destroy
  <2>9. CASE FinishRestoreFail(t)
    BY <2>9 DEF FinishRestoreFail
  <2>10. CASE Settle(t)
    BY <2>10 DEF Settle
  <2>11. CASE DecideRestore(t)
    BY <2>11 DEF DecideRestore, Adopt
  <2> QED
    BY <1>1, <2>1, <2>2, <2>3, <2>4, <2>5, <2>6, <2>7, <2>8, <2>9, <2>10, <2>11
       DEF Builder
<1>2. CASE TakePending
  BY <1>2 DEF TakePending
<1>3. CASE FreePending
  BY <1>3 DEF FreePending, Destroy
<1>4. CASE ClearId
  BY <1>4 DEF ClearId
<1>5. CASE StartupGone
  BY <1>5 DEF StartupGone
<1>6. CASE Teardown
  BY <1>6 DEF Teardown, Close
<1>7. CASE NavigateBack
  BY <1>7 DEF NavigateBack, RestoreFromTray
<1>8. CASE ServeRequest
  BY <1>8 DEF ServeRequest, RestoreFromTray
<1>9. CASE WindowShow
  BY <1>9 DEF WindowShow, RestoreFromTray
<1>10. CASE PollClose
  BY <1>10 DEF PollClose
<1>11. CASE WindowGone
  BY <1>11 DEF WindowGone
<1>12. CASE Handler
  BY <1>12 DEF Handler, DecideClose, DeferClose, CloseQuits, CloseToTrayNow,
     HandlerReturns, Close
<1>13. CASE Background
  BY <1>13 DEF Background, CaptureHwnd, LocateBrowser, AdoptBrowser,
     BrowserConnects
<1>14. CASE WindowHide
  BY <1>14 DEF WindowHide
<1>15. CASE Request
  BY <1>15 DEF Request
<1>16. CASE Quit \/ GraceEnds \/ HandOff
  BY <1>16 DEF Quit, GraceEnds, HandOff
<1>17. ASSUME NEW w \in Win, UserCloses(w) \/ WindowDies(w) PROVE Kept \/ Grown
  BY <1>17 DEF UserCloses, WindowDies, Close
<1>18. CASE UNCHANGED vars
  BY <1>18 DEF vars
<1> QED
  BY <1>1, <1>2, <1>3, <1>4, <1>5, <1>6, <1>7, <1>8, <1>9, <1>10, <1>11, <1>12,
     <1>13, <1>14, <1>15, <1>16, <1>17, <1>18 DEF Next, Pass, Environment, Ended

\* The budget is kept: the requests bound the windows.
LEMMA BudgetStep ==
  ASSUME IInv, Typed', [Next]_vars
  PROVE  Budget'
<1> USE BoundsAssumption DEF Win
<1>1. PICK n \in 0 .. MaxAsk + 1 : /\ \A w \in Win : win[w] = "none" <=> w > n
                                   /\ n + Owed <= asks + 1
  BY DEF IInv, Budget
<1>2. PICK a, b \in 0 .. MaxAsk, o, p \in Nat :
           asks = a /\ asks' = b /\ Owed = o /\ Owed' = p
  BY DEF IInv, Typed, TypePlaces, TypeFlags, TypeModes, Owed, Owes
<1>3. n + o <= a + 1
  BY <1>1, <1>2
<1>4. CASE Kept
  <2>1. p + a <= o + b
    BY <1>2, <1>4 DEF Kept
  <2>2. n + p <= b + 1
    BY <1>3, <2>1
  <2> QED
    BY <1>1, <1>2, <1>4, <2>2 DEF Kept, Budget
<1>5. CASE Grown
  <2>1. p + a + 1 <= o + b
    BY <1>2, <1>5 DEF Grown
  <2>2. (n + 1) + p <= b + 1 /\ n + 1 \in 0 .. MaxAsk + 1
    BY <1>3, <2>1
  <2>3. n + 1 \in Unused /\ \A v \in Unused : n + 1 <= v
    BY <1>1, <2>2 DEF Unused
  <2>4. NextWin = n + 1
    <3>1. NextWin \in Unused /\ \A v \in Unused : NextWin <= v
      BY <2>3 DEF NextWin
    <3> QED
      BY <2>3, <3>1 DEF Unused
  <2>5. \A w \in Win : win'[w] = "none" <=> w > n + 1
    BY <1>1, <1>5, <2>4 DEF Grown
  <2> QED
    BY <1>2, <2>2, <2>5 DEF Budget
<1> QED
  BY <1>4, <1>5, BudgetMoves

(***************************************************************************)
(* Steps: names, places and the latch.                                     *)
(***************************************************************************)

\* A thread gets its window when it begins to show it and gives it up after.
LEMMA MadeShownStep ==
  ASSUME IInv, [Next]_vars
  PROVE  MadeShown'
<1> USE DEF IInv, MadeShown, Typed, TypeNames, TypePlaces
<1>1. ASSUME NEW t \in Caller, Builder(t) PROVE MadeShown'
  <2>1. CASE Create(t)
    <3>1. NextWin \in Win /\ win[NextWin] = "none"
      BY <2>1, NextWinThere DEF Create
    <3> QED
      BY <2>1, <3>1 DEF Create, Win
  <2>2. CASE WindowAppears(t)
    BY <2>2 DEF WindowAppears
  <2>3. CASE FallBack(t)
    <3>1. NextWin \in Win /\ win[NextWin] = "none"
      BY <2>3, NextWinThere DEF FallBack
    <3> QED
      BY <2>3, <3>1 DEF FallBack, Win
  <2>4. CASE ShowSucceeds(t)
    BY <2>4 DEF ShowSucceeds
  <2>5. CASE ShowFails(t)
    BY <2>5 DEF ShowFails
  <2>6. CASE Publish(t) \/ FinishRebuild(t)
    BY <2>6 DEF Publish, Untray, FinishRebuild
  <2>7. CASE RollBack(t) \/ FinishRestoreFail(t)
    BY <2>7 DEF RollBack, FinishRestoreFail
  <2>8. CASE Settle(t)
    BY <2>8 DEF Settle
  <2>9. CASE DecideRestore(t)
    BY <2>9 DEF DecideRestore, Adopt
  <2> QED
    BY <1>1, <2>1, <2>2, <2>3, <2>4, <2>5, <2>6, <2>7, <2>8, <2>9
       DEF Builder
<1>2. CASE TakePending \/ FreePending \/ ClearId
  BY <1>2 DEF TakePending, FreePending, ClearId
<1>3. CASE StartupGone \/ Teardown
  BY <1>3 DEF StartupGone, Teardown
<1>4. CASE NavigateBack
  BY <1>4 DEF NavigateBack, RestoreFromTray
<1>5. CASE ServeRequest
  BY <1>5 DEF ServeRequest, RestoreFromTray
<1>6. CASE WindowShow
  BY <1>6 DEF WindowShow, RestoreFromTray
<1>7. CASE PollClose
  BY <1>7 DEF PollClose
<1>8. CASE WindowGone
  BY <1>8 DEF WindowGone
<1>9. CASE Handler
  BY <1>9 DEF Handler, DecideClose, DeferClose, CloseQuits, CloseToTrayNow,
     HandlerReturns
<1>10. CASE Background
  BY <1>10 DEF Background, CaptureHwnd, LocateBrowser, AdoptBrowser,
     BrowserConnects
<1>11. CASE WindowHide \/ Request
  BY <1>11 DEF WindowHide, Request
<1>12. CASE Quit \/ GraceEnds \/ HandOff
  BY <1>12 DEF Quit, GraceEnds, HandOff
<1>13. ASSUME NEW w \in Win, UserCloses(w) \/ WindowDies(w) PROVE MadeShown'
  BY <1>13 DEF UserCloses, WindowDies
<1>14. CASE UNCHANGED vars
  BY <1>14 DEF vars
<1> QED
  BY <1>1, <1>2, <1>3, <1>4, <1>5, <1>6, <1>7, <1>8, <1>9, <1>10, <1>11, <1>12,
     <1>13, <1>14 DEF Next, Pass, Environment, Ended

\* A name is given to a window when, or after, it is made.
LEMMA NamesUsedStep ==
  ASSUME IInv, [Next]_vars
  PROVE  NamesUsed'
<1> USE NoneIsNoWindow
    DEF IInv, NamesUsed, Unused, MadeShown, Typed, TypeWins, TypeNames
<1>1. ASSUME NEW t \in Caller, Builder(t) PROVE NamesUsed'
  <2>1. CASE Create(t)
    <3>1. NextWin \in Win /\ win[NextWin] = "none"
      BY <2>1, NextWinThere DEF Create
    <3> QED
      BY <2>1, <3>1 DEF Create, Win
  <2>2. CASE WindowAppears(t)
    BY <2>2 DEF WindowAppears
  <2>3. CASE FallBack(t)
    <3>1. NextWin \in Win /\ win[NextWin] = "none"
      BY <2>3, NextWinThere DEF FallBack
    <3> QED
      BY <2>3, <3>1 DEF FallBack, Destroy, Win
  <2>4. CASE ShowSucceeds(t)
    BY <2>4 DEF ShowSucceeds, PostShow
  <2>5. CASE ShowFails(t)
    BY <2>5 DEF ShowFails
  <2>6. CASE Publish(t) \/ FinishRebuild(t)
    BY <2>6 DEF Publish, FinishRebuild
  <2>7. CASE RollBack(t)
    BY <2>7 DEF RollBack, Destroy
  <2>8. CASE FinishRestoreFail(t)
    BY <2>8 DEF FinishRestoreFail
  <2>9. CASE Settle(t)
    BY <2>9 DEF Settle
  <2>10. CASE DecideRestore(t)
    BY <2>10 DEF DecideRestore, Adopt
  <2> QED
    BY <1>1, <2>1, <2>2, <2>3, <2>4, <2>5, <2>6, <2>7, <2>8, <2>9, <2>10
       DEF Builder
<1>2. CASE TakePending
  BY <1>2 DEF TakePending
<1>3. CASE FreePending
  BY <1>3 DEF FreePending, Destroy
<1>4. CASE ClearId
  BY <1>4 DEF ClearId
<1>5. CASE StartupGone \/ Teardown
  BY <1>5 DEF StartupGone, Teardown, Close
<1>6. CASE NavigateBack
  BY <1>6 DEF NavigateBack
<1>7. CASE ServeRequest
  BY <1>7 DEF ServeRequest
<1>8. CASE WindowShow
  BY <1>8 DEF WindowShow
<1>9. CASE PollClose
  BY <1>9 DEF PollClose, BrowserGone, EnterTrayed
<1>10. CASE WindowGone
  BY <1>10 DEF WindowGone, EnterTrayed
<1>11. CASE Handler
  BY <1>11 DEF Handler, DecideClose, DeferClose, CloseQuits, CloseToTrayNow,
     StopKeepAlive, HandlerReturns, Close
<1>12. CASE Background
  BY <1>12 DEF Background, CaptureHwnd, LocateBrowser, AdoptBrowser,
     BrowserConnects
<1>13. CASE WindowHide \/ Request
  BY <1>13 DEF WindowHide, EnterTrayed, Request
<1>14. CASE Quit \/ GraceEnds \/ HandOff
  BY <1>14 DEF Quit, GraceEnds, HandOff
<1>15. ASSUME NEW w \in Win, UserCloses(w) \/ WindowDies(w) PROVE NamesUsed'
  BY <1>15 DEF UserCloses, WindowDies, Close
<1>16. CASE UNCHANGED vars
  BY <1>16 DEF vars
<1> QED
  BY <1>1, <1>2, <1>3, <1>4, <1>5, <1>6, <1>7, <1>8, <1>9, <1>10, <1>11, <1>12,
     <1>13, <1>14, <1>15, <1>16 DEF Next, Pass, Environment, Ended

\* Neither the keep-alive nor the close handler is ever on a browser's window, and
\* without such a window none is tracked.
LEMMA NoBrowserStep ==
  ASSUME IInv, [Next]_vars
  PROVE  NoBrowser'
<1> USE NoneIsNoWindow DEF IInv, NoBrowser, MadeShown, NamesUsed, Unused,
   Typed, TypeWins, TypeNames, TypeBrowser
<1>1. ASSUME NEW t \in Caller, Builder(t) PROVE NoBrowser'
  <2>1. CASE Create(t)
    <3>1. NextWin \in Win /\ win[NextWin] = "none"
      BY <2>1, NextWinThere DEF Create
    <3>2. closing # NextWin /\ keepalive # NextWin
      BY <3>1 DEF NamesUsed, Unused
    <3>3. /\ external' \subseteq external \cup {NextWin}
          /\ external \subseteq external'
          /\ keepalive' = keepalive \/ keepalive' = None
          /\ UNCHANGED <<closing, isBrowser, bhwnd, capture, found>>
      BY <2>1 DEF Create
    <3> QED
      BY <3>1, <3>2, <3>3
  <2>2. CASE WindowAppears(t)
    BY <2>2 DEF WindowAppears
  <2>3. CASE FallBack(t)
    <3>1. NextWin \in Win /\ win[NextWin] = "none"
      BY <2>3, NextWinThere DEF FallBack
    <3> QED
      BY <2>3, <3>1 DEF FallBack
  <2>4. CASE ShowSucceeds(t)
    BY <2>4 DEF ShowSucceeds, PostShow, CaptureBrowserPid
  <2>5. CASE ShowFails(t)
    <3>1. UNCHANGED <<external, keepalive, closing, isBrowser, bhwnd, capture,
                      found>>
      BY <2>5 DEF ShowFails
    <3> QED
      BY <3>1
  <2>6. CASE Publish(t)
    BY <2>6 DEF Publish
  <2>7. CASE FinishRebuild(t)
    BY <2>7 DEF FinishRebuild
  <2>8. CASE RollBack(t)
    BY <2>8 DEF RollBack
  <2>9. CASE FinishRestoreFail(t)
    BY <2>9 DEF FinishRestoreFail
  <2>10. CASE Settle(t)
    BY <2>10 DEF Settle
  <2>11. CASE DecideRestore(t)
    BY <2>11 DEF DecideRestore, Adopt
  <2> QED
    BY <1>1, <2>1, <2>2, <2>3, <2>4, <2>5, <2>6, <2>7, <2>8, <2>9, <2>10, <2>11
       DEF Builder
<1>2. CASE TakePending
  BY <1>2 DEF TakePending
<1>3. CASE FreePending
  BY <1>3 DEF FreePending
<1>4. CASE ClearId
  BY <1>4 DEF ClearId
<1>5. CASE StartupGone \/ Teardown
  BY <1>5 DEF StartupGone, Teardown
<1>6. CASE NavigateBack
  BY <1>6 DEF NavigateBack, RestoreFromTray, Adopt
<1>7. CASE ServeRequest
  BY <1>7 DEF ServeRequest, RestoreFromTray, Adopt
<1>8. CASE WindowShow
  BY <1>8 DEF WindowShow, RestoreFromTray, Adopt
<1>9. CASE PollClose
  BY <1>9 DEF PollClose, BrowserGone, EnterTrayed, CaptureBrowserPid
<1>10. CASE WindowGone
  BY <1>10 DEF WindowGone, EnterTrayed
<1>11. CASE Handler
  BY <1>11 DEF Handler, DecideClose, DeferClose, CloseQuits, CloseToTrayNow,
     StopKeepAlive, HandlerReturns
<1>12. CASE Background
  BY <1>12 DEF Background, CaptureHwnd, LocateBrowser, AdoptBrowser, Adopt,
     BrowserConnects
<1>13. CASE WindowHide
  BY <1>13 DEF WindowHide, EnterTrayed
<1>14. CASE Request
  BY <1>14 DEF Request
<1>15. CASE Quit \/ GraceEnds \/ HandOff
  BY <1>15 DEF Quit, GraceEnds, HandOff
<1>16. ASSUME NEW w \in Win, UserCloses(w) \/ WindowDies(w) PROVE NoBrowser'
  BY <1>16 DEF UserCloses, WindowDies
<1>17. CASE UNCHANGED vars
  BY <1>17 DEF vars
<1> QED
  BY <1>1, <1>2, <1>3, <1>4, <1>5, <1>6, <1>7, <1>8, <1>9, <1>10, <1>11, <1>12,
     <1>13, <1>14, <1>15, <1>16, <1>17 DEF Next, Pass, Environment, Ended

\* Every step of a thread that builds a window fits what it is building it for.
LEMMA PlacesStep ==
  ASSUME IInv, [Next]_vars
  PROVE  Places'
<1> USE DEF IInv, Places, Typed, TypePlaces
<1>1. ASSUME NEW t \in Caller, Builder(t) PROVE Places'
  <2>1. CASE Create(t)
    BY <2>1 DEF Create
  <2>2. CASE WindowAppears(t)
    BY <2>2 DEF WindowAppears
  <2>3. CASE FallBack(t)
    BY <2>3 DEF FallBack
  <2>4. CASE ShowSucceeds(t)
    BY <2>4 DEF ShowSucceeds
  <2>5. CASE ShowFails(t)
    <3>1. \/ ~first[t] /\ Build(t, "roll")
          \/ first[t] /\ (Build(t, "create") \/ Build(t, "settle"))
      BY <2>5 DEF ShowFails
    <3>2. UNCHANGED <<main, first>>
      BY <2>5 DEF ShowFails
    <3> QED
      BY <2>5, <3>1, <3>2 DEF ShowFails
  <2>6. CASE Publish(t) \/ FinishRebuild(t)
    BY <2>6 DEF Publish, Untray, FinishRebuild
  <2>7. CASE RollBack(t) \/ FinishRestoreFail(t)
    BY <2>7 DEF RollBack, FinishRestoreFail
  <2>8. CASE Settle(t)
    BY <2>8 DEF Settle
  <2>9. CASE DecideRestore(t)
    BY <2>9 DEF DecideRestore, Adopt
  <2> QED
    BY <1>1, <2>1, <2>2, <2>3, <2>4, <2>5, <2>6, <2>7, <2>8, <2>9
       DEF Builder
<1>2. CASE TakePending \/ FreePending \/ ClearId
  BY <1>2 DEF TakePending, FreePending, ClearId
<1>3. CASE StartupGone \/ Teardown
  BY <1>3 DEF StartupGone, Teardown
<1>4. CASE NavigateBack
  BY <1>4 DEF NavigateBack, RestoreFromTray
<1>5. CASE ServeRequest
  BY <1>5 DEF ServeRequest, RestoreFromTray
<1>6. CASE WindowShow
  BY <1>6 DEF WindowShow, RestoreFromTray
<1>7. CASE PollClose
  BY <1>7 DEF PollClose
<1>8. CASE WindowGone
  BY <1>8 DEF WindowGone
<1>9. CASE Handler
  BY <1>9 DEF Handler, DecideClose, DeferClose, CloseQuits, CloseToTrayNow,
     HandlerReturns
<1>10. CASE Background
  BY <1>10 DEF Background, CaptureHwnd, LocateBrowser, AdoptBrowser,
     BrowserConnects
<1>11. CASE WindowHide \/ Request
  BY <1>11 DEF WindowHide, Request
<1>12. CASE Quit \/ GraceEnds \/ HandOff
  BY <1>12 DEF Quit, GraceEnds, HandOff
<1>13. ASSUME NEW w \in Win, UserCloses(w) \/ WindowDies(w) PROVE Places'
  BY <1>13 DEF UserCloses, WindowDies
<1>14. CASE UNCHANGED vars
  BY <1>14 DEF vars
<1> QED
  BY <1>1, <1>2, <1>3, <1>4, <1>5, <1>6, <1>7, <1>8, <1>9, <1>10, <1>11, <1>12,
     <1>13, <1>14 DEF Next, Pass, Environment, Ended

\* The close handler at work, and what it found.
LEMMA HandlerPlacesStep ==
  ASSUME IInv, [Next]_vars
  PROVE  HandlerPlaces'
<1> USE DEF IInv, HandlerPlaces, Places, Typed, TypePlaces, TypeNames
<1>1. ASSUME NEW t \in Caller, Builder(t) PROVE HandlerPlaces'
  <2>1. CASE Create(t)
    BY <2>1 DEF Create
  <2>2. CASE WindowAppears(t)
    BY <2>2 DEF WindowAppears
  <2>3. CASE FallBack(t)
    BY <2>3 DEF FallBack
  <2>4. CASE ShowSucceeds(t)
    BY <2>4 DEF ShowSucceeds
  <2>5. CASE ShowFails(t)
    BY <2>5 DEF ShowFails
  <2>6. CASE Publish(t) \/ FinishRebuild(t)
    BY <2>6 DEF Publish, FinishRebuild
  <2>7. CASE RollBack(t) \/ FinishRestoreFail(t)
    BY <2>7 DEF RollBack, FinishRestoreFail
  <2>8. CASE Settle(t)
    BY <2>8 DEF Settle
  <2>9. CASE DecideRestore(t)
    BY <2>9 DEF DecideRestore, Adopt
  <2> QED
    BY <1>1, <2>1, <2>2, <2>3, <2>4, <2>5, <2>6, <2>7, <2>8, <2>9
       DEF Builder
<1>2. CASE TakePending \/ FreePending \/ ClearId
  BY <1>2 DEF TakePending, FreePending, ClearId
<1>3. CASE StartupGone \/ Teardown
  BY <1>3 DEF StartupGone, Teardown
<1>4. CASE NavigateBack
  BY <1>4 DEF NavigateBack
<1>5. CASE ServeRequest
  BY <1>5 DEF ServeRequest
<1>6. CASE WindowShow
  BY <1>6 DEF WindowShow
<1>7. CASE PollClose
  BY <1>7 DEF PollClose
<1>8. CASE WindowGone
  BY <1>8 DEF WindowGone
<1>9. CASE Handler
  BY <1>9 DEF Handler, DecideClose, DeferClose, CloseQuits, CloseToTrayNow,
     HandlerReturns
<1>10. CASE Background
  BY <1>10 DEF Background, CaptureHwnd, LocateBrowser, AdoptBrowser,
     BrowserConnects
<1>11. CASE WindowHide \/ Request
  BY <1>11 DEF WindowHide, Request
<1>12. CASE Quit \/ GraceEnds \/ HandOff
  BY <1>12 DEF Quit, GraceEnds, HandOff
<1>13. ASSUME NEW w \in Win, UserCloses(w) \/ WindowDies(w) PROVE HandlerPlaces'
  BY <1>13 DEF UserCloses, WindowDies, Win
<1>14. CASE UNCHANGED vars
  BY <1>14 DEF vars
<1> QED
  BY <1>1, <1>2, <1>3, <1>4, <1>5, <1>6, <1>7, <1>8, <1>9, <1>10, <1>11, <1>12,
     <1>13, <1>14 DEF Next, Pass, Environment, Ended

\* The loop ends by a shutdown.
LEMMA LoopEndsStep ==
  ASSUME IInv, [Next]_vars
  PROVE  LoopEnds'
<1> USE DEF IInv, LoopEnds, Places, Typed, TypePlaces, Loop
<1>1. ASSUME NEW t \in Caller, Builder(t) PROVE LoopEnds'
  <2>1. CASE Create(t)
    BY <2>1 DEF Create
  <2>2. CASE WindowAppears(t)
    BY <2>2 DEF WindowAppears
  <2>3. CASE FallBack(t)
    BY <2>3 DEF FallBack
  <2>4. CASE ShowSucceeds(t)
    BY <2>4 DEF ShowSucceeds
  <2>5. CASE ShowFails(t)
    <3>1. main' = main /\ (shutdown' = TRUE \/ shutdown' = shutdown)
      BY <2>5 DEF ShowFails
    <3> QED
      BY <3>1
  <2>6. CASE Publish(t) \/ FinishRebuild(t)
    BY <2>6 DEF Publish, FinishRebuild
  <2>7. CASE RollBack(t) \/ FinishRestoreFail(t)
    BY <2>7 DEF RollBack, FinishRestoreFail
  <2>8. CASE Settle(t)
    BY <2>8 DEF Settle
  <2>9. CASE DecideRestore(t)
    BY <2>9 DEF DecideRestore, Adopt
  <2> QED
    BY <1>1, <2>1, <2>2, <2>3, <2>4, <2>5, <2>6, <2>7, <2>8, <2>9
       DEF Builder
<1>2. CASE TakePending \/ FreePending \/ ClearId
  BY <1>2 DEF TakePending, FreePending, ClearId
<1>3. CASE StartupGone \/ Teardown
  BY <1>3 DEF StartupGone, Teardown
<1>4. CASE NavigateBack
  BY <1>4 DEF NavigateBack
<1>5. CASE ServeRequest
  BY <1>5 DEF ServeRequest
<1>6. CASE WindowShow
  BY <1>6 DEF WindowShow
<1>7. CASE PollClose
  BY <1>7 DEF PollClose, BrowserGone
<1>8. CASE WindowGone
  BY <1>8 DEF WindowGone
<1>9. CASE Handler
  BY <1>9 DEF Handler, DecideClose, DeferClose, CloseQuits, CloseToTrayNow,
     HandlerReturns
<1>10. CASE Background
  BY <1>10 DEF Background, CaptureHwnd, LocateBrowser, AdoptBrowser,
     BrowserConnects
<1>11. CASE WindowHide \/ Request
  BY <1>11 DEF WindowHide, Request
<1>12. CASE Quit \/ GraceEnds \/ HandOff
  BY <1>12 DEF Quit, GraceEnds, HandOff
<1>13. ASSUME NEW w \in Win, UserCloses(w) \/ WindowDies(w) PROVE LoopEnds'
  BY <1>13 DEF UserCloses, WindowDies
<1>14. CASE UNCHANGED vars
  BY <1>14 DEF vars
<1> QED
  BY <1>1, <1>2, <1>3, <1>4, <1>5, <1>6, <1>7, <1>8, <1>9, <1>10, <1>11, <1>12,
     <1>13, <1>14 DEF Next, Pass, Environment, Ended

\* SETUP_DONE is clear while a window is being made.
LEMMA SetupGateStep ==
  ASSUME IInv, [Next]_vars
  PROVE  SetupGate'
<1> USE DEF IInv, SetupGate, SetupOnce, Places, Typed, TypePlaces
<1>1. ASSUME NEW t \in Caller, Builder(t) PROVE SetupGate'
  <2>1. CASE Create(t)
    BY <2>1 DEF Create, ShutGate
  <2>2. CASE WindowAppears(t)
    BY <2>2 DEF WindowAppears
  <2>3. CASE FallBack(t)
    BY <2>3 DEF FallBack
  <2>4. CASE ShowSucceeds(t)
    BY <2>4 DEF ShowSucceeds
  <2>5. CASE ShowFails(t)
    BY <2>5 DEF ShowFails
  <2>6. CASE Publish(t)
    BY <2>6, OneBuilder DEF Publish, Untray
  <2>7. CASE FinishRebuild(t)
    BY <2>7 DEF FinishRebuild
  <2>8. CASE RollBack(t)
    BY <2>8 DEF RollBack
  <2>9. CASE FinishRestoreFail(t)
    BY <2>9, OneBuilder DEF FinishRestoreFail, FailReleases
  <2>10. CASE Settle(t)
    BY <2>10 DEF Settle
  <2>11. CASE DecideRestore(t)
    BY <2>11 DEF DecideRestore, Adopt
  <2> QED
    BY <1>1, <2>1, <2>2, <2>3, <2>4, <2>5, <2>6, <2>7, <2>8, <2>9, <2>10, <2>11
       DEF Builder
<1>2. CASE TakePending \/ FreePending \/ ClearId
  BY <1>2 DEF TakePending, FreePending, ClearId
<1>3. CASE StartupGone \/ Teardown
  BY <1>3 DEF StartupGone, Teardown
<1>4. CASE NavigateBack
  BY <1>4 DEF NavigateBack, RestoreFromTray
<1>5. CASE ServeRequest
  BY <1>5 DEF ServeRequest, RestoreFromTray
<1>6. CASE WindowShow
  BY <1>6 DEF WindowShow, RestoreFromTray
<1>7. CASE PollClose
  BY <1>7 DEF PollClose
<1>8. CASE WindowGone
  BY <1>8 DEF WindowGone
<1>9. CASE Handler
  BY <1>9 DEF Handler, DecideClose, DeferClose, CloseQuits, CloseToTrayNow,
     HandlerReturns
<1>10. CASE Background
  BY <1>10 DEF Background, CaptureHwnd, LocateBrowser, AdoptBrowser,
     BrowserConnects
<1>11. CASE WindowHide \/ Request
  BY <1>11 DEF WindowHide, Request
<1>12. CASE Quit \/ GraceEnds \/ HandOff
  BY <1>12 DEF Quit, GraceEnds, HandOff
<1>13. ASSUME NEW w \in Win, UserCloses(w) \/ WindowDies(w) PROVE SetupGate'
  BY <1>13 DEF UserCloses, WindowDies
<1>14. CASE UNCHANGED vars
  BY <1>14 DEF vars
<1> QED
  BY <1>1, <1>2, <1>3, <1>4, <1>5, <1>6, <1>7, <1>8, <1>9, <1>10, <1>11, <1>12,
     <1>13, <1>14 DEF Next, Pass, Environment, Ended

\* The latch is taken by a restore and given back at each of its ends.
LEMMA RestoreExclusiveStep ==
  ASSUME IInv, [Next]_vars
  PROVE  RestoreExclusive'
<1> USE DEF IInv, RestoreExclusive, Rebuilding, Places, Typed, TypePlaces
<1>1. ASSUME NEW t \in Caller, Builder(t) PROVE RestoreExclusive'
  <2>1. CASE Create(t)
    BY <2>1 DEF Create
  <2>2. CASE WindowAppears(t)
    BY <2>2 DEF WindowAppears
  <2>3. CASE FallBack(t)
    BY <2>3 DEF FallBack
  <2>4. CASE ShowSucceeds(t)
    BY <2>4 DEF ShowSucceeds
  <2>5. CASE ShowFails(t)
    BY <2>5 DEF ShowFails
  <2>6. CASE Publish(t) \/ FinishRebuild(t)
    BY <2>6 DEF Publish, Untray, FinishRebuild
  <2>7. CASE RollBack(t) \/ FinishRestoreFail(t)
    BY <2>7 DEF RollBack, FinishRestoreFail, FailReleases
  <2>8. CASE Settle(t)
    BY <2>8 DEF Settle
  <2>9. CASE DecideRestore(t)
    BY <2>9 DEF DecideRestore, Adopt
  <2> QED
    BY <1>1, <2>1, <2>2, <2>3, <2>4, <2>5, <2>6, <2>7, <2>8, <2>9
       DEF Builder
<1>2. CASE TakePending \/ FreePending \/ ClearId
  BY <1>2 DEF TakePending, FreePending, ClearId
<1>3. CASE StartupGone \/ Teardown
  BY <1>3 DEF StartupGone, Teardown
<1>4. CASE NavigateBack
  BY <1>4 DEF NavigateBack, RestoreFromTray
<1>5. CASE ServeRequest
  BY <1>5 DEF ServeRequest, RestoreFromTray
<1>6. CASE WindowShow
  BY <1>6 DEF WindowShow, RestoreFromTray
<1>7. CASE PollClose
  BY <1>7 DEF PollClose
<1>8. CASE WindowGone
  BY <1>8 DEF WindowGone
<1>9. CASE Handler
  BY <1>9 DEF Handler, DecideClose, DeferClose, CloseQuits, CloseToTrayNow,
     HandlerReturns
<1>10. CASE Background
  BY <1>10 DEF Background, CaptureHwnd, LocateBrowser, AdoptBrowser,
     BrowserConnects
<1>11. CASE WindowHide \/ Request
  BY <1>11 DEF WindowHide, Request
<1>12. CASE Quit \/ GraceEnds \/ HandOff
  BY <1>12 DEF Quit, GraceEnds, HandOff
<1>13. ASSUME NEW w \in Win, UserCloses(w) \/ WindowDies(w) PROVE RestoreExclusive'
  BY <1>13 DEF UserCloses, WindowDies
<1>14. CASE UNCHANGED vars
  BY <1>14 DEF vars
<1> QED
  BY <1>1, <1>2, <1>3, <1>4, <1>5, <1>6, <1>7, <1>8, <1>9, <1>10, <1>11, <1>12,
     <1>13, <1>14 DEF Next, Pass, Environment, Ended

\* The handler decides while SETUP_DONE is set, a new window is nobody's to close.
LEMMA ShowUndisturbedStep ==
  ASSUME IInv, [Next]_vars
  PROVE  ShowUndisturbed'
<1> USE NoneIsNoWindow DEF IInv, ShowUndisturbed, SetupGate, SetupOnce, Places,
   HandlerPlaces, NamesUsed, Unused, Typed, TypePlaces, TypeNames
<1>1. ASSUME NEW t \in Caller, Builder(t) PROVE ShowUndisturbed'
  <2>1. CASE Create(t)
    <3>1. NextWin \in Win /\ win[NextWin] = "none"
      BY <2>1, NextWinThere DEF Create
    <3>2. closing # NextWin
      BY <3>1 DEF NamesUsed, Unused
    <3>3. /\ build' = [build EXCEPT ![t] = "show"]
          /\ made' = [made EXCEPT ![t] = NextWin]
          /\ UNCHANGED <<closing, handler, rerun>>
      BY <2>1 DEF Create
    <3> QED
      BY <3>2, <3>3
  <2>2. CASE WindowAppears(t)
    BY <2>2 DEF WindowAppears
  <2>3. CASE FallBack(t)
    <3>1. NextWin \in Win /\ win[NextWin] = "none"
      BY <2>3, NextWinThere DEF FallBack
    <3> QED
      BY <2>3, <3>1 DEF FallBack
  <2>4. CASE ShowSucceeds(t)
    BY <2>4 DEF ShowSucceeds
  <2>5. CASE ShowFails(t)
    <3>1. \/ ~first[t] /\ Build(t, "roll")
          \/ first[t] /\ (Build(t, "create") \/ Build(t, "settle"))
      BY <2>5 DEF ShowFails
    <3>2. UNCHANGED <<main, first, handler, closing, rerun>>
      BY <2>5 DEF ShowFails
    <3> QED
      BY <2>5, <3>1, <3>2 DEF ShowFails
  <2>6. CASE Publish(t) \/ FinishRebuild(t)
    BY <2>6 DEF Publish, Untray, FinishRebuild
  <2>7. CASE RollBack(t) \/ FinishRestoreFail(t)
    BY <2>7 DEF RollBack, FinishRestoreFail
  <2>8. CASE Settle(t)
    BY <2>8 DEF Settle
  <2>9. CASE DecideRestore(t)
    BY <2>9 DEF DecideRestore, Adopt
  <2> QED
    BY <1>1, <2>1, <2>2, <2>3, <2>4, <2>5, <2>6, <2>7, <2>8, <2>9
       DEF Builder
<1>2. CASE TakePending \/ FreePending \/ ClearId
  BY <1>2 DEF TakePending, FreePending, ClearId
<1>3. CASE StartupGone \/ Teardown
  BY <1>3 DEF StartupGone, Teardown
<1>4. CASE NavigateBack
  BY <1>4 DEF NavigateBack, RestoreFromTray
<1>5. CASE ServeRequest
  BY <1>5 DEF ServeRequest, RestoreFromTray
<1>6. CASE WindowShow
  BY <1>6 DEF WindowShow, RestoreFromTray
<1>7. CASE PollClose
  BY <1>7 DEF PollClose
<1>8. CASE WindowGone
  BY <1>8 DEF WindowGone
<1>9. CASE Handler
  BY <1>9 DEF Handler, DecideClose, DeferClose, CloseQuits, CloseToTrayNow,
     HandlerReturns
<1>10. CASE Background
  BY <1>10 DEF Background, CaptureHwnd, LocateBrowser, AdoptBrowser,
     BrowserConnects
<1>11. CASE WindowHide \/ Request
  BY <1>11 DEF WindowHide, Request
<1>12. CASE Quit \/ GraceEnds \/ HandOff
  BY <1>12 DEF Quit, GraceEnds, HandOff
<1>13. ASSUME NEW w \in Win, UserCloses(w) \/ WindowDies(w) PROVE ShowUndisturbed'
  BY <1>13 DEF UserCloses, WindowDies
<1>14. CASE UNCHANGED vars
  BY <1>14 DEF vars
<1> QED
  BY <1>1, <1>2, <1>3, <1>4, <1>5, <1>6, <1>7, <1>8, <1>9, <1>10, <1>11, <1>12,
     <1>13, <1>14 DEF Next, Pass, Environment, Ended

\* A restore leaves the launcher in the tray until its window is up.
LEMMA TrayedThereStep ==
  ASSUME IInv, [Next]_vars
  PROVE  TrayedThere'
<1> USE DEF IInv, TrayedThere, RestoreExclusive, Rebuilding, Places,
   HandlerPlaces, Typed, TypePlaces, Loop
<1>1. ASSUME NEW t \in Caller, Builder(t) PROVE TrayedThere'
  <2>1. CASE Create(t)
    BY <2>1 DEF Create
  <2>2. CASE WindowAppears(t)
    BY <2>2 DEF WindowAppears
  <2>3. CASE FallBack(t)
    BY <2>3 DEF FallBack
  <2>4. CASE ShowSucceeds(t)
    BY <2>4 DEF ShowSucceeds
  <2>5. CASE ShowFails(t)
    <3>1. \/ ~first[t] /\ Build(t, "roll")
          \/ first[t] /\ (Build(t, "create") \/ Build(t, "settle"))
      BY <2>5 DEF ShowFails
    <3>2. UNCHANGED <<main, first, trayed, mislaid>>
      BY <2>5 DEF ShowFails
    <3> QED
      BY <2>5, <3>1, <3>2
  <2>6. CASE Publish(t)
    BY <2>6 DEF Publish, Untray
  <2>7. CASE FinishRebuild(t)
    BY <2>7 DEF FinishRebuild
  <2>8. CASE RollBack(t)
    BY <2>8 DEF RollBack
  <2>9. CASE FinishRestoreFail(t)
    BY <2>9 DEF FinishRestoreFail
  <2>10. CASE Settle(t)
    BY <2>10 DEF Settle
  <2>11. CASE DecideRestore(t)
    <3>1. CASE build' = [build EXCEPT ![t] = "idle"] /\ UNCHANGED trayed
      BY <2>11, <3>1, RestoreDecided
    <3>2. CASE build' = [build EXCEPT ![t] = "idle"] /\ ~trayed' /\ ~restoring
      BY <2>11, <3>2, RestoreDecided
    <3>3. CASE build' = [build EXCEPT ![t] = "create"]
      BY <2>11, <3>3, RestoreDecided
    <3> QED
      BY <2>11, <3>1, <3>2, <3>3, RestoreDecided
  <2> QED
    BY <1>1, <2>1, <2>2, <2>3, <2>4, <2>5, <2>6, <2>7, <2>8, <2>9, <2>10, <2>11
       DEF Builder
<1>2. CASE TakePending
  BY <1>2 DEF TakePending
<1>3. CASE FreePending
  BY <1>3 DEF FreePending
<1>4. CASE ClearId
  BY <1>4 DEF ClearId
<1>5. CASE StartupGone \/ Teardown
  BY <1>5 DEF StartupGone, Teardown
<1>6. CASE NavigateBack
  BY <1>6 DEF NavigateBack, RestoreFromTray
<1>7. CASE ServeRequest
  BY <1>7 DEF ServeRequest, RestoreFromTray
<1>8. CASE WindowShow
  BY <1>8 DEF WindowShow, RestoreFromTray
<1>9. CASE PollClose
  BY <1>9 DEF PollClose, BrowserGone, EnterTrayed
<1>10. CASE WindowGone
  BY <1>10 DEF WindowGone, EnterTrayed
<1>11. CASE Handler
  BY <1>11 DEF Handler, DecideClose, DeferClose, CloseQuits, CloseToTrayNow,
     HandlerReturns
<1>12. CASE Background
  BY <1>12 DEF Background, CaptureHwnd, LocateBrowser, AdoptBrowser,
     BrowserConnects
<1>13. CASE WindowHide
  BY <1>13 DEF WindowHide, EnterTrayed, Quiet
<1>14. CASE Request
  BY <1>14 DEF Request
<1>15. CASE Quit \/ GraceEnds \/ HandOff
  BY <1>15 DEF Quit, GraceEnds, HandOff
<1>16. ASSUME NEW w \in Win, UserCloses(w) \/ WindowDies(w) PROVE TrayedThere'
  BY <1>16 DEF UserCloses, WindowDies
<1>17. CASE UNCHANGED vars
  BY <1>17 DEF vars
<1> QED
  BY <1>1, <1>2, <1>3, <1>4, <1>5, <1>6, <1>7, <1>8, <1>9, <1>10, <1>11, <1>12,
     <1>13, <1>14, <1>15, <1>16, <1>17 DEF Next, Pass, Environment, Ended

\* What the loop is to free was named before the window that is being made.
LEMMA MadeSafeStep ==
  ASSUME IInv, [Next]_vars
  PROVE  MadeSafe'
<1> USE NoneIsNoWindow DEF IInv, MadeSafe, MadeShown, SetupGate, SetupOnce,
   ShowUndisturbed, TrayedThere, Rebuilding, Places, Typed, TypePlaces,
   TypeNames
<1>1. ASSUME NEW t \in Caller, Builder(t) PROVE MadeSafe'
  <2>1. CASE Create(t)
    <3>1. NextWin \in Win /\ win[NextWin] = "none"
      BY <2>1, NextWinThere DEF Create
    <3>2. pending # NextWin /\ victim # NextWin
      BY <3>1 DEF NamesUsed, Unused
    <3>3. /\ build' = [build EXCEPT ![t] = "show"]
          /\ made' = [made EXCEPT ![t] = NextWin]
          /\ UNCHANGED <<pending, victim, rerun, mislaid>>
      BY <2>1 DEF Create
    <3> QED
      BY <3>2, <3>3
  <2>2. CASE WindowAppears(t)
    BY <2>2 DEF WindowAppears
  <2>3. CASE FallBack(t)
    <3>1. NextWin \in Win /\ win[NextWin] = "none"
      BY <2>3, NextWinThere DEF FallBack
    <3>2. pending # NextWin /\ victim # NextWin
      BY <3>1 DEF NamesUsed, Unused
    <3>3. /\ UNCHANGED build
          /\ made' = [made EXCEPT ![t] = NextWin]
          /\ UNCHANGED <<pending, victim, rerun, mislaid>>
      BY <2>3 DEF FallBack
    <3> QED
      BY <3>2, <3>3
  <2>4. CASE ShowSucceeds(t)
    BY <2>4 DEF ShowSucceeds
  <2>5. CASE ShowFails(t)
    <3>1. \/ ~first[t] /\ Build(t, "roll")
          \/ first[t] /\ (Build(t, "create") \/ Build(t, "settle"))
      BY <2>5 DEF ShowFails
    <3>2. made' = [made EXCEPT ![t] = None]
          /\ UNCHANGED <<pending, victim, rerun, mislaid>>
      BY <2>5 DEF ShowFails
    <3> QED
      BY <3>1, <3>2
  <2>6. CASE Publish(t)
    BY <2>6 DEF Publish, Untray
  <2>7. CASE FinishRebuild(t)
    BY <2>7 DEF FinishRebuild
  <2>8. CASE RollBack(t)
    BY <2>8 DEF RollBack
  <2>9. CASE FinishRestoreFail(t)
    BY <2>9 DEF FinishRestoreFail
  <2>10. CASE Settle(t)
    BY <2>10 DEF Settle
  <2>11. CASE DecideRestore(t)
    BY <2>11, RestoreDecided
  <2> QED
    BY <1>1, <2>1, <2>2, <2>3, <2>4, <2>5, <2>6, <2>7, <2>8, <2>9, <2>10, <2>11
       DEF Builder
<1>2. CASE TakePending
  BY <1>2 DEF TakePending
<1>3. CASE FreePending
  BY <1>3 DEF FreePending
<1>4. CASE ClearId
  BY <1>4 DEF ClearId
<1>5. CASE StartupGone \/ Teardown
  BY <1>5 DEF StartupGone, Teardown
<1>6. CASE NavigateBack
  BY <1>6 DEF NavigateBack, RestoreFromTray
<1>7. CASE ServeRequest
  BY <1>7 DEF ServeRequest, RestoreFromTray
<1>8. CASE WindowShow
  BY <1>8 DEF WindowShow, RestoreFromTray
<1>9. CASE PollClose
  BY <1>9 DEF PollClose, BrowserGone, EnterTrayed, Loop
<1>10. CASE WindowGone
  BY <1>10 DEF WindowGone, EnterTrayed, Loop
<1>11. CASE Handler
  BY <1>11 DEF Handler, DecideClose, DeferClose, CloseQuits, CloseToTrayNow,
     HandlerReturns
<1>12. CASE Background
  BY <1>12 DEF Background, CaptureHwnd, LocateBrowser, AdoptBrowser,
     BrowserConnects
<1>13. CASE WindowHide
  BY <1>13 DEF WindowHide, EnterTrayed, Quiet
<1>14. CASE Request
  BY <1>14 DEF Request
<1>15. CASE Quit \/ GraceEnds \/ HandOff
  BY <1>15 DEF Quit, GraceEnds, HandOff
<1>16. ASSUME NEW w \in Win, UserCloses(w) \/ WindowDies(w) PROVE MadeSafe'
  BY <1>16 DEF UserCloses, WindowDies
<1>17. CASE UNCHANGED vars
  BY <1>17 DEF vars
<1> QED
  BY <1>1, <1>2, <1>3, <1>4, <1>5, <1>6, <1>7, <1>8, <1>9, <1>10, <1>11, <1>12,
     <1>13, <1>14, <1>15, <1>16, <1>17 DEF Next, Pass, Environment, Ended

(***************************************************************************)
(* Steps: the count of bad readings.                                       *)
(***************************************************************************)

\* A reading counts on or starts anew; what changes the window that is read starts
\* anew as well.
LEMMA CountedStep ==
  ASSUME IInv, [Next]_vars
  PROVE  Counted'
<1> USE DEF IInv, Counted, SetupGate, SetupOnce, Places, CONFIRM_TICKS, Typed,
   TypePlaces, TypeNames, TypeBrowser, TypeModes
<1>1. ASSUME NEW t \in Caller, Builder(t) PROVE Counted'
  <2>1. CASE Create(t)
    <3>1. NextWin \in Win /\ NextWin \notin external
      BY <2>1, NextWinThere DEF Create, NamesUsed, Unused
    <3>2. /\ build' = [build EXCEPT ![t] = "show"]
          /\ made' = [made EXCEPT ![t] = NextWin]
          /\ UNCHANGED <<first, main, isBrowser, rerun>>
          /\ external' = IF (IF first[t] THEN prefer ELSE isBrowser)
                         THEN external \cup {NextWin} ELSE external
      BY <2>1 DEF Create
    <3>3. SetupOnce => confirm' = 0 /\ streak' = 0
      BY <2>1 DEF Create, NoteWindowRecreated
    <3>4. SetupOnce => \A u \in Caller : u # t => build[u] # "show"
      BY <2>1, OneBuilder DEF Create
    <3>5. ~first[t] => (NextWin \in external' <=> isBrowser)
      BY <3>1, <3>2
    <3> QED
      BY <3>2, <3>3, <3>4, <3>5
  <2>2. CASE WindowAppears(t)
    BY <2>2 DEF WindowAppears
  <2>3. CASE FallBack(t)
    <3>1. NextWin \in Win /\ NextWin \notin external
      BY <2>3, NextWinThere DEF FallBack, NamesUsed, Unused
    <3>2. /\ made' = [made EXCEPT ![t] = NextWin] /\ streak' = 0
          /\ build[t] = "show" /\ first[t]
          /\ external' = external \cup {NextWin}
          /\ UNCHANGED <<build, first, main, isBrowser, confirm, rerun>>
      BY <2>3 DEF FallBack
    <3> QED
      BY <3>1, <3>2
  <2>4. CASE ShowSucceeds(t)
    <3>1. PICK back \in BOOLEAN : PostShow(made[t], back)
      BY <2>4 DEF ShowSucceeds
    <3>2. isBrowser' <=> made[t] \in external
      BY <3>1 DEF PostShow
    <3>3. SetupOnce => \A u \in Caller : u # t => build[u] # "show"
      BY <2>4, OneBuilder DEF ShowSucceeds
    <3>4. /\ build[t] = "show" /\ build' \in [Caller -> Place] /\ build'[t] # "show"
          /\ \A u \in Caller : u # t => build'[u] = build[u]
          /\ UNCHANGED <<first, main, confirm, streak, rerun>>
      BY <2>4 DEF ShowSucceeds, Place
    <3> QED
      BY <3>2, <3>3, <3>4
  <2>5. CASE ShowFails(t)
    <3>1. \/ ~first[t] /\ Build(t, "roll")
          \/ first[t] /\ (Build(t, "create") \/ Build(t, "settle"))
      BY <2>5 DEF ShowFails
    <3>2. made' = [made EXCEPT ![t] = None]
          /\ UNCHANGED <<main, first, external, isBrowser, confirm, streak, rerun>>
      BY <2>5 DEF ShowFails
    <3> QED
      BY <3>1, <3>2
  <2>6. CASE Publish(t)
    BY <2>6 DEF Publish, Untray
  <2>7. CASE FinishRebuild(t)
    BY <2>7 DEF FinishRebuild
  <2>8. CASE RollBack(t)
    BY <2>8 DEF RollBack
  <2>9. CASE FinishRestoreFail(t)
    BY <2>9 DEF FinishRestoreFail
  <2>10. CASE Settle(t)
    BY <2>10 DEF Settle
  <2>11. CASE DecideRestore(t)
    BY <2>11 DEF DecideRestore, Adopt
  <2> QED
    BY <1>1, <2>1, <2>2, <2>3, <2>4, <2>5, <2>6, <2>7, <2>8, <2>9, <2>10, <2>11
       DEF Builder
<1>2. CASE TakePending
  BY <1>2 DEF TakePending
<1>3. CASE FreePending
  BY <1>3 DEF FreePending
<1>4. CASE ClearId
  BY <1>4 DEF ClearId
<1>5. CASE StartupGone \/ Teardown
  BY <1>5 DEF StartupGone, Teardown
<1>6. CASE NavigateBack
  BY <1>6 DEF NavigateBack, RestoreFromTray, Adopt
<1>7. CASE ServeRequest
  BY <1>7 DEF ServeRequest, RestoreFromTray, Adopt
<1>8. CASE WindowShow
  BY <1>8 DEF WindowShow, RestoreFromTray, Adopt
<1>9. CASE PollClose
  <2>1. CASE ~isBrowser \/ trayed
    BY <1>9, <2>1 DEF PollClose
  <2>2. CASE ~(~isBrowser \/ trayed)
    <3>1. PICK r \in Reading :
            /\ confirm' = Count(r)
            /\ \/ r = "bad" /\ confirm = CONFIRM_TICKS - 1 /\ streak' = 0
               \/ /\ ~(r = "bad" /\ confirm = CONFIRM_TICKS - 1)
                  /\ streak' = CASE r = "good" -> 0
                                  [] r = "bad" /\ streak < CONFIRM_TICKS -> streak + 1
                                  [] OTHER -> streak
      BY <1>9, <2>2 DEF PollClose
    <3>2. /\ UNCHANGED <<isBrowser, build, first, made, external, rerun>>
          /\ main = "poll" /\ main' = "gone"
      BY <1>9 DEF PollClose
    <3>3. confirm = 0 \/ confirm = 1 \/ confirm = 2
      OBVIOUS
    <3>4. SetupOnce => confirm' = streak'
      BY <3>1, <3>3 DEF Count
    <3> QED
      BY <2>2, <3>2, <3>4
  <2> QED
    BY <2>1, <2>2
<1>10. CASE WindowGone
  BY <1>10 DEF WindowGone
<1>11. CASE Handler
  BY <1>11 DEF Handler, DecideClose, DeferClose, CloseQuits, CloseToTrayNow,
     HandlerReturns
<1>12. CASE Background
  BY <1>12 DEF Background, CaptureHwnd, LocateBrowser, AdoptBrowser, Adopt,
     BrowserConnects
<1>13. CASE WindowHide
  BY <1>13 DEF WindowHide
<1>14. CASE Request
  BY <1>14 DEF Request
<1>15. CASE Quit \/ GraceEnds \/ HandOff
  BY <1>15 DEF Quit, GraceEnds, HandOff
<1>16. ASSUME NEW w \in Win, UserCloses(w) \/ WindowDies(w) PROVE Counted'
  BY <1>16 DEF UserCloses, WindowDies
<1>17. CASE UNCHANGED vars
  BY <1>17 DEF vars
<1> QED
  BY <1>1, <1>2, <1>3, <1>4, <1>5, <1>6, <1>7, <1>8, <1>9, <1>10, <1>11, <1>12,
     <1>13, <1>14, <1>15, <1>16, <1>17 DEF Next, Pass, Environment, Ended

(***************************************************************************)
(* Steps: the keep-alive.                                                  *)
(***************************************************************************)

\* A keep-alive begins only when a window is shown.
LEMMA KeepAliveNewStep ==
  ASSUME IInv, [Next]_vars
  PROVE  KeepAliveNew'
<1> USE DEF IInv, KeepAliveNew, SetupGate, SetupOnce, RestoreExclusive,
   Rebuilding, Places, Typed, TypePlaces
<1>1. ASSUME NEW t \in Caller, Builder(t) PROVE KeepAliveNew'
  <2>1. CASE Create(t)
    BY <2>1 DEF Create
  <2>2. CASE WindowAppears(t)
    BY <2>2 DEF WindowAppears
  <2>3. CASE FallBack(t)
    BY <2>3 DEF FallBack
  <2>4. CASE ShowSucceeds(t)
    BY <2>4 DEF ShowSucceeds, PostShow
  <2>5. CASE ShowFails(t)
    <3>1. \/ ~first[t] /\ Build(t, "roll")
          \/ first[t] /\ (Build(t, "create") \/ Build(t, "settle"))
      BY <2>5 DEF ShowFails
    <3>2. build[t] = "show" /\ UNCHANGED <<main, first, keepalive, rerun>>
      BY <2>5 DEF ShowFails
    <3> QED
      BY <3>1, <3>2
  <2>6. CASE Publish(t)
    BY <2>6 DEF Publish, Untray
  <2>7. CASE FinishRebuild(t)
    BY <2>7 DEF FinishRebuild
  <2>8. CASE RollBack(t)
    BY <2>8 DEF RollBack
  <2>9. CASE FinishRestoreFail(t)
    BY <2>9 DEF FinishRestoreFail
  <2>10. CASE Settle(t)
    BY <2>10 DEF Settle
  <2>11. CASE DecideRestore(t)
    BY <2>11 DEF DecideRestore, Adopt
  <2> QED
    BY <1>1, <2>1, <2>2, <2>3, <2>4, <2>5, <2>6, <2>7, <2>8, <2>9, <2>10, <2>11
       DEF Builder
<1>2. CASE TakePending
  BY <1>2 DEF TakePending
<1>3. CASE FreePending
  BY <1>3 DEF FreePending
<1>4. CASE ClearId
  BY <1>4 DEF ClearId
<1>5. CASE StartupGone \/ Teardown
  BY <1>5 DEF StartupGone, Teardown
<1>6. CASE NavigateBack
  BY <1>6 DEF NavigateBack, RestoreFromTray
<1>7. CASE ServeRequest
  BY <1>7 DEF ServeRequest, RestoreFromTray
<1>8. CASE WindowShow
  BY <1>8 DEF WindowShow, RestoreFromTray
<1>9. CASE PollClose
  BY <1>9 DEF PollClose, BrowserGone, EnterTrayed
<1>10. CASE WindowGone
  BY <1>10 DEF WindowGone, EnterTrayed
<1>11. CASE Handler
  BY <1>11 DEF Handler, DecideClose, DeferClose, CloseQuits, CloseToTrayNow,
     StopKeepAlive, HandlerReturns
<1>12. CASE Background
  BY <1>12 DEF Background, CaptureHwnd, LocateBrowser, AdoptBrowser,
     BrowserConnects
<1>13. CASE WindowHide
  BY <1>13 DEF WindowHide, EnterTrayed
<1>14. CASE Request
  BY <1>14 DEF Request
<1>15. CASE Quit \/ GraceEnds \/ HandOff
  BY <1>15 DEF Quit, GraceEnds, HandOff
<1>16. ASSUME NEW w \in Win, UserCloses(w) \/ WindowDies(w) PROVE KeepAliveNew'
  BY <1>16 DEF UserCloses, WindowDies
<1>17. CASE UNCHANGED vars
  BY <1>17 DEF vars
<1> QED
  BY <1>1, <1>2, <1>3, <1>4, <1>5, <1>6, <1>7, <1>8, <1>9, <1>10, <1>11, <1>12,
     <1>13, <1>14, <1>15, <1>16, <1>17 DEF Next, Pass, Environment, Ended

\* What names its window ends the keep-alive.
LEMMA KeepAliveApartStep ==
  ASSUME IInv, [Next]_vars
  PROVE  KeepAliveApart'
<1> USE NoneIsNoWindow DEF IInv, KeepAliveApart, Clean, SetupOnce,
   ShowUndisturbed, MadeSafe, Typed, TypePlaces, TypeNames
<1>1. ASSUME NEW t \in Caller, Builder(t) PROVE KeepAliveApart'
  <2>1. CASE Create(t)
    BY <2>1 DEF Create
  <2>2. CASE WindowAppears(t)
    BY <2>2 DEF WindowAppears
  <2>3. CASE FallBack(t)
    BY <2>3 DEF FallBack
  <2>4. CASE ShowSucceeds(t)
    BY <2>4 DEF ShowSucceeds, PostShow
  <2>5. CASE ShowFails(t)
    <3>1. UNCHANGED <<keepalive, pending, victim, handler, closing, history>>
      BY <2>5 DEF ShowFails
    <3> QED
      BY <3>1
  <2>6. CASE Publish(t)
    BY <2>6 DEF Publish
  <2>7. CASE FinishRebuild(t)
    BY <2>7 DEF FinishRebuild
  <2>8. CASE RollBack(t)
    BY <2>8 DEF RollBack
  <2>9. CASE FinishRestoreFail(t)
    BY <2>9 DEF FinishRestoreFail
  <2>10. CASE Settle(t)
    BY <2>10 DEF Settle
  <2>11. CASE DecideRestore(t)
    BY <2>11, RestoreDecided
  <2> QED
    BY <1>1, <2>1, <2>2, <2>3, <2>4, <2>5, <2>6, <2>7, <2>8, <2>9, <2>10, <2>11
       DEF Builder
<1>2. CASE TakePending
  BY <1>2 DEF TakePending
<1>3. CASE FreePending
  BY <1>3 DEF FreePending
<1>4. CASE ClearId
  BY <1>4 DEF ClearId
<1>5. CASE StartupGone \/ Teardown
  BY <1>5 DEF StartupGone, Teardown
<1>6. CASE NavigateBack
  BY <1>6 DEF NavigateBack
<1>7. CASE ServeRequest
  BY <1>7 DEF ServeRequest
<1>8. CASE WindowShow
  BY <1>8 DEF WindowShow
<1>9. CASE PollClose
  BY <1>9 DEF PollClose, BrowserGone, EnterTrayed
<1>10. CASE WindowGone
  BY <1>10 DEF WindowGone, EnterTrayed
<1>11. CASE Handler
  BY <1>11 DEF Handler, DecideClose, DeferClose, CloseQuits, CloseToTrayNow,
     StopKeepAlive, HandlerReturns
<1>12. CASE Background
  BY <1>12 DEF Background, CaptureHwnd, LocateBrowser, AdoptBrowser,
     BrowserConnects
<1>13. CASE WindowHide
  BY <1>13 DEF WindowHide, EnterTrayed
<1>14. CASE Request
  BY <1>14 DEF Request
<1>15. CASE Quit \/ GraceEnds \/ HandOff
  BY <1>15 DEF Quit, GraceEnds, HandOff
<1>16. ASSUME NEW w \in Win, UserCloses(w) \/ WindowDies(w) PROVE KeepAliveApart'
  BY <1>16 DEF UserCloses, WindowDies
<1>17. CASE UNCHANGED vars
  BY <1>17 DEF vars
<1> QED
  BY <1>1, <1>2, <1>3, <1>4, <1>5, <1>6, <1>7, <1>8, <1>9, <1>10, <1>11, <1>12,
     <1>13, <1>14, <1>15, <1>16, <1>17 DEF Next, Pass, Environment, Ended

\* A close of its window in the tray is deferred or goes to the tray itself.
LEMMA KeepAliveUpStep ==
  ASSUME IInv, [Next]_vars
  PROVE  KeepAliveUp'
<1> USE NoneIsNoWindow
    DEF IInv, KeepAliveUp, Clean, SetupOnce, Typed, TypePlaces, TypeNames,
       TypeWins
<1>1. ASSUME NEW t \in Caller, Builder(t) PROVE KeepAliveUp'
  <2>1. CASE Create(t)
    <3>1. NextWin \in Win /\ win[NextWin] = "none"
      BY <2>1, NextWinThere DEF Create
    <3>2. /\ keepalive' = keepalive \/ keepalive' = None
          /\ win' = [win EXCEPT ![NextWin] = "new"]
          /\ UNCHANGED <<trayed, main, handler, closing, mislaid, died, rerun>>
      BY <2>1 DEF Create
    <3> QED
      BY <3>1, <3>2
  <2>2. CASE WindowAppears(t)
    BY <2>2 DEF WindowAppears, MadeShown
  <2>3. CASE FallBack(t)
    <3>1. SetupOnce => keepalive = None
      BY <2>3 DEF FallBack, KeepAliveNew, SetupGate
    <3>2. UNCHANGED <<keepalive, rerun>>
      BY <2>3 DEF FallBack
    <3> QED
      BY <3>1, <3>2
  <2>4. CASE ShowSucceeds(t)
    BY <2>4 DEF ShowSucceeds, PostShow, ShowUndisturbed, TrayedThere, SetupGate
  <2>5. CASE ShowFails(t)
    <3>1. CASE ~first[t]
      BY <2>5, <3>1 DEF ShowFails
    <3>2. CASE first[t]
      <4>1. SetupOnce => keepalive = None
        BY <2>5, <3>2 DEF ShowFails, KeepAliveNew, SetupGate
      <4>2. UNCHANGED <<keepalive, rerun>>
        BY <2>5 DEF ShowFails
      <4> QED
        BY <4>1, <4>2
    <3> QED
      BY <3>1, <3>2
  <2>6. CASE Publish(t)
    BY <2>6 DEF Publish, Untray
  <2>7. CASE FinishRebuild(t)
    BY <2>7 DEF FinishRebuild
  <2>8. CASE RollBack(t)
    BY <2>8 DEF RollBack, Destroy
  <2>9. CASE FinishRestoreFail(t)
    BY <2>9 DEF FinishRestoreFail, KeepAliveNew
  <2>10. CASE Settle(t)
    BY <2>10 DEF Settle, Places
  <2>11. CASE DecideRestore(t)
    BY <2>11, RestoreDecided
  <2> QED
    BY <1>1, <2>1, <2>2, <2>3, <2>4, <2>5, <2>6, <2>7, <2>8, <2>9, <2>10, <2>11
       DEF Builder
<1>2. CASE TakePending
  BY <1>2 DEF TakePending
<1>3. CASE FreePending
  BY <1>3 DEF FreePending, Destroy, KeepAliveApart
<1>4. CASE ClearId
  BY <1>4 DEF ClearId
<1>5. CASE StartupGone \/ Teardown
  BY <1>5 DEF StartupGone, Teardown, Loop
<1>6. CASE NavigateBack
  BY <1>6 DEF NavigateBack, RestoreFromTray
<1>7. CASE ServeRequest
  BY <1>7 DEF ServeRequest, RestoreFromTray
<1>8. CASE WindowShow
  BY <1>8 DEF WindowShow, RestoreFromTray
<1>9. CASE PollClose
  BY <1>9 DEF PollClose, BrowserGone, EnterTrayed
<1>10. CASE WindowGone
  BY <1>10 DEF WindowGone, EnterTrayed
<1>11. CASE DecideClose
  BY <1>11 DEF DecideClose, KeepAliveTray
<1>12. CASE DeferClose
  BY <1>12 DEF DeferClose
<1>13. CASE CloseQuits
  BY <1>13 DEF CloseQuits
<1>14. CASE CloseToTrayNow
  BY <1>14 DEF CloseToTrayNow, StopKeepAlive, KeepAliveApart
<1>15. CASE HandlerReturns
  BY <1>15 DEF HandlerReturns, Close
<1>16. CASE Background
  BY <1>16 DEF Background, CaptureHwnd, LocateBrowser, AdoptBrowser,
     BrowserConnects
<1>17. CASE WindowHide
  BY <1>17 DEF WindowHide, EnterTrayed
<1>18. CASE Request
  BY <1>18 DEF Request
<1>19. CASE Quit \/ GraceEnds \/ HandOff
  BY <1>19 DEF Quit, GraceEnds, HandOff
<1>20. ASSUME NEW w \in Win, UserCloses(w) \/ WindowDies(w) PROVE KeepAliveUp'
  BY <1>20 DEF UserCloses, WindowDies, Close, NoBrowser, HandlerPlaces
<1>21. CASE UNCHANGED vars
  BY <1>21 DEF vars
<1> QED
  BY <1>1, <1>2, <1>3, <1>4, <1>5, <1>6, <1>7, <1>8, <1>9, <1>10, <1>11, <1>12,
     <1>13, <1>14, <1>15, <1>16, <1>17, <1>18, <1>19, <1>20, <1>21
     DEF Next, Pass, Environment, Ended, Handler

\* In the tray with a keep-alive, a close finds dsh serving or SETUP_DONE clear.
LEMMA KeepAliveTrayStep ==
  ASSUME IInv, [Next]_vars
  PROVE  KeepAliveTray'
<1> USE DEF IInv, KeepAliveTray, Clean, SetupOnce, SetupGate, RestoreExclusive,
   Rebuilding, Places, HandlerPlaces, TrayedThere, Typed, TypePlaces
<1>1. ASSUME NEW t \in Caller, Builder(t) PROVE KeepAliveTray'
  <2>1. CASE Create(t)
    BY <2>1 DEF Create, ShutGate
  <2>2. CASE WindowAppears(t)
    BY <2>2 DEF WindowAppears
  <2>3. CASE FallBack(t)
    BY <2>3 DEF FallBack
  <2>4. CASE ShowSucceeds(t)
    BY <2>4 DEF ShowSucceeds, PostShow
  <2>5. CASE ShowFails(t)
    <3>1. CASE first[t]
      BY <2>5, <3>1 DEF ShowFails
    <3>2. CASE ~first[t]
      BY <2>5, <3>2 DEF ShowFails
    <3> QED
      BY <3>1, <3>2
  <2>6. CASE Publish(t)
    BY <2>6 DEF Publish, Untray
  <2>7. CASE FinishRebuild(t)
    BY <2>7 DEF FinishRebuild
  <2>8. CASE RollBack(t)
    BY <2>8 DEF RollBack
  <2>9. CASE FinishRestoreFail(t)
    BY <2>9 DEF FinishRestoreFail, KeepAliveNew
  <2>10. CASE Settle(t)
    BY <2>10 DEF Settle
  <2>11. CASE DecideRestore(t)
    BY <2>11, RestoreDecided
  <2> QED
    BY <1>1, <2>1, <2>2, <2>3, <2>4, <2>5, <2>6, <2>7, <2>8, <2>9, <2>10, <2>11
       DEF Builder
<1>2. CASE TakePending
  BY <1>2 DEF TakePending
<1>3. CASE FreePending
  BY <1>3 DEF FreePending
<1>4. CASE ClearId
  BY <1>4 DEF ClearId
<1>5. CASE StartupGone \/ Teardown
  BY <1>5 DEF StartupGone, Teardown
<1>6. CASE NavigateBack
  BY <1>6 DEF NavigateBack, RestoreFromTray
<1>7. CASE ServeRequest
  BY <1>7 DEF ServeRequest, RestoreFromTray
<1>8. CASE WindowShow
  BY <1>8 DEF WindowShow, RestoreFromTray
<1>9. CASE PollClose
  BY <1>9 DEF PollClose, BrowserGone, EnterTrayed
<1>10. CASE WindowGone
  BY <1>10 DEF WindowGone, EnterTrayed
<1>11. CASE DecideClose
  BY <1>11 DEF DecideClose
<1>12. CASE DeferClose
  BY <1>12 DEF DeferClose
<1>13. CASE CloseQuits
  BY <1>13 DEF CloseQuits
<1>14. CASE CloseToTrayNow
  BY <1>14 DEF CloseToTrayNow, StopKeepAlive
<1>15. CASE HandlerReturns
  BY <1>15 DEF HandlerReturns
<1>16. CASE Background
  BY <1>16 DEF Background, CaptureHwnd, LocateBrowser, AdoptBrowser,
     BrowserConnects
<1>17. CASE WindowHide
  BY <1>17 DEF WindowHide, EnterTrayed
<1>18. CASE Request
  BY <1>18 DEF Request
<1>19. CASE Quit \/ GraceEnds \/ HandOff
  BY <1>19 DEF Quit, GraceEnds, HandOff
<1>20. ASSUME NEW w \in Win, UserCloses(w) \/ WindowDies(w) PROVE KeepAliveTray'
  BY <1>20 DEF UserCloses, WindowDies
<1>21. CASE UNCHANGED vars
  BY <1>21 DEF vars
<1> QED
  BY <1>1, <1>2, <1>3, <1>4, <1>5, <1>6, <1>7, <1>8, <1>9, <1>10, <1>11, <1>12,
     <1>13, <1>14, <1>15, <1>16, <1>17, <1>18, <1>19, <1>20, <1>21
     DEF Next, Pass, Environment, Ended, Handler

(***************************************************************************)
(* Steps: the window that stays.                                           *)
(***************************************************************************)

\* Until a restore leaves the tray, nothing takes its window away.
LEMMA RestoreAnchoredStep ==
  ASSUME IInv, [Next]_vars
  PROVE  RestoreAnchored'
<1> USE NoneIsNoWindow DEF IInv, RestoreAnchored, Anchored, Plain,
   SetupOnce, Typed, TypePlaces, TypeNames, TypeWins
<1>1. ASSUME NEW t \in Caller, Builder(t) PROVE RestoreAnchored'
  <2>1. CASE Create(t)
    <3>1. SetupOnce => \A u \in Caller : build'[u] \in {"idle", "decide", "show"}
      BY <2>1, OneBuilder DEF Create
    <3>2. UNCHANGED rerun
      BY <2>1 DEF Create
    <3> QED
      BY <3>1, <3>2
  <2>2. CASE WindowAppears(t)
    BY <2>2 DEF WindowAppears
  <2>3. CASE FallBack(t)
    BY <2>3 DEF FallBack
  <2>4. CASE ShowSucceeds(t)
    <3>1. /\ made[t] \in Win /\ IsUp(made[t])
          /\ UNCHANGED <<win, external, pending, victim, closing, handler, shutdown,
                         history>>
      BY <2>4 DEF ShowSucceeds
    <3>2. Plain => /\ pending # made[t] /\ victim # made[t]
                   /\ ~(closing = made[t]
                          /\ handler \in {"tray", "trayed", "quit", "close"})
      BY <2>4 DEF ShowSucceeds, MadeSafe, ShowUndisturbed
    <3>3. Plain => Anchored'
      BY <3>1, <3>2
    <3> QED
      BY <3>1, <3>3
  <2>5. CASE ShowFails(t)
    <3>1. SetupOnce => \A u \in Caller : build'[u] # "untray"
      BY <2>5, OneBuilder DEF ShowFails
    <3>2. UNCHANGED rerun
      BY <2>5 DEF ShowFails
    <3> QED
      BY <3>1, <3>2
  <2>6. CASE Publish(t)
    BY <2>6 DEF Publish, Untray
  <2>7. CASE FinishRebuild(t)
    BY <2>7 DEF FinishRebuild
  <2>8. CASE RollBack(t)
    <3>1. SetupOnce => \A u \in Caller : build'[u] \in {"idle", "decide", "fail"}
      BY <2>8, OneBuilder DEF RollBack
    <3>2. UNCHANGED rerun
      BY <2>8 DEF RollBack
    <3> QED
      BY <3>1, <3>2
  <2>9. CASE FinishRestoreFail(t)
    BY <2>9 DEF FinishRestoreFail
  <2>10. CASE Settle(t)
    BY <2>10 DEF Settle
  <2>11. CASE DecideRestore(t)
    BY <2>11, RestoreDecided
  <2> QED
    BY <1>1, <2>1, <2>2, <2>3, <2>4, <2>5, <2>6, <2>7, <2>8, <2>9, <2>10, <2>11
       DEF Builder
<1>2. CASE TakePending
  BY <1>2 DEF TakePending
<1>3. CASE FreePending
  BY <1>3 DEF FreePending, Destroy
<1>4. CASE ClearId
  BY <1>4 DEF ClearId
<1>5. CASE StartupGone \/ Teardown
  BY <1>5 DEF StartupGone, Teardown, LoopEnds
<1>6. CASE NavigateBack
  BY <1>6 DEF NavigateBack, RestoreFromTray
<1>7. CASE ServeRequest
  BY <1>7 DEF ServeRequest, RestoreFromTray
<1>8. CASE WindowShow
  BY <1>8 DEF WindowShow, RestoreFromTray
<1>9. CASE PollClose
  BY <1>9 DEF PollClose, BrowserGone, EnterTrayed, TrayedThere, Places, Rebuilding
<1>10. CASE WindowGone
  BY <1>10 DEF WindowGone, EnterTrayed, TrayedThere, Places, Rebuilding
<1>11. CASE DecideClose
  BY <1>11 DEF DecideClose, SetupGate
<1>12. CASE DeferClose
  BY <1>12 DEF DeferClose
<1>13. CASE CloseQuits
  BY <1>13 DEF CloseQuits
<1>14. CASE CloseToTrayNow
  BY <1>14 DEF CloseToTrayNow
<1>15. CASE HandlerReturns
  BY <1>15 DEF HandlerReturns, Close
<1>16. CASE Background
  BY <1>16 DEF Background, CaptureHwnd, LocateBrowser, AdoptBrowser,
     BrowserConnects
<1>17. CASE WindowHide
  BY <1>17 DEF WindowHide, EnterTrayed, Quiet
<1>18. CASE Request
  BY <1>18 DEF Request
<1>19. CASE Quit \/ GraceEnds \/ HandOff
  BY <1>19 DEF Quit, GraceEnds, HandOff
<1>20. ASSUME NEW w \in Win, UserCloses(w) \/ WindowDies(w) PROVE RestoreAnchored'
  BY <1>20 DEF UserCloses, WindowDies, Close, Quiet
<1>21. CASE UNCHANGED vars
  BY <1>21 DEF vars
<1> QED
  BY <1>1, <1>2, <1>3, <1>4, <1>5, <1>6, <1>7, <1>8, <1>9, <1>10, <1>11, <1>12,
     <1>13, <1>14, <1>15, <1>16, <1>17, <1>18, <1>19, <1>20, <1>21
     DEF Next, Pass, Environment, Ended, Handler

\* Whatever takes the last window away has set TRAYED or a shutdown before.
LEMMA OpenAnchoredStep ==
  ASSUME IInv, [Next]_vars
  PROVE  OpenAnchored'
<1> USE NoneIsNoWindow DEF IInv, OpenAnchored, Anchored, Watching, Plain,
   SetupOnce, Typed, TypePlaces, TypeNames, TypeWins
<1>1. ASSUME NEW t \in Caller, Builder(t) PROVE OpenAnchored'
  <2>1. CASE Create(t)
    BY <2>1 DEF Create
  <2>2. CASE WindowAppears(t)
    BY <2>2 DEF WindowAppears
  <2>3. CASE FallBack(t)
    BY <2>3 DEF FallBack
  <2>4. CASE ShowSucceeds(t)
    <3>1. /\ made[t] \in Win /\ IsUp(made[t])
          /\ UNCHANGED <<win, external, pending, victim, closing, handler, shutdown,
                         history>>
      BY <2>4 DEF ShowSucceeds
    <3>2. Plain => /\ pending # made[t] /\ victim # made[t]
                   /\ ~(closing = made[t]
                          /\ handler \in {"tray", "trayed", "quit", "close"})
      BY <2>4 DEF ShowSucceeds, MadeSafe, ShowUndisturbed
    <3>3. Plain => Anchored'
      BY <3>1, <3>2
    <3> QED
      BY <3>1, <3>3
  <2>5. CASE ShowFails(t)
    BY <2>5 DEF ShowFails
  <2>6. CASE Publish(t)
    <3>1. UNCHANGED <<win, external, pending, victim, closing, handler, shutdown,
                      history>>
      BY <2>6 DEF Publish, Untray
    <3>2. CASE build[t] = "untray"
      BY <2>6, <3>1, <3>2 DEF Publish, RestoreAnchored
    <3>3. CASE build[t] = "open"
      BY <2>6, <3>1, <3>3 DEF Publish, Untray
    <3> QED
      BY <2>6, <3>2, <3>3 DEF Publish, Untray
  <2>7. CASE FinishRebuild(t)
    BY <2>7 DEF FinishRebuild
  <2>8. CASE RollBack(t)
    BY <2>8 DEF RollBack
  <2>9. CASE FinishRestoreFail(t)
    BY <2>9 DEF FinishRestoreFail
  <2>10. CASE Settle(t)
    BY <2>10 DEF Settle
  <2>11. CASE DecideRestore(t)
    <3>1. CASE build' = [build EXCEPT ![t] = "idle"] /\ UNCHANGED trayed
      BY <2>11, <3>1, RestoreDecided
    <3>2. CASE build' = [build EXCEPT ![t] = "create"]
      BY <2>11, <3>2, RestoreDecided
    <3>3. CASE external = {}
      <4>1. UNCHANGED trayed
        BY <2>11, <3>3 DEF DecideRestore, NoBrowser
      <4> QED
        BY <2>11, <3>1, <3>2, <4>1, RestoreDecided
    <3>4. CASE external # {}
      BY <2>11, <3>4, RestoreDecided
    <3> QED
      BY <3>3, <3>4
  <2> QED
    BY <1>1, <2>1, <2>2, <2>3, <2>4, <2>5, <2>6, <2>7, <2>8, <2>9, <2>10, <2>11
       DEF Builder
<1>2. CASE TakePending
  BY <1>2 DEF TakePending
<1>3. CASE FreePending
  BY <1>3 DEF FreePending, Destroy
<1>4. CASE ClearId
  BY <1>4 DEF ClearId
<1>5. CASE StartupGone \/ Teardown
  BY <1>5 DEF StartupGone, Teardown, LoopEnds
<1>6. CASE NavigateBack
  BY <1>6 DEF NavigateBack, RestoreFromTray, NoBrowser
<1>7. CASE ServeRequest
  BY <1>7 DEF ServeRequest, RestoreFromTray, NoBrowser
<1>8. CASE WindowShow
  BY <1>8 DEF WindowShow, RestoreFromTray, NoBrowser
<1>9. CASE PollClose
  BY <1>9 DEF PollClose, BrowserGone, EnterTrayed, NoBrowser
<1>10. CASE WindowGone
  BY <1>10 DEF WindowGone, EnterTrayed
<1>11. CASE DecideClose
  BY <1>11 DEF DecideClose
<1>12. CASE DeferClose
  BY <1>12 DEF DeferClose
<1>13. CASE CloseQuits
  BY <1>13 DEF CloseQuits
<1>14. CASE CloseToTrayNow
  BY <1>14 DEF CloseToTrayNow
<1>15. CASE HandlerReturns
  BY <1>15 DEF HandlerReturns, Close
<1>16. CASE Background
  BY <1>16 DEF Background, CaptureHwnd, LocateBrowser, AdoptBrowser,
     BrowserConnects
<1>17. CASE WindowHide
  BY <1>17 DEF WindowHide, EnterTrayed
<1>18. CASE Request
  BY <1>18 DEF Request
<1>19. CASE Quit \/ GraceEnds \/ HandOff
  BY <1>19 DEF Quit, GraceEnds, HandOff
<1>20. ASSUME NEW w \in Win, UserCloses(w) \/ WindowDies(w) PROVE OpenAnchored'
  BY <1>20 DEF UserCloses, WindowDies, Close, Quiet
<1>21. CASE UNCHANGED vars
  BY <1>21 DEF vars
<1> QED
  BY <1>1, <1>2, <1>3, <1>4, <1>5, <1>6, <1>7, <1>8, <1>9, <1>10, <1>11, <1>12,
     <1>13, <1>14, <1>15, <1>16, <1>17, <1>18, <1>19, <1>20, <1>21
     DEF Next, Pass, Environment, Ended, Handler

(***************************************************************************)
(* The theorems.                                                           *)
(***************************************************************************)

\* IInv holds when the launcher starts: setup is about to make the first window.
LEMMA InitIInv == Init => IInv
<1> SUFFICES ASSUME Init PROVE IInv
  OBVIOUS
<1> USE BoundsAssumption, ConfigAssumption DEF Init
<1>1. Typed
  <2>1. TypeFlags /\ TypeModes
    BY DEF TypeFlags, TypeModes
  <2>2. TypeNames /\ TypeBrowser
    BY DEF TypeNames, TypeBrowser, CONFIRM_TICKS
  <2>3. TypeWins /\ TypePlaces
    BY DEF TypeWins, TypePlaces, Place
  <2> QED
    BY <2>1, <2>2, <2>3 DEF Typed
<1>2. Budget
  <2>1. Owed = 1
    BY DEF Owed, Owes
  <2>2. 0 \in 0 .. MaxAsk + 1 /\ (\A w \in Win : win[w] = "none" <=> w > 0)
        /\ 0 + Owed <= asks + 1
    BY <2>1 DEF Win
  <2> QED
    BY <2>2 DEF Budget
<1>3. MadeShown /\ NamesUsed /\ NoBrowser
  BY NoneIsNoWindow DEF MadeShown, NamesUsed, NoBrowser, Unused
<1>4. Places /\ HandlerPlaces /\ LoopEnds /\ SetupGate
  BY DEF Places, HandlerPlaces, LoopEnds, SetupGate
<1>5. RestoreExclusive /\ ShowUndisturbed /\ TrayedThere /\ MadeSafe
  BY DEF RestoreExclusive, Rebuilding, ShowUndisturbed, TrayedThere, MadeSafe
<1>6. Counted
  BY DEF Counted
<1>7. KeepAliveNew /\ KeepAliveApart /\ KeepAliveUp /\ KeepAliveTray
  BY DEF KeepAliveNew, KeepAliveApart, KeepAliveUp, KeepAliveTray
<1>8. RestoreAnchored /\ OpenAnchored
  BY DEF RestoreAnchored, OpenAnchored
<1> QED
  BY <1>1, <1>2, <1>3, <1>4, <1>5, <1>6, <1>7, <1>8 DEF IInv

\* No step breaks a part of IInv.
LEMMA NextIInv == IInv /\ [Next]_vars => IInv'
<1> SUFFICES ASSUME IInv, [Next]_vars PROVE IInv'
  OBVIOUS
<1>1. Typed'
  BY TypeFlagsStep, TypeModesStep, TypeNamesStep, TypeBrowserStep, TypeWinsStep,
     TypePlacesStep DEF Typed
<1>2. Budget'
  BY <1>1, BudgetStep
<1>3. MadeShown' /\ NamesUsed' /\ NoBrowser'
  BY MadeShownStep, NamesUsedStep, NoBrowserStep
<1>4. Places' /\ HandlerPlaces' /\ LoopEnds' /\ SetupGate'
  BY PlacesStep, HandlerPlacesStep, LoopEndsStep, SetupGateStep
<1>5. RestoreExclusive' /\ ShowUndisturbed' /\ TrayedThere' /\ MadeSafe'
  BY RestoreExclusiveStep, ShowUndisturbedStep, TrayedThereStep, MadeSafeStep
<1>6. Counted'
  BY CountedStep
<1>7. KeepAliveNew' /\ KeepAliveApart' /\ KeepAliveUp' /\ KeepAliveTray'
  BY KeepAliveNewStep, KeepAliveApartStep, KeepAliveUpStep, KeepAliveTrayStep
<1>8. RestoreAnchored' /\ OpenAnchored'
  BY RestoreAnchoredStep, OpenAnchoredStep
<1> QED
  BY <1>1, <1>2, <1>3, <1>4, <1>5, <1>6, <1>7, <1>8 DEF IInv

\* IInv is an invariant, for any number of requests and every configuration.
THEOREM Inductive == Spec => []IInv
  BY InitIInv, NextIInv, PTL DEF Spec

\* The variables keep their types: in particular, the requests never ask for a
\* window more than there are.
THEOREM TypesKept == Spec => []TypeOK
<1>1. IInv => TypeOK
  BY TypeParts DEF IInv
<1> QED
  BY <1>1, Inductive, PTL

\* Two restores never run at once, and every path of a restore gives the latch
\* back.
THEOREM RestoresExclusive == Spec => []RestoreExclusive
<1>1. IInv => RestoreExclusive
  BY DEF IInv
<1> QED
  BY <1>1, Inductive, PTL

\* The close handler never works on a window that is being shown.
THEOREM ShowsUndisturbed == Spec => []ShowUndisturbed
<1>1. IInv => ShowUndisturbed
  BY DEF IInv
<1> QED
  BY <1>1, Inductive, PTL

\* With no restore and no close under way, the launcher is not left without a
\* window outside the tray.
THEOREM NeverStranded == Spec => []NotStranded
<1>1. IInv => NotStranded
  <2> SUFFICES ASSUME IInv, main \in Loop, ~shutdown, ~trayed, Up \cup external = {},
                      Quiet, handler = "idle", SetupOnce, ~lost, ~mislaid,
                      hwnd = None, seen = None
               PROVE  FALSE
    BY DEF NotStranded, NoWindow
  <2>1. Anchored
    BY DEF IInv, OpenAnchored, Watching, Plain, Quiet
  <2> QED
    BY <2>1 DEF Anchored
<1> QED
  BY <1>1, Inductive, PTL

\* In the tray the keep-alive is not left on a window that has closed.
THEOREM KeepAliveStops == Spec => []KeepAliveStopped
<1>1. IInv => KeepAliveStopped
  BY DEF IInv, KeepAliveUp, KeepAliveStopped, Clean, Loop
<1> QED
  BY <1>1, Inductive, PTL

\* What Debounced says of a step.
LateVerdict ==
  main = "poll" /\ main' = "gone" /\ (trayed' # trayed \/ shutdown' # shutdown)
    => streak = CONFIRM_TICKS - 1 \/ ~SetupOnce

\* The loop judges the browser gone only in PollClose, at the last count.
LEMMA DebounceStep ==
  ASSUME IInv, [Next]_vars
  PROVE  LateVerdict
<1> USE DEF IInv, Loop, LateVerdict
<1>1. ASSUME NEW t \in Caller, Builder(t) PROVE LateVerdict
  <2>1. CASE Create(t)
    BY <2>1 DEF Create
  <2>2. CASE WindowAppears(t)
    BY <2>2 DEF WindowAppears
  <2>3. CASE FallBack(t)
    BY <2>3 DEF FallBack
  <2>4. CASE ShowSucceeds(t)
    BY <2>4 DEF ShowSucceeds
  <2>5. CASE ShowFails(t)
    BY <2>5 DEF ShowFails
  <2>6. CASE Publish(t) \/ FinishRebuild(t)
    BY <2>6 DEF Publish, Untray, FinishRebuild
  <2>7. CASE RollBack(t) \/ FinishRestoreFail(t)
    BY <2>7 DEF RollBack, FinishRestoreFail
  <2>8. CASE Settle(t)
    BY <2>8 DEF Settle
  <2>9. CASE DecideRestore(t)
    BY <2>9 DEF DecideRestore, Adopt
  <2> QED
    BY <1>1, <2>1, <2>2, <2>3, <2>4, <2>5, <2>6, <2>7, <2>8, <2>9
       DEF Builder
<1>2. CASE TakePending \/ FreePending \/ ClearId
  BY <1>2 DEF TakePending, FreePending, ClearId
<1>3. CASE StartupGone \/ Teardown
  BY <1>3 DEF StartupGone, Teardown
<1>4. CASE NavigateBack \/ ServeRequest \/ WindowShow
  BY <1>4 DEF NavigateBack, RestoreFromTray, ServeRequest, WindowShow
<1>5. CASE PollClose
  <2>1. confirm = CONFIRM_TICKS - 1 \/ UNCHANGED <<trayed, shutdown>>
    BY <1>5 DEF PollClose
  <2>2. SetupOnce => confirm = streak
    BY DEF Counted
  <2> QED
    BY <2>1, <2>2
<1>6. CASE WindowGone
  BY <1>6 DEF WindowGone, EnterTrayed
<1>7. CASE Handler
  BY <1>7 DEF Handler, DecideClose, DeferClose, CloseQuits, CloseToTrayNow,
     HandlerReturns
<1>8. CASE Background
  BY <1>8 DEF Background, CaptureHwnd, LocateBrowser, AdoptBrowser,
     BrowserConnects
<1>9. CASE WindowHide \/ Request
  BY <1>9 DEF WindowHide, EnterTrayed, Request
<1>10. CASE Quit \/ GraceEnds \/ HandOff
  BY <1>10 DEF Quit, GraceEnds, HandOff
<1>11. ASSUME NEW w \in Win, UserCloses(w) \/ WindowDies(w) PROVE LateVerdict
  BY <1>11 DEF UserCloses, WindowDies
<1>12. CASE UNCHANGED vars
  BY <1>12 DEF vars
<1> QED
  BY <1>1, <1>2, <1>3, <1>4, <1>5, <1>6, <1>7, <1>8, <1>9, <1>10, <1>11,
     <1>12 DEF Next, Pass, Environment, Ended

\* The browser is judged gone after CONFIRM_TICKS bad readings in a row.
THEOREM Debounce == Spec => Debounced
<1>1. IInv /\ [Next]_vars => [LateVerdict]_vars
  BY DebounceStep
<1> QED
  BY <1>1, Inductive, PTL DEF Spec, Debounced, LateVerdict

=============================================================================
