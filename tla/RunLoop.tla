------------------------------ MODULE RunLoop -------------------------------
(***************************************************************************)
(* The GLFW driver's main loop and the queue of functions other goroutines *)
(* hand it: internal/driver/glfw/loop.go, driver.go and animation.go, with *)
(* the lifecycle event pump of app.Run.                                    *)
(*                                                                         *)
(* One main thread (mpc) and a set of goroutines (pc) interleave at every  *)
(* atomic operation and critical section.  Main's own calls to             *)
(* wakeEventLoop are merged with the step before them: only main changes   *)
(* what they read (eventLoopReady) and consumes what they post.            *)
(*                                                                         *)
(* External: GLFW's event wait (one pending empty event is as good as      *)
(* many), the compositor, the clock, and the application's own functions,  *)
(* which may do any one of the operations UserCode lists.                  *)
(***************************************************************************)
EXTENDS Naturals, Sequences

CONSTANTS Workers,      \* goroutines of the application
          Pump,         \* the goroutine of Lifecycle.RunEventQueue
          Main,         \* the main thread, as the author of a call
          Windows,      \* windows open when Run is called
          Masters,      \* those whose closing quits the application
          MaxCalls,     \* bound: operations of each worker
          MaxMainCalls, \* bound: calls, shows and hides by main
          MayQuit,      \* may the application call Quit?
          MayCall,      \* may it call fyne.Do and fyne.DoAndWait?
          MayAnimate,   \* may it start and stop animations?
          Wayland,      \* do windows wait for frame callbacks?
          Migrated      \* built with migrated_fynedo (no thread checks)?

ASSUME ConstantsAssumption ==
          /\ Pump \notin Workers
          /\ Main \notin Workers \cup {Pump}
          /\ Masters \subseteq Windows
          /\ MaxCalls \in Nat /\ MaxMainCalls \in Nat
          /\ {MayQuit, MayCall, MayAnimate} \subseteq BOOLEAN
          /\ {Wayland, Migrated} \subseteq BOOLEAN

Threads == Workers \cup {Pump}

(* The two lifecycle events; they number the calls the pump makes. *)
Stopped == 1
Flush == 2

CallSet == [by : Threads \cup {Main}, n : 0 .. (MaxCalls + MaxMainCalls + 2),
            wait : BOOLEAN]
Call(g, n, wait) == [by |-> g, n |-> n, wait |-> wait]
NoCall(g) == Call(g, 0, FALSE)

VARIABLES
  pc, cur,              \* each goroutine's place in the code, and its call
  calls,                \* operations each thread has made
  mpc, site,            \* main's place, and which wait it came from
  waited, due,          \* runGL's locals: waited, and nextFrame has passed
  pending,              \* glfwFuncQueue.pending
  batch, serving,       \* what main drained, and the func it is at
  running, done, drained, ready,        \* the flags; ready: eventLoopReady
  terminated, posted,   \* GLFW: terminated; an empty event is pending
  open, closing,        \* d.windows and their fields: closing,
  visible, dirty,       \* visible, canvas.dirty
  gated,                \* not frame.ready()
  awaited, presented,   \* frame callback pending; about to be delivered
  playing, joining,     \* the runner has current, has pending animations
  started,              \* runnerStarted
  events, queueClosed,  \* Lifecycle.eventQueue (UnboundedChan)
  executed, dropped, returned  \* calls run, discarded, and whose wait ended

goVars == <<pc, cur, calls>>
locals == <<site, waited, due>>
loopVars == <<mpc, locals>>
funcVars == <<pending, batch, serving>>
flagVars == <<running, done, drained, ready>>
glfwVars == <<terminated, posted>>
gateVars == <<gated, awaited, presented>>
viewVars == <<visible, dirty, gateVars>>
windowVars == <<open, closing, viewVars>>
runnerVars == <<playing, joining, started>>
uiVars == <<windowVars, runnerVars>>
lifeVars == <<events, queueClosed>>
callVars == <<executed, dropped, returned>>
recordVars == <<lifeVars, callVars>>
allButGo == <<loopVars, funcVars, flagVars, glfwVars, uiVars, recordVars>>
allButPlace == <<goVars, locals, funcVars, flagVars, glfwVars, uiVars,
                 recordVars>>
vars == <<goVars, allButGo>>

GoroutinePlaces == {"idle", "check", "push", "wake", "post", "wait", "inline",
                    "close", "ended"}
LoopPlaces == {"hook", "check", "drain", "run", "func", "signal", "decide",
               "timeout", "poll", "sleep", "callback", "winevents",
               "redecide", "frame", "tick", "ticked", "swap", "join",
               "clear", "gate", "polled", "draw", "sdready"}
ShutdownPlaces == {"sdterm", "sdstopped", "sddrained", "sddrain", "finish",
                   "release"}
AfterLoop == {"flush", "flushwait", "destroy", "exited"}
Places == {"setup", "init", "crashed"} \cup LoopPlaces \cup ShutdownPlaces
                                       \cup AfterLoop

GoTypes ==
  /\ pc \in [Threads -> GoroutinePlaces]
  /\ cur \in [Threads -> CallSet]
  /\ calls \in [Threads \cup {Main} -> 0 .. (MaxCalls + MaxMainCalls)]

PlaceTypes ==
  /\ mpc \in Places
  /\ site \in {"top", "timeout", "poll", "wait"}

DataTypes ==
  /\ waited \in BOOLEAN /\ due \in BOOLEAN /\ running \in BOOLEAN
  /\ done \in BOOLEAN /\ drained \in BOOLEAN /\ ready \in BOOLEAN
  /\ terminated \in BOOLEAN /\ posted \in BOOLEAN
  /\ playing \in BOOLEAN /\ joining \in BOOLEAN /\ started \in BOOLEAN
  /\ queueClosed \in BOOLEAN
  /\ pending \in Seq(CallSet) /\ batch \in Seq(CallSet) /\ serving \in CallSet
  /\ open \subseteq Windows /\ closing \subseteq Windows
  /\ dirty \subseteq Windows /\ visible \subseteq open
  /\ gated \subseteq awaited /\ awaited \subseteq open
  /\ presented \subseteq awaited
  /\ events \in Seq({Stopped, Flush})
  /\ executed \subseteq CallSet /\ dropped \subseteq CallSet
  /\ returned \subseteq CallSet

(* A gated window has a frame callback to wait for, and a frame callback   *)
(* has an open window: one that outlived it would fire into freed memory.  *)
TypeOK == GoTypes /\ PlaceTypes /\ DataTypes

Init ==
  /\ pc = [g \in Threads |-> "idle"] /\ cur = [g \in Threads |-> NoCall(g)]
  /\ calls = [g \in Threads \cup {Main} |-> 0]
  /\ mpc = "setup" /\ site = "top" /\ waited = FALSE /\ due = TRUE
  /\ pending = <<>> /\ batch = <<>> /\ serving = NoCall(Main)
  /\ running = FALSE /\ done = FALSE /\ drained = FALSE /\ ready = FALSE
  /\ terminated = FALSE /\ posted = FALSE
  /\ playing = FALSE /\ joining = FALSE /\ started = FALSE
  /\ open = Windows /\ closing = {}
  /\ visible \in SUBSET Windows /\ dirty \in SUBSET Windows
  /\ gated = {} /\ awaited = {} /\ presented = {}
  /\ events = <<>> /\ queueClosed = FALSE
  /\ executed = {} /\ dropped = {} /\ returned = {}

-----------------------------------------------------------------------------
(* Goroutines. *)

GoTo(g, place) == pc' = [pc EXCEPT ![g] = place]

(* Where a goroutine goes when it has queued its call or woken the loop. *)
Resume(g) == IF cur[g].wait THEN "wait" ELSE "idle"

(* A worker begins an operation; call is what it will hand to main. *)
Begin(g, call, place) ==
  /\ pc[g] = "idle"
  /\ calls[g] < MaxCalls
  /\ calls' = [calls EXCEPT ![g] = @ + 1]
  /\ cur' = [cur EXCEPT ![g] = call]
  /\ GoTo(g, place)

(* gLDriver.DoFromGoroutine: fyne.Do and fyne.DoAndWait. *)
DoFromGoroutine(g) ==
  /\ MayCall
  /\ \E wait \in BOOLEAN : Begin(g, Call(g, calls[g] + 1, wait), "check")
  /\ UNCHANGED allButGo

(* runOnMainWithWait, off main: a shut down queue takes nothing more. *)
QueueShut == drained

CheckDrained(g) ==
  /\ pc[g] = "check"
  /\ GoTo(g, IF QueueShut THEN "inline" ELSE "push")
  /\ UNCHANGED <<cur, calls, allButGo>>

(* glfwFuncQueue.push: only the first func of an empty queue wakes main. *)
AfterPush_late(g) == IF pending' = <<>> THEN "wake" ELSE Resume(g)  \* mutant
AfterPush(g) == IF pending = <<>> THEN "wake" ELSE Resume(g)

Push(g) ==
  /\ pc[g] = "push"
  /\ pending' = Append(pending, cur[g])
  /\ GoTo(g, AfterPush(g))
  /\ UNCHANGED <<cur, calls, loopVars, batch, serving, flagVars, glfwVars,
                 uiVars, recordVars>>

(* wakeEventLoop, in its two steps: eventLoopReady.Load ... *)
LoadReady(g) ==
  /\ pc[g] = "wake"
  /\ GoTo(g, IF ready THEN "post" ELSE Resume(g))
  /\ UNCHANGED <<cur, calls, allButGo>>

(* ... and glfw.PostEmptyEvent, which panics once GLFW is terminated. *)
PostEmptyEvent(g) ==
  /\ pc[g] = "post"
  /\ GoTo(g, Resume(g))
  /\ posted' = TRUE
  /\ mpc' = IF terminated THEN "crashed" ELSE mpc
  /\ UNCHANGED <<cur, calls, locals, funcVars, flagVars, terminated, uiVars,
                 recordVars>>

(* runOnMainWithWait after the shutdown: the caller runs its own func. *)
RunInline(g) ==
  /\ pc[g] = "inline"
  /\ cur[g] # Call(Pump, Flush, TRUE)
  /\ executed' = executed \cup {cur[g]}
  /\ GoTo(g, "idle")
  /\ UNCHANGED <<cur, calls, loopVars, funcVars, flagVars, glfwVars, uiVars,
                 lifeVars, dropped, returned>>

(* Runner.Start: a runner that is started joins the new animation to the   *)
(* current ones after its frame.                                           *)
RunnerStart ==
  IF started THEN joining' = TRUE /\ UNCHANGED <<playing, started>>
  ELSE playing' = TRUE /\ started' = TRUE /\ UNCHANGED joining

(* Runner.Stop removes one animation, of those that play or of those that  *)
(* are to join; it may be the last of them.                                *)
RunnerStop ==
  /\ \/ playing' \in {playing, FALSE} /\ UNCHANGED joining
     \/ joining' \in {joining, FALSE} /\ UNCHANGED playing
  /\ UNCHANGED started

(* gLDriver.StartAnimation and StopAnimation from a goroutine. *)
StartAnimation(g) ==
  /\ MayAnimate
  /\ Begin(g, NoCall(g), "wake")
  /\ RunnerStart
  /\ UNCHANGED <<loopVars, funcVars, flagVars, glfwVars, windowVars,
                 recordVars>>

StopAnimation(g) ==
  /\ MayAnimate
  /\ Begin(g, NoCall(g), "wake")
  /\ RunnerStop
  /\ UNCHANGED <<loopVars, funcVars, flagVars, glfwVars, windowVars,
                 recordVars>>

(* Canvas.SetDirty from a goroutine: without the thread checks, Refresh   *)
(* does not hand it to main.  It wakes main only for a clean window.      *)
AfterSetDirty_again(w) ==          \* mutant: the old value is misread
  IF w \in dirty THEN "wake" ELSE "idle"
AfterSetDirty(w) == IF w \in dirty THEN "idle" ELSE "wake"

SetDirty(g, w) ==
  /\ Migrated
  /\ Begin(g, NoCall(g), AfterSetDirty(w))
  /\ dirty' = dirty \cup {w}
  /\ UNCHANGED <<loopVars, funcVars, flagVars, glfwVars, open, closing,
                 visible, gateVars, runnerVars, recordVars>>

(* gLDriver.Quit from a goroutine: running.CompareAndSwap ... *)
QuitSwap(g) ==
  /\ MayQuit
  /\ Begin(g, NoCall(g), IF running THEN "close" ELSE "idle")
  /\ running' = FALSE
  /\ UNCHANGED <<loopVars, funcVars, done, drained, ready, glfwVars, uiVars,
                 recordVars>>

(* ... and close(d.done), before it wakes the loop. *)
AfterClose_silent == "idle"        \* mutant: the loop is not woken
AfterClose == "wake"

QuitClose(g) ==
  /\ pc[g] = "close"
  /\ done' = TRUE
  /\ GoTo(g, AfterClose)
  /\ UNCHANGED <<cur, calls, loopVars, funcVars, running, drained, ready,
                 glfwVars, uiVars, recordVars>>

(* Lifecycle.RunEventQueue: the next event, run with wait set ... *)
PumpTake ==
  /\ pc[Pump] = "idle"
  /\ events # <<>>
  /\ cur' = [cur EXCEPT ![Pump] = Call(Pump, Head(events), TRUE)]
  /\ events' = Tail(events)
  /\ GoTo(Pump, "check")
  /\ UNCHANGED <<calls, loopVars, funcVars, flagVars, glfwVars, uiVars,
                 queueClosed, callVars>>

(* ... until the queue is destroyed. *)
PumpEnd ==
  /\ pc[Pump] = "idle"
  /\ events = <<>> /\ queueClosed
  /\ GoTo(Pump, "ended")
  /\ UNCHANGED <<cur, calls, allButGo>>

-----------------------------------------------------------------------------
(* Operations of the application's functions when main executes them. *)

toldVars == <<running, done, posted>>
handedVars == <<pending, calls, executed>>
userVars == <<toldVars, handedVars, closing, viewVars, runnerVars>>

MainWake == posted' = (posted \/ ready)

(* gLDriver.Quit on main. *)
QuitOnMain ==
  IF running
  THEN running' = FALSE /\ done' = TRUE /\ MainWake
  ELSE UNCHANGED toldVars

UserQuit == /\ MayQuit
            /\ QuitOnMain
            /\ UNCHANGED <<handedVars, closing, viewVars, runnerVars>>

MainCalls == /\ calls[Main] < MaxMainCalls
             /\ calls' = [calls EXCEPT ![Main] = @ + 1]

(* fyne.Do from main: queued while running, else executed on the spot. *)
UserDo ==
  LET c == Call(Main, calls[Main] + 1, FALSE) IN
  /\ MayCall /\ MainCalls
  /\ IF running
     THEN /\ pending' = Append(pending, c)
          /\ IF pending = <<>> THEN MainWake ELSE UNCHANGED posted
          /\ UNCHANGED executed
     ELSE /\ executed' = executed \cup {c}
          /\ UNCHANGED <<pending, posted>>
  /\ UNCHANGED <<running, done, closing, viewVars, runnerVars>>

UserAnimate == /\ MayAnimate
               /\ RunnerStart \/ RunnerStop
               /\ MainWake
               /\ UNCHANGED <<running, done, handedVars, closing, viewVars>>

(* Canvas.SetDirty on main. *)
MarkDirty(w) == /\ dirty' = dirty \cup {w}
                /\ IF w \in dirty THEN UNCHANGED posted ELSE MainWake

UserRefresh(w) == /\ MarkDirty(w)
                  /\ UNCHANGED <<running, done, handedVars, closing, visible,
                                 gateVars, runnerVars>>

(* Frame callbacks that have fired open the gate of their window; one that *)
(* is armed shuts it, and takes the place of one still pending.            *)
Gate(fired, armed) ==
  /\ gated' = (gated \ fired) \cup armed
  /\ awaited' = (awaited \ fired) \cup armed
  /\ presented' = presented \ (fired \cup armed)

Armed(ws) == IF Wayland THEN ws ELSE {}

(* window.Show paints at once, gate or no gate.  Mapping a surface takes   *)
(* the events that are pending, which may resize it.                       *)
UserShow(w) ==
  LET maps == Wayland /\ w \notin visible IN
  /\ w \in open \ closing
  /\ MainCalls
  /\ visible' = visible \cup {w}
  /\ dirty' \in IF maps THEN {dirty, dirty \cup {w}} ELSE {dirty}
  /\ posted' \in IF maps THEN {FALSE, ready /\ dirty' # dirty} ELSE {posted}
  /\ Gate(IF maps THEN presented ELSE {}, Armed({w}))
  /\ UNCHANGED <<running, done, pending, executed, closing, runnerVars>>

UserHide(w) == /\ w \in open \ closing
               /\ MainCalls
               /\ visible' = visible \ {w}
               /\ UNCHANGED <<toldVars, pending, executed, closing, dirty,
                              gateVars, runnerVars>>

(* window.Close: the window goes when its events are next processed. *)
UserClose(w) == /\ w \in open \ closing
                /\ closing' = closing \cup {w}
                /\ UNCHANGED <<toldVars, handedVars, viewVars, runnerVars>>

UserCode == \/ UNCHANGED userVars
            \/ UserQuit
            \/ UserDo
            \/ UserAnimate
            \/ \E w \in Windows : \/ UserRefresh(w) \/ UserClose(w)
                                  \/ UserShow(w) \/ UserHide(w)

-----------------------------------------------------------------------------
(* The main loop. *)

(* Main executes code of the application at place from, then goes on. *)
RunUserCode(from, to) ==
  /\ mpc = from
  /\ mpc' = to
  /\ UserCode
  /\ UNCHANGED <<pc, cur, locals, batch, serving, drained, ready, terminated,
                 open, lifeVars, dropped, returned>>

(* runGL begins: running, then GLFW, then eventLoopReady, then OnStarted. *)
StartRun ==
  /\ mpc = "setup" /\ mpc' = "init"
  /\ running' = TRUE
  /\ UNCHANGED <<goVars, locals, funcVars, done, drained, ready, glfwVars,
                 uiVars, recordVars>>

InitDriver ==
  /\ mpc = "init" /\ mpc' = "hook"
  /\ ready' = TRUE
  /\ UNCHANGED <<goVars, locals, funcVars, running, done, drained, glfwVars,
                 uiVars, recordVars>>

OnStarted == RunUserCode("hook", "check")

(* processQueuedFuncsOrDone, from any of its four call sites. *)
CheckDone ==
  /\ mpc = "check"
  /\ mpc' = IF done THEN "sdready" ELSE "drain"
  /\ UNCHANGED allButPlace

AfterDrain == [top |-> "decide", timeout |-> "winevents", poll |-> "frame",
               wait |-> "winevents"]

Drain_keep ==                      \* mutant: the queue is not reset
  /\ mpc = "drain"
  /\ batch' = pending /\ pending' = pending
  /\ mpc' = IF pending = <<>> THEN AfterDrain[site] ELSE "run"
  /\ UNCHANGED <<goVars, locals, serving, flagVars, glfwVars, uiVars,
                 recordVars>>
Drain_one ==                       \* mutant: of several only one is taken
  /\ mpc = "drain"
  /\ batch' = SelectSeq(pending, LAMBDA c : c = Head(pending))
  /\ pending' = <<>>
  /\ mpc' = IF pending = <<>> THEN AfterDrain[site] ELSE "run"
  /\ UNCHANGED <<goVars, locals, serving, flagVars, glfwVars, uiVars,
                 recordVars>>
Drain ==
  /\ mpc = "drain"
  /\ batch' = pending /\ pending' = <<>>
  /\ mpc' = IF pending = <<>> THEN AfterDrain[site] ELSE "run"
  /\ UNCHANGED <<goVars, locals, serving, flagVars, glfwVars, uiVars,
                 recordVars>>

(* runQueuedFunc: the func runs, then its waiter, if any, is released.     *)
(* The flush event would block main itself; it is never in the queue.      *)
RunFunc ==
  /\ mpc = "run"
  /\ Head(batch) # Call(Pump, Flush, TRUE)
  /\ serving' = Head(batch) /\ batch' = Tail(batch)
  /\ executed' = executed \cup {Head(batch)}
  /\ mpc' = "func"
  /\ UNCHANGED <<goVars, locals, pending, flagVars, glfwVars, uiVars, lifeVars,
                 dropped, returned>>

NextFunc == IF drained THEN IF batch = <<>> THEN "sddrain" ELSE "finish"
                       ELSE IF batch = <<>> THEN "check" ELSE "run"

AfterFunc_mute == NextFunc         \* mutant: the waiter is never told
AfterFunc == IF serving.wait THEN "signal" ELSE NextFunc

FuncBody == RunUserCode("func", AfterFunc)

(* The unbuffered send on done: main and the waiter meet. *)
Receives_any(g) == pc[g] = "wait"  \* mutant: one channel for all waiters
Receives(g) == pc[g] = "wait" /\ g = serving.by

Signal ==
  /\ mpc \in {"signal", "release"}
  /\ mpc' = NextFunc
  /\ \E g \in Threads : Receives(g) /\ GoTo(g, "idle")
  /\ returned' = returned \cup {serving}
  /\ UNCHANGED <<cur, calls, locals, funcVars, flagVars, glfwVars, uiVars,
                 lifeVars, executed, dropped>>

(* needsFrameTick: an animation, or a window both dirty and presentable. *)
Shown == visible \ closing
ReadyDirty == {w \in Shown : w \notin gated /\ w \in dirty}
Running == playing \/ joining
NeedsFrameTick_still == ReadyDirty # {}  \* mutant: animations forgotten
NeedsFrameTick == Running \/ ReadyDirty # {}

DecideSleep ==
  /\ mpc = "decide" /\ ~NeedsFrameTick
  /\ mpc' = "sleep"
  /\ UNCHANGED allButPlace

DecideWait ==
  /\ mpc = "decide" /\ NeedsFrameTick /\ ~due
  /\ mpc' = "timeout"
  /\ UNCHANGED allButPlace

(* A frame that took no events since the last one polls for them first. *)
DecideFrame ==
  /\ mpc = "decide" /\ NeedsFrameTick /\ due
  /\ mpc' = IF waited THEN "frame" ELSE "poll"
  /\ waited' = FALSE
  /\ UNCHANGED <<goVars, site, due, funcVars, flagVars, glfwVars, uiVars,
                 recordVars>>

(* GLFW hands over what is pending, the empty event and frame callbacks. *)
TakeEvents_shut == /\ posted' = FALSE  \* mutant: the callbacks go unheeded
                   /\ presented' = {} /\ UNCHANGED <<gated, awaited>>
TakeEvents == posted' = FALSE /\ Gate(presented, {})

LeaveWait(from, as) ==
  /\ mpc = from /\ mpc' = "callback"
  /\ site' = as
  /\ TakeEvents
  /\ UNCHANGED <<goVars, waited, due, funcVars, flagVars, terminated, open,
                 closing, visible, dirty, runnerVars, recordVars>>

WaitEventsTimeout == LeaveWait("timeout", "timeout")
PollEvents == LeaveWait("poll", "poll")
(* The native wait ends for what is pending, or whenever input comes. *)
WaitEvents == LeaveWait("sleep", "wait") /\ (posted \/ presented # {})
WaitInput == LeaveWait("sleep", "wait")

(* A window that gained the focus or was resized is painted whether the    *)
(* last frame was presented or not.                                        *)
MarkReady(w) ==
  /\ w \in open
  /\ gated' = gated \ {w}
  /\ MarkDirty(w)
  /\ UNCHANGED <<running, done, handedVars, closing, visible, awaited,
                 presented, runnerVars>>

(* The callbacks of GLFW do this, or lead to code of the application. *)
RunCallbacks(from, to) ==
  \/ RunUserCode(from, to)
  \/ /\ mpc = from /\ mpc' = to
     /\ \E w \in Windows : MarkReady(w)
     /\ UNCHANGED <<pc, cur, locals, batch, serving, drained, ready,
                    terminated, open, lifeVars, dropped, returned>>

EventCallbacks == RunCallbacks("callback", "check")

FreeCallbacks_leak(gone) ==        \* mutant: cb is not destroyed
  UNCHANGED <<awaited, presented>>
FreeCallbacks(gone) == /\ awaited' = awaited \ gone
                       /\ presented' = presented \ gone

(* processWindowEvents: windows asked to close are destroyed; the last     *)
(* one, or a master, quits the application.                                *)
ProcessWindowEvents ==
  LET gone == open \cap closing IN
  /\ open' = open \ gone /\ visible' = visible \ gone
  /\ gated' = gated \ gone
  /\ FreeCallbacks(gone)
  /\ IF gone # {} /\ (open' = {} \/ gone \cap Masters # {})
     THEN QuitOnMain
     ELSE UNCHANGED toldVars
  /\ UNCHANGED <<closing, dirty>>

(* After the timed wait runGL starts over ... *)
WindowEventsTimeout ==
  /\ mpc = "winevents" /\ site = "timeout"
  /\ ProcessWindowEvents
  /\ waited' = TRUE
  /\ site' = "top" /\ mpc' = "check"
  /\ UNCHANGED <<goVars, due, funcVars, drained, ready, terminated,
                 runnerVars, recordVars>>

(* ... after the indefinite one it looks again whether to draw. *)
WindowEventsWait ==
  /\ mpc = "winevents" /\ site = "wait"
  /\ ProcessWindowEvents
  /\ mpc' = "redecide"
  /\ UNCHANGED <<goVars, locals, funcVars, drained, ready, terminated,
                 runnerVars, recordVars>>

Redecide ==
  /\ mpc = "redecide"
  /\ waited' = FALSE
  /\ IF NeedsFrameTick
     THEN mpc' = "frame" /\ UNCHANGED site
     ELSE mpc' = "check" /\ site' = "top"
  /\ UNCHANGED <<goVars, due, funcVars, flagVars, glfwVars, uiVars,
                 recordVars>>

(* runFrame: window events, animations, a poll if a gate is shut, drawing. *)
FrameWindowEvents ==
  /\ mpc = "frame" /\ mpc' = "tick"
  /\ ProcessWindowEvents
  /\ UNCHANGED <<goVars, locals, funcVars, drained, ready, terminated,
                 runnerVars, recordVars>>

(* TickAnimations does nothing for a runner that is not started; else it   *)
(* ticks those that play, and their callbacks may start and stop others.   *)
TickAnimations ==
  /\ mpc = "tick"
  /\ mpc' = IF ~started THEN "gate" ELSE IF playing THEN "ticked" ELSE "join"
  /\ UNCHANGED allButPlace

TickCallbacks == RunUserCode("ticked", "swap")

(* Some of those ticked go on, or none; those that are to join do so. *)
EndFrame ==
  /\ mpc \in {"swap", "join"}
  /\ \E goOn \in IF mpc = "swap" THEN BOOLEAN ELSE {FALSE} :
        playing' = (goOn \/ joining)
  /\ joining' = FALSE
  /\ mpc' = IF playing' THEN "gate" ELSE "clear"
  /\ UNCHANGED <<goVars, locals, funcVars, flagVars, glfwVars, windowVars,
                 started, recordVars>>

(* runnerStarted is cleared in a critical section of its own. *)
ClearStarted ==
  /\ mpc = "clear" /\ mpc' = "gate"
  /\ started' = FALSE
  /\ UNCHANGED <<goVars, locals, funcVars, flagVars, glfwVars, windowVars,
                 playing, joining, recordVars>>

HasGatedWindow == Shown \cap gated # {}

PollGated ==
  /\ mpc = "gate"
  /\ IF HasGatedWindow
     THEN mpc' = "polled" /\ TakeEvents
     ELSE mpc' = "draw" /\ UNCHANGED <<posted, gateVars>>
  /\ UNCHANGED <<goVars, locals, funcVars, flagVars, terminated, open, closing,
                 visible, dirty, runnerVars, recordVars>>

PolledCallbacks == RunCallbacks("polled", "draw")

(* drawSingleFrame, and runGL's next deadline: a frame that ran late may   *)
(* leave it in the past, except after the indefinite wait.                 *)
DrawSingleFrame ==
  /\ mpc = "draw"
  /\ dirty' = dirty \ ReadyDirty
  /\ Gate({}, Armed(ReadyDirty))
  /\ due' \in IF site = "wait" THEN {FALSE} ELSE BOOLEAN
  /\ site' = "top" /\ mpc' = "check"
  /\ UNCHANGED <<goVars, waited, funcVars, flagVars, glfwVars, open, closing,
                 visible, runnerVars, recordVars>>

-----------------------------------------------------------------------------
(* shutdownGL, and what gLDriver.Run does after runGL returns. *)

StopWaking ==
  /\ mpc = "sdready" /\ mpc' = "sdterm"
  /\ ready' = FALSE
  /\ UNCHANGED <<goVars, locals, funcVars, running, done, drained, glfwVars,
                 uiVars, recordVars>>

Terminate ==
  /\ mpc = "sdterm" /\ mpc' = "sdstopped"
  /\ terminated' = TRUE
  /\ UNCHANGED <<goVars, locals, funcVars, flagVars, posted, uiVars,
                 recordVars>>

QueueEvent_first(event) ==         \* mutant: not in order
  events' = <<event>> \o events /\ UNCHANGED queueClosed
QueueEvent(event) == /\ events' = Append(events, event)
                     /\ UNCHANGED queueClosed

QueueStopped ==
  /\ mpc = "sdstopped" /\ mpc' = "sddrained"
  /\ QueueEvent(Stopped)
  /\ UNCHANGED <<goVars, locals, funcVars, flagVars, glfwVars, uiVars,
                 callVars>>

SetDrained ==
  /\ mpc = "sddrained" /\ mpc' = "sddrain"
  /\ drained' = TRUE
  /\ UNCHANGED <<goVars, locals, funcVars, running, done, ready, glfwVars,
                 uiVars, recordVars>>

FinalDrain ==
  /\ mpc = "sddrain"
  /\ batch' = pending /\ pending' = <<>>
  /\ mpc' = IF pending = <<>> THEN "flush" ELSE "finish"
  /\ UNCHANGED <<goVars, locals, serving, flagVars, glfwVars, uiVars,
                 recordVars>>

(* finishQueuedFunc: the waiter is released, the func is not called. *)
AfterFinish ==
  IF Head(batch).wait THEN "release"
  ELSE IF Tail(batch) = <<>> THEN "sddrain" ELSE "finish"

FinishFunc ==
  /\ mpc = "finish"
  /\ serving' = Head(batch) /\ batch' = Tail(batch)
  /\ dropped' = dropped \cup {Head(batch)}
  /\ mpc' = AfterFinish
  /\ UNCHANGED <<goVars, locals, pending, flagVars, glfwVars, uiVars, lifeVars,
                 executed, returned>>

(* Lifecycle.WaitForEvents: an event that hands over to main in person. *)
QueueFlush ==
  /\ mpc = "flush" /\ mpc' = "flushwait"
  /\ QueueEvent(Flush)
  /\ UNCHANGED <<goVars, locals, funcVars, flagVars, glfwVars, uiVars,
                 callVars>>

Flushed ==
  /\ mpc = "flushwait" /\ mpc' = "destroy"
  /\ pc[Pump] = "inline" /\ cur[Pump] = Call(Pump, Flush, TRUE)
  /\ executed' = executed \cup {cur[Pump]}
  /\ GoTo(Pump, "idle")
  /\ UNCHANGED <<cur, calls, locals, funcVars, flagVars, glfwVars, uiVars,
                 lifeVars, dropped, returned>>

DestroyEventQueue ==
  /\ mpc = "destroy" /\ mpc' = "exited"
  /\ queueClosed' = TRUE
  /\ UNCHANGED <<goVars, locals, funcVars, flagVars, glfwVars, uiVars, events,
                 callVars>>

-----------------------------------------------------------------------------
(* The outside world. *)

(* The compositor reports that a window's frame has been presented. *)
Present(w) ==
  /\ w \in awaited \ presented
  /\ presented' = presented \cup {w}
  /\ UNCHANGED <<goVars, loopVars, funcVars, flagVars, glfwVars, open, closing,
                 visible, dirty, gated, awaited, runnerVars, recordVars>>

(* Time reaches nextFrame. *)
FrameDue ==
  /\ ~due /\ due' = TRUE
  /\ UNCHANGED <<goVars, mpc, site, waited, funcVars, flagVars, glfwVars,
                 uiVars, recordVars>>

-----------------------------------------------------------------------------
(* The specification. *)

(* What a goroutine does once it has begun an operation. *)
Proceed(g) == \/ CheckDrained(g) \/ Push(g) \/ LoadReady(g)
              \/ PostEmptyEvent(g) \/ RunInline(g) \/ QuitClose(g)

Operate(g) == \/ DoFromGoroutine(g) \/ QuitSwap(g)
              \/ StartAnimation(g) \/ StopAnimation(g)
              \/ \E w \in Windows : SetDirty(g, w)

MainStep ==
  \/ StartRun \/ InitDriver \/ OnStarted
  \/ CheckDone \/ Drain \/ RunFunc \/ FuncBody \/ Signal
  \/ DecideSleep \/ DecideWait \/ DecideFrame
  \/ WaitEventsTimeout \/ PollEvents \/ WaitEvents \/ EventCallbacks
  \/ WindowEventsTimeout \/ WindowEventsWait \/ Redecide
  \/ FrameWindowEvents \/ TickAnimations \/ TickCallbacks \/ EndFrame
  \/ ClearStarted \/ PollGated \/ PolledCallbacks \/ DrawSingleFrame
  \/ StopWaking \/ Terminate \/ QueueStopped \/ SetDrained \/ FinalDrain
  \/ FinishFunc \/ QueueFlush \/ Flushed \/ DestroyEventQueue

World == WaitInput \/ FrameDue \/ \E w \in Windows : Present(w)

(* A panic in any goroutine ends the program. *)
Alive == mpc # "crashed"

Next ==
  /\ Alive
  /\ \/ MainStep
     \/ PumpTake \/ PumpEnd
     \/ \E g \in Threads : Proceed(g)
     \/ \E g \in Workers : Operate(g)
     \/ World

Spec == Init /\ [][Next]_vars

(* Goroutines are scheduled once they have begun an operation, main and    *)
(* the pump always; the compositor presents a window that is shown and     *)
(* time passes.  Nothing makes a worker begin an operation, or input come. *)
Fairness ==
  /\ WF_vars(MainStep)
  /\ WF_vars(Alive /\ (PumpTake \/ PumpEnd))
  /\ \A g \in Threads : WF_vars(Alive /\ Proceed(g))
  /\ \A w \in Windows : WF_vars(Alive /\ w \in visible /\ Present(w))
  /\ WF_vars(Alive /\ FrameDue)

FairSpec == Spec /\ Fairness
-----------------------------------------------------------------------------
(* Properties. *)

(* A wake-up is on its way: some goroutine is inside wakeEventLoop. *)
WakeComing == \E g \in Threads : \/ pc[g] = "post"
                                 \/ pc[g] = "wake" /\ ready

(* The loop never sleeps through work: while main blocks in the event wait *)
(* with nothing to end it, no func is queued, quitting was not asked for,  *)
(* no animation runs and no presentable window is dirty.  push wakes only  *)
(* on the empty to non-empty transition and SetDirty only on the clean to  *)
(* dirty one, so this relates every such transition to every drain.        *)
NoLostWakeup ==
  mpc = "sleep" /\ ~posted /\ ~WakeComing
    => pending = <<>> /\ ~done /\ ~NeedsFrameTick

InSeq(s) == {s[i] : i \in DOMAIN s}

(* A waiter goes on only when its own func has been called, or, once the   *)
(* queue has been shut, discarded (done channels are pooled and reused).   *)
WaiterReleasedByItsCall ==
  [][\A g \in Threads : pc[g] = "wait" /\ pc'[g] = "idle" =>
        cur[g] \in executed \/ (drained /\ cur[g] \in dropped)]_vars

(* WaitForEvents waits for what it must: main passes it only when OnStopped *)
(* has been taken from the queue and dealt with.  And main never executes   *)
(* the flush event itself, which would block it for ever.                   *)
EventsFlushed ==
  /\ mpc \in {"destroy", "exited"} =>
        events = <<>> /\ Call(Pump, Stopped, TRUE) \in executed \cup dropped
  /\ Call(Pump, Flush, TRUE) \notin InSeq(pending) \cup InSeq(batch)

(* The loop with its queue implements the abstract executor. *)
Executor == INSTANCE MainExecutor
              WITH Calls <- CallSet, queue <- batch \o pending,
                   quitting <- (mpc # "setup" /\ ~running)
ImplementsExecutor == Executor!Spec

(* Every call is served: no func stays in the queue and nobody is blocked  *)
(* for ever, however the pushes of several meet, while the loop runs and   *)
(* through its shutdown.  The exceptions are a call pushed after the last  *)
(* drain, by a goroutine that had found the queue open, and a panic.       *)
Queued(g) == \E c \in InSeq(batch \o pending) : c.by = g
Calling(g) == \/ Queued(g)
              \/ g \in Threads /\ pc[g] \notin {"idle", "ended"}
TooLate(g) == mpc = "crashed" \/ (mpc \in AfterLoop /\ Queued(g))
CallsServed ==
  \A g \in Threads \cup {Main} : Calling(g) ~> ~Calling(g) \/ TooLate(g)

(* A dirty window is drawn while it is shown, if the compositor answers:   *)
(* one hidden and shown again, or refreshed while it is gated, too.        *)
DirtyDrawn ==
  \A w \in Windows : w \in dirty \cap Shown ~> w \notin dirty \cap Shown \/ done

(* Animations that play are ticked and those that are to join them do so,  *)
(* until they are stopped or the program quits.  The exception is one that *)
(* a goroutine started when the runner was about to stop.                  *)
Stranded == joining /\ ~started
AnimationsTicked ==
  /\ playing ~> mpc = "ticked" \/ ~playing \/ done
  /\ joining ~> ~joining \/ Stranded \/ done

(* Quitting takes main out of the loop: shutdownGL comes to its end. *)
QuitEndsLoop == done ~> mpc \in AfterLoop \cup {"crashed"}

(* fyne.Window.Close: "If it is he "master" window the app will Quit".     *)
ClosedMasterQuits == \A w \in Masters : w \in closing ~> done

(* shutdownGL: "finish any that are already pending so their callers stop  *)
(* waiting.  Looping covers funcs pushed by goroutines that passed the     *)
(* drained check just before the flag flipped".                            *)
CallersStopWaiting ==
  \A g \in Threads : pc[g] = "wait" ~> pc[g] # "wait" \/ mpc = "crashed"

(* gLDriver.Run: "Ensure lifecycle events run to completion before the app *)
(* exits"; the event is OnStopped, whose hook saves the preferences.       *)
StoppedRuns == mpc = "exited" => Call(Pump, Stopped, TRUE) \in executed

(* glfwPostEmptyEvent requires an initialised GLFW. *)
NoPostAfterTerminate == mpc # "crashed"
=============================================================================
