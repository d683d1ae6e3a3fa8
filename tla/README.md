# A formal model of Refyne

Refyne is a fork of the Fyne toolkit: applications written in Go describe a
user interface, a *driver* owns the windows and the main thread, and any
goroutine may hand work to that thread. On the desktop the driver stands on a
vendored GLFW whose Wayland backend Refyne patches. This directory holds TLA+
models of the parts of both where goroutines, the main thread, the window system
and the clock meet, the TLC configurations that check them on small instances, and
TLAPS proofs of what they promise for instances of any size.

Everything is translated from the code; where the code and its comments
disagree, the model follows the code and a *violation* run shows the
disagreement.

## 1. Inventory

| Component | Source | State it keeps | Operations | Hard because |
|---|---|---|---|---|
| Run loop and function queue | `internal/driver/glfw/loop.go`, `loop_desktop.go`, `driver.go`, `animation.go`, `thread.go` | pending funcs, the batch being run, `running`, `done`, `drained`, `eventLoopReady`, windows | `Do`, `DoAndWait`, `Quit`, `Run`, refresh, show, hide, close, animate | every goroutine calls in; main sleeps in the native event wait; shutdown races late callers |
| Life cycle | `internal/app/lifecycle.go` | an event channel and its pump | `QueueEvent`, `WaitForEvents`, `RunEventQueue` | the pump hands its hooks to the loop that waits for it |
| Animation runner | `internal/animation` | three lists of animations, `runnerStarted` | `Start`, `Stop`, `TickAnimations` | a frame ticks without the lock; callbacks start and stop animations |
| Unbounded channel | `internal/async/chan.go` | two buffers, a slice, a goroutine | send, receive, `Close` | select takes any ready case; closing moves the rest into a bounded buffer |
| Refresh queue | `internal/driver/common/structures.go`, `canvas.go` | a lock-free queue, its counter, a deduplication map, the dirty flag | `Refresh`, `FreeDirtyTextures` | the queue and the map change one after the other |
| Lock-free object queue | `internal/async/queue.go` | linked nodes from a shared pool | `In`, `Out` | compare-and-swap on recycled nodes |
| Notification scheduler | `internal/scheduler` | entries, timers, a file in the cache | `Start`, `Schedule`, `Cancel`, fire | timers race calls; writes fail; the program crashes |
| Mobile driver | `internal/driver/mobile/driver.go`, `intent_mailbox.go` | function channel, painting flag, a pending intent | `DoFromGoroutine`, paint events, intents | started and closed while callers use it |
| Preferences | `internal/preferences.go`, `app/preferences.go`, `app/cloud.go` | values, debounce flags | set, save, reload, switch provider | a delayed save races changes |
| Wayland gate and resizing | `internal/driver/glfw/present*.go`, `framebuffer_settle.go`, `resize_*.go` | per-window frame callback state | arm, ready, free, settle | the compositor answers when it likes, or never |
| Double tap | `internal/driver/glfw/window.go` | click count, last click, cancel function | click, deadline | a second click races the deadline's function on main |
| Data binding | `data/binding` | values and listeners | set, listen, diff | updates arrive through `fyne.Do` |
| Caches, overlays, focus | `internal/cache`, `internal/overlay_stack.go`, `internal/app` | maps and stacks of main | sequential | expiry by the clock |
| Wayland toplevel | `internal/glfw/glfw/src/wl_window.c`, `wl_refyne.c`, `egl_context.c` | the shell role, staged and committed sizes, fullscreen and its undoing, decorations, shadow | `show`, `hide`, fullscreen, resize, decorate, paint; configures | two queues between it and the compositor; a size belongs to a buffer, and both change apart |
| Wayland outputs | `wl_init.c`, `wl_monitor.c`, `monitor.c`, `wl_refyne.c`; `loop_desktop.go`, `window_desktop.go` | monitors, the outputs a window is on, scales, the driver's fullscreen flags | plug, unplug, enter, leave, rescale; fullscreen on an output | proxies are freed while windows and queued events refer to them |
| Wayland pointer | `wl_window.c`, `wl_refyne.c` | what is staged for a frame, the hovered surface, the cursor, interactive resizing | enter, leave, motion, button, frame; surfaces destroyed | a surface goes between an event and the frame that ends it |
| Wayland event loop, keyboard | `wl_window.c`, `window.c`, `input.c`, `posix_poll.c` | events read and not dispatched, pressed keys, the repeat timer | poll, wait, post an empty event; focus, keys | whoever reads the connection reads for all; it may end |
| Widgets, painters, storage, tools, GLFW's other platforms | the rest | | | sequential, drawing or I/O |

How they interact: application code calls `fyne.Do`, `Refresh`,
`Animation.Start` and `Quit`. All of these end in the function queue or in a
flag the loop looks at, followed by a wake-up of the main thread, which on
Wayland is a `wl_display.sync` whose answer ends the wait of `handleEvents`. The
same function dispatches the events of windows, outputs, pointer and keyboard. The loop runs
queued functions, ticks the animation runner, and draws the dirty windows; a
frame empties a canvas's refresh queue. On shutdown the loop queues the
*stopped* event for the life cycle pump, shuts the function queue, and waits for
the pump, which uses an unbounded channel.

What makes each correct:

* *loop*: it never sleeps while there is work; functions run one at a time, in
  order, at most once; a caller of `DoAndWait` is released by its own function;
  quitting ends the loop, and leaves no caller and no event behind;
* *animations*: each is played as often as it says, in order, until stopped;
* *channel*: a FIFO without bound, whose end is announced after all of it;
* *refresh queue*: after the last frame no texture is older than its object;
* *object queue*: a FIFO, in spite of recycled nodes;
* *scheduler*: no notification is lost, doubled or delivered after `Cancel`;
* *mobile driver*: a function or intent handed over is run, once, on main;
* *preferences*: the last value set is saved, though saves are debounced;
* *toplevel*: a buffer is presented with the size it was drawn for, the size
  asked for last wins over stale suggestions, requests take effect in the end;
* *outputs*: no window refers to one that is gone, and fullscreen follows them;
* *pointer*: no handler reads a destroyed surface, hover and cursor are true
  once the events have arrived;
* *event loop*: what was posted or read wakes main; no key sticks or repeats
  when it is not pressed.

`PROJECT.json` lists under `hazards` the lines of the code where these are
hard to get right, with the properties that cover them.

## 2. Plan

Done: `RunLoop` with `MainExecutor`, `AnimationRunner`, `UnboundedChan` with
`FifoChannel`, `RefreshQueue`, `WaylandWindow`, `WaylandOutputs`,
`WaylandPointer`, `WaylandEvents`, and the theorems of section 5.

Next, in this order:

1. `CanvasObjectQueue`: Michael and Scott's queue step by step, with nodes from
   a pool. Abstract specification: `FifoChannel` without its end. With fresh
   nodes it should implement it for two producers and a consumer; with recycled
   nodes it is to be seen. Bounds: two producers, two values each, four nodes.
2. `Scheduler`: one action per critical section, a cache that may fail to
   write, a crash between any two steps and a restart. Abstract specification:
   each notification is pending, delivered, cancelled or lost by a crash.
   Bounds: two notifications, one crash, one failed write.
3. `MobileDriver`, which composes the function channel (`UnboundedChan`'s
   abstraction), the paint events and the intent mailbox.
4. `Preferences`: the debounce, the delayed reset and the save on exit.
5. `DoubleTap`; then the pure algorithms (ring buffer of the migrated build,
   overlay stack, list diffs of data binding) against reference definitions.

6. `WaylandData`: offers, selections and drag and drop, with the offers that a
   handler keeps and the pipes it reads; and the X11 selections.

Every safety property and every step property that a run checks is now a
theorem, and so are both refinements. Theorems worth proving next, with the
modules they are about: that the object queue with fresh nodes is a FIFO; that
the scheduler does not deliver twice; that the intent mailbox loses nothing.

## 3. Modules

### RunLoop, MainExecutor

`RunLoop` has one variable for every field the driver shares between threads.
`pc[g]` is where goroutine `g` is within `runOnMainWithWait`, `wakeEventLoop` or
`Quit`; `mpc` is where the main thread is within `runGL`, `runFrame` or
`shutdownGL`. There is one action per atomic operation or critical section:
`CheckDrained` (the load of `drained`), `Push` (the mutex of the queue),
`LoadReady` and `PostEmptyEvent` (the two halves of a wake-up), `QuitSwap` and
`QuitClose`, `Drain`, `RunFunc`, `Signal` (the hand-over on the unbuffered done
channel), the four looks at what there is to do, the native wait, and each step
of `shutdownGL`. Functions of the application (`UserCode`) may do any one of:
nothing, call `fyne.Do`, start or stop an animation, refresh, show, hide or close
a window, quit.

A window is visible or hidden, and on Wayland has a gate: drawing it arms a frame
callback (`awaited`) and shuts the gate (`gated`), and GLFW delivers the callback
some time after the compositor has presented the frame (`presented`). A resize or
the focus opens the gate with the callback still pending (`MarkReady`); closing the
window destroys the callback. The animation runner is what the loop sees of
`AnimationRunner`: whether any animations play, whether any wait to join them,
and `runnerStarted`, with the three critical sections of a frame.

Merged or left out: main's own wake-ups happen in the step that causes them,
since only main changes what they read; drawing is one step; the frame-rate
arithmetic is the flag `due`; a size that waits for its frame is part of the
dirty flag. Windows created while the loop runs are left out (one that is not
created yet behaves like one that is hidden), and so are tray hooks. Main meets
the waiter that made the call it serves; that the pool of done channels never
hands a channel to two waiters is not modelled. The empty event, the compositor,
input and the clock are external actions.

`MainExecutor` says what `fyne.Do` and `fyne.DoAndWait` promise, without
threads: a queue of calls, executed in order and at most once, with waiters
released only by their own call. `RunLoop` implements it with `queue` mapped to
the batch being run followed by the pending functions.

### AnimationRunner

The three lists hold numbers of instances (`anim` records). `Start` and `Stop`
are single steps, as they hold the mutex throughout; a frame is `TakeList`, one
`SkipStopped` or `CallTick`/`TickReturns` per animation, `EndFrame` and, in a
critical section of its own, `ClearStarted`. `CallTick` and `TickReturns` are
apart because the callback in between may start and stop animations. The clock
is a choice in `TickReturns`: before the end of a play, or past it. `NotOf` is
the loop with which `Stop` filters a list, as a recursive function over its
length. The lists are values: the re-use of the slices' memory, which no two lists share while
both are live, is left out. Any goroutine
may start and stop animations at any time. `late` is a history variable: the
animations started between the last frame of the runner and `ClearStarted`.

### UnboundedChan, FifoChannel

`processing` is followed case by case; `place` is the loop it is in. The
abstract channel is one sequence: what is in `out`, then the slice, then `in`.
The users keep to the contract of the life cycle queue: nothing is sent after
`Close`. Growing and shrinking the slice is left out. `UnboundedStructChan` is
not modelled; only its tests use it.

### RefreshQueue

`Refresh` is the load of the deduplication map, the linking of the item, its
counting, the store into the map, and `SetDirty` (through `EnsureMain` when it
is not on main). A frame is `CheckDirtyAndClear`, the layout, which may refresh
too, then `Len`, `Out`, its counter, `Delete` and the freeing of each object,
the clearing of the map, and the painting, which makes the missing textures.
`look` counts the changes of an object and `texture` is the one its texture
shows. `late` is a history variable: the objects whose entry was stored
when the queue no longer held them. The lock-free queue is a sequence; the plan
has the module that justifies it.

### WaylandWindow

`win` is the `_GLFWwindow`, and each C function is an operator from a window to
a window, so that a handler is the composition of the calls it makes
(`SetWindowedSize`, `AcquireMonitor`, `UpdateWindowShadow`, `BareCommit`). The
requests it sends and the events it gets are queues. The compositor (`srv`)
serves one request at a time; `kind` says which decoration manager it has,
whether the window is resizable, and whether a request is answered at once or
its configure put off and merged with others. A size is one number. `width` is
what is staged, `buffer` what the attached content was drawn for, `latched` what
the last commit made of it; `asked` and `late` are history variables for the
size that has to win. `asked` is 0 while there is none: after a configure of the
compositor's own, after the application asked for maximizing or restoring, and
after a size asked for with answers to earlier requests still on their way and
no exit to wait for, or with maximizing or restoring asked for while one is
waited for. `late` says that the exit had been applied already.

Merged or left out: libdecor, which Refyne disables (`loop_desktop.go:48`);
iconifying on loss of focus, which the driver switches off; `xdg_toplevel` and
`xdg_surface` configures arrive as one event; painting is one step, for nothing
is dispatched between making current and swapping; the application does nothing
during the roundtrip of `Show`; a viewport is always attached.

### WaylandOutputs

`bound`, `monitors`, `scale` and per window `monitor`, `currentOutput`, `factor`
and `bufferScale` are the client's; `wanted` is the driver's idea of fullscreen,
kept in `window.fullScreen` and its neighbours. The compositor plugs an output
(a *global*), is asked to bind it, sends its scale and *done*, and may remove it
at any time, also before it was bound or done; windows enter and leave outputs
meanwhile. `Dispatch` handles one event with all it calls, down to the driver's
monitor callback. Every plug makes a new `wl_output`. The order of the monitor
list is left out: the secondary monitor is any one of it. Fractional scales and
video modes are left out.

### WaylandPointer

`seat` has what outlives an event: `pointerSurface`, `pointerFocus`, the edge
focused per window, the last cursor and the last enter; `pending` what is
staged until the frame. Surfaces are a window's content and its edges, which are
either fallback decorations or, for `Shadowed` windows, slices of the shadow,
that can be hidden as well as destroyed. Every event is a step of its own, as a
read may end within a frame and the program, which destroys windows and edges,
goes on in between. An event about a destroyed surface arrives without it.
Versions of the protocol without frames (`framed`) handle an event at once. The
compositor moves the pointer, resizes a window interactively when asked, and may
withdraw the pointer. Cursor modes other than normal, cursor images and
scrolling are left out. `Polite` says that the compositor sends a leave before
it withdraws the pointer.

### WaylandEvents

`pc` is where main is in `handleEvents`: `PrepareRead` is the loop around
`wl_display_prepare_read`, with the dispatching of what others have read; then
`Flush`, `Poll` (or `TimeOut`), `Read`, `Dispatch` and `Repeat`, after which it
returns or begins again. `SwapBuffers` stands for whatever the EGL library reads
while the program draws. `Post` and `PostFlush` are the two halves of
`glfwPostEmptyEvent` on another thread; `out` is what has not been flushed,
`wire` a connection that holds `Capacity` requests. The handlers of the keyboard
are functions of `seat`, and a dispatch, which handles a whole queue, is the
recursive function `Handled` over the events in it. The timer expires by
itself: between the poll and the read a handler may have stopped or set it again, and then the read finds nothing.
`Lose` ends the connection, with an error message (`told`) or without. Of
libwayland the model uses three facts: `prepare_read` fails exactly when the
queue is not empty; errors of the display are dispatched first; once it has an
error it dispatches nothing.

## 4. Runs

| Run | Instance | What it shows |
|---|---|---|
| `runloop_calls` | two workers, the pump, main; quitting at any time | nobody waiting is released early, `EventsFlushed`, no sleep on queued work, the refinement of `MainExecutor`; each call is served, and quitting ends the loop |
| `runloop_live` | a worker, a Wayland master window; animation, refreshes, showing, hiding, resizing, closing | types, no sleep through work; shown dirty windows are drawn, animations ticked |
| `runloop_stopped` | violation | the *stopped* hook is discarded by the shutdown that queued it |
| `runloop_close` | violation | a master window that main closes after its last look at the windows stays, and nothing quits |
| `animation_play` | three animations (once; to and fro, twice; for ever), three starts and any stops by anyone at any time | each is played in full, and a runner that stops leaves only late ones behind |
| `unbounded_chan` | two senders of four values, buffers of two | the FIFO and its end |
| `refresh_queue` | a goroutine and main, two objects, two refreshes each | a drain never ends early; only late entries omit a refresh, and none stays |
| `wayland_window` | three kinds of compositor, two sizes, five calls, one configure of its own | sizes belong to their buffers, are told, and the timely one wins; requests take effect; nothing stays outstanding |
| `wayland_restore` | violation, four calls | a size asked for between the exit's configure and its sync is lost |
| `wayland_outputs` | a window, three outputs, two scales, three calls, two moves | no window refers to an output that is gone; scales and fullscreen follow the outputs |
| `wayland_pointer` | two windows, one edge each (one fallback, one shadow), four moves, three calls | no destroyed surface is read; hover, cursor and resizing are true at rest |
| `wayland_events` | two windows, a key that repeats and one that does not, a posting thread, two calls, three acts of the compositor | main wakes, keys do not stick, and only held keys repeat |

Bounds, and why they are enough. Two workers and the pump are the smallest
number at which a push can fall between another's push and its wake-up while a
third party holds main's attention; main's own calls put functions into the queue
while a batch is being run, so that the queue holds those of several. One master window
can be dirty, hidden, gated, presented and closing, alone and together; two
operations of main hide it and show it again, and two of the worker start and
stop an animation, or refresh a window twice. `MayQuit`, `MayCall` and
`MayAnimate` divide the application's operations between the two runs: calls and
quitting meet in the first, animations and windows in the second, where closing
the master leads to the shutdown. A worker with both kinds, one window and one
operation of each party was checked too, for `TypeOK` and `NoLostWakeup` (3.9
million states), and the theorems cover them together. Three starts give an
animation list, a pending list and a survivor at once, and the three animations differ in every branch of
`tickAnimation`. Buffers of two with four values fill `out`, leave values in the
slice and in `in`, and block a sender. Two refreshes of a goroutine allow one
to be in `In` while a whole frame passes, and the next to meet what it left.
Five calls show a window, take it through fullscreen and back, resize it and
hide it; for the size asked for, six calls with a configure of the compositor's
own and seven without were checked too, apart from the check of the project for
their time; three outputs leave a spare when one goes while another is not done
yet. Four moves of the pointer are an enter, an edge, another window, and a loss
of the seat; five moves were checked too (4.5 million states). Three acts are a
focus, a press, and a focus elsewhere, a release or the end of the connection;
two calls of `handleEvents` let one begin with what drawing has read; four acts
were checked too, apart from the check of the project for their time.

Unbounded counters stop at `MaxCalls`, `MaxMainCalls`, `MaxStarts`, `MaxSends`,
`MaxRefreshes`, `MaxPosts`, `MaxOwn`, `MaxMoves` and `MaxActs`, which appear in
guards of the actions of users and of the compositor only.

`CHECK_DEADLOCK FALSE` stands where a behaviour may end: the application has
exited, the users have made all their calls, the channel has been closed, the
compositor has done all it may.

Fairness. Main is scheduled (`MainStep`, `Frame`, `Processing`, `HandleEvents`
are weakly fair), and so is a goroutine inside an operation of the toolkit. Nothing
makes a user begin an operation, an input come or a window close. The
compositor presents a window that is *shown* when it has a frame callback to
answer, and time passes; without these two a gated window is rightly not drawn.
Of a hidden window it presents nothing for certain. `ClosingEnds` and `SentIsReceived`
take the receiver's fairness as their premise. `MainWakes` assumes that the
compositor reads requests and answers a sync, as the protocol demands, and that
a thread within a post goes on; a timeout is not assumed to come.
`WaylandWindow` has no fairness: `NothingOutstanding` and `IntentReached` speak
of the states in which neither side has anything left to do, and say that
nothing is waited for there.

### Disagreements found

Two of the runs show what `Close` and `OnStopped` promise and the loop does not
keep, one what the patches promise; the other five are stated in the modules as
properties (in brackets) that no run checks, for TLC refutes each when it is
added to a run of its module.

* *Stopped event* (`runloop_stopped`). `OnStopped` is queued before `drained` is
  set. The pump may push its hook in between, and `finishQueuedFunc` releases
  the pump without having called it. The preferences are saved in that hook.
* *Closed window* (`runloop_close`). `Close` sets flags, and only
  `processWindowEvents` destroys. After the last tick of an animation, in
  `OnStarted`, or in a function drained at the top of the loop, none follows
  before the wait without a timeout, because closing windows do not count as
  work: the window stays until a native event comes.
* *Lost size* (`wayland_restore`). `VENDORING.md:13` promises that a resize after
  leaving fullscreen is not overridden. Between the configure that applies the
  exit and the answer to the exit's sync, the resize only replaces the size to
  restore, and the answer clears it. The same happens to a
  resize while the exit is waited for, if restoring (or maximizing) was asked for
  just before it: the answer to the exit finds a window that does not float yet,
  and the sync ends the wait before the next answer could apply the size. Of all
  other sizes asked for during an exit `TimelySizeAlwaysWins` proves that they win.
* *Late calls* [`CallersStopWaiting`]. `shutdownGL` sets `drained`, drains until
  the queue is empty and returns. A goroutine that loaded `drained` before may
  push afterwards; if it waits, it waits for ever. When it is the pump, with the
  *stopped* event, main waits for ever too, in `WaitForEvents`. `TooLate` excuses
  such a call in `CallsServed`.
* *Late wake-up* [`NoPostAfterTerminate`]. `wakeEventLoop` loads
  `eventLoopReady`, then posts to a GLFW that may have been terminated.
* *Stop after restart* [`StopEndsAnimation`]. `Stop` returns when it has removed
  a current instance; one that was stopped during its own tick is still among
  the current ones.
* *Start at the end* [`StartInitiatesTicking`]. `runnerStarted` is cleared in
  another critical section than the one that found the lists empty
  (`runner.go:134`). An animation that another goroutine starts between the two
  waits to join a runner that has stopped, while `Running` keeps the loop drawing
  frames, until some other animation starts. `OnlyLateStranded` says that none
  but these is left behind; `Stranded` excuses them in `AnimationsTicked`.
* *Omitted refresh* [`NoneOmitted`]. `dedup.Store` follows `queue.In`. Stored
  before it, the entry could not outlive the item.

Three weaknesses appear as exceptions in properties that hold otherwise. After
an error of the connection with events left in the queue, `handleEvents` turns
for ever in its first loop and the windows are never asked to close (`Hangs` in
`MainWakes`); upstream GLFW has the same loop. A window destroyed with the
pointer on one of its edges drops the staged enter of another window and keeps
the name of the cursor (`torn`). A compositor that withdraws the pointer without
a leave leaves a window hovered (`Polite`).

## 5. Proofs

Each theorem is about `Spec` for all values of the constants: any number of
goroutines, calls, windows, outputs, keys, sizes. The bounds of the runs are
constants too, so a behaviour of any length is one of some instance.

| Theorem | Says | Argument |
|---|---|---|
| `RunLoopProofs!TypeCorrect` | `[]TypeOK` | `LoopInv`: types, a batch that is not empty where its head is used (`BatchOK`), and the flags by place (`FlagsOK`) |
| `RunLoopProofs!NoSleepThroughWork` | `[]NoLostWakeup` | `WakeInv`, on top of `LoopInv` |
| `RunLoopProofs!LoopIsExecutor` | `ImplementsExecutor` | `ExecInv`; each step of the loop is a step of `MainExecutor` or none |
| `RunLoopProofs!WaitersMeetTheirCall`, `StoppedIsFlushed` | `WaiterReleasedByItsCall`, `[]EventsFlushed` | `ExecInv` |
| `AnimationProofs!OnlyLateStartsStrand` | `[]OnlyLateStranded` | `RunnerInv` |
| `AnimationProofs!AnimationsPlayInFull` | `[]PlayedInFull` | `FullInv` |
| `UnboundedChanProofs!ChannelIsFifo` | `ImplementsFifo` | `ChanInv`, and facts about moving heads between sequences |
| `RefreshProofs!TypeCorrect` | `[]TypeOK` | `RefreshInv` |
| `RefreshProofs!PopFindsAnItem` | `[]DrainedToTheEnd` | `CountInv` and `PlaceInv` |
| `RefreshProofs!OnlyLateAreOmitted` | `[]OnlyLateOmitted` | `RefreshInv`, all of it |
| `WaylandWindowProofs!WindowTypes`, `BufferAlwaysMatches`, `SizeAlwaysTold`, `ScanoutAlwaysSafe` | `[]TypeOK`, `[]BufferMatches`, `[]ToldSize`, `[]ScanoutSafe` | `WindowInv` |
| `WaylandWindowProofs!IntentAlwaysReached`, `NothingStaysOutstanding` | `[]IntentReached`, `[]NothingOutstanding` | `WindowInv`, whose part `Answered` is for these |
| `WaylandWindowProofs!TimelySizeAlwaysWins` | `[]TimelySizeWins` | `SizeInv`, on top of `WindowInv` |
| `WaylandOutputsProofs!OutputsTypeCorrect`, `NoMonitorDangles`, `RecordedOnItsOutput` | `[]TypeOK`, `[]NoneDangling`, `[]RecordedWhereShown` | `OutputsInv` |
| `WaylandOutputsProofs!FullscreenFollowsOutputs` | `FullscreenFollows` | from `OutputsInv`, with `AskedFor` |
| `WaylandOutputsProofs!OutputsAlwaysAgree` | `[]OutputsAgree` | `AgreeInv`, on top of `OutputsInv` |
| `WaylandPointerProofs!PointerTypeCorrect`, `NoPointerDangles` | `[]TypeOK`, `[]NoDangling` | `PointerInv` |
| `WaylandPointerProofs!HoveredIsUnderPointer`, `EntersAreHeeded`, `CursorIsCurrent`, `EnterEndsResize` | if `Polite`: `[]HoveredIsTrue`, `[]EnterHeeded`, `[]CursorFollows`, `[]ResizeEnds` | `TrackInv`, on top of `PointerInv` |
| `WaylandEventsProofs!EventsTypeCorrect`, `OnlyHeldRepeats`, `NoKeySticks` | `[]TypeOK`, `[]RepeatIsHeld`, `[]NoStuckKeys` | `EventsInv` |

`NoLostWakeup` is not inductive: it speaks of the state in which main sleeps,
and is decided long before. `WakeInv` says for each kind of work from which
place on it must be announced: queued functions once main has drained, quitting
once main has looked at `done`, frames only at the wait itself, since main looks
at them last. *Announced* means an event is posted or some goroutine
is inside its wake-up. That a goroutine inside its wake-up does post needs
`ready`, which `FlagsOK` ties to the loop; that a push finding the queue not
empty need not wake follows since the one that made it so has, or is about to.

The refinement of `MainExecutor` rests on calls being told apart. A call is new
until it is pushed or run (`NewInv`: callers number theirs), in line at most once
and out of it once executed or dropped (`LineInv`), and a call with a waiter that
is in line or in main's hands is the one its maker waits for (`WaitInv`). What a call can be dropped for is `QuitInv`: nothing is drained by
the shutdown, and no goroutine runs its call itself, before the application
quits. The life cycle makes calls too. `PumpInv` follows the *stopped* and the
*flush* event from their queue through the pump, and shows that the second
never gets into the function queue that main has stopped to serve.

`RunnerInv` says that a runner that is not started, or is about to stop, plays no
animations and has none waiting to join but late ones. It is kept by every
`Start`, also by one of another goroutine between `EndFrame` and `ClearStarted`:
that is where an animation becomes late. So the theorem holds for any number of
goroutines, and names the one gap that the two critical sections leave.

In `FullInv`, which holds for all goroutines too, an
animation that is not stopped waits in exactly one of the lists, which no
animation is in twice (`OnceInv`), or has been played to its end; one that waits
has ended as often as its counters say (`PlayInv`). The lists change hands
between the two critical sections of a frame, and `Stop` filters them meanwhile:
that `NotOf` leaves out one animation and keeps the rest, each once, is proved by
induction over the length of the list.

The refinement of the channel needs only that the goroutine has emptied `in`
and the slice when it announces the end. Each of its steps moves one value along
`out \o q \o in`, which leaves the whole as it was.

`OnlyLateOmitted` speaks of the state in which all is drawn, where it has long
been decided, so `RefreshInv` follows a stale object from its change on: a
thread is about to link it, or it is queued, or in main's hands, or without a
texture (`StaleInv`). A refresh that finds an entry in the map and returns
relies on that entry standing for an object still to be freed or painted, which
is true of each one that was not late (`DedupInv`). That the queue will be
drained (`DrainInv`) rests on the count: `CountInv` says that what is linked is
counted, but for the threads between the two, so a drain that reads zero with an
item in the queue leaves a thread that has yet to mark the canvas dirty; and a
drain that reads more than zero finds an item to pop. `TextureInv` says that no
texture is missing outside a frame.

`WindowInv` has a part for each side of the wire and one for what is between.
`Good` is about the window alone: what is staged, attached and latched fit
together, a window without a role shows nothing, and the shadow of one that is
shown is as it should be. `SentOK` is about the window and the compositor: what
the compositor knows of the role, of fullscreen and of the shadow is what the
window wants, or a request that says so is the last of its kind in the queue
(`Ends`); requests that need a role come while there is one, and a role is
destroyed before the shadow. `Answered` is the same for the other queue: what the window
waits for is on its way, asked for, owed or sent. Each C function has a lemma
that says which fields it changes (`Only`), what it adds to the queue, and that
it leaves a good window; a handler's proof composes them as the handler
composes the functions.

`TimelySizeWins` is about the size at the end, whereas the size asked for is lost
or kept when the answers to *earlier* requests arrive. `SizeInv` says which
answers are left to come. Either only a new role is still to be answered, whose
first configure leaves the size as it is, and the window has the size
(`Right`); or a size waits to be restored, and the last answer that
will come is the one to the exit, ahead of the answer to its sync (`Exiting`).
Requests whose role has been destroyed behind them are not answered to this
window (`Live`, `AllDead`); that a new role is not confused with an old one
needs roles and syncs to be numbered by the calls that made them (`Numbered`).
The proof showed that the history variable `asked` had been too generous: with
six calls there is a second way to lose a size (see *Lost size*), which the run
with five does not reach.

`OutputsInv` adds to its theorems that queued events are about outputs and
windows, and `AskedFor`: a window with a monitor was asked to be fullscreen, and
one placed by the compositor has a monitor. The removal of an output is the step
that matters. It takes the output from every window, moves those that were
fullscreen on it to what is left, and lets the driver compare; each of these is a
lemma about the factors of one window (`LeftEntered`, `ReconciledStays`).

`AgreeInv` says for each window and output what the queue will make of the
factor: its last enter or leave says where the window is, or there is none and the
factor says so already (`Agrees`). An enter is heeded only for an output that is
bound and done, which needs the `Stages` of an output: announced, bound, done,
removed, each once. `ScaleTrue` has the buffer's scale as the largest factor; that
there is a largest one, among any number of outputs, is by induction over a bound
of the factors.

`NoDangling` needs to know where references come from. `PointerInv` says that
the seat is *good*: all it refers to is alive, belongs to an open window, and an
edge with the focus is one of its own window. The same holds of what is staged.
Events in the queue refer to living surfaces or none, since destroying a surface
empties its events. `Housed` ties surfaces to windows: an alive surface has an
open window, and the content of an open window is alive. Each handler maps a
good seat to a good one (`EnteredIsGood`, `LeftIsGood`, `MovedIsGood`), and the
destruction of surfaces, after `invalidatePointerSurface`, leaves a seat that is
good without them (`WithoutEdges`).

What the pointer promises at rest is decided by what is on its way. `TrackInv`
says that enters and leaves alternate in the queue, from the surface that the
client takes the pointer to be on to the one that it is on (`Tracked`), which must
take what is staged for the next frame into account; that the surface under the
pointer is reached by them (`Reached`); that a frame comes after what it ends
(`FramesCome`), and a withdrawn pointer after its leave (`CapsInv`). What hovers,
resizes and shows which cursor follows from the surface that the client knows
(`ClientInv`). `Polite` is a hypothesis of these four theorems: a compositor that
withdraws the pointer without a leave does leave a window hovered, and the runs
are of a polite one.

`EventsInv` says how far the seat is behind the compositor (`Behind`): if the
client's focus is not the compositor's, or it has a key pressed that is not down,
then the leave or the release that ends this is in the queue or in the socket; and
no enter is handled before the leave that precedes it. A dispatch handles a whole queue at once, so its proof is an
induction over `Handled`.

Induction. The induction theorems of the library take an operator as a
parameter, which the installed provers cannot instantiate; induction for a *set*
of numbers, from the fact that `<` is well founded, they can use (`SetInduction`,
`LeastNumber`). So recursive functions over the length of a sequence are within
reach, and `NotOf`, `Handled` and the largest scale are proved about that way.

The assumptions are those named in the modules: disjoint threads, bounds that
are naturals, a capacity above zero, finitely many goroutines that refresh, sizes
above zero. The invariants of the proofs hold in TLC on the instances above.

Only model-checked is all liveness: `CallsServed`, `AnimationsTicked`,
`DirtyDrawn`, `QuitEndsLoop`, `ClosingEnds`, `SentIsReceived`, `EntriesGo` and
`MainWakes`. They rest on fairness and on ENABLED, which the prover does not
reach. The violation runs are counterexamples, and need no proof.

## 6. Not modelled

See `components` in `PROJECT.json` for each part and its reason. In short:
drawing, geometry, widgets and storage have no protocol of their own; of the
vendored GLFW the platforms that Refyne uses unchanged (X11, Windows, macOS), its
generated protocol code and its headers are left alone, which is most of the C
code of the repository, and of the Wayland backend the clipboard, drag and drop,
pointer locks, cursor images, key maps and text input; the scheduler, the mobile
driver, preferences, the object queue and the double tap have one and are next.

Weaknesses met while reading, outside of what the models cover: fallback edges
are created although they exist when a window that left fullscreen while hidden
is shown again (`wl_window.c:240`); shadow slices hidden and shown again before
the commit of their parent keep the pointer, which the client has dropped
(`wl_refyne.c:136`); fullscreen asked for without a monitor stays in the
driver's flags until the next disconnect (`wl_refyne.c:45`); an output that goes
before its first *done* is never freed (`wl_init.c:242`); `Schedule` before
`Start` saves over the entries of an earlier run (`scheduler.go:113`); a failure
to remove the scheduler's file is ignored (`scheduler.go:190`); on mobile,
`queuedFuncs` is compared with nil and then sent to while it is closed
(`mobile/driver.go:79`).
