--------------------------- MODULE WaylandWindow ---------------------------
(***************************************************************************)
(* A toplevel window of the Wayland backend (wl_window.c, wl_refyne.c and  *)
(* egl_context.c of the patched GLFW): its shell role, its size, leaving   *)
(* and entering fullscreen, the decorations and the shadow, and the        *)
(* commits of its surface.                                                 *)
(*                                                                         *)
(* Requests and events are two queues, as on the wire.  The window is a    *)
(* record, and each C function is an operator from a window to a window,   *)
(* so that a handler is the composition of the calls it makes.  A size is  *)
(* one number; 0 is "none" or "as you like".                               *)
(***************************************************************************)
EXTENDS Naturals, Sequences

CONSTANTS
    Sizes,          \* the windowed sizes the application asks for
    CreateSize,     \* the size the window is created with
    FullSize,       \* the size of a fullscreen window
    MaxSize,        \* the size of a maximized window
    Border,         \* what the fallback decorations add to a size
    Kinds,          \* the decoration manager ("none", "client" or "server"), whether
                    \* the window resizes, and whether the compositor answers each
                    \* request at once or may put off its configures
    MaxCalls,       \* bound: calls of the application
    MaxOwn          \* bound: configures nobody asked for

ASSUME SizeAssumption ==
    /\ Sizes \subseteq Nat \ {0} /\ CreateSize \in Sizes
    /\ FullSize \in Nat \ {0} /\ MaxSize \in Nat \ {0} /\ Border \in Nat
    /\ Kinds \subseteq [manager : {"none", "client", "server"}, resizable : BOOLEAN,
                         prompt : BOOLEAN]
    /\ MaxCalls \in Nat /\ MaxOwn \in Nat

VARIABLES
    win,            \* the _GLFWwindow, with the requests it has sent
    events,         \* events on their way to the client
    srv,            \* what the compositor knows of the window
    kind,           \* one of Kinds, which never changes
    calls, own,     \* the counters that the bounds are for
    asked, late     \* history: the windowed size that must win, or 0, and whether
                    \* the sync of an exit may end the wait for it too early

vars == <<win, events, srv, kind, calls, own, asked, late>>

Larger(a, b) == IF a > b THEN a ELSE b
Less(a, b) == IF a > b THEN a - b ELSE 0

(***************************************************************************)
(* The window.  width is the size the client has staged, buffer the size   *)
(* of the attached content (0: none) and latched the staged size of the    *)
(* last commit; eglWidth is the size of the wl_egl_window.                 *)
(***************************************************************************)
NewWindow(size) ==
    [role |-> 0, monitor |-> FALSE, width |-> size,
     fullscreen |-> FALSE, maximized |-> FALSE,
     pending |-> [full |-> FALSE, max |-> FALSE, width |-> size],
     restore |-> 0, sync |-> 0, visible |-> FALSE,
     sizeCommitPending |-> FALSE, eglWidth |-> size, resizePending |-> FALSE,
     buffer |-> 0, latched |-> size, limits |-> 0,
     decorated |-> TRUE, mode |-> "unset", fallback |-> FALSE,
     requested |-> FALSE, shadow |-> FALSE,
     told |-> size, dirty |-> FALSE, blocked |-> FALSE, sent |-> <<>>]

Init ==
    /\ win = NewWindow(CreateSize)
    /\ events = <<>>
    /\ srv = [role |-> 0, full |-> FALSE, max |-> FALSE, float |-> 0, rect |-> 0,
              limit |-> 0, shadow |-> FALSE, owes |-> FALSE, torn |-> FALSE]
    /\ kind \in Kinds
    /\ calls = 0 /\ own = 0 /\ asked = 0 /\ late = FALSE

Send(w, request) == [w EXCEPT !.sent = Append(@, request)]

\* wl_surface_commit: everything staged is latched against the attached buffer.
Commit(w) ==
    Send([w EXCEPT !.latched = w.width],
         [op |-> "commit", shadow |-> w.shadow, limit |-> w.limits, mapped |-> w.buffer # 0,
          outer |-> w.width + (IF w.fallback /\ ~w.requested THEN Border ELSE 0)])

\* Mutant: also while a resize waits for its buffer.
BareCommit_always(w) == Commit(w)
BareCommit(w) == IF w.sizeCommitPending THEN w ELSE Commit(w)

CreateFallbackDecorations(w) == [w EXCEPT !.fallback = TRUE]
DestroyFallbackDecorations(w) == [w EXCEPT !.fallback = FALSE]

CreateRefyneWindowShadow(w) == [w EXCEPT !.shadow = TRUE]
HideRefyneShadowSurfaces(w) == [w EXCEPT !.shadow = FALSE]

\* _glfwRefyneUpdateWindowShadow, and the value it returns.
UpdateWindowShadow(w) ==
    IF ~w.requested \/ w.maximized \/ w.fullscreen THEN HideRefyneShadowSurfaces(w)
    ELSE IF w.role # 0 THEN CreateRefyneWindowShadow(w)
    ELSE w
ShadowChanges(w) ==
    IF ~w.requested \/ w.maximized \/ w.fullscreen THEN w.shadow
    ELSE w.shadow \/ w.role # 0

ResizeFramebuffer(w) ==
    [w EXCEPT !.resizePending = TRUE, !.sizeCommitPending = TRUE, !.dirty = TRUE]

\* Mutant: a size of zero is not raised to one.
ResizeWindow_any(w, size) ==
    IF size = w.width THEN w
    ELSE UpdateWindowShadow(ResizeFramebuffer([w EXCEPT !.width = size]))
ResizeWindow(w, size) ==
    IF Larger(size, 1) = w.width THEN w
    ELSE UpdateWindowShadow(ResizeFramebuffer([w EXCEPT !.width = Larger(size, 1)]))

Damage(w) == [w EXCEPT !.dirty = TRUE]
TellSize(w) == [w EXCEPT !.told = w.width]

\* A resizable window has no limits here; another pins them to its size.
UpdateXdgSizeLimits(w) ==
    [w EXCEPT !.limits = IF kind.resizable THEN 0 ELSE w.width]
----------------------------------------------------------------------------
(* Entering and leaving fullscreen. *)
\* Mutant: the fallback decorations stay.
AcquireMonitor_decorated(w) == IF w.role = 0 THEN w ELSE Send(w, [op |-> "full"])
AcquireMonitor(w) ==
    LET x == IF w.role = 0 THEN w ELSE Send(w, [op |-> "full"])
    IN  IF x.fallback THEN DestroyFallbackDecorations(x) ELSE x

ReleaseMonitor(w) ==
    LET x == IF w.role = 0 THEN w ELSE Send(w, [op |-> "unfull"])
    IN  IF x.mode # "server" /\ x.decorated THEN CreateFallbackDecorations(x) ELSE x

\* While an exit is pending its configure will resize; a hidden window gets none.
SetWindowSize(w, size) ==
    LET replaced == IF w.restore > 0 THEN [w EXCEPT !.restore = size] ELSE w
        waits    == w.restore > 0 /\ w.role # 0
        resized  == ResizeWindow(replaced, size)
        limited  == IF ~kind.resizable /\ resized.role # 0
                    THEN UpdateXdgSizeLimits(resized) ELSE resized
    IN  CASE w.monitor -> w
          [] ~w.monitor /\ (waits \/ resized.width = w.width) -> replaced
          [] OTHER -> IF limited.visible THEN Damage(limited) ELSE limited

\* Without a role no configure will report the size.
\* Mutant: nobody is told of the size of a hidden window.
SetWindowedSize_silent(w, size) == SetWindowSize(w, size)
SetWindowedSize(w, size) ==
    LET x == SetWindowSize(w, size)
    IN  IF x.role = 0 /\ x.width # w.width THEN TellSize(x) ELSE x

\* glfwSetWindowMonitor(NULL); id names the sync request.
LeaveFullscreen(w, size, id) ==
    LET x == [ReleaseMonitor(w) EXCEPT !.monitor = FALSE]
    IN  IF ~w.monitor
        THEN IF w.restore > 0 THEN [w EXCEPT !.restore = size] ELSE SetWindowedSize(w, size)
        ELSE IF x.role = 0 THEN SetWindowedSize(x, size)
        ELSE Send([x EXCEPT !.restore = size, !.sync = id], [op |-> "sync", id |-> id])

\* glfwRefyneFullScreenOnCurrentOutput; the output is WaylandOutputs' business.
EnterFullscreen(w) ==
    IF w.monitor THEN w ELSE AcquireMonitor([w EXCEPT !.monitor = TRUE])
----------------------------------------------------------------------------
(* The shell role. *)
CreateXdgShellObjects(w, id) ==
    LET role == Send([w EXCEPT !.role = id],
                     [op |-> "role", id |-> id, full |-> w.monitor,
                      max |-> w.maximized /\ ~w.monitor, ssd |-> w.decorated])
        deco == IF kind.manager = "none" /\ w.decorated /\ ~w.monitor
                THEN CreateFallbackDecorations(role) ELSE role
    IN  [Send(Commit(UpdateXdgSizeLimits(deco)), [op |-> "roundtrip"])
            EXCEPT !.blocked = TRUE]

\* Mutant: the subsurfaces go first.
DestroyShellObjects_shadowFirst(w) ==
    LET x == Send(Send(w, [op |-> "destroyShadow"]), [op |-> "destroyRole"])
    IN  DestroyFallbackDecorations(
            [x EXCEPT !.role = 0, !.mode = "unset", !.shadow = FALSE, !.requested = FALSE])

\* The role goes first, the subsurfaces after it.
DestroyShellObjects(w) ==
    LET x == Send(Send(w, [op |-> "destroyRole"]), [op |-> "destroyShadow"])
    IN  DestroyFallbackDecorations(
            [x EXCEPT !.role = 0, !.mode = "unset", !.shadow = FALSE, !.requested = FALSE])

HideWindow(w) ==
    IF ~w.visible THEN w
    ELSE Commit([DestroyShellObjects([w EXCEPT !.visible = FALSE]) EXCEPT !.buffer = 0])

SetWindowDecorated(w, enabled) ==
    LET x == [w EXCEPT !.decorated = enabled]
    IN  IF w.monitor \/ w.role = 0 THEN x
        ELSE IF kind.manager # "none" THEN Send(x, [op |-> "mode", ssd |-> enabled])
        ELSE BareCommit(IF enabled THEN CreateFallbackDecorations(x)
                        ELSE DestroyFallbackDecorations(x))

SetWindowShadow(w) ==
    LET x == [w EXCEPT !.requested = TRUE]
    IN  IF ShadowChanges(x) THEN BareCommit(UpdateWindowShadow(x)) ELSE UpdateWindowShadow(x)

MaximizeWindow(w) ==
    IF w.monitor THEN w
    ELSE IF w.role # 0 THEN Send(w, [op |-> "max"]) ELSE [w EXCEPT !.maximized = TRUE]

RestoreWindow(w) ==
    IF w.monitor \/ ~w.maximized THEN w
    ELSE IF w.role # 0 THEN Send(w, [op |-> "unmax"]) ELSE [w EXCEPT !.maximized = FALSE]
----------------------------------------------------------------------------
(* Handlers of events. *)
XdgDecorationHandleConfigure(w, mode) ==
    LET x == [w EXCEPT !.mode = mode]
    IN  IF mode = "server" THEN DestroyFallbackDecorations(x)
        ELSE IF w.decorated /\ ~w.monitor THEN CreateFallbackDecorations(x) ELSE x

\* Mutant: what the compositor suggests wins.
PendingSize_suggested(w, e) ==
    CASE e.width > 0 -> IF w.fallback THEN Less(e.width, Border) ELSE e.width
      [] OTHER -> IF w.restore > 0 THEN w.restore ELSE w.width
PendingSize(w, e) ==
    CASE ~e.full /\ ~e.max /\ w.restore > 0 -> w.restore
      [] (e.full \/ e.max \/ w.restore = 0) /\ e.width > 0 ->
             IF w.fallback THEN Less(e.width, Border) ELSE e.width
      [] OTHER -> w.width

XdgToplevelHandleConfigure(w, e) ==
    [w EXCEPT !.pending = [full |-> e.full, max |-> e.max, width |-> PendingSize(w, e)]]

XdgSurfaceHandleConfigure(w) ==
    LET restoring == ~w.pending.full /\ ~w.pending.max /\ w.restore > 0
        applied == [w EXCEPT !.maximized = w.pending.max, !.fullscreen = w.pending.full,
                             !.restore = IF ~w.pending.full /\ w.sync = 0 THEN 0 ELSE @]
        sized   == ResizeWindow(applied, w.pending.width)
        limited == IF restoring /\ ~kind.resizable THEN UpdateXdgSizeLimits(sized) ELSE sized
        changed == UpdateWindowShadow(limited)
        told == IF sized.width # w.width
                THEN TellSize(IF w.visible THEN Damage(limited) ELSE limited)
                ELSE IF ShadowChanges(limited) THEN BareCommit(changed) ELSE changed
    IN  IF ~told.visible /\ (kind.manager = "none" \/ told.mode # "unset")
        THEN Damage([told EXCEPT !.visible = TRUE]) ELSE told

\* Waiting for the answer to the latest exit ends, if that has been applied.
RestoreSyncHandleDone(w) ==
    [w EXCEPT !.sync = 0, !.restore = IF w.fullscreen THEN @ ELSE 0]

\* Making the context current applies a pending resize, and the swap commits.
MakeContextCurrent(w) ==
    IF w.resizePending THEN [w EXCEPT !.eglWidth = w.width, !.resizePending = FALSE] ELSE w
\* Mutant: the staged size stays pending.
SwapBuffers_pending(w) == IF ~w.visible THEN w ELSE Commit([w EXCEPT !.buffer = w.eglWidth])
SwapBuffers(w) ==
    IF ~w.visible THEN w
    ELSE [Commit([w EXCEPT !.buffer = w.eglWidth]) EXCEPT !.sizeCommitPending = FALSE]
----------------------------------------------------------------------------
(***************************************************************************)
(* The application.  Nothing of it runs while a roundtrip is under way.    *)
(***************************************************************************)
Answers == {i \in DOMAIN events : events[i].type = "configure"}
Quiet == win.sent = <<>> /\ Answers = {} /\ ~srv.owes

\* The window is not fullscreen, but the sync of an exit is still on its way.
Applied == win.restore > 0 /\ ~win.monitor /\ ~win.fullscreen

\* Without an exit to wait for, an answer on its way may still bring another size,
\* and so may one behind the sync, once maximizing or restoring has been asked for.
Asks(s) ==
    /\ asked' = IF win.monitor \/ (win.restore > 0 /\ asked # 0) \/ Quiet THEN s ELSE 0
    /\ late' = Applied

Call(w) ==
    /\ calls < MaxCalls /\ ~win.blocked
    /\ calls' = calls + 1
    /\ win' = w
    /\ UNCHANGED <<events, srv, kind, own>>

Show == win.role = 0 /\ Call(CreateXdgShellObjects(win, calls + 1)) /\ UNCHANGED <<asked, late>>
Hide == win.visible /\ Call(HideWindow(win)) /\ late' = (late \/ Applied) /\ UNCHANGED asked
Enter == ~win.monitor /\ Call(EnterFullscreen(win)) /\ UNCHANGED <<asked, late>>
\* A caller knows the size it gives to a window that is not fullscreen.
Leave(s) ==
    /\ Call(LET x == LeaveFullscreen(win, s, calls + 1)
            IN  IF win.monitor THEN x ELSE TellSize(x))
    /\ Asks(s)
Resize(s) ==
    /\ ~win.monitor
    /\ Call(TellSize(SetWindowSize(win, s)))
    /\ Asks(s)
Decorate(b) == b # win.decorated /\ Call(SetWindowDecorated(win, b)) /\ UNCHANGED <<asked, late>>
Shadow == ~win.requested /\ ~win.decorated /\ Call(SetWindowShadow(win)) /\ UNCHANGED <<asked, late>>
Maximize == ~win.maximized /\ Call(MaximizeWindow(win)) /\ asked' = 0 /\ UNCHANGED late
Restore == win.maximized /\ Call(RestoreWindow(win)) /\ asked' = 0 /\ UNCHANGED late

\* repaintWindow: current, drawn and swapped, with no events in between.
Paint ==
    /\ win.dirty /\ ~win.blocked
    /\ win' = [SwapBuffers(MakeContextCurrent(win)) EXCEPT !.dirty = FALSE]
    /\ UNCHANGED <<events, srv, kind, calls, own, asked, late>>

\* An event of a proxy that has been destroyed is dropped.
Handle(w, e) ==
    CASE e.type = "configure" /\ e.role = w.role ->
             XdgSurfaceHandleConfigure(XdgToplevelHandleConfigure(w, e))
      [] e.type = "decoration" /\ e.role = w.role -> XdgDecorationHandleConfigure(w, e.mode)
      [] e.type = "done" /\ e.id = w.sync -> RestoreSyncHandleDone(w)
      [] e.type = "roundtrip" -> [w EXCEPT !.blocked = FALSE]
      [] OTHER -> w

Dispatch ==
    /\ events # <<>>
    /\ win' = Handle(win, Head(events))
    /\ events' = Tail(events)
    /\ asked' = IF Head(events).type = "configure" /\ Head(events).own THEN 0 ELSE asked
    /\ UNCHANGED <<srv, kind, calls, own, late>>
----------------------------------------------------------------------------
(***************************************************************************)
(* The compositor: external.  It handles requests in order.  It suggests   *)
(* to a floating window the size it had when it stopped floating, which is *)
(* the size of its last commit, windowed or not; what it suggests keeps to *)
(* the limits.                                                             *)
(***************************************************************************)
Suggestion(v) ==
    IF v.full THEN FullSize
    ELSE IF v.max THEN MaxSize
    ELSE IF v.float # 0 /\ v.limit # 0 THEN v.limit
    ELSE v.float
Configure(v, mine) ==
    [type |-> "configure", role |-> v.role, full |-> v.full, max |-> v.max,
     width |-> Suggestion(v), own |-> mine]
Decoration(v, ssd) ==
    [type |-> "decoration", role |-> v.role,
     mode |-> IF kind.manager = "server" /\ ssd THEN "server" ELSE "client"]

Floating(v) == ~v.full /\ ~v.max
Unfloat(v) == IF Floating(v) THEN [v EXCEPT !.float = v.rect] ELSE v

Received(v, r) ==
    CASE r.op = "role" -> [v EXCEPT !.role = r.id, !.full = r.full, !.max = r.max, !.float = 0,
                                    !.rect = 0, !.limit = 0]
      [] r.op = "full" -> [Unfloat(v) EXCEPT !.full = TRUE]
      [] r.op = "unfull" -> [v EXCEPT !.full = FALSE]
      [] r.op = "max" -> [Unfloat(v) EXCEPT !.max = TRUE]
      [] r.op = "unmax" -> [v EXCEPT !.max = FALSE]
      [] r.op = "commit" ->
             [v EXCEPT !.shadow = r.shadow, !.limit = r.limit,
                       !.rect = IF r.mapped THEN r.outer ELSE @,
                       !.float = IF r.mapped /\ Floating(v) THEN r.outer ELSE @]
      [] r.op = "destroyRole" -> [v EXCEPT !.role = 0, !.owes = FALSE]
      [] r.op = "destroyShadow" ->
             [v EXCEPT !.torn = @ \/ (v.role # 0 /\ v.full /\ v.shadow), !.shadow = FALSE]
      [] OTHER -> v

Serve ==
    /\ win.sent # <<>>
    /\ LET r == Head(win.sent)
           v == Received(srv, r)
           configures == r.op \in {"role", "full", "unfull", "max", "unmax"}
           deco == IF kind.manager # "none" /\ r.op \in {"role", "mode"}
                   THEN <<Decoration(v, r.ssd)>> ELSE <<>>
           reply == CASE r.op = "sync" -> <<[type |-> "done", id |-> r.id]>>
                      [] r.op = "roundtrip" -> <<[type |-> "roundtrip"]>>
                      [] OTHER -> <<>>
       IN  \/ /\ srv' = [v EXCEPT !.owes = @ /\ ~configures]
              /\ events' = events \o deco \o reply \o
                           (IF configures THEN <<Configure(v, FALSE)>> ELSE <<>>)
           \/ /\ ~kind.prompt /\ configures
              /\ srv' = [v EXCEPT !.owes = TRUE]
              /\ events' = events \o deco \o reply
    /\ win' = [win EXCEPT !.sent = Tail(@)]
    /\ UNCHANGED <<kind, calls, own, asked, late>>

SendOwed ==
    /\ srv.owes
    /\ events' = Append(events, Configure(srv, FALSE))
    /\ srv' = [srv EXCEPT !.owes = FALSE]
    /\ UNCHANGED <<win, kind, calls, own, asked, late>>

\* A change of focus, or the user drags an edge.
ConfigureUnasked ==
    /\ own < MaxOwn /\ srv.role # 0 /\ ~srv.owes /\ srv.rect # 0
    /\ \E s \in {srv.float} \cup Sizes :
           /\ s # srv.float => Floating(srv) /\ kind.resizable
           /\ srv' = [srv EXCEPT !.float = s]
           /\ events' = Append(events, Configure(srv', TRUE))
    /\ own' = own + 1
    /\ UNCHANGED <<win, kind, calls, asked, late>>
----------------------------------------------------------------------------
Next ==
    \/ Show \/ Hide \/ Enter \/ Shadow \/ Maximize \/ Restore
    \/ \E s \in Sizes : Leave(s) \/ Resize(s)
    \/ \E b \in BOOLEAN : Decorate(b)
    \/ Paint \/ Dispatch
    \/ Serve \/ SendOwed \/ ConfigureUnasked

Spec == Init /\ [][Next]_vars
----------------------------------------------------------------------------
TypeOK ==
    /\ win.role \in 0..MaxCalls /\ win.sync \in 0..MaxCalls
    /\ win.width \in Nat \ {0} /\ win.restore \in Sizes \cup {0}
    /\ win.eglWidth \in Nat \ {0} /\ win.buffer \in Nat /\ win.latched \in Nat \ {0}
    /\ srv.role \in 0..MaxCalls /\ srv.float \in Nat /\ srv.rect \in Nat
    /\ asked \in Sizes \cup {0}

Settled == Quiet /\ ~win.dirty /\ win.sync = 0 /\ win.role # 0 /\ win.visible

\* The size with which a buffer is presented is the size it was drawn for: no
\* commit latches a staged size against the buffer of another one.
BufferMatches == win.buffer # 0 => win.latched = win.buffer

\* Whatever changed the size, the application has been told of it.
ToldSize == win.told = win.width

\* Once a prompt compositor has answered everything, a floating window has the
\* size that was asked for last, in spite of stale suggestions for earlier
\* requests.
RequestedSizeWins ==
    /\ Settled /\ kind.prompt /\ asked # 0
    /\ ~win.fullscreen /\ ~win.maximized
    => win.width = asked

\* The same for a size that is asked for in time: before the exit is applied, or
\* after its sync, with no maximizing or restoring asked for in between.
TimelySizeWins == ~late => RequestedSizeWins

\* A mapped shadow is never destroyed under a fullscreen toplevel.
ScanoutSafe == ~srv.torn

\* Once all is answered, the window is what was asked for, with the
\* decorations that belong to it.
IntentReached ==
    Settled => /\ win.fullscreen = win.monitor
               /\ win.monitor => ~win.fallback
               /\ srv.shadow = (win.requested /\ ~win.fullscreen /\ ~win.maximized)

\* When the compositor has answered everything and the loop has painted, nothing
\* is waited for: no roundtrip, no sync, no first configure, no staged size, and
\* no size to restore but that of a window which is fullscreen again or hidden.
Idle == win.sent = <<>> /\ events = <<>> /\ ~srv.owes /\ ~win.dirty
NothingOutstanding ==
    Idle => /\ ~win.blocked /\ win.sync = 0
            /\ win.role # 0 => win.visible
            /\ win.visible => ~win.sizeCommitPending
            /\ win.restore # 0 => win.monitor \/ win.role = 0
============================================================================
