--------------------------- MODULE WaylandPointer ---------------------------
(***************************************************************************)
(* The pointer of a Wayland seat over windows with a content surface and   *)
(* resize edges: the handlers that stage the events of a frame, the        *)
(* surfaces that go while the seat refers to them (wl_window.c), and the   *)
(* shadow slices that are the edges of an undecorated window               *)
(* (wl_refyne.c).                                                          *)
(*                                                                         *)
(* An event is dispatched at a step of its own, because a read may end in  *)
(* the middle of a frame and the program goes on between two reads.  An    *)
(* event about a destroyed surface arrives with no surface (libwayland).   *)
(* Every window is resizable and its cursor mode is normal; scrolling      *)
(* changes nothing here.                                                   *)
(***************************************************************************)
EXTENDS Naturals, Sequences, SequencesExt

CONSTANTS
    Windows,
    Edges,      \* the edges of a window, each of which names a cursor
    Shadowed,   \* the windows whose edges are shadow slices, not fallback edges
    None,
    Polite,     \* the compositor sends a leave before the seat loses its pointer
    MaxMoves,   \* bound: what the compositor does
    MaxCalls    \* bound: what the program does

ASSUME PointerAssumption ==
    /\ Shadowed \subseteq Windows /\ Polite \in BOOLEAN
    /\ "content" \notin Edges /\ None \notin Windows \cup Edges
    /\ None \notin Windows \X (Edges \cup {"content"})
    /\ MaxMoves \in Nat /\ MaxCalls \in Nat

Surfaces == Windows \X (Edges \cup {"content"})
Owner(s) == s[1]
Content(w) == <<w, "content">>
EdgesOf(w) == {w} \X Edges

VARIABLES
    open, alive,    \* windows, and surfaces, that are not destroyed
    decorated,      \* windows whose edges are up
    resizing,       \* windows in an interactive resize, as far as they were told
    pointer,        \* there is a wl_pointer
    seat,           \* pointerSurface, pointerFocus, pointerEnterSerial,
                    \* cursorPreviousName, and of the windows: hovered and the
                    \* edge that has the focus; with the last cursor asked for
    pending,        \* the staged events, and the staged surface
    framed,         \* the wl_pointer has frames (version 5)
    caps,           \* the compositor: the seat has a pointer
    listening,      \* there is a wl_pointer to send to
    at, entered,    \* the surface under the pointer, and the enters so far
    grab,           \* the window that is resized interactively
    asked,          \* a request to resize a window, on its way
    events,         \* on their way to the client
    torn,           \* history: a window was destroyed with the pointer on an edge
    moves, calls    \* the counters that the bounds are for

surfaces == <<open, alive, decorated>>
client == <<surfaces, resizing, pointer, seat, pending>>
compositor == <<caps, listening, at, entered, grab>>
vars == <<client, framed, compositor, asked, events, torn, moves, calls>>

Nothing == [events |-> {}, surface |-> None]

Init ==
    /\ open = Windows /\ decorated = Windows
    /\ alive = Surfaces
    /\ resizing = {}
    /\ pointer = TRUE /\ caps = TRUE /\ listening = TRUE
    /\ seat = [pointerSurface |-> None, pointerFocus |-> None, hovered |-> {},
               focus |-> [w \in Windows |-> None], pointerEnterSerial |-> 0,
               cursorPreviousName |-> None, cursor |-> <<0, None>>]
    /\ pending = Nothing
    /\ framed \in BOOLEAN
    /\ at = None /\ entered = 0
    /\ grab = None /\ asked = None
    /\ events = <<>> /\ torn = FALSE
    /\ moves = 0 /\ calls = 0
----------------------------------------------------------------------------
(***************************************************************************)
(* What the handlers make of the seat p.                                   *)
(***************************************************************************)
\* setCursorNameWayland
Named(p, name) ==
    IF p.cursorPreviousName = name THEN p
    ELSE [p EXCEPT !.cursorPreviousName = name, !.cursor = <<p.pointerEnterSerial, name>>]

\* processPointerEnterSurface.  A fallback edge has its cursor from the motion.
Entered(p, s) ==
    LET w == Owner(s)
        q == [p EXCEPT !.pointerSurface = s, !.pointerFocus = w]
        f == [q EXCEPT !.focus[w] = s]
    IN  IF s = Content(w)
        THEN [q EXCEPT !.hovered = @ \cup {w}, !.cursor = <<p.pointerEnterSerial, "content">>]
        ELSE IF w \notin decorated THEN q
        ELSE IF w \in Shadowed THEN Named(f, s[2]) ELSE f

\* processPointerLeaveSurface, and its mutants: the window stays hovered, ...
Left_hovered(p, s) ==
    [p EXCEPT !.pointerSurface = None, !.cursorPreviousName = None,
              !.pointerFocus = IF @ = Owner(s) THEN None ELSE @]
\* ... or the name of the last cursor stays.
Left_named(p, s) ==
    [p EXCEPT !.pointerSurface = None,
              !.pointerFocus = IF @ = Owner(s) THEN None ELSE @,
              !.hovered = @ \ {Owner(s)},
              !.focus[Owner(s)] = IF Owner(s) \notin p.hovered /\ @ = s THEN None ELSE @]
Left(p, s) ==
    [p EXCEPT !.pointerSurface = None, !.cursorPreviousName = None,
              !.pointerFocus = IF @ = Owner(s) THEN None ELSE @,
              !.hovered = @ \ {Owner(s)},
              !.focus[Owner(s)] = IF Owner(s) \notin p.hovered /\ @ = s THEN None ELSE @]

\* processPointerMotion
Moved(p) ==
    LET w == p.pointerFocus IN
    IF w = None THEN p
    ELSE IF w \in p.hovered THEN [p EXCEPT !.cursorPreviousName = None]
    ELSE IF p.focus[w] # None THEN Named(p, p.focus[w][2])
    ELSE IF w \in decorated \ Shadowed THEN Named(p, "left_ptr")
    ELSE p

\* processPointerButton: a press on an edge asks for an interactive resize.
Grabs(p) ==
    /\ p.pointerFocus # None /\ p.pointerFocus \notin p.hovered
    /\ p.pointerFocus \in decorated /\ p.focus[p.pointerFocus] # None

\* invalidatePointerSurface, for each of the surfaces S
Invalidated_not(p, S) == p  \* mutant
Invalidated(p, S) ==
    IF p.pointerSurface \in S
    THEN [p EXCEPT !.pointerSurface = None, !.pointerFocus = None, !.cursorPreviousName = None]
    ELSE p
\* Mutant: all that is staged goes with the surface under the pointer.
Unstaged_all(S) == IF seat.pointerSurface \in S THEN Nothing ELSE pending
Unstaged(S) == IF pending.surface \in S THEN [pending EXCEPT !.surface = None] ELSE pending

\* getEffectivePointerSurface
EffectiveSurface ==
    IF "surface" \in pending.events THEN pending.surface ELSE seat.pointerSurface
----------------------------------------------------------------------------
(* The handlers.  e is the event. *)
Staged(what) == [pending EXCEPT !.events = @ \cup what]

\* Mutant: the resize is not known to be over.
HandleEnter_resizing(e) ==
    /\ IF e.surface = None THEN UNCHANGED <<seat, pending>>
       ELSE LET p == [seat EXCEPT !.pointerEnterSerial = e.serial] IN
            IF framed
            THEN /\ seat' = p
                 /\ pending' = [Staged({"surface", "motion"}) EXCEPT !.surface = e.surface]
            ELSE /\ seat' = Moved(Entered(p, e.surface))
                 /\ UNCHANGED pending
    /\ UNCHANGED <<surfaces, resizing, pointer, asked>>

\* The refresh of the shadow finds it as it was.
HandleEnter(e) ==
    /\ IF e.surface = None THEN UNCHANGED <<seat, pending, resizing>>
       ELSE LET p == [seat EXCEPT !.pointerEnterSerial = e.serial] IN
            /\ resizing' = resizing \ {Owner(e.surface)}
            /\ IF framed
               THEN /\ seat' = p
                    /\ pending' = [Staged({"surface", "motion"}) EXCEPT !.surface = e.surface]
               ELSE /\ seat' = Moved(Entered(p, e.surface))
                    /\ UNCHANGED pending
    /\ UNCHANGED <<surfaces, pointer, asked>>

HandleLeave(e) ==
    /\ IF e.surface = None THEN UNCHANGED <<seat, pending>>
       ELSE IF framed
       THEN /\ pending' = [Staged({"surface"}) EXCEPT !.surface = None]
            /\ UNCHANGED seat
       ELSE seat' = Left(seat, e.surface) /\ UNCHANGED pending
    /\ UNCHANGED <<surfaces, resizing, pointer, asked>>

HandleMotion ==
    /\ IF EffectiveSurface = None THEN UNCHANGED <<seat, pending>>
       ELSE IF framed THEN pending' = Staged({"motion"}) /\ UNCHANGED seat
       ELSE seat' = Moved(seat) /\ UNCHANGED pending
    /\ UNCHANGED <<surfaces, resizing, pointer, asked>>

\* Mutant: staged whatever the version.
HandleButton_staged ==
    /\ IF EffectiveSurface # None THEN pending' = Staged({"button"}) ELSE UNCHANGED pending
    /\ UNCHANGED <<surfaces, resizing, pointer, seat, asked>>
HandleButton ==
    /\ IF EffectiveSurface # None /\ framed
       THEN pending' = Staged({"button"}) /\ UNCHANGED asked
       ELSE /\ asked' = IF EffectiveSurface # None /\ Grabs(seat) THEN seat.pointerFocus ELSE asked
            /\ UNCHANGED pending
    /\ UNCHANGED <<surfaces, resizing, pointer, seat>>

HandleFrame ==
    LET left == IF "surface" \in pending.events /\ seat.pointerSurface # None
                THEN Left(seat, seat.pointerSurface) ELSE seat
        p == IF "surface" \in pending.events /\ pending.surface # None
             THEN Entered(left, pending.surface) ELSE left
        q == IF p.pointerSurface # None /\ "motion" \in pending.events THEN Moved(p) ELSE p
    IN  /\ seat' = q
        /\ pending' = Nothing
        /\ asked' = IF /\ p.pointerSurface # None /\ "button" \in pending.events
                       /\ Grabs(q)
                    THEN q.pointerFocus ELSE asked
        /\ UNCHANGED <<surfaces, resizing, pointer>>

\* seatHandleCapabilities, of the pointer
HandleCapabilities(e) ==
    /\ pointer' = e.on
    /\ IF ~e.on /\ pointer
       THEN /\ seat' = [seat EXCEPT !.pointerSurface = None, !.pointerFocus = None]
            /\ pending' = Nothing
       ELSE UNCHANGED <<seat, pending>>
    /\ UNCHANGED <<surfaces, resizing, asked>>

\* xdgToplevelHandleConfigure, of the resizing state
HandleConfigure(e) ==
    /\ resizing' = IF e.surface = None THEN resizing
                   ELSE IF e.on THEN resizing \cup {Owner(e.surface)}
                   ELSE resizing \ {Owner(e.surface)}
    /\ UNCHANGED <<surfaces, pointer, seat, pending, asked>>

EventOf(type, s, serial, on) == [type |-> type, surface |-> s, serial |-> serial, on |-> on]
LeaveOf(s) == <<EventOf("leave", s, 0, FALSE)>>
EnterOf(s) == <<EventOf("enter", s, entered + 1, FALSE)>>
ConfigureOf(w, on) == <<EventOf("configure", Content(w), 0, on)>>
FrameOf == IF framed THEN <<EventOf("frame", None, 0, FALSE)>> ELSE <<>>

\* No event of a wl_pointer is behind the loss of it; a new one enters what it is on.
AfterCapabilities(e) ==
    IF e.on /\ ~pointer /\ caps /\ at # None
    THEN /\ listening' = TRUE /\ entered' = entered + 1
         /\ events' = Tail(events) \o EnterOf(at) \o FrameOf
    ELSE /\ listening' = (listening \/ (e.on /\ ~pointer /\ caps))
         /\ events' = Tail(events) /\ UNCHANGED entered

Handle(e) ==
    \/ e.type = "enter" /\ HandleEnter(e)
    \/ e.type = "leave" /\ HandleLeave(e)
    \/ e.type = "motion" /\ HandleMotion
    \/ e.type = "button" /\ HandleButton
    \/ e.type = "frame" /\ HandleFrame
    \/ e.type = "capabilities" /\ HandleCapabilities(e)
    \/ e.type = "configure" /\ HandleConfigure(e)

Dispatch ==
    /\ events # <<>>
    /\ Handle(Head(events))
    /\ IF Head(events).type = "capabilities" THEN AfterCapabilities(Head(events))
       ELSE events' = Tail(events) /\ UNCHANGED <<listening, entered>>
    /\ UNCHANGED <<framed, caps, at, grab, torn, moves, calls>>
----------------------------------------------------------------------------
(* The program. *)
Call == calls < MaxCalls /\ calls' = calls + 1

\* The compositor hears of the end of S, and so do the events on their way.
Destroyed(S) ==
    /\ alive' = alive \ S
    /\ at' = IF at \in S THEN None ELSE at
    /\ events' = [i \in DOMAIN events |->
          IF events[i].surface \in S THEN [events[i] EXCEPT !.surface = None] ELSE events[i]]

\* destroyFallbackDecorations and destroyRefyneShadowSurfaces
DestroyEdges(w) ==
    /\ w \in open /\ Call
    /\ seat' = [Invalidated(seat, EdgesOf(w)) EXCEPT !.focus[w] = None]
    /\ pending' = Unstaged(EdgesOf(w))
    /\ decorated' = decorated \ {w}
    /\ Destroyed(EdgesOf(w))
    /\ UNCHANGED <<open, resizing, pointer, framed, caps, listening, entered, grab, asked,
                   torn, moves>>

\* hideRefyneShadowSurfaces: the slices stay, without a buffer.
HideEdges(w) ==
    /\ w \in open \cap decorated \cap Shadowed /\ Call
    /\ seat' = [Invalidated(seat, EdgesOf(w)) EXCEPT !.focus[w] = None]
    /\ pending' = Unstaged(EdgesOf(w))
    /\ decorated' = decorated \ {w}
    /\ UNCHANGED <<open, alive, resizing, pointer, framed, compositor, asked, events,
                   torn, moves>>

\* createFallbackDecorations and createRefyneWindowShadow
CreateEdges(w) ==
    /\ w \in open \ decorated /\ Call
    /\ decorated' = decorated \cup {w}
    /\ alive' = alive \cup EdgesOf(w)
    /\ UNCHANGED <<open, resizing, pointer, seat, pending, framed, compositor, asked, events,
                   torn, moves>>

\* The content surface goes, then what is staged, then the edges.
DestroyWindow(w) ==
    LET p == Invalidated(seat, {Content(w)})
        focused == p.pointerFocus = w
        q == IF focused THEN [p EXCEPT !.pointerSurface = None, !.pointerFocus = None] ELSE p
    IN  /\ w \in open /\ Call
        /\ open' = open \ {w}
        /\ seat' = [Invalidated(q, EdgesOf(w)) EXCEPT !.hovered = @ \ {w}, !.focus[w] = None]
        /\ pending' = IF focused THEN Nothing ELSE Unstaged({Content(w)} \cup EdgesOf(w))
        /\ torn' = (torn \/ focused)
        /\ decorated' = decorated \ {w} /\ resizing' = resizing \ {w}
        /\ Destroyed({Content(w)} \cup EdgesOf(w))
        /\ asked' = IF asked = w THEN None ELSE asked
        /\ grab' = IF grab = w THEN None ELSE grab
        /\ UNCHANGED <<pointer, framed, caps, listening, entered, moves>>

\* glfwSetCursor, on the window that is hovered
SetCursor(w) ==
    /\ w \in open /\ Call
    /\ pointer /\ w \in seat.hovered
    /\ seat' = [seat EXCEPT !.cursor = <<seat.pointerEnterSerial, "content">>]
    /\ UNCHANGED <<surfaces, resizing, pointer, pending, framed, compositor, asked, events,
                   torn, moves>>
----------------------------------------------------------------------------
(* The compositor. *)
Act == moves < MaxMoves /\ moves' = moves + 1 /\ UNCHANGED <<client, framed, torn, calls>>
Send(es) == events' = IF listening THEN events \o es \o FrameOf ELSE events
Leaves == IF at = None THEN <<>> ELSE LeaveOf(at)

\* The pointer goes to another surface, or to none.
Move(s) ==
    /\ Act /\ caps /\ grab = None /\ s # at
    /\ at' = s
    /\ Send(Leaves \o (IF s = None THEN <<>> ELSE EnterOf(s)))
    /\ entered' = IF s # None /\ listening THEN entered + 1 ELSE entered
    /\ UNCHANGED <<caps, listening, grab, asked>>

Use(type) ==
    /\ Act /\ caps /\ at # None
    /\ Send(<<EventOf(type, at, 0, FALSE)>>)
    /\ UNCHANGED <<compositor, asked>>

\* A resize begins with a leave, and may end without a word (Mutter).
BeginResize ==
    /\ asked # None /\ asked' = None
    /\ IF grab = None /\ at # None /\ Owner(at) = asked
       THEN /\ grab' = asked /\ at' = None
            /\ events' = events \o (IF listening THEN LeaveOf(at) \o FrameOf ELSE <<>>)
                                \o ConfigureOf(asked, TRUE)
       ELSE UNCHANGED <<grab, at, events>>
    /\ UNCHANGED <<client, framed, caps, listening, entered, torn, moves, calls>>

EndResize ==
    /\ grab # None /\ grab' = None
    /\ \/ events' = events \o ConfigureOf(grab, FALSE)
       \/ UNCHANGED events
    /\ UNCHANGED <<client, framed, caps, listening, at, entered, asked, torn, moves, calls>>

\* The seat loses its last pointer that the program has, and has one again.
Unplug ==
    /\ Act /\ listening /\ caps' = FALSE /\ listening' = FALSE
    /\ grab = None
    /\ at' = None
    /\ events' = (IF Polite /\ at # None THEN events \o LeaveOf(at) \o FrameOf
                  ELSE events) \o <<EventOf("capabilities", None, 0, FALSE)>>
    /\ UNCHANGED <<entered, grab, asked>>

Plug ==
    /\ Act /\ ~caps /\ caps' = TRUE
    /\ events' = Append(events, EventOf("capabilities", None, 0, TRUE))
    /\ UNCHANGED <<listening, at, entered, grab, asked>>

Next ==
    \/ Dispatch
    \/ \E w \in Windows : \/ DestroyEdges(w) \/ HideEdges(w) \/ CreateEdges(w)
                          \/ DestroyWindow(w) \/ SetCursor(w)
    \/ \E s \in alive \cup {None} : Move(s)
    \/ \E type \in {"motion", "button"} : Use(type)
    \/ BeginResize \/ EndResize \/ Unplug \/ Plug

Spec == Init /\ [][Next]_vars
----------------------------------------------------------------------------
(* Type correctness; nothing is staged for a pointer without frames. *)
TypeOK ==
    /\ open \subseteq Windows /\ decorated \subseteq open /\ resizing \subseteq open
    /\ alive \subseteq Surfaces
    /\ pointer \in BOOLEAN /\ caps \in BOOLEAN /\ listening \in BOOLEAN /\ framed \in BOOLEAN
    /\ torn \in BOOLEAN
    /\ seat \in [pointerSurface : Surfaces \cup {None}, pointerFocus : Windows \cup {None},
                 hovered : SUBSET open, focus : [Windows -> Surfaces \cup {None}],
                 pointerEnterSerial : Nat,
                 cursorPreviousName : Edges \cup {"left_ptr", None},
                 cursor : Nat \X (Edges \cup {"left_ptr", "content", None})]
    /\ pending \in [events : SUBSET {"surface", "motion", "button"},
                    surface : Surfaces \cup {None}]
    /\ ~framed => pending = Nothing
    /\ at \in alive \cup {None} /\ entered \in Nat
    /\ grab \in open \cup {None} /\ asked \in open \cup {None}
    /\ events \in Seq([type : {"enter", "leave", "motion", "button", "frame",
                               "capabilities", "configure"},
                       surface : Surfaces \cup {None}, serial : Nat, on : BOOLEAN])
    /\ moves \in 0 .. MaxMoves /\ calls \in 0 .. MaxCalls

(* The seat refers to no surface and no window that was destroyed: the next *)
(* frame would read the freed proxy (the comment at wl_window.c:274).      *)
NoDangling ==
    /\ {seat.pointerSurface, pending.surface} \subseteq alive \cup {None}
    /\ seat.pointerFocus \in open \cup {None}
    /\ \A w \in Windows : seat.focus[w] \in alive \cup {None}

AtRest == events = <<>> /\ asked = None

(* Once all events have arrived, no window takes itself for hovered that   *)
(* the pointer is not on, and no other surface has the focus.              *)
HoveredIsTrue ==
    AtRest => /\ \A w \in seat.hovered : at = Content(w)
              /\ seat.pointerSurface \in {None, at}

(* And the window that the pointer is on knows it, but for a window that   *)
(* was destroyed with the pointer on an edge of it.                        *)
EnterHeeded ==
    AtRest /\ ~torn => \A w \in open : at = Content(w) /\ listening => w \in seat.hovered

(* The cursor is the one for the surface, asked for since it was entered:  *)
(* an older request is none to the compositor.                             *)
CursorFollows ==
    AtRest /\ ~torn /\ at # None /\ seat.pointerSurface = at =>
        \/ at = Content(Owner(at)) /\ seat.cursor = <<entered, "content">>
        \/ at = seat.focus[Owner(at)] /\ seat.cursor = <<entered, at[2]>>
        \/ at # Content(Owner(at)) /\ seat.focus[Owner(at)] = None

(* A window that the pointer has entered again is not in a resize.         *)
ResizeEnds ==
    AtRest /\ at # None /\ seat.pointerSurface = at => Owner(at) \notin resizing
=============================================================================
