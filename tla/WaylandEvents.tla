---------------------------- MODULE WaylandEvents ----------------------------
(***************************************************************************)
(* handleEvents of wl_window.c, in which the main thread polls and waits   *)
(* for events, with glfwPostEmptyEvent of other threads, the keyboard and  *)
(* its repeat timer, and a connection that may be lost.                    *)
(*                                                                         *)
(* Whoever reads the connection reads for all: eglSwapBuffers, while the   *)
(* program runs, leaves events in the queue that handleEvents dispatches.  *)
(* The last words of a compositor go to a queue of their own, looked at    *)
(* first; after an error libwayland dispatches nothing more.               *)
(***************************************************************************)
EXTENDS Naturals, Sequences, SequencesExt

CONSTANTS
    Windows, Keys, Threads,
    Repeating,      \* the keys that repeat
    None,
    Capacity,       \* requests that the connection holds
    MaxCalls,       \* bound: calls of handleEvents
    MaxPosts,       \* bound: posts of an empty event
    MaxActs         \* bound: what the compositor does of its own accord

ASSUME EventsAssumption ==
    /\ Repeating \subseteq Keys /\ None \notin Windows \cup Keys
    /\ Capacity \in Nat \ {0} /\ MaxCalls \in Nat /\ MaxPosts \in Nat /\ MaxActs \in Nat

VARIABLES
    pc,             \* where main is; "app" outside of handleEvents
    ready,          \* what poll found readable: the display, the repeat timer
    event,          \* handleEvents has an event
    queue,          \* events read and not dispatched
    error,          \* "none", "told": read and not dispatched, or "set"
    out,            \* requests not flushed
    post,           \* what each thread does of a post
    open,           \* windows that are not destroyed
    seat,           \* keyboardFocus, the keys that each window has pressed,
                    \* keyRepeatScancode, whether keyRepeatRate is not 0, and the timer
    closing,        \* the windows were asked to close: the connection is lost
    wire, socket,   \* flushed requests, and events that were not read
    lost,           \* the compositor has closed the connection: "no", "silent" or "told"
    focus, held,    \* the compositor: the window with the keyboard, the keys down
    calls, posts, acts \* the counters that the bounds are for

connection == <<queue, error, out, wire, socket>>
compositor == <<lost, focus, held>>
vars == <<pc, ready, event, connection, post, open, seat, closing, compositor, calls, posts,
          acts>>

Init ==
    /\ pc = "app" /\ ready = {} /\ event = FALSE
    /\ queue = <<>> /\ error = "none" /\ out = 0
    /\ post = [g \in Threads |-> "idle"]
    /\ open = Windows
    /\ seat = [keyboardFocus |-> None, keys |-> [w \in Windows |-> {}],
               keyRepeatScancode |-> None, repeats |-> TRUE, timer |-> "off"]
    /\ closing = FALSE
    /\ wire = 0 /\ socket = <<>> /\ lost = "no"
    /\ focus = None /\ held = {}
    /\ calls = 0 /\ posts = 0 /\ acts = 0
----------------------------------------------------------------------------
(* The handlers, as functions of the seat s.  e is the event. *)

HandleEnter(s, e) == IF e.of \in open THEN [s EXCEPT !.keyboardFocus = e.of] ELSE s

\* Mutant: the keys stay pressed.
HandleLeave_pressed(s, e) == [s EXCEPT !.keyboardFocus = None, !.timer = "off"]
\* _glfwInputWindowFocus releases the keys of the window that had the focus.
HandleLeave(s, e) ==
    IF s.keyboardFocus = None THEN s
    ELSE [s EXCEPT !.keyboardFocus = None, !.keys[s.keyboardFocus] = {}, !.timer = "off"]

\* Only the release of the key that repeats ends the repeat.
HandleKey(s, e) ==
    LET pressed == e.type = "press"
        repeats == pressed /\ e.of \in Repeating /\ s.repeats
    IN  IF s.keyboardFocus = None THEN s
        ELSE [s EXCEPT !.keys[s.keyboardFocus] = IF pressed THEN @ \cup {e.of} ELSE @ \ {e.of},
                       !.keyRepeatScancode = IF repeats THEN e.of ELSE @,
                       !.timer = CASE repeats -> "armed"
                                   [] ~pressed /\ e.of = s.keyRepeatScancode -> "off"
                                   [] OTHER -> @]

HandleRepeatInfo(s, e) == [s EXCEPT !.repeats = ~@]

\* "done" of the sync of a post: the listener does nothing.
Handle(s, e) ==
    CASE e.type = "enter" -> HandleEnter(s, e)
      [] e.type = "leave" -> HandleLeave(s, e)
      [] e.type \in {"press", "release"} -> HandleKey(s, e)
      [] e.type = "rate" -> HandleRepeatInfo(s, e)
      [] e.type = "done" -> s

\* The seat after the first n events of the queue.
Handled[n \in 0 .. Len(queue)] == IF n = 0 THEN seat ELSE Handle(Handled[n - 1], queue[n])

\* wl_display_dispatch_pending, which may be the first to hear of an error.
Dispatched ==
    IF error # "none" THEN error' = "set" /\ UNCHANGED <<queue, seat>>
    ELSE queue' = <<>> /\ seat' = Handled[Len(queue)] /\ UNCHANGED error
Some == error = "none" /\ queue # <<>>
----------------------------------------------------------------------------
(* handleEvents. *)
Return == pc' = "app" /\ event' = FALSE
Outside == UNCHANGED <<post, open, compositor, posts, acts>>

Begin ==
    /\ pc = "app" /\ ~closing
    /\ calls < MaxCalls /\ calls' = calls + 1
    /\ pc' = "prepare"
    /\ UNCHANGED <<ready, event, connection, seat, closing>>
    /\ Outside

Unread_none == FALSE \* mutant: events that others have read are left
Unread == queue # <<>>
\* Begins again when nothing was dispatched.
PrepareRead ==
    /\ pc = "prepare"
    /\ IF Unread
       THEN /\ Dispatched
            /\ IF Some THEN Return ELSE UNCHANGED <<pc, event>>
       ELSE pc' = "flush" /\ UNCHANGED <<event, queue, error, seat>>
    /\ UNCHANGED <<ready, out, closing, wire, socket, calls>>
    /\ Outside

\* flushDisplay waits for a full connection.
FlushFails == error = "set" \/ (lost # "no" /\ out > 0)
Flushed == LET n == Min({out, Capacity - wire})
           IN  (out > 0 => n > 0) /\ out' = out - n /\ wire' = wire + n

Flush ==
    /\ pc = "flush"
    /\ IF FlushFails
       THEN closing' = TRUE /\ Return /\ UNCHANGED <<out, wire>>
       ELSE /\ Flushed
            /\ pc' = IF out' = 0 THEN "poll" ELSE "flush"
            /\ UNCHANGED <<closing, event>>
    /\ UNCHANGED <<ready, queue, error, seat, socket, calls>>
    /\ Outside

Readable == (IF socket # <<>> \/ lost # "no" THEN {"display"} ELSE {})
            \cup (IF seat.timer = "expired" THEN {"repeat"} ELSE {})
Poll ==
    /\ pc = "poll" /\ Readable # {}
    /\ ready' = Readable /\ pc' = "read"
    /\ UNCHANGED <<event, connection, seat, closing, calls>>
    /\ Outside

\* Without a timeout this does not happen.
TimeOut ==
    /\ pc = "poll" /\ Readable = {} /\ Return
    /\ UNCHANGED <<ready, connection, seat, closing, calls>>
    /\ Outside

\* The end of the connection is read once nothing else is.
ReadDisplay ==
    /\ queue' = queue \o socket /\ socket' = <<>>
    /\ error' = CASE error # "none" \/ lost = "no" -> error
                  [] lost = "told" -> "told"
                  [] lost = "silent" -> IF socket = <<>> THEN "set" ELSE error
    /\ UNCHANGED <<out, wire>>

Read ==
    /\ pc = "read"
    /\ IF "display" \in ready
       THEN ReadDisplay /\ pc' = "dispatch"
       ELSE pc' = "repeat" /\ UNCHANGED connection
    /\ UNCHANGED <<ready, event, seat, closing, calls>>
    /\ Outside

Dispatch ==
    /\ pc = "dispatch"
    /\ Dispatched /\ event' = Some
    /\ pc' = "repeat"
    /\ UNCHANGED <<ready, out, closing, wire, socket, calls>>
    /\ Outside

\* Mutant: the timer is taken to be as the poll found it.
Expired_polled == "repeat" \in ready
\* A handler may have set the timer since the poll: then there is nothing to read.
Expired == "repeat" \in ready /\ seat.timer = "expired"

WithKey(k) == [seat.keys EXCEPT ![seat.keyboardFocus] = @ \cup {k}]

Repeat ==
    /\ pc = "repeat"
    /\ LET some == Expired /\ seat.keyboardFocus # None
       IN  /\ seat' = [seat EXCEPT
                 !.timer = IF Expired THEN "armed" ELSE @,
                 !.keys = IF some THEN WithKey(seat.keyRepeatScancode) ELSE @]
           /\ pc' = IF event \/ some THEN "app" ELSE "prepare"
    /\ event' = FALSE /\ ready' = {}
    /\ UNCHANGED <<connection, closing, calls>>
    /\ Outside

HandleEvents ==
    PrepareRead \/ Flush \/ Poll \/ Read \/ Dispatch \/ Repeat
----------------------------------------------------------------------------
(* The program: it draws, and destroys windows; other threads post. *)
SwapBuffers ==
    /\ pc = "app" /\ (socket # <<>> \/ lost # "no")
    /\ ReadDisplay
    /\ UNCHANGED <<pc, ready, event, seat, closing, calls>>
    /\ Outside

Elsewhere == UNCHANGED <<pc, ready, event, queue, error, closing, socket, compositor, calls, acts>>

\* Mutant: the seat keeps the window.
Unfocused_not(s, w) == s
Unfocused(s, w) ==
    IF s.keyboardFocus # w THEN s ELSE [s EXCEPT !.keyboardFocus = None, !.timer = "off"]
DestroyWindow(w) ==
    /\ pc = "app" /\ w \in open
    /\ open' = open \ {w}
    /\ seat' = [Unfocused(seat, w) EXCEPT !.keys[w] = {}]
    /\ UNCHANGED <<out, post, wire, posts>> /\ Elsewhere

\* _glfwPostEmptyEventWayland, in two steps
Post(g) ==
    /\ post[g] = "idle" /\ posts < MaxPosts
    /\ posts' = posts + 1 /\ out' = out + 1
    /\ post' = [post EXCEPT ![g] = "flush"]
    /\ UNCHANGED <<open, seat, wire>> /\ Elsewhere

PostFlush(g) ==
    /\ post[g] = "flush"
    /\ IF FlushFails
       THEN post' = [post EXCEPT ![g] = "idle"] /\ UNCHANGED <<out, wire>>
       ELSE Flushed /\ post' = [post EXCEPT ![g] = IF out' = 0 THEN "idle" ELSE "flush"]
    /\ UNCHANGED <<open, seat, posts>> /\ Elsewhere
----------------------------------------------------------------------------
(* The timer and the compositor. *)
Unseen == UNCHANGED <<pc, ready, event, queue, error, out, post, open, closing, calls, posts>>
Act == lost = "no" /\ acts < MaxActs /\ acts' = acts + 1
Of(type, x) == <<[type |-> type, of |-> x]>>

Expire ==
    /\ seat.timer = "armed" /\ seat' = [seat EXCEPT !.timer = "expired"]
    /\ Unseen /\ UNCHANGED <<compositor, wire, socket, acts>>

Serve ==
    /\ lost = "no" /\ wire > 0 /\ wire' = wire - 1
    /\ socket' = socket \o Of("done", None)
    /\ Unseen /\ UNCHANGED <<compositor, seat, acts>>

Focus(w) ==
    /\ Act /\ w # focus
    /\ focus' = w
    /\ socket' = socket \o (IF focus = None THEN <<>> ELSE Of("leave", focus))
                        \o (IF w = None THEN <<>> ELSE Of("enter", w))
    /\ Unseen /\ UNCHANGED <<seat, lost, held, wire>>

Press(k) ==
    /\ Act /\ k \notin held
    /\ held' = held \cup {k}
    /\ socket' = IF focus = None THEN socket ELSE socket \o Of("press", k)
    /\ Unseen /\ UNCHANGED <<seat, lost, focus, wire>>

Release(k) ==
    /\ Act /\ k \in held
    /\ held' = held \ {k}
    /\ socket' = IF focus = None THEN socket ELSE socket \o Of("release", k)
    /\ Unseen /\ UNCHANGED <<seat, lost, focus, wire>>

ChangeRate ==
    /\ Act /\ socket' = socket \o Of("rate", None)
    /\ Unseen /\ UNCHANGED <<seat, compositor, wire>>

\* It goes, and may say why.
Lose ==
    /\ Act /\ lost' \in {"silent", "told"}
    /\ Unseen /\ UNCHANGED <<seat, focus, held, wire, socket>>

Next ==
    \/ Begin \/ HandleEvents \/ TimeOut \/ SwapBuffers
    \/ Expire \/ Serve \/ ChangeRate \/ Lose
    \/ \E w \in Windows : DestroyWindow(w)
    \/ \E g \in Threads : Post(g) \/ PostFlush(g)
    \/ \E w \in open \cup {None} : Focus(w)
    \/ \E k \in Keys : Press(k) \/ Release(k)

\* Main within handleEvents, a thread within a post and the compositor go on.
Fairness ==
    /\ WF_vars(HandleEvents) /\ WF_vars(Serve)
    /\ \A g \in Threads : WF_vars(PostFlush(g))

Spec == Init /\ [][Next]_vars /\ Fairness
----------------------------------------------------------------------------
(* Type correctness; the window with the keyboard is not destroyed.        *)
TypeOK ==
    /\ pc \in {"app", "prepare", "flush", "poll", "read", "dispatch", "repeat"}
    /\ ready \subseteq {"display", "repeat"} /\ event \in BOOLEAN
    /\ error \in {"none", "told", "set"} /\ lost \in {"no", "told", "silent"}
    /\ out \in 0 .. MaxPosts /\ wire \in 0 .. Capacity
    /\ post \in [Threads -> {"idle", "flush"}]
    /\ open \subseteq Windows
    /\ seat \in [keyboardFocus : open \cup {None}, keys : [Windows -> SUBSET Keys],
                 keyRepeatScancode : Keys \cup {None}, repeats : BOOLEAN,
                 timer : {"off", "armed", "expired"}]
    /\ closing \in BOOLEAN
    /\ focus \in Windows \cup {None} /\ held \subseteq Keys
    /\ \A e \in Range(queue \o socket) :
          e.type \in {"enter", "leave", "press", "release", "rate", "done"}

(* The repeat of a key is never its first press: the timer runs only for a *)
(* key that the window with the keyboard has pressed.                      *)
RepeatIsHeld ==
    seat.timer # "off" =>
        /\ seat.keyboardFocus # None
        /\ seat.keyRepeatScancode \in seat.keys[seat.keyboardFocus]

(* Once all events have arrived, a window has only those keys pressed that *)
(* are, and none without the keyboard.                                     *)
NoStuckKeys ==
    queue \o socket = <<>> /\ lost = "no" =>
        \A w \in open : seat.keys[w] # {} => w = focus /\ seat.keys[w] \subseteq held

(* What was posted, what others have read and the end of the connection    *)
(* end the wait of main, with one exception: after an error, handleEvents  *)
(* turns for ever if events are left that nobody dispatches.               *)
Outstanding == out > 0 \/ wire > 0 \/ socket # <<>> \/ queue # <<>> \/ lost # "no"
Hangs == error = "set" /\ queue # <<>>
MainWakes == Outstanding /\ pc # "app" ~> pc = "app" \/ Hangs
=============================================================================
