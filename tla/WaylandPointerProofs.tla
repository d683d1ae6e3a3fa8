------------------------ MODULE WaylandPointerProofs ------------------------
(***************************************************************************)
(* That the seat never refers to a surface or a window that was destroyed, *)
(* for any number of windows and edges, whatever the order of the events,  *)
(* of the frames and of what the program destroys; and that, once all      *)
(* events have arrived, it knows the surface that the pointer is on, if    *)
(* the compositor never takes a pointer away without a leave.              *)
(***************************************************************************)
EXTENDS WaylandPointer, SequenceTheorems, TLAPS

Names == Edges \cup {"left_ptr", None}
Stages == {"surface", "motion", "button"}
EventTypes == {"enter", "leave", "motion", "button", "frame", "capabilities", "configure"}

(* A seat that refers to the windows op and the surfaces al only, and to   *)
(* an edge of a window for that window only.                               *)
SeatOver(op, al) ==
  [pointerSurface : al \cup {None}, pointerFocus : op \cup {None}, hovered : SUBSET op,
   focus : [Windows -> al \cup {None}], pointerEnterSerial : Nat,
   cursorPreviousName : Names, cursor : Nat \X (Names \cup {"content"})]
OwnEdges(p) == \A w \in Windows : p.focus[w] # None => p.focus[w] \in EdgesOf(w)
Good(p, op, al) == p \in SeatOver(op, al) /\ OwnEdges(p)

StagedOver(al) == [events : SUBSET Stages, surface : al \cup {None}]
EventsOver(al) == [type : EventTypes, surface : al \cup {None}, serial : Nat, on : BOOLEAN]

(* A surface is alive only with its window, and the content as long.       *)
Housed(op, al) ==
  /\ \A s \in al : Owner(s) \in op
  /\ \A w \in op : Content(w) \in al

PointerInv ==
  /\ TypeOK
  /\ Good(seat, open, alive)
  /\ pending \in StagedOver(alive)
  /\ events \in Seq(EventsOver(alive))
  /\ Housed(open, alive)

-----------------------------------------------------------------------------
(* What the handlers make of a good seat is one.                           *)

LEMMA NamedIsGood ==
  ASSUME NEW p, Good(p, open, alive), NEW name \in Edges \cup {"left_ptr"}
  PROVE  Good(Named(p, name), open, alive)
<1> DEFINE q == [p EXCEPT !.cursorPreviousName = name,
                          !.cursor = <<p.pointerEnterSerial, name>>]
<1>1. p \in SeatOver(open, alive) /\ OwnEdges(p)
  BY DEF Good
<1>2. name \in Names /\ <<p.pointerEnterSerial, name>> \in Nat \X (Names \cup {"content"})
  BY <1>1 DEF SeatOver, Names
<1>3. q \in SeatOver(open, alive) /\ q.focus = p.focus
  BY <1>1, <1>2 DEF SeatOver
<1> QED BY <1>1, <1>3 DEF Named, Good, OwnEdges

LEMMA EnteredIsGood ==
  ASSUME NEW p, Good(p, open, alive), NEW s \in alive, TypeOK, Housed(open, alive)
  PROVE  Good(Entered(p, s), open, alive)
<1> DEFINE w == Owner(s)
           q == [p EXCEPT !.pointerSurface = s, !.pointerFocus = w]
           f == [q EXCEPT !.focus[w] = s]
           c == [q EXCEPT !.hovered = @ \cup {w}, !.cursor = <<p.pointerEnterSerial, "content">>]
<1>1. p \in SeatOver(open, alive) /\ OwnEdges(p)
  BY DEF Good
<1>2. w \in open /\ w \in Windows /\ s = <<w, s[2]>> /\ s[2] \in Edges \cup {"content"}
  BY DEF TypeOK, Housed, Owner, Surfaces
<1>3. Good(q, open, alive)
  <2>1. q \in SeatOver(open, alive) /\ q.focus = p.focus
    BY <1>1, <1>2 DEF SeatOver
  <2> QED BY <1>1, <2>1 DEF Good, OwnEdges
<1>4. CASE s = Content(w)
  <2>1. <<p.pointerEnterSerial, "content">> \in Nat \X (Names \cup {"content"})
    BY <1>1 DEF SeatOver
  <2>2. c \in SeatOver(open, alive) /\ c.focus = q.focus
    BY <1>2, <1>3, <2>1 DEF Good, SeatOver
  <2>3. Good(c, open, alive)
    BY <1>3, <2>2 DEF Good, OwnEdges
  <2> QED BY <1>4, <2>3 DEF Entered
<1>5. CASE s # Content(w)
  <2>1. s[2] \in Edges
    BY <1>2, <1>5 DEF Content
  <2>2. s \in EdgesOf(w)
    BY <1>2, <2>1 DEF EdgesOf
  <2>3. f \in SeatOver(open, alive) /\ f.focus = [q.focus EXCEPT ![w] = s]
    BY <1>2, <1>3 DEF Good, SeatOver
  <2>4. Good(f, open, alive)
    BY <1>2, <1>3, <2>2, <2>3 DEF Good, OwnEdges, SeatOver
  <2>5. Good(Named(f, s[2]), open, alive)
    BY <2>1, <2>4, NamedIsGood
  <2> QED BY <1>3, <1>5, <2>4, <2>5 DEF Entered
<1> QED BY <1>4, <1>5

LEMMA LeftIsGood ==
  ASSUME NEW p, Good(p, open, alive), NEW s \in alive, TypeOK
  PROVE  Good(Left(p, s), open, alive)
<1> DEFINE q == Left(p, s)
<1>1. p \in SeatOver(open, alive) /\ OwnEdges(p)
  BY DEF Good
<1>2. Owner(s) \in Windows
  BY DEF TypeOK, Owner, Surfaces
<1>3. None \in Names
  BY DEF Names
<1>4. q \in SeatOver(open, alive)
  BY <1>1, <1>2, <1>3 DEF Left, SeatOver
<1>5. \A w \in Windows : q.focus[w] \in {p.focus[w], None}
  BY <1>1, <1>2 DEF Left, SeatOver
<1> QED BY <1>1, <1>4, <1>5 DEF Good, OwnEdges

LEMMA MovedIsGood ==
  ASSUME NEW p, Good(p, open, alive), TypeOK
  PROVE  Good(Moved(p), open, alive)
<1> DEFINE w == p.pointerFocus
           q == [p EXCEPT !.cursorPreviousName = None]
<1>1. p \in SeatOver(open, alive) /\ OwnEdges(p)
  BY DEF Good
<1>2. Good(q, open, alive)
  <2>1. q \in SeatOver(open, alive) /\ q.focus = p.focus
    BY <1>1 DEF SeatOver, Names
  <2> QED BY <1>1, <2>1 DEF Good, OwnEdges
<1>3. ASSUME w # None, p.focus[w] # None
      PROVE  Good(Named(p, p.focus[w][2]), open, alive)
  <2>1. w \in Windows
    BY <1>1, <1>3 DEF SeatOver, TypeOK
  <2>2. p.focus[w][2] \in Edges
    BY <1>1, <1>3, <2>1 DEF OwnEdges, EdgesOf
  <2> QED BY <2>2, NamedIsGood
<1>4. Good(Named(p, "left_ptr"), open, alive)
  BY NamedIsGood
<1> QED BY <1>2, <1>3, <1>4 DEF Moved

(* What is destroyed is forgotten: the seat without S, for surfaces al     *)
(* that are left.                                                          *)
LEMMA InvalidatedIsGood ==
  ASSUME NEW p, Good(p, open, alive), NEW S
  PROVE  /\ Good(Invalidated(p, S), open, alive)
         /\ Invalidated(p, S).pointerSurface \notin S \/ Invalidated(p, S).pointerSurface = None
         /\ Invalidated(p, S).focus = p.focus /\ Invalidated(p, S).hovered = p.hovered
<1> DEFINE q == [p EXCEPT !.pointerSurface = None, !.pointerFocus = None,
                          !.cursorPreviousName = None]
<1>1. p \in SeatOver(open, alive) /\ OwnEdges(p)
  BY DEF Good
<1>2. q \in SeatOver(open, alive) /\ q.focus = p.focus /\ q.hovered = p.hovered
      /\ q.pointerSurface = None
  BY <1>1 DEF SeatOver, Names
<1> QED BY <1>1, <1>2 DEF Good, OwnEdges, Invalidated

-----------------------------------------------------------------------------
(* The handlers keep all but the events, ...                               *)

(* The type invariant but for what the rest of the invariant says better.  *)
Typed ==
  /\ open \subseteq Windows /\ decorated \subseteq open /\ resizing \subseteq open
  /\ alive \subseteq Surfaces
  /\ pointer \in BOOLEAN /\ caps \in BOOLEAN /\ listening \in BOOLEAN /\ framed \in BOOLEAN
  /\ torn \in BOOLEAN
  /\ ~framed => pending = Nothing
  /\ at \in alive \cup {None} /\ entered \in Nat
  /\ grab \in open \cup {None} /\ asked \in open \cup {None}
  /\ moves \in 0 .. MaxMoves /\ calls \in 0 .. MaxCalls

LEMMA InvIsTyped ==
  PointerInv <=> /\ Typed /\ Good(seat, open, alive) /\ pending \in StagedOver(alive)
                 /\ events \in Seq(EventsOver(alive)) /\ Housed(open, alive)
<1>1. PointerInv => Typed
  BY DEF PointerInv, TypeOK, Typed
<1>2. ASSUME Typed, Good(seat, open, alive), pending \in StagedOver(alive),
             events \in Seq(EventsOver(alive))
      PROVE  TypeOK
  <2>1. seat \in [pointerSurface : Surfaces \cup {None}, pointerFocus : Windows \cup {None},
                 hovered : SUBSET open, focus : [Windows -> Surfaces \cup {None}],
                 pointerEnterSerial : Nat,
                 cursorPreviousName : Edges \cup {"left_ptr", None},
                 cursor : Nat \X (Edges \cup {"left_ptr", "content", None})]
    <3>1. Names \cup {"content"} = Edges \cup {"left_ptr", "content", None}
      BY DEF Names
    <3>2. seat.focus \in [Windows -> Surfaces \cup {None}]
      BY <1>2 DEF Good, SeatOver, Typed
    <3> QED BY <1>2, <3>1, <3>2 DEF Good, SeatOver, Typed, Names
  <2>2. pending \in [events : SUBSET {"surface", "motion", "button"},
                    surface : Surfaces \cup {None}]
    BY <1>2 DEF StagedOver, Stages, Typed
  <2>3. events \in Seq([type : {"enter", "leave", "motion", "button", "frame",
                               "capabilities", "configure"},
                       surface : Surfaces \cup {None}, serial : Nat, on : BOOLEAN])
    <3>1. EventsOver(alive) \subseteq EventsOver(Surfaces)
      BY <1>2 DEF EventsOver, Typed
    <3>2. events \in Seq(EventsOver(Surfaces))
      BY <1>2, <3>1
    <3> QED BY <3>2 DEF EventsOver, EventTypes
  <2> QED BY <1>2, <2>1, <2>2, <2>3 DEF Typed, TypeOK
<1> QED BY <1>1, <1>2 DEF PointerInv

LEMMA NextIsTyped ==
  ASSUME Typed', Good(seat', open', alive'), pending' \in StagedOver(alive'),
         events' \in Seq(EventsOver(alive')), Housed(open', alive')
  PROVE  PointerInv'
<1>1. PointerInv' <=>
        (/\ Typed /\ Good(seat, open, alive) /\ pending \in StagedOver(alive)
         /\ events \in Seq(EventsOver(alive)) /\ Housed(open, alive))'
  BY InvIsTyped, PTL
<1> QED BY <1>1

Handled ==
  /\ UNCHANGED surfaces
  /\ resizing' \subseteq open /\ pointer' \in BOOLEAN
  /\ Good(seat', open, alive)
  /\ pending' \in StagedOver(alive) /\ (~framed => pending' = Nothing)
  /\ asked' \in open \cup {None}

LEMMA StagedIsStaged ==
  ASSUME pending \in StagedOver(alive), NEW what \in SUBSET Stages, NEW s \in alive \cup {None}
  PROVE  /\ Staged(what) \in StagedOver(alive)
         /\ [Staged(what) EXCEPT !.surface = s] \in StagedOver(alive)
BY DEF StagedOver, Staged

LEMMA NothingIsStaged == Nothing \in StagedOver(alive)
BY DEF StagedOver, Nothing

LEMMA GrabsAnOpen ==
  ASSUME NEW p, Good(p, open, alive), Grabs(p)
  PROVE  p.pointerFocus \in open \cup {None}
BY DEF Good, SeatOver

LEMMA HandlersKeep ==
  ASSUME PointerInv, NEW e \in EventsOver(alive), Handle(e)
  PROVE  Handled
<1> USE NothingIsStaged
<1>0. /\ TypeOK /\ Good(seat, open, alive) /\ pending \in StagedOver(alive) /\ Housed(open, alive)
      /\ ~framed => pending = Nothing
      /\ resizing \subseteq open /\ pointer \in BOOLEAN /\ asked \in open \cup {None}
  BY DEF PointerInv, TypeOK
<1>e. e.surface \in alive \cup {None} /\ e.serial \in Nat /\ e.on \in BOOLEAN
  BY DEF EventsOver
<1>h. e.surface # None => Owner(e.surface) \in open
  BY <1>0, <1>e DEF Housed
<1>1. CASE HandleEnter(e)
  <2> DEFINE p == [seat EXCEPT !.pointerEnterSerial = e.serial]
  <2>1. Good(p, open, alive)
    <3>1. p \in SeatOver(open, alive) /\ p.focus = seat.focus
      BY <1>0, <1>e DEF Good, SeatOver
    <3> QED BY <1>0, <3>1 DEF Good, OwnEdges
  <2>2. e.surface # None => Good(Moved(Entered(p, e.surface)), open, alive)
    BY <1>0, <1>e, <2>1, EnteredIsGood, MovedIsGood
  <2>3. [Staged({"surface", "motion"}) EXCEPT !.surface = e.surface] \in StagedOver(alive)
    BY <1>0, <1>e, StagedIsStaged DEF Stages
  <2> HIDE DEF p
  <2>4. \/ e.surface = None /\ UNCHANGED <<seat, pending, resizing>>
        \/ /\ e.surface # None /\ resizing' = resizing \ {Owner(e.surface)}
           /\ \/ framed /\ seat' = p
                 /\ pending' = [Staged({"surface", "motion"}) EXCEPT !.surface = e.surface]
              \/ ~framed /\ seat' = Moved(Entered(p, e.surface)) /\ UNCHANGED pending
    BY <1>1 DEF HandleEnter, p
  <2>5. UNCHANGED <<surfaces, pointer, asked>>
    BY <1>1 DEF HandleEnter
  <2>6. resizing' \subseteq open /\ Good(seat', open, alive)
    BY <1>0, <2>1, <2>2, <2>4
  <2>7. pending' \in StagedOver(alive) /\ (~framed => pending' = Nothing)
    BY <1>0, <2>3, <2>4
  <2> QED BY <1>0, <2>5, <2>6, <2>7 DEF Handled
<1>2. CASE HandleLeave(e)
  <2>1. e.surface # None => Good(Left(seat, e.surface), open, alive)
    BY <1>0, <1>e, LeftIsGood
  <2>2. [Staged({"surface"}) EXCEPT !.surface = None] \in StagedOver(alive)
    BY <1>0, StagedIsStaged DEF Stages
  <2>3. \/ UNCHANGED <<seat, pending>>
        \/ framed /\ UNCHANGED seat /\ pending' = [Staged({"surface"}) EXCEPT !.surface = None]
        \/ e.surface # None /\ seat' = Left(seat, e.surface) /\ UNCHANGED pending
    BY <1>2 DEF HandleLeave
  <2>4. UNCHANGED <<surfaces, resizing, pointer, asked>>
    BY <1>2 DEF HandleLeave
  <2> QED BY <1>0, <2>1, <2>2, <2>3, <2>4 DEF Handled
<1>3. CASE HandleMotion
  <2>1. Good(Moved(seat), open, alive)
    BY <1>0, MovedIsGood
  <2>2. Staged({"motion"}) \in StagedOver(alive)
    BY <1>0, StagedIsStaged DEF Stages
  <2>3. \/ UNCHANGED <<seat, pending>>
        \/ framed /\ UNCHANGED seat /\ pending' = Staged({"motion"})
        \/ seat' = Moved(seat) /\ UNCHANGED pending
    BY <1>3 DEF HandleMotion
  <2>4. UNCHANGED <<surfaces, resizing, pointer, asked>>
    BY <1>3 DEF HandleMotion
  <2> QED BY <1>0, <2>1, <2>2, <2>3, <2>4 DEF Handled
<1>4. CASE HandleButton
  <2>1. Staged({"button"}) \in StagedOver(alive)
    BY <1>0, StagedIsStaged DEF Stages
  <2>2. \/ framed /\ pending' = Staged({"button"}) /\ UNCHANGED asked
        \/ asked' \in {asked, seat.pointerFocus} /\ UNCHANGED pending
    BY <1>4 DEF HandleButton
  <2>3. UNCHANGED <<surfaces, resizing, pointer, seat>>
    BY <1>4 DEF HandleButton
  <2>4. seat.pointerFocus \in open \cup {None}
    BY <1>0 DEF Good, SeatOver
  <2> QED BY <1>0, <2>1, <2>2, <2>3, <2>4 DEF Handled
<1>5. CASE HandleFrame
  <2> DEFINE left == IF "surface" \in pending.events /\ seat.pointerSurface # None
                     THEN Left(seat, seat.pointerSurface) ELSE seat
             p == IF "surface" \in pending.events /\ pending.surface # None
                  THEN Entered(left, pending.surface) ELSE left
             q == IF p.pointerSurface # None /\ "motion" \in pending.events THEN Moved(p) ELSE p
  <2>1. Good(left, open, alive)
    <3>1. seat.pointerSurface \in alive \cup {None}
      BY <1>0 DEF Good, SeatOver
    <3> QED BY <1>0, <3>1, LeftIsGood
  <2>2. Good(p, open, alive)
    <3>1. pending.surface \in alive \cup {None}
      BY <1>0 DEF StagedOver
    <3> HIDE DEF left
    <3> QED BY <1>0, <2>1, <3>1, EnteredIsGood
  <2>3. Good(q, open, alive)
    <3> HIDE DEF p
    <3> QED BY <1>0, <2>2, MovedIsGood
  <2>4. seat' = q /\ asked' \in {asked, q.pointerFocus} /\ pending' = Nothing
        /\ UNCHANGED <<surfaces, resizing, pointer>>
    BY <1>5 DEF HandleFrame
  <2> HIDE DEF q
  <2>5. q.pointerFocus \in open \cup {None}
    BY <2>3 DEF Good, SeatOver
  <2> QED BY <1>0, <2>3, <2>4, <2>5 DEF Handled
<1>6. CASE HandleCapabilities(e)
  <2> DEFINE q == [seat EXCEPT !.pointerSurface = None, !.pointerFocus = None]
  <2>1. Good(q, open, alive)
    <3>1. q \in SeatOver(open, alive) /\ q.focus = seat.focus
      BY <1>0 DEF Good, SeatOver
    <3> QED BY <1>0, <3>1 DEF Good, OwnEdges
  <2>2. \/ seat' = q /\ pending' = Nothing
        \/ UNCHANGED <<seat, pending>>
    BY <1>6 DEF HandleCapabilities
  <2>3. pointer' = e.on /\ UNCHANGED <<surfaces, resizing, asked>>
    BY <1>6 DEF HandleCapabilities
  <2> HIDE DEF q
  <2> QED BY <1>0, <1>e, <2>1, <2>2, <2>3 DEF Handled
<1>7. CASE HandleConfigure(e)
  <2>1. resizing' \subseteq open
    BY <1>0, <1>h, <1>7 DEF HandleConfigure
  <2>2. UNCHANGED <<surfaces, pointer, seat, pending, asked>>
    BY <1>7 DEF HandleConfigure
  <2> QED BY <1>0, <2>1, <2>2 DEF Handled
<1> QED BY <1>1, <1>2, <1>3, <1>4, <1>5, <1>6, <1>7 DEF Handle

-----------------------------------------------------------------------------
(* ... and so does every step.                                             *)

LEMMA ConcatThree ==
  ASSUME NEW E, NEW s \in Seq(E), NEW t \in Seq(E), NEW u \in Seq(E)
  PROVE  s \o t \o u \in Seq(E)
<1>1. s \o t \in Seq(E)
  OBVIOUS
<1> QED BY <1>1

LEMMA SeqGrows ==
  ASSUME NEW E, NEW s \in Seq(E)
  PROVE  /\ \A t \in Seq(E) : s \o t \in Seq(E)
         /\ \A e \in E : Append(s, e) \in Seq(E)
         /\ \A F : E \subseteq F => s \in Seq(F)
OBVIOUS

LEMMA OneIsSeq ==
  ASSUME NEW E, NEW e \in E
  PROVE  <<e>> \in Seq(E)
OBVIOUS

LEMMA EventsOfTheCompositor ==
  ASSUME PointerInv
  PROVE  /\ FrameOf \in Seq(EventsOver(alive))
         /\ \A s \in alive : /\ LeaveOf(s) \in Seq(EventsOver(alive))
                             /\ EnterOf(s) \in Seq(EventsOver(alive))
         /\ \A w \in open, on \in BOOLEAN : ConfigureOf(w, on) \in Seq(EventsOver(alive))
         /\ Leaves \in Seq(EventsOver(alive))
<1>1. entered \in Nat /\ at \in alive \cup {None}
  BY DEF PointerInv, TypeOK
<1>2. \A type \in EventTypes, s \in alive \cup {None}, n \in Nat, on \in BOOLEAN :
         EventOf(type, s, n, on) \in EventsOver(alive)
  BY DEF EventOf, EventsOver
<1>3. entered + 1 \in Nat /\ 0 \in Nat /\ FALSE \in BOOLEAN
  BY <1>1
<1>4. FrameOf \in Seq(EventsOver(alive))
  <2>1. EventOf("frame", None, 0, FALSE) \in EventsOver(alive)
    BY <1>2 DEF EventTypes
  <2>2. <<>> \in Seq(EventsOver(alive))
    OBVIOUS
  <2>3. <<EventOf("frame", None, 0, FALSE)>> \in Seq(EventsOver(alive))
    BY <2>1, OneIsSeq
  <2> QED BY <2>2, <2>3, Zenon DEF FrameOf
<1>5. \A s \in alive : LeaveOf(s) \in Seq(EventsOver(alive))
  <2>1. \A s \in alive : EventOf("leave", s, 0, FALSE) \in EventsOver(alive)
    BY <1>2 DEF EventTypes
  <2> QED BY <2>1, OneIsSeq DEF LeaveOf
<1>6. \A s \in alive : EnterOf(s) \in Seq(EventsOver(alive))
  <2>1. \A s \in alive : EventOf("enter", s, entered + 1, FALSE) \in EventsOver(alive)
    BY <1>2, <1>3 DEF EventTypes
  <2> QED BY <2>1, OneIsSeq DEF EnterOf
<1>7. \A w \in open, on \in BOOLEAN : ConfigureOf(w, on) \in Seq(EventsOver(alive))
  <2>1. \A w \in open : Content(w) \in alive
    BY DEF PointerInv, Housed
  <2>2. \A w \in open, on \in BOOLEAN :
           EventOf("configure", Content(w), 0, on) \in EventsOver(alive)
    BY <1>2, <2>1 DEF EventTypes
  <2> QED BY <2>2, OneIsSeq DEF ConfigureOf
<1>8. Leaves \in Seq(EventsOver(alive))
  BY <1>1, <1>5 DEF Leaves
<1> QED BY <1>4, <1>5, <1>6, <1>7, <1>8

LEMMA SentIsEvents ==
  ASSUME PointerInv, NEW es \in Seq(EventsOver(alive)), Send(es)
  PROVE  events' \in Seq(EventsOver(alive))
<1>1. FrameOf \in Seq(EventsOver(alive)) /\ events \in Seq(EventsOver(alive))
  BY EventsOfTheCompositor DEF PointerInv
<1>2. events \o es \o FrameOf \in Seq(EventsOver(alive))
  BY <1>1, ConcatThree
<1> QED BY <1>1, <1>2 DEF Send

LEMMA InitIsGood == Init => PointerInv
<1> SUFFICES ASSUME Init PROVE PointerInv
  OBVIOUS
<1>1. seat \in SeatOver(open, alive) /\ OwnEdges(seat)
  <2>1. seat = [pointerSurface |-> None, pointerFocus |-> None, hovered |-> {},
               focus |-> [w \in Windows |-> None], pointerEnterSerial |-> 0,
               cursorPreviousName |-> None, cursor |-> <<0, None>>]
    BY DEF Init
  <2>2. <<0, None>> \in Nat \X (Names \cup {"content"})
    BY DEF Names
  <2>3. None \in Names /\ {} \in SUBSET open /\ 0 \in Nat
    BY DEF Names
  <2>4. [w \in Windows |-> None] \in [Windows -> alive \cup {None}]
    OBVIOUS
  <2>5. seat \in SeatOver(open, alive)
    BY <2>1, <2>2, <2>3, <2>4 DEF SeatOver
  <2>6. \A w \in Windows : seat.focus[w] = None
    BY <2>1
  <2> QED BY <2>5, <2>6 DEF OwnEdges
<1>2. Housed(open, alive)
  BY DEF Init, Housed, Surfaces, Owner, Content
<1>3. pending \in StagedOver(alive)
  BY NothingIsStaged DEF Init
<1>4. events \in Seq(EventsOver(alive))
  BY DEF Init
<1>5. Typed
  <2>1. pending = Nothing /\ framed \in BOOLEAN /\ alive = Surfaces /\ open = Windows
    BY DEF Init
  <2>2. /\ decorated = Windows /\ resizing = {} /\ at = None /\ grab = None /\ asked = None
        /\ pointer = TRUE /\ caps = TRUE /\ listening = TRUE /\ torn = FALSE
    BY DEF Init
  <2>3. moves \in 0 .. MaxMoves /\ calls \in 0 .. MaxCalls /\ entered \in Nat
    BY PointerAssumption DEF Init, PointerAssumption
  <2> QED BY <2>1, <2>2, <2>3 DEF Typed
<1> QED BY <1>1, <1>2, <1>3, <1>4, <1>5, InvIsTyped DEF Good

LEMMA DispatchKeeps ==
  ASSUME PointerInv, Dispatch
  PROVE  PointerInv'
<1> DEFINE e == Head(events)
<1>0. Typed /\ Good(seat, open, alive) /\ pending \in StagedOver(alive)
      /\ events \in Seq(EventsOver(alive)) /\ Housed(open, alive)
  BY InvIsTyped
<1>1. events # <<>> /\ Handle(e) /\ UNCHANGED <<framed, caps, at, grab, torn, moves, calls>>
  BY DEF Dispatch
<1>2. e \in EventsOver(alive) /\ Tail(events) \in Seq(EventsOver(alive))
  BY <1>0, <1>1
<1>3. Handled
  BY <1>1, <1>2, HandlersKeep
<1>4. events' \in Seq(EventsOver(alive)) /\ listening' \in BOOLEAN /\ entered' \in Nat
  <2>1. CASE e.type = "capabilities" /\ e.on /\ ~pointer /\ caps /\ at # None
    <3>1. events' = Tail(events) \o EnterOf(at) \o FrameOf /\ listening' = TRUE
          /\ entered' = entered + 1
      BY <2>1 DEF Dispatch, AfterCapabilities
    <3>2. at \in alive /\ entered \in Nat
      BY <1>0, <2>1 DEF Typed
    <3>3. EnterOf(at) \in Seq(EventsOver(alive)) /\ FrameOf \in Seq(EventsOver(alive))
      BY <3>2, EventsOfTheCompositor
    <3> QED BY <1>2, <3>1, <3>2, <3>3, ConcatThree
  <2>2. CASE ~(e.type = "capabilities" /\ e.on /\ ~pointer /\ caps /\ at # None)
    <3>1. events' = Tail(events) /\ UNCHANGED entered
          /\ listening' \in {listening, (listening \/ (e.on /\ ~pointer /\ caps))}
      BY <2>2 DEF Dispatch, AfterCapabilities
    <3> QED BY <1>0, <1>2, <3>1 DEF Typed
  <2> QED BY <2>1, <2>2
<1>5. Typed'
  BY <1>0, <1>1, <1>3, <1>4 DEF Handled, Typed, surfaces, Nothing
<1>6. UNCHANGED <<open, alive>>
  BY <1>3 DEF Handled, surfaces
<1> QED BY <1>0, <1>3, <1>4, <1>5, <1>6, NextIsTyped DEF Handled

(* Good in what is left, when nothing of it is of what is destroyed.       *)
LEMMA GoodInTheRest ==
  ASSUME NEW q, NEW S, NEW op, Good(q, open, alive),
         q.pointerSurface \notin S, \A w \in Windows : q.focus[w] \notin S,
         q.pointerFocus \in op \cup {None}, q.hovered \subseteq op
  PROVE  Good(q, op, alive \ S)
<1>1. q \in SeatOver(open, alive) /\ OwnEdges(q)
  BY DEF Good
<1>2. q.focus \in [Windows -> (alive \ S) \cup {None}]
  BY <1>1 DEF SeatOver
<1>3. q \in SeatOver(op, alive \ S)
  BY <1>1, <1>2 DEF SeatOver
<1> QED BY <1>1, <1>3 DEF Good

LEMMA DestroyedIsForgotten ==
  ASSUME PointerInv, NEW S, Destroyed(S)
  PROVE  /\ alive' = alive \ S
         /\ events' \in Seq(EventsOver(alive'))
         /\ at' \in alive' \cup {None}
<1>1. events \in Seq(EventsOver(alive)) /\ at \in alive \cup {None}
  BY DEF PointerInv, TypeOK
<1>2. alive' = alive \ S
  BY DEF Destroyed
<1>3. \A i \in DOMAIN events : events[i] \in EventsOver(alive)
  BY <1>1
<1> DEFINE f(i) == IF events[i].surface \in S THEN [events[i] EXCEPT !.surface = None]
                   ELSE events[i]
<1>4. ASSUME NEW i \in DOMAIN events PROVE f(i) \in EventsOver(alive')
  <2>1. events[i] \in EventsOver(alive)
    BY <1>3
  <2> QED BY <1>2, <2>1 DEF EventsOver
<1>5. PICK n \in Nat : DOMAIN events = 1 .. n
  BY <1>1
<1>6. events' = [i \in 1 .. n |-> f(i)]
  BY <1>5 DEF Destroyed
<1>7. events' \in Seq(EventsOver(alive'))
  <2> HIDE DEF f
  <2> QED BY <1>4, <1>5, <1>6
<1>8. at' \in alive' \cup {None}
  BY <1>1, <1>2 DEF Destroyed
<1> QED BY <1>2, <1>7, <1>8

LEMMA UnstagedIsStaged ==
  ASSUME PointerInv, NEW S, NEW T, S \subseteq T
  PROVE  /\ Unstaged(S) \in StagedOver(alive)
         /\ Unstaged(T) \in StagedOver(alive \ S)
         /\ ~framed => Unstaged(T) = Nothing
<1>1. pending \in StagedOver(alive) /\ (~framed => pending = Nothing)
  BY DEF PointerInv, TypeOK
<1> QED BY <1>1 DEF Unstaged, StagedOver, Nothing

(* Without the edges of w. *)
LEMMA WithoutEdges ==
  ASSUME PointerInv, NEW w \in Windows, NEW p, Good(p, open, alive)
  PROVE  LET q == [Invalidated(p, EdgesOf(w)) EXCEPT !.focus[w] = None]
         IN  /\ Good(q, open, alive)
             /\ q.pointerSurface \notin EdgesOf(w)
             /\ \A v \in Windows : q.focus[v] \notin EdgesOf(w)
             /\ q.hovered = p.hovered
             /\ q.pointerFocus \in {p.pointerFocus, None}
             /\ q.pointerSurface \in {p.pointerSurface, None}
             /\ \A v \in Windows : q.focus[v] \in {p.focus[v], None}
<1> DEFINE i == Invalidated(p, EdgesOf(w))
           q == [i EXCEPT !.focus[w] = None]
<1>1. /\ Good(i, open, alive) /\ i.hovered = p.hovered /\ i.focus = p.focus
      /\ i.pointerSurface \notin EdgesOf(w) \/ i.pointerSurface = None
  BY InvalidatedIsGood
<1>2. None \notin EdgesOf(w)
  BY PointerAssumption DEF PointerAssumption, EdgesOf
<1>3. i.pointerFocus \in {p.pointerFocus, None} /\ i.pointerSurface \in {p.pointerSurface, None}
  <2>1. p \in SeatOver(open, alive)
    BY DEF Good
  <2> QED BY <2>1 DEF Invalidated, SeatOver
<1> HIDE DEF i
<1>4. i \in SeatOver(open, alive) /\ OwnEdges(i)
  BY <1>1 DEF Good
<1>5. q \in SeatOver(open, alive) /\ q.focus = [i.focus EXCEPT ![w] = None]
  BY <1>4 DEF SeatOver
<1>6. /\ q.pointerSurface = i.pointerSurface /\ q.hovered = i.hovered
      /\ q.pointerFocus = i.pointerFocus
  BY <1>4 DEF SeatOver
<1>7. \A v \in Windows : q.focus[v] = IF v = w THEN None ELSE i.focus[v]
  BY <1>4, <1>5 DEF SeatOver
<1>8. \A v \in Windows : v # w => i.focus[v] \notin EdgesOf(w)
  BY <1>2, <1>4 DEF OwnEdges, EdgesOf
<1> HIDE DEF q
<1>9. OwnEdges(q)
  BY <1>4, <1>7 DEF OwnEdges
<1>10. \A v \in Windows : q.focus[v] \notin EdgesOf(w)
  BY <1>2, <1>7, <1>8
<1>11. \A v \in Windows : q.focus[v] \in {p.focus[v], None}
  BY <1>1, <1>7
<1>12. Good(q, open, alive) /\ q.pointerSurface \notin EdgesOf(w)
  BY <1>1, <1>2, <1>5, <1>6, <1>9 DEF Good
<1>13. q.hovered = p.hovered /\ q.pointerFocus \in {p.pointerFocus, None}
       /\ q.pointerSurface \in {p.pointerSurface, None}
  BY <1>1, <1>3, <1>6
<1> QED BY <1>10, <1>11, <1>12, <1>13 DEF q, i

LEMMA DestroyEdgesKeeps ==
  ASSUME PointerInv, NEW w \in Windows, DestroyEdges(w) \/ HideEdges(w)
  PROVE  PointerInv'
<1> DEFINE q == [Invalidated(seat, EdgesOf(w)) EXCEPT !.focus[w] = None]
<1>0. Typed /\ Good(seat, open, alive) /\ pending \in StagedOver(alive)
      /\ events \in Seq(EventsOver(alive)) /\ Housed(open, alive)
  BY InvIsTyped
<1>1. /\ Good(q, open, alive) /\ q.pointerSurface \notin EdgesOf(w)
      /\ \A v \in Windows : q.focus[v] \notin EdgesOf(w)
  BY <1>0, WithoutEdges
<1>2. /\ UNCHANGED <<open, resizing, pointer, framed, caps, listening, entered, grab, asked,
                     torn, moves>>
      /\ seat' = q /\ pending' = Unstaged(EdgesOf(w)) /\ decorated' = decorated \ {w}
      /\ w \in open /\ Call
  BY DEF DestroyEdges, HideEdges, compositor
<1> HIDE DEF q
<1>3. calls' \in 0 .. MaxCalls
  BY <1>0, <1>2, PointerAssumption DEF Call, Typed, PointerAssumption
<1>4. CASE Destroyed(EdgesOf(w))
  <2>1. alive' = alive \ EdgesOf(w) /\ events' \in Seq(EventsOver(alive'))
        /\ at' \in alive' \cup {None}
    BY <1>4, DestroyedIsForgotten
  <2>2. q \in SeatOver(open, alive)
    BY <1>1 DEF Good
  <2>3. Good(seat', open', alive')
    <3>1. q.pointerFocus \in open \cup {None} /\ q.hovered \subseteq open
      BY <2>2 DEF SeatOver
    <3> QED BY <1>1, <1>2, <2>1, <3>1, GoodInTheRest
  <2>4. pending' \in StagedOver(alive') /\ (~framed' => pending' = Nothing)
    BY <1>2, <2>1, UnstagedIsStaged
  <2>5. Housed(open', alive')
    <3>1. \A v \in open : Content(v) \notin EdgesOf(w)
      BY PointerAssumption DEF PointerAssumption, Content, EdgesOf
    <3> QED BY <1>0, <1>2, <2>1, <3>1 DEF Housed
  <2>6. Typed'
    <3>1. pending' = Nothing \/ framed'
      BY <2>4
    <3> QED BY <1>0, <1>2, <1>3, <2>1, <3>1 DEF Typed, Nothing
  <2> QED BY <2>1, <2>3, <2>4, <2>5, <2>6, NextIsTyped
<1>5. CASE UNCHANGED <<alive, compositor, events>>
  <2>1. pending' \in StagedOver(alive') /\ (~framed' => pending' = Nothing)
    BY <1>2, <1>5, UnstagedIsStaged
  <2>2. Typed'
    <3>1. pending' = Nothing \/ framed'
      BY <2>1
    <3> QED BY <1>0, <1>2, <1>3, <1>5, <3>1 DEF Typed, Nothing, compositor
  <2> QED BY <1>0, <1>1, <1>2, <1>5, <2>1, <2>2, NextIsTyped
<1> QED BY <1>4, <1>5 DEF DestroyEdges, HideEdges

LEMMA DestroyWindowKeeps ==
  ASSUME PointerInv, NEW w \in Windows, DestroyWindow(w)
  PROVE  PointerInv'
<1> DEFINE S == {Content(w)} \cup EdgesOf(w)
           p == Invalidated(seat, {Content(w)})
           focused == p.pointerFocus = w
           q == IF focused THEN [p EXCEPT !.pointerSurface = None, !.pointerFocus = None] ELSE p
           r == [Invalidated(q, EdgesOf(w)) EXCEPT !.focus[w] = None]
           t == [Invalidated(q, EdgesOf(w)) EXCEPT !.hovered = @ \ {w}, !.focus[w] = None]
<1>0. Typed /\ Good(seat, open, alive) /\ pending \in StagedOver(alive)
      /\ events \in Seq(EventsOver(alive)) /\ Housed(open, alive)
  BY InvIsTyped
<1>n. None # w /\ None \notin S
  BY PointerAssumption DEF PointerAssumption, Content, EdgesOf
<1>1. Good(p, open, alive) /\ p.pointerSurface # Content(w)
  BY <1>0, <1>n, InvalidatedIsGood
<1>2. /\ Good(q, open, alive) /\ q.pointerSurface # Content(w) /\ q.pointerFocus # w
  <2> DEFINE c == [p EXCEPT !.pointerSurface = None, !.pointerFocus = None]
  <2> HIDE DEF p
  <2>1. p \in SeatOver(open, alive) /\ OwnEdges(p)
    BY <1>1 DEF Good
  <2>2. c \in SeatOver(open, alive) /\ c.focus = p.focus /\ c.pointerSurface = None
        /\ c.pointerFocus = None
    BY <2>1 DEF SeatOver
  <2>3. Good(c, open, alive)
    BY <2>1, <2>2 DEF Good, OwnEdges
  <2> QED BY <1>1, <1>n, <2>2, <2>3
<1> HIDE DEF q
<1>3. /\ Good(r, open, alive) /\ r.pointerSurface \notin EdgesOf(w)
      /\ \A v \in Windows : r.focus[v] \notin EdgesOf(w)
      /\ r.pointerFocus # w /\ r.pointerSurface # Content(w)
  BY <1>2, <1>n, WithoutEdges
<1>4. \A v \in Windows : r.focus[v] # Content(w)
  <2>1. OwnEdges(r)
    BY <1>3 DEF Good
  <2>2. \A v \in Windows : Content(w) \notin EdgesOf(v)
    BY PointerAssumption DEF PointerAssumption, Content, EdgesOf
  <2> QED BY <1>n, <2>1, <2>2 DEF OwnEdges
<1>5. /\ t = [r EXCEPT !.hovered = @ \ {w}]
  <2> DEFINE i == Invalidated(q, EdgesOf(w))
  <2>1. i \in SeatOver(open, alive)
    BY <1>2, InvalidatedIsGood DEF Good
  <2> HIDE DEF i
  <2>2. [i EXCEPT !.hovered = @ \ {w}, !.focus[w] = None]
          = [[i EXCEPT !.focus[w] = None] EXCEPT !.hovered = @ \ {w}]
    BY <2>1 DEF SeatOver
  <2> QED BY <2>2 DEF i
<1> HIDE DEF r, t
<1>6. /\ Good(t, open, alive) /\ t.pointerSurface \notin S
      /\ \A v \in Windows : t.focus[v] \notin S
      /\ t.pointerFocus \in (open \ {w}) \cup {None} /\ t.hovered \subseteq open \ {w}
  <2>1. r \in SeatOver(open, alive) /\ OwnEdges(r)
    BY <1>3 DEF Good
  <2>2. t \in SeatOver(open, alive) /\ t.focus = r.focus /\ t.hovered = r.hovered \ {w}
        /\ t.pointerFocus = r.pointerFocus /\ t.pointerSurface = r.pointerSurface
    BY <1>5, <2>1 DEF SeatOver
  <2>3. Good(t, open, alive)
    BY <2>1, <2>2 DEF Good, OwnEdges
  <2>4. r.pointerFocus \in open \cup {None} /\ r.hovered \subseteq open
    BY <2>1 DEF SeatOver
  <2> QED BY <1>3, <1>4, <2>2, <2>3, <2>4
<1>7. /\ w \in open /\ Call /\ open' = open \ {w} /\ seat' = t
      /\ pending' = (IF focused THEN Nothing ELSE Unstaged(S))
      /\ torn' = (torn \/ focused)
      /\ decorated' = decorated \ {w} /\ resizing' = resizing \ {w}
      /\ Destroyed(S)
      /\ asked' = (IF asked = w THEN None ELSE asked)
      /\ grab' = (IF grab = w THEN None ELSE grab)
      /\ UNCHANGED <<pointer, framed, caps, listening, entered, moves>>
  BY DEF DestroyWindow, t, q
<1>8. alive' = alive \ S /\ events' \in Seq(EventsOver(alive')) /\ at' \in alive' \cup {None}
  BY <1>7, DestroyedIsForgotten
<1>9. Good(seat', open', alive')
  BY <1>6, <1>7, <1>8, GoodInTheRest
<1>10. pending' \in StagedOver(alive') /\ (~framed' => pending' = Nothing)
  <2>1. Nothing \in StagedOver(alive')
    BY DEF Nothing, StagedOver
  <2>2. Unstaged(S) \in StagedOver(alive') /\ (~framed => Unstaged(S) = Nothing)
    BY <1>8, UnstagedIsStaged
  <2> QED BY <1>7, <2>1, <2>2
<1>11. Housed(open', alive')
  <2>1. ASSUME NEW s \in alive \ S PROVE Owner(s) \in open \ {w}
    <3>1. s = <<Owner(s), s[2]>> /\ s[2] \in Edges \cup {"content"} /\ Owner(s) \in open
      BY <1>0 DEF Typed, Housed, Surfaces, Owner
    <3> QED BY <2>1, <3>1 DEF Content, EdgesOf
  <2>2. ASSUME NEW v \in open \ {w} PROVE Content(v) \notin S
    BY PointerAssumption DEF PointerAssumption, Content, EdgesOf
  <2> QED BY <1>0, <1>7, <1>8, <2>1, <2>2 DEF Housed
<1>12. calls' \in 0 .. MaxCalls
  BY <1>0, <1>7, PointerAssumption DEF Call, Typed, PointerAssumption
<1>13. torn' \in BOOLEAN
  BY <1>0, <1>7 DEF Typed
<1>14. asked' \in open' \cup {None} /\ grab' \in open' \cup {None}
  BY <1>0, <1>7 DEF Typed
<1>15. Typed'
  <2>1. pending' = Nothing \/ framed'
    BY <1>10
  <2>2. open' \subseteq Windows /\ decorated' \subseteq open' /\ resizing' \subseteq open'
        /\ alive' \subseteq Surfaces
    BY <1>0, <1>7, <1>8 DEF Typed
  <2>3. UNCHANGED <<pointer, framed, caps, listening, entered, moves>>
    BY <1>7
  <2> QED BY <1>0, <1>8, <1>12, <1>13, <1>14, <2>1, <2>2, <2>3 DEF Typed, Nothing
<1> QED BY <1>8, <1>9, <1>10, <1>11, <1>15, NextIsTyped

LEMMA CreateEdgesKeeps ==
  ASSUME PointerInv, NEW w \in Windows, CreateEdges(w)
  PROVE  PointerInv'
<1>0. Typed /\ Good(seat, open, alive) /\ pending \in StagedOver(alive)
      /\ events \in Seq(EventsOver(alive)) /\ Housed(open, alive)
  BY InvIsTyped
<1>1. /\ w \in open /\ Call /\ decorated' = decorated \cup {w}
      /\ alive' = alive \cup EdgesOf(w)
      /\ UNCHANGED <<open, resizing, pointer, seat, pending, framed, compositor, asked, events,
                     torn, moves>>
  BY DEF CreateEdges
<1>2. calls' \in 0 .. MaxCalls
  BY <1>0, <1>1, PointerAssumption DEF Call, Typed, PointerAssumption
<1>3. EdgesOf(w) \subseteq Surfaces /\ \A s \in EdgesOf(w) : Owner(s) = w
  BY DEF EdgesOf, Surfaces, Owner
<1>4. Housed(open', alive')
  BY <1>0, <1>1, <1>3 DEF Housed
<1>5. Good(seat', open', alive')
  <2>1. SeatOver(open, alive) \subseteq SeatOver(open, alive')
    BY <1>1 DEF SeatOver
  <2> QED BY <1>0, <1>1, <2>1 DEF Good
<1>6. pending' \in StagedOver(alive')
  BY <1>0, <1>1 DEF StagedOver
<1>7. events' \in Seq(EventsOver(alive'))
  <2>1. EventsOver(alive) \subseteq EventsOver(alive')
    BY <1>1 DEF EventsOver
  <2> QED BY <1>0, <1>1, <2>1, SeqGrows
<1>8. Typed'
  BY <1>0, <1>1, <1>2, <1>3 DEF Typed, compositor, Nothing
<1> QED BY <1>4, <1>5, <1>6, <1>7, <1>8, NextIsTyped

LEMMA SetCursorKeeps ==
  ASSUME PointerInv, NEW w \in Windows, SetCursor(w)
  PROVE  PointerInv'
<1> DEFINE q == [seat EXCEPT !.cursor = <<seat.pointerEnterSerial, "content">>]
<1>0. Typed /\ Good(seat, open, alive) /\ pending \in StagedOver(alive)
      /\ events \in Seq(EventsOver(alive)) /\ Housed(open, alive)
  BY InvIsTyped
<1>1. /\ Call /\ seat' = q
      /\ UNCHANGED <<surfaces, resizing, pointer, pending, framed, compositor, asked, events,
                     torn, moves>>
  BY DEF SetCursor
<1>2. calls' \in 0 .. MaxCalls
  BY <1>0, <1>1, PointerAssumption DEF Call, Typed, PointerAssumption
<1>3. Good(q, open, alive)
  <2>1. q \in SeatOver(open, alive) /\ q.focus = seat.focus
    BY <1>0 DEF Good, SeatOver
  <2> QED BY <1>0, <2>1 DEF Good, OwnEdges
<1> HIDE DEF q
<1>4. Typed'
  BY <1>0, <1>1, <1>2 DEF Typed, compositor, surfaces, Nothing
<1> QED BY <1>0, <1>1, <1>3, <1>4, NextIsTyped DEF surfaces

-----------------------------------------------------------------------------
(* The compositor sends events about surfaces that are alive.              *)

Acts == \/ \E s \in alive \cup {None} : Move(s)
        \/ \E type \in {"motion", "button"} : Use(type)
        \/ BeginResize \/ EndResize \/ Unplug \/ Plug

LEMMA CompositorSends ==
  ASSUME PointerInv, Acts
  PROVE  events' \in Seq(EventsOver(alive))
<1>0. Typed /\ events \in Seq(EventsOver(alive)) /\ Housed(open, alive)
  BY InvIsTyped
<1>1. /\ FrameOf \in Seq(EventsOver(alive)) /\ Leaves \in Seq(EventsOver(alive))
      /\ \A s \in alive : /\ LeaveOf(s) \in Seq(EventsOver(alive))
                          /\ EnterOf(s) \in Seq(EventsOver(alive))
      /\ \A w \in open, on \in BOOLEAN : ConfigureOf(w, on) \in Seq(EventsOver(alive))
  BY EventsOfTheCompositor
<1>2. /\ <<>> \in Seq(EventsOver(alive))
      /\ \A type \in EventTypes, s \in alive \cup {None}, on \in BOOLEAN :
            <<EventOf(type, s, 0, on)>> \in Seq(EventsOver(alive))
  <2>1. \A type \in EventTypes, s \in alive \cup {None}, on \in BOOLEAN :
            EventOf(type, s, 0, on) \in EventsOver(alive)
    BY DEF EventOf, EventsOver
  <2> QED BY <2>1, OneIsSeq
<1>3. ASSUME NEW s \in alive \cup {None}, Move(s) PROVE events' \in Seq(EventsOver(alive))
  <2> DEFINE es == IF s = None THEN <<>> ELSE EnterOf(s)
  <2>1. es \in Seq(EventsOver(alive))
    BY <1>1, <1>2
  <2>2. Send(Leaves \o es)
    BY <1>3 DEF Move
  <2> HIDE DEF es
  <2>3. Leaves \o es \in Seq(EventsOver(alive))
    BY <1>1, <2>1
  <2> QED BY <2>2, <2>3, SentIsEvents
<1>4. ASSUME NEW type \in {"motion", "button"}, Use(type)
      PROVE  events' \in Seq(EventsOver(alive))
  <2>1. <<EventOf(type, at, 0, FALSE)>> \in Seq(EventsOver(alive))
    <3>1. type \in EventTypes /\ at \in alive \cup {None}
      BY <1>0 DEF EventTypes, Typed
    <3> QED BY <1>2, <3>1
  <2> QED BY <1>4, <2>1, SentIsEvents DEF Use
<1>5. CASE BeginResize
  <2> DEFINE es == IF listening THEN LeaveOf(at) \o FrameOf ELSE <<>>
  <2>1. CASE grab = None /\ at # None /\ Owner(at) = asked
    <3>1. at \in alive /\ asked \in open
      BY <1>0, <1>5, <2>1 DEF Typed, BeginResize
    <3>2. es \in Seq(EventsOver(alive))
      <4>1. LeaveOf(at) \o FrameOf \in Seq(EventsOver(alive))
        BY <1>1, <3>1
      <4> QED BY <1>2, <4>1
    <3>3. events' = events \o es \o ConfigureOf(asked, TRUE)
      BY <1>5, <2>1 DEF BeginResize
    <3> HIDE DEF es
    <3>4. ConfigureOf(asked, TRUE) \in Seq(EventsOver(alive))
      BY <1>1, <3>1
    <3> QED BY <1>0, <3>2, <3>3, <3>4, ConcatThree
  <2>2. CASE ~(grab = None /\ at # None /\ Owner(at) = asked)
    BY <1>0, <1>5, <2>2 DEF BeginResize
  <2> QED BY <2>1, <2>2
<1>6. CASE EndResize
  <2>1. grab \in open
    BY <1>0, <1>6 DEF Typed, EndResize
  <2>2. ConfigureOf(grab, FALSE) \in Seq(EventsOver(alive))
    BY <1>1, <2>1
  <2>3. events' \in {events, events \o ConfigureOf(grab, FALSE)}
    BY <1>6 DEF EndResize
  <2> QED BY <1>0, <2>2, <2>3, SeqGrows
<1>7. CASE Unplug
  <2> DEFINE es == IF Polite /\ at # None THEN events \o LeaveOf(at) \o FrameOf ELSE events
             off == <<EventOf("capabilities", None, 0, FALSE)>>
  <2>1. es \in Seq(EventsOver(alive))
    <3>1. at # None => events \o LeaveOf(at) \o FrameOf \in Seq(EventsOver(alive))
      BY <1>0, <1>1, ConcatThree DEF Typed
    <3> QED BY <1>0, <3>1
  <2>2. off \in Seq(EventsOver(alive))
    BY <1>2 DEF EventTypes
  <2>3. events' = es \o off
    BY <1>7 DEF Unplug
  <2> HIDE DEF es, off
  <2> QED BY <2>1, <2>2, <2>3
<1>8. CASE Plug
  <2>1. EventOf("capabilities", None, 0, TRUE) \in EventsOver(alive)
    BY DEF EventOf, EventsOver, EventTypes
  <2>2. events' = Append(events, EventOf("capabilities", None, 0, TRUE))
    BY <1>8 DEF Plug
  <2> QED BY <1>0, <2>1, <2>2, SeqGrows
<1> QED BY <1>3, <1>4, <1>5, <1>6, <1>7, <1>8 DEF Acts

LEMMA CompositorKeeps ==
  ASSUME PointerInv, Acts
  PROVE  PointerInv'
<1>0. Typed /\ Good(seat, open, alive) /\ pending \in StagedOver(alive)
      /\ events \in Seq(EventsOver(alive)) /\ Housed(open, alive)
  BY InvIsTyped
<1>1. events' \in Seq(EventsOver(alive))
  BY CompositorSends
<1>2. UNCHANGED <<client, framed, torn, calls>>
  BY DEF Acts, Act, Move, Use, BeginResize, EndResize, Unplug, Plug
<1>3. moves' \in 0 .. MaxMoves
  <2>1. moves' = moves \/ (moves < MaxMoves /\ moves' = moves + 1)
    BY DEF Acts, Act, Move, Use, BeginResize, EndResize, Unplug, Plug
  <2> QED BY <1>0, <2>1, PointerAssumption DEF Typed, PointerAssumption
<1>4. at' \in alive \cup {None}
  <2>1. at' \in alive \cup {None, at}
    BY DEF Acts, Move, Use, BeginResize, EndResize, Unplug, Plug, compositor
  <2> QED BY <1>0, <2>1 DEF Typed
<1>5. entered' \in Nat
  <2>1. entered' \in {entered, entered + 1}
    BY DEF Acts, Move, Use, BeginResize, EndResize, Unplug, Plug, compositor
  <2> QED BY <1>0, <2>1 DEF Typed
<1>6. grab' \in {grab, asked, None} /\ asked' \in {asked, None}
  BY DEF Acts, Move, Use, BeginResize, EndResize, Unplug, Plug, compositor
<1>7. caps' \in {caps, TRUE, FALSE} /\ listening' \in {listening, FALSE}
  BY DEF Acts, Move, Use, BeginResize, EndResize, Unplug, Plug, compositor
<1>8. UNCHANGED <<open, alive, decorated, resizing, pointer, seat, pending>>
  BY <1>2 DEF client, surfaces
<1>9. Typed'
  BY <1>0, <1>2, <1>3, <1>4, <1>5, <1>6, <1>7, <1>8 DEF Typed, Nothing
<1> QED BY <1>0, <1>1, <1>8, <1>9, NextIsTyped

-----------------------------------------------------------------------------
LEMMA PointerInvariant == Spec => []PointerInv
<1>1. Init => PointerInv
  BY InitIsGood
<1>2. PointerInv /\ [Next]_vars => PointerInv'
  <2> SUFFICES ASSUME PointerInv, [Next]_vars PROVE PointerInv'
    OBVIOUS
  <2>1. CASE Dispatch
    BY <2>1, DispatchKeeps
  <2>2. ASSUME NEW w \in Windows, DestroyEdges(w) \/ HideEdges(w) PROVE PointerInv'
    BY <2>2, DestroyEdgesKeeps
  <2>3. ASSUME NEW w \in Windows, CreateEdges(w) PROVE PointerInv'
    BY <2>3, CreateEdgesKeeps
  <2>4. ASSUME NEW w \in Windows, DestroyWindow(w) PROVE PointerInv'
    BY <2>4, DestroyWindowKeeps
  <2>5. ASSUME NEW w \in Windows, SetCursor(w) PROVE PointerInv'
    BY <2>5, SetCursorKeeps
  <2>6. CASE Acts
    BY <2>6, CompositorKeeps
  <2>7. CASE UNCHANGED vars
    BY <2>7 DEF vars, client, surfaces, compositor, PointerInv, TypeOK, Good, SeatOver, OwnEdges,
           StagedOver, EventsOver, Housed, Nothing
  <2> QED BY <2>1, <2>2, <2>3, <2>4, <2>5, <2>6, <2>7 DEF Next, Acts
<1> QED BY <1>1, <1>2, PTL DEF Spec

(* Type correctness, and nothing is staged for a pointer without frames.   *)
THEOREM PointerTypeCorrect == Spec => []TypeOK
<1>1. PointerInv => TypeOK
  BY DEF PointerInv
<1> QED BY <1>1, PointerInvariant, PTL

(* The seat refers to nothing that was destroyed (invalidatePointerSurface *)
(* and its callers).                                                       *)
THEOREM NoPointerDangles == Spec => []NoDangling
<1>1. PointerInv => NoDangling
  BY DEF PointerInv, Good, SeatOver, StagedOver, NoDangling
<1> QED BY <1>1, PointerInvariant, PTL

-----------------------------------------------------------------------------
(***************************************************************************)
(* What is on the way to the client, q, is the way from what it knows to   *)
(* what the compositor does.                                               *)
(***************************************************************************)

(* The surface that is told to be under the pointer. *)
Seen == IF listening THEN at ELSE None

(* The events that change the surface under the pointer, or start a resize. *)
Relevant(e) ==
  \/ e.type \in {"enter", "leave"} /\ e.surface # None
  \/ e.type = "capabilities" /\ ~e.on
  \/ e.type = "configure" /\ e.on
Enters(e) == e.type = "enter" /\ e.surface # None
LeaveFor(e, X) == e.type = "leave" /\ e.surface = X
Closed(q, i, X, j) == \E l \in i + 1 .. j : LeaveFor(q[l], X)
Quiet(q, i) == \A j \in i + 1 .. Len(q) : ~Relevant(q[j])

(* X is entered at i, with that serial: the leave for it comes before      *)
(* anything else about the pointer, unless nothing does and X is S, the    *)
(* surface that is under the pointer since the enter n.                    *)
Opened(q, i, X, serial, S, n) ==
  /\ X # S => Closed(q, i, X, Len(q))
  /\ \A j \in i + 1 .. Len(q) : Relevant(q[j]) => Closed(q, i, X, j)
  /\ Quiet(q, i) => serial = n

(* So it is with the surface E that the client has, and with each enter.   *)
Track(q, E, serial, S, n) ==
  /\ E # None => Opened(q, 0, E, serial, S, n)
  /\ \A i \in 1 .. Len(q) : Enters(q[i]) => Opened(q, i, q[i].surface, q[i].serial, S, n)
Reach(q, E, S) ==
  \/ E = S /\ Quiet(q, 0)
  \/ \E i \in 1 .. Len(q) : Enters(q[i]) /\ q[i].surface = S /\ Quiet(q, i)

(* After what is staged comes a frame, before the pointer is lost.         *)
Stage(e) == e.type \in {"enter", "leave", "motion", "button"}
Capable(e) == e.type = "capabilities"
FrameComes(q, i) ==
  \E j \in i + 1 .. Len(q) : /\ q[j].type = "frame"
                             /\ \A l \in i + 1 .. j : ~Capable(q[l])
Frames(q, staged) ==
  /\ staged # {} => FrameComes(q, 0)
  /\ \A i \in 1 .. Len(q) : Stage(q[i]) => FrameComes(q, i)

(* No event of the pointer that is lost is behind the loss; a pointer that *)
(* comes, comes last.                                                      *)
CapsTrue(q, listens, ptr, has) ==
  /\ listens => ptr /\ has /\ \A i \in 1 .. Len(q) : ~Capable(q[i])
  /\ ~has => \A i \in 1 .. Len(q) : Capable(q[i]) => ~q[i].on
  /\ \A i, j \in 1 .. Len(q) :
        i < j /\ Capable(q[i]) /\ Capable(q[j]) => ~q[i].on /\ q[j].on

(* The seat p knows one surface, and its cursor is the one for it.         *)
SeatTrue(p, dec) ==
  /\ \A w \in Windows : w \in p.hovered <=> p.pointerSurface = Content(w)
  /\ p.pointerSurface # None => p.pointerFocus = Owner(p.pointerSurface)
  /\ \A w \in Windows : p.focus[w] # None => w \in dec
Shown(p) ==
  LET s == p.pointerSurface
      w == Owner(s)
  IN  /\ s = Content(w) => p.cursor = <<p.pointerEnterSerial, "content">>
      /\ s # Content(w) /\ p.focus[w] # None =>
            /\ p.focus[w] = s /\ p.cursorPreviousName = s[2]
            /\ p.cursor = <<p.pointerEnterSerial, s[2]>>
CursorTrue(p, staged, t) ==
  ~t => /\ p.pointerSurface = None => p.cursorPreviousName = None
        /\ p.pointerSurface # None /\ "surface" \notin staged.events => Shown(p)

(* What is staged with a surface is staged with a motion.                  *)
StageTrue(staged) ==
  /\ "surface" \in staged.events /\ staged.surface # None => "motion" \in staged.events
  /\ "surface" \notin staged.events => staged.surface = None

Tracked ==
  /\ Track(events, EffectiveSurface, seat.pointerEnterSerial, Seen, entered)
  /\ EffectiveSurface # None => Owner(EffectiveSurface) \notin resizing
Reached ==
  ~torn => \A w \in open : Seen = Content(w) => Reach(events, EffectiveSurface, Seen)
FramesCome == framed => Frames(events, pending.events)
CapsInv == CapsTrue(events, listening, pointer, caps)
ClientInv == SeatTrue(seat, decorated) /\ StageTrue(pending) /\ CursorTrue(seat, pending, torn)

TrackInv == Tracked /\ Reached /\ FramesCome /\ CapsInv /\ ClientInv
-----------------------------------------------------------------------------
(* An event more at the end, ... *)
Longer(q, r, e) ==
  /\ Len(q) \in Nat /\ Len(r) = Len(q) + 1
  /\ \A i \in 1 .. Len(q) : r[i] = q[i]
  /\ r[Len(q) + 1] = e

LEMMA AppendIsLonger ==
  ASSUME NEW T, NEW q \in Seq(T), NEW e \in T
  PROVE  Longer(q, Append(q, e), e) /\ Longer(q, q \o <<e>>, e)
BY DEF Longer

LEMMA ClosedStays ==
  ASSUME NEW q, NEW r, NEW e, Longer(q, r, e), NEW i \in Nat, NEW X, NEW j \in Nat,
         j <= Len(q), Closed(q, i, X, j)
  PROVE  /\ Closed(r, i, X, j) /\ Closed(r, i, X, Len(r))
         /\ \A k \in Nat : j <= k => Closed(r, i, X, k)
<1>1. PICK l \in i + 1 .. j : LeaveFor(q[l], X)
  BY DEF Closed
<1>2. Len(q) \in Nat /\ Len(r) = Len(q) + 1 /\ r[l] = q[l] /\ l \in Int
  BY <1>1 DEF Longer
<1>3. \A k \in Nat : j <= k => l \in i + 1 .. k
  BY <1>1
<1>4. \A k \in Nat : j <= k => Closed(r, i, X, k)
  BY <1>1, <1>2, <1>3 DEF Closed
<1> QED BY <1>2, <1>4

LEMMA ClosedIsLoud ==
  ASSUME NEW q, NEW i \in Nat, NEW X, X # None, NEW j \in Nat, Len(q) \in Nat, j <= Len(q),
         Closed(q, i, X, j)
  PROVE  ~Quiet(q, i)
<1>1. PICK l \in i + 1 .. j : LeaveFor(q[l], X)
  BY DEF Closed
<1>2. l \in i + 1 .. Len(q) /\ Relevant(q[l])
  BY <1>1 DEF LeaveFor, Relevant
<1> QED BY <1>2 DEF Quiet

(* What is left before, or is left now, was opened rightly whatever comes. *)
LEMMA OpenedGrows ==
  ASSUME NEW q, NEW r, NEW e, Longer(q, r, e), NEW i \in Nat, i <= Len(q), NEW X, X # None,
         NEW serial, NEW S, NEW n, NEW S2, NEW n2, Opened(q, i, X, serial, S, n),
         X = S => LeaveFor(e, X)
  PROVE  Opened(r, i, X, serial, S2, n2)
<1>0. Len(q) \in Nat /\ Len(r) = Len(q) + 1 /\ \A j \in 1 .. Len(q) : r[j] = q[j]
  BY DEF Longer
<1>1. Closed(r, i, X, Len(r))
  <2>1. CASE X = S
    <3>1. LeaveFor(r[Len(r)], X) /\ Len(r) \in i + 1 .. Len(r)
      BY <1>0, <2>1 DEF Longer
    <3> QED BY <3>1 DEF Closed
  <2>2. CASE X # S
    BY <1>0, <2>2, ClosedStays DEF Opened
  <2> QED BY <2>1, <2>2
<1>2. ASSUME NEW j \in i + 1 .. Len(r), Relevant(r[j]) PROVE Closed(r, i, X, j)
  <2>1. CASE j <= Len(q)
    BY <1>0, <1>2, <2>1, ClosedStays DEF Opened
  <2>2. CASE j > Len(q)
    <3>1. j = Len(r)
      BY <1>0, <1>2, <2>2
    <3> QED BY <1>1, <3>1
  <2> QED BY <2>1, <2>2
<1>3. ~Quiet(r, i)
  BY <1>0, <1>1, ClosedIsLoud
<1> QED BY <1>1, <1>2, <1>3 DEF Opened

LEMMA QuietGrows ==
  ASSUME NEW q, NEW r, NEW e, Longer(q, r, e), NEW i \in Nat
  PROVE  /\ Quiet(r, i) => Quiet(q, i)
         /\ Quiet(q, i) /\ ~Relevant(e) => Quiet(r, i)
         /\ i = Len(r) => Quiet(r, i)
<1>0. Len(q) \in Nat /\ Len(r) = Len(q) + 1 /\ (\A j \in 1 .. Len(q) : r[j] = q[j])
      /\ r[Len(q) + 1] = e
  BY DEF Longer
<1>1. ASSUME Quiet(r, i), NEW j \in i + 1 .. Len(q) PROVE ~Relevant(q[j])
  BY <1>0, <1>1 DEF Quiet
<1>2. ASSUME Quiet(q, i), ~Relevant(e), NEW j \in i + 1 .. Len(r) PROVE ~Relevant(r[j])
  <2>1. j = Len(q) + 1 \/ j \in 1 .. Len(q)
    BY <1>0
  <2> QED BY <1>0, <1>2, <2>1 DEF Quiet
<1> QED BY <1>0, <1>1, <1>2 DEF Quiet

LEMMA OpenedStays ==
  ASSUME NEW q, NEW r, NEW e, Longer(q, r, e), NEW i \in Nat, NEW X,
         NEW serial, NEW S, NEW n, Opened(q, i, X, serial, S, n), ~Relevant(e)
  PROVE  Opened(r, i, X, serial, S, n)
<1>0. Len(q) \in Nat /\ Len(r) = Len(q) + 1 /\ (\A j \in 1 .. Len(q) : r[j] = q[j])
      /\ r[Len(q) + 1] = e
  BY DEF Longer
<1>1. X # S => Closed(r, i, X, Len(r))
  BY <1>0, ClosedStays DEF Opened
<1>2. ASSUME NEW j \in i + 1 .. Len(r), Relevant(r[j]) PROVE Closed(r, i, X, j)
  <2>1. j <= Len(q)
    BY <1>0, <1>2
  <2> QED BY <1>0, <1>2, <2>1, ClosedStays DEF Opened
<1>3. Quiet(r, i) => serial = n
  BY QuietGrows DEF Opened
<1> QED BY <1>1, <1>2, <1>3 DEF Opened

LEMMA TrackGrows ==
  ASSUME NEW q, NEW r, NEW e, Longer(q, r, e), NEW E, NEW serial, NEW S, NEW n,
         Track(q, E, serial, S, n), NEW S2, NEW n2,
         S # None => LeaveFor(e, S),
         Enters(e) => e.surface = S2 /\ e.serial = n2
  PROVE  Track(r, E, serial, S2, n2)
<1>0. Len(q) \in Nat /\ Len(r) = Len(q) + 1 /\ (\A j \in 1 .. Len(q) : r[j] = q[j])
      /\ r[Len(q) + 1] = e
  BY DEF Longer
<1>1. E # None => Opened(r, 0, E, serial, S2, n2)
  BY <1>0, OpenedGrows DEF Track
<1>2. ASSUME NEW i \in 1 .. Len(r), Enters(r[i])
      PROVE  Opened(r, i, r[i].surface, r[i].serial, S2, n2)
  <2>1. CASE i <= Len(q)
    <3>1. r[i] = q[i] /\ q[i].surface # None /\ i \in Nat /\ i \in 1 .. Len(q)
      BY <1>0, <1>2, <2>1 DEF Enters
    <3>2. Opened(q, i, q[i].surface, q[i].serial, S, n)
      BY <1>2, <3>1 DEF Track
    <3> QED BY <2>1, <3>1, <3>2, OpenedGrows
  <2>2. CASE i > Len(q)
    <3>1. i = Len(r) /\ r[i] = e
      BY <1>0, <2>2
    <3>2. i + 1 .. Len(r) = {}
      BY <1>0, <3>1
    <3> QED BY <1>2, <3>1, <3>2 DEF Opened
  <2> QED BY <2>1, <2>2
<1> QED BY <1>1, <1>2 DEF Track

LEMMA TrackStays ==
  ASSUME NEW q, NEW r, NEW e, Longer(q, r, e), NEW E, NEW serial, NEW S, NEW n,
         Track(q, E, serial, S, n), ~Relevant(e)
  PROVE  /\ Track(r, E, serial, S, n)
         /\ Reach(q, E, S) => Reach(r, E, S)
<1>0. Len(q) \in Nat /\ Len(r) = Len(q) + 1 /\ (\A j \in 1 .. Len(q) : r[j] = q[j])
      /\ r[Len(q) + 1] = e
  BY DEF Longer
<1>1. E # None => Opened(r, 0, E, serial, S, n)
  BY OpenedStays DEF Track
<1>2. ASSUME NEW i \in 1 .. Len(r), Enters(r[i])
      PROVE  Opened(r, i, r[i].surface, r[i].serial, S, n)
  <2>1. i \in 1 .. Len(q) /\ r[i] = q[i] /\ i \in Nat
    BY <1>0, <1>2 DEF Enters, Relevant
  <2> QED BY <1>2, <2>1, OpenedStays DEF Track
<1>3. ASSUME E = S, Quiet(q, 0) PROVE Quiet(r, 0)
  BY <1>3, QuietGrows
<1>4. ASSUME NEW i \in 1 .. Len(q), Enters(q[i]), q[i].surface = S, Quiet(q, i)
      PROVE  Reach(r, E, S)
  <2>1. i \in 1 .. Len(r) /\ r[i] = q[i] /\ Quiet(r, i)
    BY <1>0, <1>4, QuietGrows
  <2> QED BY <1>4, <2>1 DEF Reach
<1>5. Reach(q, E, S) => Reach(r, E, S)
  BY <1>3, <1>4 DEF Reach
<1> QED BY <1>1, <1>2, <1>5 DEF Track

LEMMA ReachedAtLast ==
  ASSUME NEW q, NEW r, NEW e, Longer(q, r, e), Enters(e), NEW E
  PROVE  Reach(r, E, e.surface)
<1>1. Len(r) \in 1 .. Len(r) /\ r[Len(r)] = e /\ Len(r) + 1 .. Len(r) = {}
  BY DEF Longer
<1> QED BY <1>1 DEF Reach, Quiet

LEMMA FrameStays ==
  ASSUME NEW q, NEW r, NEW e, Longer(q, r, e), NEW i \in Nat, FrameComes(q, i)
  PROVE  FrameComes(r, i)
<1>0. Len(q) \in Nat /\ Len(r) = Len(q) + 1 /\ (\A j \in 1 .. Len(q) : r[j] = q[j])
  BY DEF Longer
<1>1. PICK j \in i + 1 .. Len(q) : q[j].type = "frame" /\ \A l \in i + 1 .. j : ~Capable(q[l])
  BY DEF FrameComes
<1>2. j \in i + 1 .. Len(r) /\ r[j].type = "frame" /\ \A l \in i + 1 .. j : ~Capable(r[l])
  BY <1>0, <1>1
<1> QED BY <1>2 DEF FrameComes

LEMMA FramesStay ==
  ASSUME NEW q, NEW r, NEW e, Longer(q, r, e), NEW P, Frames(q, P), ~Stage(e)
  PROVE  Frames(r, P)
<1>0. Len(q) \in Nat /\ Len(r) = Len(q) + 1 /\ (\A j \in 1 .. Len(q) : r[j] = q[j])
      /\ r[Len(q) + 1] = e
  BY DEF Longer
<1>1. P # {} => FrameComes(r, 0)
  BY FrameStays DEF Frames
<1>2. ASSUME NEW i \in 1 .. Len(r), Stage(r[i]) PROVE FrameComes(r, i)
  <2>1. i \in 1 .. Len(q) /\ r[i] = q[i]
    BY <1>0, <1>2
  <2> QED BY <1>2, <2>1, FrameStays DEF Frames
<1> QED BY <1>1, <1>2 DEF Frames

(* Up to m every stage has its frame, and the next frame is one for the rest. *)
Unframed(q, staged, m) ==
  /\ staged # {} => FrameComes(q, 0)
  /\ \A i \in 1 .. m : Stage(q[i]) => FrameComes(q, i)
  /\ \A i \in m + 1 .. Len(q) : ~Capable(q[i])

LEMMA UnframedStays ==
  ASSUME NEW q, NEW r, NEW e, Longer(q, r, e), NEW P, NEW m \in Nat, m <= Len(q),
         Unframed(q, P, m), ~Capable(e)
  PROVE  Unframed(r, P, m)
<1>0. Len(q) \in Nat /\ Len(r) = Len(q) + 1 /\ (\A j \in 1 .. Len(q) : r[j] = q[j])
      /\ r[Len(q) + 1] = e
  BY DEF Longer
<1>1. P # {} => FrameComes(r, 0)
  BY FrameStays DEF Unframed
<1>2. ASSUME NEW i \in 1 .. m, Stage(r[i]) PROVE FrameComes(r, i)
  <2>1. i \in Nat /\ r[i] = q[i]
    BY <1>0
  <2> QED BY <1>2, <2>1, FrameStays DEF Unframed
<1>3. ASSUME NEW i \in m + 1 .. Len(r) PROVE ~Capable(r[i])
  <2>1. i = Len(q) + 1 \/ (i \in m + 1 .. Len(q) /\ i \in 1 .. Len(q))
    BY <1>0
  <2> QED BY <1>0, <2>1 DEF Unframed
<1> QED BY <1>1, <1>2, <1>3 DEF Unframed

LEMMA FrameAtLast ==
  ASSUME NEW q, NEW r, NEW e, Longer(q, r, e), NEW P, NEW m \in Nat, m <= Len(q),
         Unframed(q, P, m), e.type = "frame"
  PROVE  Frames(r, P)
<1>0. Len(q) \in Nat /\ Len(r) = Len(q) + 1 /\ (\A j \in 1 .. Len(q) : r[j] = q[j])
      /\ r[Len(q) + 1] = e /\ ~Capable(e) /\ ~Stage(e)
  BY DEF Longer, Capable, Stage
<1>1. Unframed(r, P, m)
  BY <1>0, UnframedStays
<1>2. ASSUME NEW i \in 1 .. Len(r), Stage(r[i]) PROVE FrameComes(r, i)
  <2>1. CASE i <= m
    BY <1>1, <1>2, <2>1 DEF Unframed
  <2>2. CASE i > m
    <3>1. i # Len(r)
      BY <1>0, <1>2
    <3>2. Len(r) \in i + 1 .. Len(r) /\ r[Len(r)].type = "frame"
      BY <1>0, <3>1
    <3>3. \A l \in i + 1 .. Len(r) : ~Capable(r[l])
      BY <1>1, <2>2 DEF Unframed
    <3> QED BY <3>2, <3>3 DEF FrameComes
  <2> QED BY <2>1, <2>2
<1> QED BY <1>1, <1>2 DEF Frames, Unframed

LEMMA FramesAreUnframed ==
  ASSUME NEW q, NEW P, Len(q) \in Nat
  PROVE  Frames(q, P) <=> Unframed(q, P, Len(q))
<1>1. Len(q) + 1 .. Len(q) = {}
  OBVIOUS
<1> QED BY <1>1 DEF Frames, Unframed

-----------------------------------------------------------------------------
(* ... an event less at the head, ... *)
Shorter(q, t) ==
  /\ Len(q) \in Nat \ {0} /\ Len(t) = Len(q) - 1
  /\ \A i \in 1 .. Len(t) : t[i] = q[i + 1]

LEMMA TailIsShorter ==
  ASSUME NEW T, NEW q \in Seq(T), q # <<>>
  PROVE  Shorter(q, Tail(q)) /\ Head(q) = q[1]
BY DEF Shorter

LEMMA ShorterAt ==
  ASSUME NEW q, NEW t, Shorter(q, t)
  PROVE  /\ Len(t) \in Nat /\ Len(q) = Len(t) + 1
         /\ \A i \in 1 .. Len(t) : t[i] = q[i + 1] /\ i + 1 \in 1 .. Len(q)
         /\ \A i \in 2 .. Len(q) : q[i] = t[i - 1] /\ i - 1 \in 1 .. Len(t)
BY DEF Shorter

LEMMA QuietShifts ==
  ASSUME NEW q, NEW t, Shorter(q, t), NEW i \in Nat
  PROVE  /\ Quiet(q, i + 1) <=> Quiet(t, i)
         /\ Quiet(q, 0) <=> ~Relevant(q[1]) /\ Quiet(t, 0)
<1>1. ASSUME NEW k \in Nat, Quiet(q, k + 1), NEW j \in k + 1 .. Len(t) PROVE ~Relevant(t[j])
  <2>1. j + 1 \in (k + 1) + 1 .. Len(q) /\ t[j] = q[j + 1]
    BY ShorterAt
  <2> QED BY <1>1, <2>1 DEF Quiet
<1>2. ASSUME NEW k \in Nat, Quiet(t, k), NEW j \in (k + 1) + 1 .. Len(q) PROVE ~Relevant(q[j])
  <2>1. j - 1 \in k + 1 .. Len(t) /\ q[j] = t[j - 1]
    BY ShorterAt
  <2> QED BY <1>2, <2>1 DEF Quiet
<1>3. \A k \in Nat : Quiet(q, k + 1) <=> Quiet(t, k)
  BY <1>1, <1>2 DEF Quiet
<1>4. Quiet(q, 0) <=> ~Relevant(q[1]) /\ Quiet(q, 1)
  <2>1. Len(q) \in Nat \ {0}
    BY DEF Shorter
  <2>2. \A j \in Int : j \in 0 + 1 .. Len(q) <=> j = 1 \/ j \in 1 + 1 .. Len(q)
    BY <2>1
  <2> QED BY <2>2 DEF Quiet
<1>5. Quiet(q, 0 + 1) <=> Quiet(t, 0)
  BY <1>3
<1> QED BY <1>3, <1>4, <1>5

LEMMA ClosedShifts ==
  ASSUME NEW q, NEW t, Shorter(q, t), NEW i \in Nat, NEW X, NEW j \in Nat, j <= Len(t)
  PROVE  /\ Closed(q, i + 1, X, j + 1) => Closed(t, i, X, j)
         /\ Closed(q, 0, X, j + 1) /\ ~LeaveFor(q[1], X) => Closed(t, 0, X, j)
<1>1. ASSUME Closed(q, i + 1, X, j + 1) PROVE Closed(t, i, X, j)
  <2>1. PICK l \in (i + 1) + 1 .. j + 1 : LeaveFor(q[l], X)
    BY <1>1 DEF Closed
  <2>2. l - 1 \in i + 1 .. j /\ q[l] = t[l - 1]
    BY ShorterAt
  <2> QED BY <2>1, <2>2 DEF Closed
<1>2. ASSUME Closed(q, 0, X, j + 1), ~LeaveFor(q[1], X) PROVE Closed(t, 0, X, j)
  <2>1. PICK l \in 0 + 1 .. j + 1 : LeaveFor(q[l], X)
    BY <1>2 DEF Closed
  <2>2. l # 1
    BY <1>2, <2>1
  <2>3. l - 1 \in 0 + 1 .. j /\ q[l] = t[l - 1]
    BY <2>2, ShorterAt
  <2> QED BY <2>1, <2>3 DEF Closed
<1> QED BY <1>1, <1>2

LEMMA OpenedShifts ==
  ASSUME NEW q, NEW t, Shorter(q, t), NEW i \in Nat, NEW X, NEW serial, NEW S, NEW n,
         Opened(q, i + 1, X, serial, S, n)
  PROVE  Opened(t, i, X, serial, S, n)
<1>0. Len(t) \in Nat /\ Len(q) = Len(t) + 1
  BY ShorterAt
<1>1. X # S => Closed(t, i, X, Len(t))
  BY <1>0, ClosedShifts DEF Opened
<1>2. ASSUME NEW j \in i + 1 .. Len(t), Relevant(t[j]) PROVE Closed(t, i, X, j)
  <2>1. j \in Nat /\ j + 1 \in (i + 1) + 1 .. Len(q) /\ t[j] = q[j + 1] /\ j <= Len(t)
    BY ShorterAt
  <2> QED BY <1>2, <2>1, ClosedShifts DEF Opened
<1>3. Quiet(t, i) => serial = n
  BY QuietShifts DEF Opened
<1> QED BY <1>1, <1>2, <1>3 DEF Opened

LEMMA OpenedGoesOn ==
  ASSUME NEW q, NEW t, Shorter(q, t), NEW X, NEW serial, NEW S, NEW n,
         Opened(q, 0, X, serial, S, n), X # None, ~Relevant(q[1])
  PROVE  Opened(t, 0, X, serial, S, n)
<1>0. Len(t) \in Nat /\ Len(q) = Len(t) + 1 /\ ~LeaveFor(q[1], X)
  BY ShorterAt DEF LeaveFor, Relevant
<1>1. X # S => Closed(t, 0, X, Len(t))
  BY <1>0, ClosedShifts DEF Opened
<1>2. ASSUME NEW j \in 0 + 1 .. Len(t), Relevant(t[j]) PROVE Closed(t, 0, X, j)
  <2>1. j \in Nat /\ j + 1 \in 0 + 1 .. Len(q) /\ t[j] = q[j + 1] /\ j <= Len(t)
    BY ShorterAt
  <2> QED BY <1>0, <1>2, <2>1, ClosedShifts DEF Opened
<1>3. Quiet(t, 0) => serial = n
  BY QuietShifts DEF Opened
<1> QED BY <1>1, <1>2, <1>3 DEF Opened

LEMMA EntersShift ==
  ASSUME NEW q, NEW t, Shorter(q, t), NEW E, NEW serial, NEW S, NEW n,
         Track(q, E, serial, S, n), NEW i \in 1 .. Len(t), Enters(t[i])
  PROVE  Opened(t, i, t[i].surface, t[i].serial, S, n)
<1>1. i + 1 \in 1 .. Len(q) /\ t[i] = q[i + 1] /\ i \in Nat
  BY ShorterAt
<1>2. Opened(q, i + 1, t[i].surface, t[i].serial, S, n)
  BY <1>1 DEF Track
<1> QED BY <1>1, <1>2, OpenedShifts

(* The head is of no concern, ... *)
LEMMA TrackGoesOn ==
  ASSUME NEW q, NEW t, Shorter(q, t), NEW E, NEW serial, NEW S, NEW n,
         Track(q, E, serial, S, n), ~Relevant(q[1])
  PROVE  /\ Track(t, E, serial, S, n)
         /\ Reach(q, E, S) => Reach(t, E, S)
<1>1. E # None => Opened(t, 0, E, serial, S, n)
  BY OpenedGoesOn DEF Track
<1>2. Quiet(q, 0) => Quiet(t, 0)
  BY QuietShifts
<1>3. ASSUME NEW i \in 1 .. Len(q), Enters(q[i]), q[i].surface = S, Quiet(q, i)
      PROVE  Reach(t, E, S)
  <2>1. i # 1
    BY <1>3 DEF Enters, Relevant
  <2>2. i - 1 \in 1 .. Len(t) /\ q[i] = t[i - 1] /\ i - 1 \in Nat /\ (i - 1) + 1 = i
    BY <2>1, ShorterAt
  <2>3. Quiet(t, i - 1)
    BY <1>3, <2>2, QuietShifts
  <2> QED BY <1>3, <2>2, <2>3 DEF Reach
<1> QED BY <1>1, <1>2, <1>3, EntersShift DEF Track, Reach

(* ... or it leaves the surface that the client has, and so it has none, ... *)
LEMMA TrackEnds ==
  ASSUME NEW q, NEW t, Shorter(q, t), NEW E, NEW serial, NEW S, NEW n,
         Track(q, E, serial, S, n), Relevant(q[1])
  PROVE  /\ E # None => LeaveFor(q[1], E)
         /\ \A k : Track(t, None, k, S, n)
         /\ Reach(q, E, S) /\ ~Enters(q[1]) => Reach(t, None, S)
<1>1. ASSUME E # None PROVE LeaveFor(q[1], E)
  <2>1. 1 \in 0 + 1 .. Len(q)
    BY DEF Shorter
  <2>2. Closed(q, 0, E, 1)
    BY <1>1, <2>1 DEF Track, Opened
  <2> QED BY <2>2 DEF Closed
<1>2. ~Quiet(q, 0)
  BY QuietShifts
<1>3. ASSUME NEW i \in 1 .. Len(q), Enters(q[i]), q[i].surface = S, Quiet(q, i), ~Enters(q[1])
      PROVE  Reach(t, None, S)
  <2>1. i # 1
    BY <1>3
  <2>2. i - 1 \in 1 .. Len(t) /\ q[i] = t[i - 1] /\ i - 1 \in Nat /\ (i - 1) + 1 = i
    BY <2>1, ShorterAt
  <2>3. Quiet(t, i - 1)
    BY <1>3, <2>2, QuietShifts
  <2> QED BY <1>3, <2>2, <2>3 DEF Reach
<1> QED BY <1>1, <1>2, <1>3, EntersShift DEF Track, Reach

(* ... before another is entered.                                          *)
LEMMA TrackBegins ==
  ASSUME NEW q, NEW t, Shorter(q, t), NEW E, NEW serial, NEW S, NEW n,
         Track(q, E, serial, S, n), Enters(q[1])
  PROVE  /\ E = None
         /\ Track(t, q[1].surface, q[1].serial, S, n)
         /\ Reach(q, E, S) => Reach(t, q[1].surface, S)
<1>1. Relevant(q[1]) /\ 1 \in 1 .. Len(q)
  BY DEF Enters, Relevant, Shorter
<1>2. E = None
  BY <1>1, TrackEnds DEF LeaveFor, Enters
<1>3. Opened(t, 0, q[1].surface, q[1].serial, S, n)
  <2>1. Opened(q, 0 + 1, q[1].surface, q[1].serial, S, n)
    BY <1>1 DEF Track
  <2> QED BY <2>1, OpenedShifts
<1>4. Quiet(q, 1) => Quiet(t, 0)
  <2>1. Quiet(q, 0 + 1) => Quiet(t, 0)
    BY QuietShifts
  <2> QED BY <2>1
<1>5. ~Quiet(q, 0)
  BY <1>1, QuietShifts
<1>6. ASSUME NEW i \in 1 .. Len(q), Enters(q[i]), q[i].surface = S, Quiet(q, i)
      PROVE  Reach(t, q[1].surface, S)
  <2>1. CASE i = 1
    BY <1>4, <1>6, <2>1 DEF Reach
  <2>2. CASE i # 1
    <3>1. i - 1 \in 1 .. Len(t) /\ q[i] = t[i - 1] /\ i - 1 \in Nat /\ (i - 1) + 1 = i
      BY <2>2, ShorterAt
    <3>2. Quiet(t, i - 1)
      BY <1>6, <3>1, QuietShifts
    <3> QED BY <1>6, <3>1, <3>2 DEF Reach
  <2> QED BY <2>1, <2>2
<1> QED BY <1>2, <1>3, <1>5, <1>6, EntersShift DEF Track, Reach

LEMMA FrameShifts ==
  ASSUME NEW q, NEW t, Shorter(q, t), NEW i \in Nat
  PROVE  /\ FrameComes(q, i + 1) => FrameComes(t, i)
         /\ FrameComes(q, 0) /\ q[1].type # "frame" => ~Capable(q[1]) /\ FrameComes(t, 0)
<1>1. ASSUME FrameComes(q, i + 1) PROVE FrameComes(t, i)
  <2>1. PICK j \in (i + 1) + 1 .. Len(q) :
            q[j].type = "frame" /\ \A l \in (i + 1) + 1 .. j : ~Capable(q[l])
    BY <1>1 DEF FrameComes
  <2>2. j - 1 \in i + 1 .. Len(t) /\ t[j - 1].type = "frame"
    BY <2>1, ShorterAt
  <2>3. \A l \in i + 1 .. j - 1 : ~Capable(t[l])
    <3> TAKE l \in i + 1 .. j - 1
    <3>1. l + 1 \in (i + 1) + 1 .. j /\ t[l] = q[l + 1]
      BY ShorterAt
    <3> QED BY <2>1, <3>1
  <2> QED BY <2>2, <2>3 DEF FrameComes
<1>2. ASSUME FrameComes(q, 0), q[1].type # "frame"
      PROVE  ~Capable(q[1]) /\ FrameComes(t, 0)
  <2>1. PICK j \in 0 + 1 .. Len(q) :
            q[j].type = "frame" /\ \A l \in 0 + 1 .. j : ~Capable(q[l])
    BY <1>2 DEF FrameComes
  <2>2. j # 1 /\ 1 \in 0 + 1 .. j
    BY <1>2, <2>1
  <2>3. j - 1 \in 0 + 1 .. Len(t) /\ t[j - 1].type = "frame"
    BY <2>1, <2>2, ShorterAt
  <2>4. \A l \in 0 + 1 .. j - 1 : ~Capable(t[l])
    <3> TAKE l \in 0 + 1 .. j - 1
    <3>1. l + 1 \in 0 + 1 .. j /\ t[l] = q[l + 1]
      BY ShorterAt
    <3> QED BY <2>1, <3>1
  <2> QED BY <2>1, <2>2, <2>3, <2>4 DEF FrameComes
<1> QED BY <1>1, <1>2

(* A frame ends the stage, and it is empty when the pointer comes or goes. *)
LEMMA FramesGoOn ==
  ASSUME NEW q, NEW t, Shorter(q, t), NEW P, Frames(q, P)
  PROVE  /\ Frames(t, {})
         /\ q[1].type # "frame" => Frames(t, P)
         /\ Stage(q[1]) => \A R : Frames(t, R)
         /\ Capable(q[1]) => P = {}
<1>1. \A i \in 1 .. Len(t) : Stage(t[i]) => FrameComes(t, i)
  <2> SUFFICES ASSUME NEW i \in 1 .. Len(t), Stage(t[i]) PROVE FrameComes(t, i)
    OBVIOUS
  <2>1. i + 1 \in 1 .. Len(q) /\ t[i] = q[i + 1] /\ i \in Nat
    BY ShorterAt
  <2> QED BY <2>1, FrameShifts DEF Frames
<1>2. q[1].type # "frame" => Frames(t, P)
  BY <1>1, FrameShifts DEF Frames
<1>3. Stage(q[1]) => \A R : Frames(t, R)
  <2>1. 1 \in 1 .. Len(q)
    BY DEF Shorter
  <2>2. Stage(q[1]) => FrameComes(q, 0 + 1)
    BY <2>1 DEF Frames
  <2>3. Stage(q[1]) => FrameComes(t, 0)
    BY <2>2, FrameShifts
  <2> QED BY <1>1, <2>3 DEF Frames
<1>4. Capable(q[1]) => P = {}
  BY FrameShifts DEF Frames, Capable
<1> QED BY <1>1, <1>2, <1>3, <1>4 DEF Frames

-----------------------------------------------------------------------------
(* ... and the events without the surfaces D.                              *)
Without(q, r, D) ==
  /\ Len(q) \in Nat /\ Len(r) = Len(q)
  /\ \A i \in 1 .. Len(q) :
        /\ r[i].type = q[i].type /\ r[i].serial = q[i].serial /\ r[i].on = q[i].on
        /\ r[i].surface = IF q[i].surface \in D THEN None ELSE q[i].surface

LEMMA OpenedForgets ==
  ASSUME NEW q, NEW r, NEW D, None \notin D, Without(q, r, D), NEW i \in Nat, NEW X,
         X # None, X \notin D, NEW serial, NEW S, NEW n, Opened(q, i, X, serial, S, n),
         NEW S2, S2 = IF S \in D THEN None ELSE S
  PROVE  Opened(r, i, X, serial, S2, n)
<1>0. Len(q) \in Nat /\ Len(r) = Len(q)
  BY DEF Without
<1>1. \A l \in 1 .. Len(q) : /\ LeaveFor(q[l], X) => LeaveFor(r[l], X)
                             /\ Relevant(r[l]) => Relevant(q[l])
  BY DEF Without, LeaveFor, Relevant
<1>2. ASSUME NEW j \in Nat, j <= Len(q), Closed(q, i, X, j) PROVE Closed(r, i, X, j)
  <2>1. PICK l \in i + 1 .. j : LeaveFor(q[l], X)
    BY <1>2 DEF Closed
  <2> QED BY <1>0, <1>1, <1>2, <2>1 DEF Closed
<1>3. X # S2 => Closed(r, i, X, Len(r))
  BY <1>0, <1>2 DEF Opened
<1>4. ASSUME NEW j \in i + 1 .. Len(r), Relevant(r[j]) PROVE Closed(r, i, X, j)
  BY <1>0, <1>1, <1>2, <1>4 DEF Opened
<1>5. ASSUME Quiet(r, i) PROVE Quiet(q, i)
  <2> SUFFICES ASSUME NEW j \in i + 1 .. Len(q), Relevant(q[j]) PROVE FALSE
    BY DEF Quiet
  <2>1. Closed(r, i, X, j) /\ j \in Nat
    BY <1>0, <1>2 DEF Opened
  <2> QED BY <1>0, <1>5, <2>1, ClosedIsLoud
<1> QED BY <1>3, <1>4, <1>5 DEF Opened

LEMMA TrackForgets ==
  ASSUME NEW q, NEW r, NEW D, None \notin D, Without(q, r, D), NEW E, NEW serial, NEW S, NEW n,
         Track(q, E, serial, S, n),
         NEW S2, S2 = IF S \in D THEN None ELSE S, NEW E2 \in {E, None}, E2 \notin D
  PROVE  Track(r, E2, serial, S2, n)
<1>1. E2 # None => Opened(r, 0, E2, serial, S2, n)
  BY OpenedForgets DEF Track
<1>2. ASSUME NEW i \in 1 .. Len(r), Enters(r[i])
      PROVE  Opened(r, i, r[i].surface, r[i].serial, S2, n)
  <2>1. i \in 1 .. Len(q) /\ i \in Nat /\ r[i].type = q[i].type /\ r[i].serial = q[i].serial
        /\ r[i].surface = IF q[i].surface \in D THEN None ELSE q[i].surface
    BY DEF Without
  <2>2. Enters(q[i]) /\ r[i].surface = q[i].surface /\ q[i].surface \notin D
    BY <1>2, <2>1 DEF Enters
  <2>3. Opened(q, i, q[i].surface, q[i].serial, S, n) /\ q[i].surface # None
    BY <2>1, <2>2 DEF Track, Enters
  <2> QED BY <2>1, <2>2, <2>3, OpenedForgets
<1> QED BY <1>1, <1>2 DEF Track

LEMMA ReachForgets ==
  ASSUME NEW q, NEW r, NEW D, None \notin D, Without(q, r, D), NEW E, NEW S, S \notin D,
         S # None, Reach(q, E, S)
  PROVE  Reach(r, E, S)
<1>0. Len(q) \in Nat /\ Len(r) = Len(q)
  BY DEF Without
<1>1. ASSUME NEW i \in Nat, Quiet(q, i) PROVE Quiet(r, i)
  <2>1. \A l \in 1 .. Len(q) : Relevant(r[l]) => Relevant(q[l])
    BY DEF Without, Relevant
  <2> QED BY <1>0, <1>1, <2>1 DEF Quiet
<1>2. ASSUME NEW i \in 1 .. Len(q), Enters(q[i]), q[i].surface = S, Quiet(q, i)
      PROVE  Enters(r[i]) /\ r[i].surface = S /\ Quiet(r, i)
  BY <1>1, <1>2 DEF Without, Enters
<1> QED BY <1>0, <1>1, <1>2 DEF Reach

LEMMA FramesForget ==
  ASSUME NEW q, NEW r, NEW D, Without(q, r, D), NEW P, Frames(q, P)
  PROVE  Frames(r, P)
<1>0. Len(q) \in Nat /\ Len(r) = Len(q) /\ \A l \in 1 .. Len(q) : r[l].type = q[l].type
  BY DEF Without
<1>1. ASSUME NEW i \in Nat, FrameComes(q, i) PROVE FrameComes(r, i)
  <2>1. PICK j \in i + 1 .. Len(q) : q[j].type = "frame" /\ \A l \in i + 1 .. j : ~Capable(q[l])
    BY <1>1 DEF FrameComes
  <2>2. j \in i + 1 .. Len(r) /\ r[j].type = "frame" /\ \A l \in i + 1 .. j : ~Capable(r[l])
    BY <1>0, <2>1 DEF Capable
  <2> QED BY <2>2 DEF FrameComes
<1>2. \A l \in 1 .. Len(q) : Stage(r[l]) <=> Stage(q[l])
  BY <1>0 DEF Stage
<1> QED BY <1>0, <1>1, <1>2 DEF Frames

-----------------------------------------------------------------------------
(* What the handlers make of a seat that is true.                          *)

LEMMA SurfacesAre ==
  ASSUME TypeOK
  PROVE  /\ \A w \in Windows : w # None /\ Content(w) # None /\ Owner(Content(w)) = w
         /\ \A s \in alive : /\ s # None /\ Owner(s) \in Windows
                             /\ s = Content(Owner(s)) \/ s[2] \in Edges
                             /\ \A w \in Windows : s = Content(w) => Owner(s) = w
         /\ \A e \in Edges : e # None
BY PointerAssumption DEF PointerAssumption, TypeOK, Surfaces, Owner, Content

LEMMA NamedIs ==
  ASSUME NEW p, Good(p, open, alive), NEW name
  PROVE  LET r == Named(p, name)
         IN  /\ r.pointerSurface = p.pointerSurface /\ r.pointerFocus = p.pointerFocus
             /\ r.hovered = p.hovered /\ r.focus = p.focus
             /\ r.pointerEnterSerial = p.pointerEnterSerial
             /\ r.cursorPreviousName = name
             /\ r.cursor = IF p.cursorPreviousName = name THEN p.cursor
                           ELSE <<p.pointerEnterSerial, name>>
BY DEF Named, Good, SeatOver

LEMMA MovedIs ==
  ASSUME TypeOK, NEW p, Good(p, open, alive), SeatTrue(p, decorated)
  PROVE  LET r == Moved(p)
         IN  /\ r.pointerSurface = p.pointerSurface
             /\ r.pointerEnterSerial = p.pointerEnterSerial
             /\ SeatTrue(r, decorated)
             /\ p.pointerSurface # None /\ Shown(p) => Shown(r)
<1> DEFINE w == p.pointerFocus
           c == [p EXCEPT !.cursorPreviousName = None]
           r == Moved(p)
<1>1. /\ c.pointerSurface = p.pointerSurface /\ c.pointerFocus = p.pointerFocus
      /\ c.hovered = p.hovered /\ c.focus = p.focus /\ c.cursor = p.cursor
      /\ c.pointerEnterSerial = p.pointerEnterSerial
  BY DEF Good, SeatOver
<1>2. \/ r = p
      \/ w # None /\ w \in p.hovered /\ r = c
      \/ w # None /\ w \notin p.hovered /\ p.focus[w] # None /\ r = Named(p, p.focus[w][2])
      \/ w # None /\ w \notin p.hovered /\ p.focus[w] = None /\ r = Named(p, "left_ptr")
  BY DEF Moved
<1>3. \A name : LET n == Named(p, name)
                IN  /\ n.pointerSurface = p.pointerSurface /\ n.pointerFocus = p.pointerFocus
                    /\ n.hovered = p.hovered /\ n.focus = p.focus
                    /\ n.pointerEnterSerial = p.pointerEnterSerial
                    /\ n.cursorPreviousName = name
                    /\ n.cursor = IF p.cursorPreviousName = name THEN p.cursor
                                  ELSE <<p.pointerEnterSerial, name>>
  BY NamedIs
<1> HIDE DEF c, r
<1>4. /\ r.pointerSurface = p.pointerSurface /\ r.pointerFocus = p.pointerFocus
      /\ r.hovered = p.hovered /\ r.focus = p.focus
      /\ r.pointerEnterSerial = p.pointerEnterSerial
  BY <1>1, <1>2, <1>3
<1>5. SeatTrue(r, decorated)
  BY <1>4 DEF SeatTrue
<1>6. ASSUME p.pointerSurface # None, Shown(p) PROVE Shown(r)
  <2> DEFINE s == p.pointerSurface
  <2>1. s \in alive /\ w = Owner(s) /\ w \in Windows
    BY <1>6, SurfacesAre DEF SeatTrue, Good, SeatOver
  <2>2. w \in p.hovered <=> s = Content(w)
    BY <2>1 DEF SeatTrue
  <2>3. CASE r = p
    BY <1>6, <2>3
  <2>4. CASE w \in p.hovered /\ r = c
    BY <1>1, <1>6, <2>1, <2>2, <2>4 DEF Shown
  <2>5. CASE w \notin p.hovered /\ p.focus[w] # None /\ r = Named(p, p.focus[w][2])
    <3>1. s # Content(w) /\ p.focus[w] = s /\ p.cursorPreviousName = s[2]
          /\ p.cursor = <<p.pointerEnterSerial, s[2]>>
      BY <1>6, <2>1, <2>2, <2>5 DEF Shown
    <3>2. r.cursorPreviousName = s[2] /\ r.cursor = p.cursor
      BY <1>3, <2>5, <3>1
    <3> QED BY <1>4, <2>1, <3>1, <3>2 DEF Shown
  <2>6. CASE w \notin p.hovered /\ p.focus[w] = None
    BY <1>4, <2>1, <2>2, <2>6 DEF Shown
  <2> QED BY <1>2, <2>3, <2>4, <2>5, <2>6
<1> QED BY <1>4, <1>5, <1>6 DEF r

LEMMA LeftIs ==
  ASSUME TypeOK, NEW p, Good(p, open, alive), SeatTrue(p, decorated), NEW s \in alive,
         p.pointerSurface \in {s, None}
  PROVE  LET r == Left(p, s)
         IN  /\ r.pointerSurface = None /\ r.cursorPreviousName = None
             /\ r.pointerEnterSerial = p.pointerEnterSerial
             /\ SeatTrue(r, decorated)
<1> DEFINE r == Left(p, s)
           o == Owner(s)
<1>1. o \in Windows /\ s # None /\ \A w \in Windows : Content(w) # None /\ (s = Content(w) => o = w)
  BY SurfacesAre
<1>2. /\ r.pointerSurface = None /\ r.cursorPreviousName = None
      /\ r.pointerEnterSerial = p.pointerEnterSerial
      /\ r.hovered = p.hovered \ {o}
      /\ \A w \in Windows : r.focus[w] \in {p.focus[w], None}
  BY <1>1 DEF Left, Good, SeatOver
<1> HIDE DEF r
<1>3. \A w \in Windows : w \notin r.hovered
  BY <1>1, <1>2 DEF SeatTrue
<1>4. SeatTrue(r, decorated)
  BY <1>1, <1>2, <1>3 DEF SeatTrue
<1> QED BY <1>2, <1>4 DEF r

LEMMA EnteredIs ==
  ASSUME TypeOK, NEW p, Good(p, open, alive), SeatTrue(p, decorated), NEW s \in alive,
         p.pointerSurface = None, Housed(open, alive)
  PROVE  LET r == Moved(Entered(p, s))
         IN  /\ r.pointerSurface = s /\ r.pointerEnterSerial = p.pointerEnterSerial
             /\ SeatTrue(r, decorated)
             /\ p.cursorPreviousName = None => Shown(r)
             /\ Entered(p, s).pointerSurface = s
<1> DEFINE w == Owner(s)
           q == [p EXCEPT !.pointerSurface = s, !.pointerFocus = w]
           f == [q EXCEPT !.focus[w] = s]
           c == [q EXCEPT !.hovered = @ \cup {w}, !.cursor = <<p.pointerEnterSerial, "content">>]
           t == Entered(p, s)
           r == Moved(t)
<1>0. p \in SeatOver(open, alive) /\ open \subseteq Windows
  BY DEF Good, TypeOK
<1>1. w \in Windows /\ s # None /\ w # None /\ (s = Content(w) \/ s[2] \in Edges)
      /\ \A v \in Windows : Content(v) # None /\ (s = Content(v) => w = v)
  BY SurfacesAre
<1>2. p.hovered = {}
  BY <1>0, <1>1 DEF SeatTrue, SeatOver
<1>3. Good(t, open, alive)
  BY EnteredIsGood
<1>4. /\ q \in [pointerSurface : {s}, pointerFocus : {w}, hovered : SUBSET open,
                focus : [Windows -> alive \cup {None}], pointerEnterSerial : Nat,
                cursorPreviousName : Names, cursor : Nat \X (Names \cup {"content"})]
      /\ q.pointerSurface = s /\ q.pointerFocus = w /\ q.hovered = {} /\ q.focus = p.focus
      /\ q.pointerEnterSerial = p.pointerEnterSerial
      /\ q.cursorPreviousName = p.cursorPreviousName
  BY <1>0, <1>2 DEF SeatOver
<1> HIDE DEF q
<1>5. CASE s = Content(w)
  <2>1. /\ c.pointerSurface = s /\ c.pointerFocus = w /\ c.hovered = {w} /\ c.focus = p.focus
        /\ c.pointerEnterSerial = p.pointerEnterSerial
        /\ c.cursor = <<p.pointerEnterSerial, "content">>
    BY <1>4
  <2>2. t = c
    BY <1>5 DEF Entered, q
  <2> HIDE DEF c, t
  <2>3. SeatTrue(t, decorated)
    BY <1>1, <1>5, <2>1, <2>2 DEF SeatTrue
  <2>4. Shown(t)
    BY <1>5, <2>1, <2>2 DEF Shown
  <2> QED BY <1>1, <1>3, <2>1, <2>2, <2>3, <2>4, MovedIs DEF t
<1>6. CASE s # Content(w) /\ w \notin decorated
  <2>1. t = q
    BY <1>6 DEF Entered, q
  <2> HIDE DEF t
  <2>2. SeatTrue(t, decorated)
    BY <1>1, <1>4, <1>6, <2>1 DEF SeatTrue
  <2>3. p.focus[w] = None
    BY <1>1, <1>6 DEF SeatTrue
  <2>4. Shown(t)
    BY <1>4, <1>6, <2>1, <2>3 DEF Shown
  <2> QED BY <1>1, <1>3, <1>4, <2>1, <2>2, <2>4, MovedIs DEF t
<1>7. CASE s # Content(w) /\ w \in decorated
  <2>1. /\ f.pointerSurface = s /\ f.pointerFocus = w /\ f.hovered = {}
        /\ f.pointerEnterSerial = p.pointerEnterSerial
        /\ f.cursorPreviousName = p.cursorPreviousName
        /\ f.focus = [p.focus EXCEPT ![w] = s]
        /\ f \in [pointerSurface : {s}, pointerFocus : {w}, hovered : SUBSET open,
                  focus : [Windows -> alive \cup {None}], pointerEnterSerial : Nat,
                  cursorPreviousName : Names, cursor : Nat \X (Names \cup {"content"})]
    BY <1>1, <1>4
  <2>2. f.focus[w] = s /\ \A v \in Windows : v # w => f.focus[v] = p.focus[v]
    BY <1>0, <1>1, <2>1 DEF SeatOver
  <2>3. t \in {f, Named(f, s[2])} /\ (w \in Shadowed => t = Named(f, s[2]))
        /\ (w \notin Shadowed => t = f)
    BY <1>7 DEF Entered, q
  <2> HIDE DEF f
  <2>4. Good(f, open, alive)
    <3>1. f \in SeatOver(open, alive)
      <4>1. w \in open
        BY DEF Housed
      <4> QED BY <2>1, <4>1 DEF SeatOver
    <3>2. s \in EdgesOf(w)
      <4>1. s = <<w, s[2]>>
        BY DEF TypeOK, Surfaces, Owner
      <4> QED BY <1>1, <1>7, <4>1 DEF EdgesOf
    <3> QED BY <2>2, <3>1, <3>2 DEF Good, OwnEdges
  <2>5. \A name : LET n == Named(f, name)
                  IN  /\ n.pointerSurface = s /\ n.pointerFocus = w
                      /\ n.hovered = {} /\ n.focus = f.focus
                      /\ n.pointerEnterSerial = p.pointerEnterSerial
                      /\ n.cursorPreviousName = name
                      /\ n.cursor = IF p.cursorPreviousName = name THEN f.cursor
                                    ELSE <<p.pointerEnterSerial, name>>
    BY <2>1, <2>4, NamedIs
  <2>6. s[2] \in Edges /\ s[2] # None
    BY <1>1, <1>7, SurfacesAre
  <2> HIDE DEF t
  <2>7. /\ t.pointerSurface = s /\ t.pointerFocus = w /\ t.hovered = {} /\ t.focus = f.focus
        /\ t.pointerEnterSerial = p.pointerEnterSerial
    BY <2>1, <2>3, <2>5
  <2>8. SeatTrue(t, decorated)
    BY <1>1, <1>7, <2>2, <2>7 DEF SeatTrue
  <2>9. r.pointerSurface = s /\ r.pointerEnterSerial = p.pointerEnterSerial
        /\ SeatTrue(r, decorated) /\ (Shown(t) => Shown(r))
    BY <1>1, <1>3, <2>7, <2>8, MovedIs
  <2>10. CASE w \in Shadowed
    <3>1. p.cursorPreviousName = None => Shown(t)
      BY <1>7, <2>2, <2>3, <2>5, <2>6, <2>7, <2>10 DEF Shown
    <3> QED BY <2>7, <2>9, <3>1 DEF r, t
  <2>11. CASE w \notin Shadowed
    <3>1. r = Named(t, s[2])
      BY <1>1, <2>2, <2>7 DEF Moved, r
    <3>2. r.focus = f.focus /\ r.cursorPreviousName = s[2]
          /\ (p.cursorPreviousName = None => r.cursor = <<p.pointerEnterSerial, s[2]>>)
      BY <2>3, <2>5, <2>6, <2>11, <3>1
    <3>3. p.cursorPreviousName = None => Shown(r)
      BY <1>7, <2>2, <2>9, <3>2 DEF Shown
    <3> QED BY <2>7, <2>9, <3>3 DEF r, t
  <2> QED BY <2>10, <2>11
<1> QED BY <1>5, <1>6, <1>7

-----------------------------------------------------------------------------
(* What a handler makes of the surface that the client has: the one that   *)
(* is entered, none after another event that is relevant, or the same.     *)
Heard(e) ==
  /\ SeatTrue(seat', decorated) /\ StageTrue(pending') /\ CursorTrue(seat', pending', torn)
  /\ Enters(e) => /\ EffectiveSurface' = e.surface
                  /\ seat'.pointerEnterSerial = e.serial
  /\ Relevant(e) /\ ~Enters(e) => EffectiveSurface' = None
  /\ ~Relevant(e) => /\ EffectiveSurface' = EffectiveSurface
                     /\ seat'.pointerEnterSerial = seat.pointerEnterSerial
  /\ EffectiveSurface' # None => Owner(EffectiveSurface') \notin resizing'
  /\ ~Stage(e) => pending'.events \in {pending.events, {}}
  /\ e.type = "frame" => pending'.events = {}

(* As the events before e leave the client. *)
Ready(e) ==
  /\ PointerInv /\ ClientInv
  /\ EffectiveSurface # None => Owner(EffectiveSurface) \notin resizing
  /\ Relevant(e) /\ EffectiveSurface # None => LeaveFor(e, EffectiveSurface)
  /\ Capable(e) => pending.events = {}

LEMMA StagedIs ==
  ASSUME pending \in StagedOver(alive), NEW what, NEW s
  PROVE  /\ Staged(what).events = pending.events \cup what
         /\ Staged(what).surface = pending.surface
         /\ [Staged(what) EXCEPT !.surface = s].events = pending.events \cup what
         /\ [Staged(what) EXCEPT !.surface = s].surface = s
BY DEF StagedOver, Staged

LEMMA EnterIsHeard ==
  ASSUME NEW e \in EventsOver(alive), Ready(e), e.type = "enter", HandleEnter(e)
  PROVE  Heard(e)
<1>0. /\ TypeOK /\ Good(seat, open, alive) /\ pending \in StagedOver(alive) /\ Housed(open, alive)
      /\ (~framed => pending = Nothing)
  BY DEF Ready, PointerInv, TypeOK
<1>1. /\ ~Capable(e) /\ Stage(e) /\ e.type # "frame" /\ ~LeaveFor(e, EffectiveSurface)
      /\ (Relevant(e) <=> e.surface # None) /\ (Enters(e) <=> e.surface # None)
  BY DEF Capable, Stage, Relevant, Enters, LeaveFor
<1>2. CASE e.surface = None
  <2>1. UNCHANGED <<seat, pending, resizing>>
    BY <1>2 DEF HandleEnter
  <2> QED BY <1>1, <1>2, <2>1 DEF Heard, Ready, ClientInv, EffectiveSurface
<1>3. CASE e.surface # None
  <2> DEFINE p == [seat EXCEPT !.pointerEnterSerial = e.serial]
  <2>1. e.surface \in alive /\ e.serial \in Nat
    BY <1>3 DEF EventsOver
  <2>2. /\ p.pointerSurface = seat.pointerSurface /\ p.pointerFocus = seat.pointerFocus
        /\ p.hovered = seat.hovered /\ p.focus = seat.focus
        /\ p.cursorPreviousName = seat.cursorPreviousName
        /\ p.pointerEnterSerial = e.serial
    BY <1>0 DEF Good, SeatOver
  <2>3. Good(p, open, alive)
    <3>1. p \in SeatOver(open, alive)
      BY <1>0, <2>1 DEF Good, SeatOver
    <3> QED BY <1>0, <2>2, <3>1 DEF Good, OwnEdges
  <2>4. resizing' = resizing \ {Owner(e.surface)}
        /\ \/ framed /\ seat' = p
              /\ pending' = [Staged({"surface", "motion"}) EXCEPT !.surface = e.surface]
           \/ ~framed /\ seat' = Moved(Entered(p, e.surface)) /\ pending' = pending
    BY <1>3 DEF HandleEnter
  <2>5. SeatTrue(p, decorated)
    BY <2>2 DEF Ready, ClientInv, SeatTrue
  <2> HIDE DEF p
  <2>6. CASE framed
    <3>1. seat' = p /\ pending'.events = pending.events \cup {"surface", "motion"}
          /\ pending'.surface = e.surface
      <4>1. seat' = p
            /\ pending' = [Staged({"surface", "motion"}) EXCEPT !.surface = e.surface]
        BY <2>4, <2>6
      <4>2. /\ [Staged({"surface", "motion"}) EXCEPT !.surface = e.surface].events
                  = pending.events \cup {"surface", "motion"}
            /\ [Staged({"surface", "motion"}) EXCEPT !.surface = e.surface].surface = e.surface
        BY <1>0, StagedIs
      <4> QED BY <4>1, <4>2
    <3>2. EffectiveSurface' = e.surface
      BY <3>1 DEF EffectiveSurface
    <3>3. StageTrue(pending') /\ CursorTrue(seat', pending', torn)
      BY <2>2, <3>1 DEF Ready, ClientInv, StageTrue, CursorTrue
    <3>4. SeatTrue(seat', decorated) /\ seat'.pointerEnterSerial = e.serial
      BY <2>2, <2>5, <3>1
    <3> QED BY <1>1, <1>3, <2>4, <3>2, <3>3, <3>4 DEF Heard
  <2>7. CASE ~framed
    <3>1. pending = Nothing /\ seat.pointerSurface = None
      BY <1>0, <1>1, <1>3, <2>7 DEF Ready, EffectiveSurface, Nothing
    <3>2. /\ seat'.pointerSurface = e.surface /\ seat'.pointerEnterSerial = e.serial
          /\ SeatTrue(seat', decorated)
          /\ p.cursorPreviousName = None => Shown(seat')
      BY <1>0, <2>1, <2>2, <2>3, <2>4, <2>5, <2>7, <3>1, EnteredIs
    <3>3. EffectiveSurface' = e.surface
      BY <2>4, <2>7, <3>1, <3>2 DEF EffectiveSurface, Nothing
    <3>4. StageTrue(pending') /\ CursorTrue(seat', pending', torn)
      BY <1>3, <2>2, <2>4, <2>7, <3>1, <3>2 DEF Ready, ClientInv, StageTrue, CursorTrue
    <3> QED BY <1>1, <1>3, <2>4, <3>2, <3>3, <3>4 DEF Heard
  <2> QED BY <2>6, <2>7
<1> QED BY <1>2, <1>3

LEMMA LeaveIsHeard ==
  ASSUME NEW e \in EventsOver(alive), Ready(e), e.type = "leave", HandleLeave(e)
  PROVE  Heard(e)
<1>0. /\ TypeOK /\ Good(seat, open, alive) /\ pending \in StagedOver(alive)
      /\ (~framed => pending = Nothing) /\ resizing' = resizing
  BY DEF Ready, PointerInv, TypeOK, HandleLeave
<1>1. /\ ~Capable(e) /\ Stage(e) /\ e.type # "frame" /\ ~Enters(e)
      /\ (Relevant(e) <=> e.surface # None)
  BY DEF Capable, Stage, Relevant, Enters
<1>2. CASE e.surface = None
  <2>1. UNCHANGED <<seat, pending, resizing>>
    BY <1>2 DEF HandleLeave
  <2> QED BY <1>1, <1>2, <2>1 DEF Heard, Ready, ClientInv, EffectiveSurface
<1>3. CASE e.surface # None /\ framed
  <2>1. seat' = seat /\ pending'.events = pending.events \cup {"surface"}
        /\ pending'.surface = None
    <3>1. seat' = seat /\ pending' = [Staged({"surface"}) EXCEPT !.surface = None]
      BY <1>3 DEF HandleLeave
    <3>2. /\ [Staged({"surface"}) EXCEPT !.surface = None].events
                = pending.events \cup {"surface"}
          /\ [Staged({"surface"}) EXCEPT !.surface = None].surface = None
      BY <1>0, StagedIs
    <3> QED BY <3>1, <3>2
  <2>2. EffectiveSurface' = None
    BY <2>1 DEF EffectiveSurface
  <2>3. SeatTrue(seat', decorated) /\ StageTrue(pending') /\ CursorTrue(seat', pending', torn)
    BY <2>1 DEF Ready, ClientInv, StageTrue, CursorTrue
  <2> QED BY <1>1, <1>3, <2>2, <2>3 DEF Heard
<1>4. CASE e.surface # None /\ ~framed
  <2>1. seat' = Left(seat, e.surface) /\ pending' = pending /\ pending = Nothing
        /\ e.surface \in alive
    BY <1>0, <1>4 DEF HandleLeave, EventsOver
  <2>2. seat.pointerSurface \in {e.surface, None}
    BY <1>1, <1>4, <2>1 DEF Ready, EffectiveSurface, Nothing, LeaveFor
  <2>3. seat'.pointerSurface = None /\ seat'.cursorPreviousName = None
        /\ SeatTrue(seat', decorated)
    BY <1>0, <2>1, <2>2, LeftIs DEF Ready, ClientInv
  <2>4. EffectiveSurface' = None
    BY <2>1, <2>3 DEF EffectiveSurface, Nothing
  <2>5. StageTrue(pending') /\ CursorTrue(seat', pending', torn)
    BY <2>1, <2>3 DEF StageTrue, CursorTrue, Nothing
  <2> QED BY <1>1, <1>4, <2>3, <2>4, <2>5 DEF Heard
<1> QED BY <1>2, <1>3, <1>4

(* Motion and buttons change no surface. *)
LEMMA UseIsHeard ==
  ASSUME NEW e \in EventsOver(alive), Ready(e),
         (e.type = "motion" /\ HandleMotion) \/ (e.type = "button" /\ HandleButton)
  PROVE  Heard(e)
<1>0. /\ TypeOK /\ Good(seat, open, alive) /\ pending \in StagedOver(alive)
      /\ (~framed => pending = Nothing) /\ resizing' = resizing
  BY DEF Ready, PointerInv, TypeOK, HandleMotion, HandleButton
<1>1. ~Relevant(e) /\ ~Enters(e) /\ Stage(e) /\ e.type # "frame"
  BY DEF Relevant, Enters, Stage
<1>2. \/ UNCHANGED <<seat, pending>>
      \/ \E what \in {{"motion"}, {"button"}} : seat' = seat /\ pending' = Staged(what)
      \/ seat' = Moved(seat) /\ pending' = pending /\ EffectiveSurface # None /\ ~framed
  BY DEF HandleMotion, HandleButton
<1>3. CASE UNCHANGED <<seat, pending>>
  BY <1>0, <1>1, <1>3 DEF Heard, Ready, ClientInv, EffectiveSurface
<1>4. ASSUME NEW what \in {{"motion"}, {"button"}}, seat' = seat, pending' = Staged(what)
      PROVE  Heard(e)
  <2>1. pending'.events = pending.events \cup what /\ pending'.surface = pending.surface
    BY <1>0, <1>4, StagedIs
  <2>2. "surface" \in pending'.events <=> "surface" \in pending.events
    BY <1>4, <2>1
  <2>3. EffectiveSurface' = EffectiveSurface
    BY <1>4, <2>1, <2>2 DEF EffectiveSurface
  <2>4. SeatTrue(seat', decorated) /\ StageTrue(pending') /\ CursorTrue(seat', pending', torn)
    BY <1>4, <2>1, <2>2 DEF Ready, ClientInv, StageTrue, CursorTrue
  <2> QED BY <1>0, <1>1, <1>4, <2>3, <2>4 DEF Heard, Ready
<1>5. CASE seat' = Moved(seat) /\ pending' = pending /\ EffectiveSurface # None /\ ~framed
  <2>1. pending = Nothing /\ seat.pointerSurface # None
    BY <1>0, <1>5 DEF EffectiveSurface, Nothing
  <2>2. /\ seat'.pointerSurface = seat.pointerSurface
        /\ seat'.pointerEnterSerial = seat.pointerEnterSerial
        /\ SeatTrue(seat', decorated) /\ (Shown(seat) => Shown(seat'))
    BY <1>0, <1>5, <2>1, MovedIs DEF Ready, ClientInv
  <2>3. EffectiveSurface' = EffectiveSurface
    BY <1>5, <2>2 DEF EffectiveSurface
  <2>4. StageTrue(pending') /\ CursorTrue(seat', pending', torn)
    BY <1>5, <2>1, <2>2 DEF Ready, ClientInv, StageTrue, CursorTrue
  <2> QED BY <1>0, <1>1, <2>2, <2>3, <2>4 DEF Heard, Ready
<1> QED BY <1>2, <1>3, <1>4, <1>5

LEMMA FrameIsHeard ==
  ASSUME NEW e \in EventsOver(alive), Ready(e), e.type = "frame", HandleFrame
  PROVE  Heard(e)
<1> DEFINE left == IF "surface" \in pending.events /\ seat.pointerSurface # None
                   THEN Left(seat, seat.pointerSurface) ELSE seat
           p == IF "surface" \in pending.events /\ pending.surface # None
                THEN Entered(left, pending.surface) ELSE left
           q == IF p.pointerSurface # None /\ "motion" \in pending.events THEN Moved(p) ELSE p
<1>0. /\ TypeOK /\ Good(seat, open, alive) /\ pending \in StagedOver(alive) /\ Housed(open, alive)
      /\ resizing' = resizing /\ SeatTrue(seat, decorated)
  BY DEF Ready, PointerInv, TypeOK, HandleFrame, ClientInv
<1>1. ~Relevant(e) /\ ~Enters(e)
  BY DEF Relevant, Enters
<1>2. seat' = q /\ pending' = Nothing
  BY DEF HandleFrame
<1>3. pending'.events = {} /\ StageTrue(pending') /\ EffectiveSurface' = seat'.pointerSurface
  BY <1>2 DEF Nothing, StageTrue, EffectiveSurface
<1>4. SUFFICES /\ SeatTrue(seat', decorated) /\ CursorTrue(seat', pending', torn)
               /\ seat'.pointerSurface = EffectiveSurface
               /\ seat'.pointerEnterSerial = seat.pointerEnterSerial
  BY <1>0, <1>1, <1>3 DEF Heard, Ready
<1>5. CASE "surface" \notin pending.events
  <2>1. seat' = seat \/ (seat.pointerSurface # None /\ seat' = Moved(seat))
    BY <1>2, <1>5
  <2>2. /\ seat'.pointerSurface = seat.pointerSurface
        /\ seat'.pointerEnterSerial = seat.pointerEnterSerial
        /\ SeatTrue(seat', decorated)
    BY <1>0, <2>1, MovedIs
  <2>3. CursorTrue(seat', pending', torn)
    <3>1. CursorTrue(seat, pending, torn)
      BY DEF Ready, ClientInv
    <3>2. seat.pointerSurface # None /\ Shown(seat) => Shown(seat')
      BY <1>0, <2>1, MovedIs
    <3>3. seat.pointerSurface = None => seat' = seat
      BY <2>1
    <3> QED BY <1>5, <2>2, <3>1, <3>2, <3>3 DEF CursorTrue
  <2> QED BY <1>5, <2>2, <2>3 DEF EffectiveSurface
<1>6. CASE "surface" \in pending.events
  <2>1. /\ Good(left, open, alive) /\ SeatTrue(left, decorated) /\ left.pointerSurface = None
        /\ left.pointerEnterSerial = seat.pointerEnterSerial
        /\ ~torn => left.cursorPreviousName = None
    <3>1. CASE seat.pointerSurface = None
      BY <1>0, <3>1 DEF Ready, ClientInv, CursorTrue
    <3>2. CASE seat.pointerSurface # None
      <4>1. left = Left(seat, seat.pointerSurface) /\ seat.pointerSurface \in alive
        BY <1>0, <1>6, <3>2 DEF Good, SeatOver
      <4> QED BY <1>0, <4>1, LeftIsGood, LeftIs
    <3> QED BY <3>1, <3>2
  <2>2. CASE pending.surface = None
    <3>1. seat' = left
      BY <1>2, <2>1, <2>2
    <3> HIDE DEF left
    <3> QED BY <1>6, <2>1, <2>2, <3>1 DEF CursorTrue, EffectiveSurface
  <2>3. CASE pending.surface # None
    <3> DEFINE s == pending.surface
    <3>1. s \in alive /\ "motion" \in pending.events
      BY <1>0, <1>6, <2>3 DEF StagedOver, Ready, ClientInv, StageTrue
    <3>2. p = Entered(left, s)
      BY <1>6, <2>3
    <3> HIDE DEF left, p
    <3>3. /\ Moved(p).pointerSurface = s
          /\ Moved(p).pointerEnterSerial = left.pointerEnterSerial
          /\ SeatTrue(Moved(p), decorated)
          /\ left.cursorPreviousName = None => Shown(Moved(p))
          /\ p.pointerSurface = s
      BY <1>0, <2>1, <3>1, <3>2, EnteredIs
    <3>4. seat' = Moved(p)
      BY <1>2, <2>3, <3>1, <3>3
    <3> QED BY <1>6, <2>1, <2>3, <3>3, <3>4 DEF CursorTrue, EffectiveSurface
  <2> QED BY <2>2, <2>3
<1> QED BY <1>5, <1>6

LEMMA CapabilitiesAreHeard ==
  ASSUME NEW e \in EventsOver(alive), Ready(e), e.type = "capabilities", HandleCapabilities(e)
  PROVE  Heard(e)
<1>0. /\ TypeOK /\ Good(seat, open, alive) /\ pending \in StagedOver(alive)
      /\ resizing' = resizing /\ pending.events = {}
  BY DEF Ready, PointerInv, TypeOK, HandleCapabilities, Capable
<1>1. /\ ~Enters(e) /\ ~Stage(e) /\ e.type # "frame" /\ (Relevant(e) <=> ~e.on)
      /\ \A X : ~LeaveFor(e, X)
  BY DEF Enters, Stage, Relevant, LeaveFor
<1>2. CASE UNCHANGED <<seat, pending>>
  <2>1. EffectiveSurface' = EffectiveSurface
    BY <1>2 DEF EffectiveSurface
  <2> QED BY <1>0, <1>1, <1>2, <2>1 DEF Heard, Ready, ClientInv
<1>3. CASE ~e.on /\ seat' = [seat EXCEPT !.pointerSurface = None, !.pointerFocus = None]
           /\ pending' = Nothing
  <2>1. seat.pointerSurface = None
    BY <1>0, <1>1, <1>3 DEF Ready, EffectiveSurface
  <2>2. /\ seat'.pointerSurface = None /\ seat'.hovered = seat.hovered
        /\ seat'.focus = seat.focus /\ seat'.cursorPreviousName = seat.cursorPreviousName
    BY <1>0, <1>3 DEF Good, SeatOver
  <2>3. SeatTrue(seat', decorated) /\ CursorTrue(seat', pending', torn)
    BY <2>1, <2>2 DEF Ready, ClientInv, SeatTrue, CursorTrue
  <2>4. pending'.events = {} /\ StageTrue(pending') /\ EffectiveSurface' = None
    BY <1>3, <2>2 DEF Nothing, StageTrue, EffectiveSurface
  <2> QED BY <1>1, <1>3, <2>3, <2>4 DEF Heard
<1> QED BY <1>2, <1>3 DEF HandleCapabilities

LEMMA ConfigureIsHeard ==
  ASSUME NEW e \in EventsOver(alive), Ready(e), e.type = "configure", HandleConfigure(e)
  PROVE  Heard(e)
<1>1. /\ ~Enters(e) /\ ~Stage(e) /\ e.type # "frame" /\ (Relevant(e) <=> e.on)
      /\ \A X : ~LeaveFor(e, X)
  BY DEF Enters, Stage, Relevant, LeaveFor
<1>2. UNCHANGED <<seat, pending>> /\ (~e.on => resizing' \subseteq resizing)
  BY DEF HandleConfigure
<1>3. EffectiveSurface' = EffectiveSurface
  BY <1>2 DEF EffectiveSurface
<1> QED BY <1>1, <1>2, <1>3 DEF Heard, Ready, ClientInv

LEMMA EventIsHeard ==
  ASSUME NEW e \in EventsOver(alive), Ready(e), Handle(e)
  PROVE  Heard(e)
BY EnterIsHeard, LeaveIsHeard, UseIsHeard, FrameIsHeard, CapabilitiesAreHeard,
   ConfigureIsHeard DEF Handle

-----------------------------------------------------------------------------
LEMMA CapsShift ==
  ASSUME NEW q, NEW t, Shorter(q, t), NEW l, NEW p, NEW c,
         CapsTrue(q, l, p, c)
  PROVE  /\ ~Capable(q[1]) => CapsTrue(t, l, p, c)
         /\ Capable(q[1]) => ~l /\ \A k : CapsTrue(t, FALSE, k, c)
         /\ Capable(q[1]) /\ q[1].on => c /\ \A i \in 1 .. Len(t) : ~Capable(t[i])
<1>1. /\ 1 \in 1 .. Len(q) /\ Len(t) \in Nat /\ Len(q) = Len(t) + 1
      /\ \A i \in 1 .. Len(t) : t[i] = q[i + 1] /\ i + 1 \in 1 .. Len(q)
  BY ShorterAt
<1>2. /\ \A i \in 1 .. Len(t) : ~c => (Capable(t[i]) => ~t[i].on)
      /\ \A i, j \in 1 .. Len(t) :
            i < j /\ Capable(t[i]) /\ Capable(t[j]) => ~t[i].on /\ t[j].on
  <2>1. ASSUME NEW i \in 1 .. Len(t), NEW j \in 1 .. Len(t), i < j, Capable(t[i]), Capable(t[j])
        PROVE  ~t[i].on /\ t[j].on
    <3>1. i + 1 < j + 1
      BY <2>1
    <3> QED BY <1>1, <2>1, <3>1 DEF CapsTrue
  <2> QED BY <1>1, <2>1 DEF CapsTrue
<1>3. ~Capable(q[1]) => CapsTrue(t, l, p, c)
  BY <1>1, <1>2 DEF CapsTrue
<1>4. Capable(q[1]) => ~l /\ \A k : CapsTrue(t, FALSE, k, c)
  BY <1>1, <1>2 DEF CapsTrue
<1>5. ASSUME Capable(q[1]), q[1].on PROVE c /\ \A i \in 1 .. Len(t) : ~Capable(t[i])
  <2>1. c
    BY <1>1, <1>5 DEF CapsTrue
  <2>2. ASSUME NEW i \in 1 .. Len(t), Capable(t[i]) PROVE FALSE
    <3>1. 1 < i + 1 /\ Capable(q[i + 1]) /\ i + 1 \in 1 .. Len(q)
      BY <1>1, <2>2
    <3> QED BY <1>1, <1>5, <3>1 DEF CapsTrue
  <2> QED BY <2>1, <2>2
<1> QED BY <1>3, <1>4, <1>5

LEMMA CapsGrow ==
  ASSUME NEW q, NEW r, NEW e, Longer(q, r, e), ~Capable(e),
         NEW l, NEW p, NEW c, CapsTrue(q, l, p, c)
  PROVE  CapsTrue(r, l, p, c)
<1>1. \A i \in 1 .. Len(r) : (i \in 1 .. Len(q) /\ r[i] = q[i]) \/ (i = Len(q) + 1 /\ r[i] = e)
  BY DEF Longer
<1> QED BY <1>1 DEF CapsTrue

LEMMA CapsGo ==
  ASSUME NEW q, NEW r, NEW e, Longer(q, r, e), Capable(e), ~e.on,
         NEW p, NEW c, CapsTrue(q, TRUE, p, c)
  PROVE  CapsTrue(r, FALSE, p, FALSE)
<1>1. \A i \in 1 .. Len(r) : (i \in 1 .. Len(q) /\ r[i] = q[i]) \/ (i = Len(q) + 1 /\ r[i] = e)
  BY DEF Longer
<1>2. \A i \in 1 .. Len(r) : Capable(r[i]) => i = Len(q) + 1 /\ r[i] = e
  BY <1>1 DEF CapsTrue
<1>3. \A i, j \in 1 .. Len(r) : ~(i < j /\ Capable(r[i]) /\ Capable(r[j]))
  BY <1>2 DEF Longer
<1> QED BY <1>2, <1>3 DEF CapsTrue

LEMMA CapsCome ==
  ASSUME NEW q, NEW r, NEW e, Longer(q, r, e), Capable(e), e.on,
         NEW l, NEW p, CapsTrue(q, l, p, FALSE)
  PROVE  CapsTrue(r, l, p, TRUE)
<1>0. Len(q) \in Nat /\ Len(r) = Len(q) + 1 /\ (\A j \in 1 .. Len(q) : r[j] = q[j])
      /\ r[Len(q) + 1] = e
  BY DEF Longer
<1>1. \A i \in 1 .. Len(r) : (i \in 1 .. Len(q) /\ r[i] = q[i]) \/ (i = Len(q) + 1 /\ r[i] = e)
  BY <1>0
<1>2. ~l /\ \A i \in 1 .. Len(q) : Capable(q[i]) => ~q[i].on
  BY DEF CapsTrue
<1>3. ASSUME NEW i \in 1 .. Len(r), NEW j \in 1 .. Len(r), i < j, Capable(r[i]), Capable(r[j])
      PROVE  ~r[i].on /\ r[j].on
  <2>1. i \in 1 .. Len(q) /\ r[i] = q[i]
    BY <1>0, <1>3
  <2>2. CASE j = Len(q) + 1
    BY <1>0, <1>2, <1>3, <2>1, <2>2
  <2>3. CASE j \in 1 .. Len(q)
    BY <1>0, <1>3, <2>1, <2>3 DEF CapsTrue
  <2> QED BY <1>1, <2>2, <2>3
<1> QED BY <1>2, <1>3 DEF CapsTrue

LEMMA CapsForget ==
  ASSUME NEW q, NEW r, NEW D, Without(q, r, D), NEW l, NEW p, NEW c, CapsTrue(q, l, p, c)
  PROVE  CapsTrue(r, l, p, c)
BY DEF Without, CapsTrue, Capable

LEMMA HeadIsReady ==
  ASSUME PointerInv, TrackInv, events # <<>>
  PROVE  /\ Shorter(events, Tail(events)) /\ Head(events) = events[1]
         /\ Head(events) \in EventsOver(alive) /\ Tail(events) \in Seq(EventsOver(alive))
         /\ Ready(Head(events))
<1>1. events \in Seq(EventsOver(alive)) /\ pending \in StagedOver(alive)
      /\ (~framed => pending = Nothing)
  BY DEF PointerInv, TypeOK
<1>2. Shorter(events, Tail(events)) /\ Head(events) = events[1]
  BY <1>1, TailIsShorter
<1>3. Head(events) \in EventsOver(alive) /\ Tail(events) \in Seq(EventsOver(alive))
  BY <1>1
<1>4. Relevant(Head(events)) /\ EffectiveSurface # None =>
         LeaveFor(Head(events), EffectiveSurface)
  BY <1>2, TrackEnds DEF TrackInv, Tracked
<1>5. Capable(Head(events)) => pending.events = {}
  <2>1. framed => (Capable(Head(events)) => pending.events = {})
    BY <1>2, FramesGoOn DEF TrackInv, FramesCome
  <2> QED BY <1>1, <2>1 DEF Nothing
<1> QED BY <1>2, <1>3, <1>4, <1>5 DEF Ready, TrackInv, Tracked

(* What has arrived does not matter any more, ... *)
LEMMA TailIsTracked ==
  ASSUME PointerInv, TrackInv, events # <<>>, Heard(Head(events))
  PROVE  LET t == Tail(events)
         IN  /\ Track(t, EffectiveSurface', seat'.pointerEnterSerial, Seen, entered)
             /\ Reach(events, EffectiveSurface, Seen) => Reach(t, EffectiveSurface', Seen)
             /\ framed => Frames(t, pending'.events)
<1> DEFINE t == Tail(events)
           e == Head(events)
<1>1. Shorter(events, t) /\ e = events[1]
  BY HeadIsReady
<1>2. Track(events, EffectiveSurface, seat.pointerEnterSerial, Seen, entered)
      /\ (framed => Frames(events, pending.events))
  BY DEF TrackInv, Tracked, FramesCome
<1> HIDE DEF t
<1>3. /\ Track(t, EffectiveSurface', seat'.pointerEnterSerial, Seen, entered)
      /\ Reach(events, EffectiveSurface, Seen) => Reach(t, EffectiveSurface', Seen)
  <2>1. CASE Enters(e)
    <3>1. EffectiveSurface' = e.surface /\ seat'.pointerEnterSerial = e.serial
      BY <2>1 DEF Heard
    <3> QED BY <1>1, <1>2, <2>1, <3>1, TrackBegins
  <2>2. CASE Relevant(e) /\ ~Enters(e)
    <3>1. EffectiveSurface' = None
      BY <2>2 DEF Heard
    <3> QED BY <1>1, <1>2, <2>2, <3>1, TrackEnds
  <2>3. CASE ~Relevant(e)
    <3>1. /\ EffectiveSurface' = EffectiveSurface
          /\ seat'.pointerEnterSerial = seat.pointerEnterSerial
      BY <2>3 DEF Heard
    <3> QED BY <1>1, <1>2, <2>3, <3>1, TrackGoesOn
  <2> QED BY <2>1, <2>2, <2>3
<1>4. framed => Frames(t, pending'.events)
  <2>1. CASE e.type = "frame"
    BY <1>1, <1>2, <2>1, FramesGoOn DEF Heard
  <2>2. CASE Stage(e)
    BY <1>1, <1>2, <2>2, FramesGoOn
  <2>3. CASE e.type # "frame" /\ ~Stage(e)
    BY <1>1, <1>2, <2>3, FramesGoOn DEF Heard
  <2> QED BY <2>1, <2>2, <2>3
<1> QED BY <1>3, <1>4 DEF t

LEMMA FrameIs ==
  ASSUME NEW al, NEW q \in Seq(EventsOver(al))
  PROVE  /\ ~framed => q \o FrameOf = q
         /\ framed => \E e \in EventsOver(al) :
                         e.type = "frame" /\ Longer(q, q \o FrameOf, e)
<1>1. framed => FrameOf = <<EventOf("frame", None, 0, FALSE)>>
  BY DEF FrameOf
<1>2. /\ EventOf("frame", None, 0, FALSE) \in EventsOver(al)
      /\ EventOf("frame", None, 0, FALSE).type = "frame"
  BY DEF EventOf, EventsOver, EventTypes
<1>3. ~framed => q \o FrameOf = q
  BY DEF FrameOf
<1> QED BY <1>1, <1>2, <1>3, AppendIsLonger

(* A frame of what is sent ends it, and matters to nothing else.           *)
LEMMA FrameIsSent ==
  ASSUME NEW al, NEW q \in Seq(EventsOver(al)), NEW E, NEW serial, NEW S, NEW n,
         Track(q, E, serial, S, n), NEW P, NEW m \in Nat, m <= Len(q),
         framed => Unframed(q, P, m),
         NEW l, NEW p, NEW c, CapsTrue(q, l, p, c)
  PROVE  LET r == q \o FrameOf
         IN  /\ Track(r, E, serial, S, n)
             /\ Reach(q, E, S) => Reach(r, E, S)
             /\ framed => Frames(r, P)
             /\ CapsTrue(r, l, p, c)
<1>1. CASE ~framed
  BY <1>1, FrameIs
<1>2. CASE framed
  <2>1. PICK e \in EventsOver(al) : e.type = "frame" /\ Longer(q, q \o FrameOf, e)
    BY <1>2, FrameIs
  <2>2. ~Relevant(e) /\ ~Capable(e)
    BY <2>1 DEF Relevant, Capable
  <2> DEFINE r == q \o FrameOf
  <2> HIDE DEF r
  <2>3. Longer(q, r, e)
    BY <2>1 DEF r
  <2>4. Track(r, E, serial, S, n) /\ (Reach(q, E, S) => Reach(r, E, S))
    BY <2>2, <2>3, TrackStays
  <2>5. Frames(r, P)
    BY <1>2, <2>1, <2>3, FrameAtLast
  <2>6. CapsTrue(r, l, p, c)
    BY <2>2, <2>3, CapsGrow
  <2> QED BY <2>4, <2>5, <2>6 DEF r
<1> QED BY <1>1, <1>2

LEMMA DispatchTracks ==
  ASSUME PointerInv, TrackInv, Dispatch
  PROVE  TrackInv'
<1> DEFINE t == Tail(events)
           e == Head(events)
<1>1. events # <<>> /\ Handle(e) /\ UNCHANGED <<framed, caps, at, grab, torn>>
  BY DEF Dispatch
<1>2. Shorter(events, t) /\ e = events[1] /\ Ready(e) /\ e \in EventsOver(alive)
      /\ t \in Seq(EventsOver(alive))
  BY <1>1, HeadIsReady
<1>3. Heard(e)
  BY <1>1, <1>2, EventIsHeard
<1>4. UNCHANGED surfaces
  BY <1>1, <1>2, HandlersKeep DEF Handled
<1>5. /\ Track(t, EffectiveSurface', seat'.pointerEnterSerial, Seen, entered)
      /\ Reach(events, EffectiveSurface, Seen) => Reach(t, EffectiveSurface', Seen)
      /\ framed => Frames(t, pending'.events)
  BY <1>1, <1>3, TailIsTracked
<1>6. ClientInv'
  BY <1>1, <1>3, <1>4 DEF Heard, ClientInv, surfaces
<1>7. EffectiveSurface' # None => Owner(EffectiveSurface') \notin resizing'
  BY <1>3 DEF Heard
<1>8. ~torn => \A w \in open : Seen = Content(w) => Reach(t, EffectiveSurface', Seen)
  BY <1>5 DEF TrackInv, Reached
<1>9. CapsTrue(events, listening, pointer, caps) /\ listening \in BOOLEAN /\ pointer \in BOOLEAN
      /\ caps \in BOOLEAN /\ at \in alive \cup {None} /\ entered \in Nat
  BY DEF TrackInv, CapsInv, PointerInv, TypeOK
<1>10. pointer' = IF Capable(e) THEN e.on ELSE pointer
  BY <1>1 DEF Handle, Capable, HandleEnter, HandleLeave, HandleMotion, HandleButton, HandleFrame,
     HandleCapabilities, HandleConfigure
<1>11. CASE Capable(e) /\ e.on /\ ~pointer /\ caps /\ at # None
  <2> DEFINE E == EffectiveSurface'
             k == seat'.pointerEnterSerial
             P == pending'.events
             n == EventOf("enter", at, entered + 1, FALSE)
             u == t \o EnterOf(at)
  <2>1. events' = u \o FrameOf /\ listening' = TRUE /\ entered' = entered + 1
    BY <1>11 DEF Dispatch, AfterCapabilities, Capable
  <2>2. ~listening /\ Seen = None /\ \A i \in 1 .. Len(t) : ~Capable(t[i])
    BY <1>2, <1>9, <1>11, CapsShift DEF Seen
  <2>3. /\ n \in EventsOver(alive) /\ Enters(n) /\ n.surface = at /\ n.serial = entered + 1
        /\ ~Capable(n)
    BY <1>9, <1>11 DEF EventOf, EventsOver, EventTypes, Enters, Capable
  <2>4. Seen' = at
    BY <1>1, <2>1 DEF Seen
  <2>5. EnterOf(at) = <<n>>
    BY DEF EnterOf
  <2> HIDE DEF t, e, n, E, k, P
  <2>6. Longer(t, u, n) /\ u \in Seq(EventsOver(alive)) /\ Len(t) \in Nat /\ Len(u) = Len(t) + 1
    <3>1. Longer(t, t \o <<n>>, n) /\ t \o <<n>> \in Seq(EventsOver(alive))
      BY <1>2, <2>3, AppendIsLonger, SeqGrows, OneIsSeq
    <3> QED BY <2>5, <3>1 DEF Longer
  <2> HIDE DEF u
  <2>7. Track(u, E, k, at, entered + 1) /\ Reach(u, E, at)
    <3>1. Track(t, E, k, None, entered)
      BY <1>5, <2>2 DEF E, k
    <3>2. Track(u, E, k, at, entered + 1)
      BY <2>3, <2>6, <3>1, TrackGrows
    <3> QED BY <2>3, <2>6, <3>2, ReachedAtLast
  <2>8. framed => Unframed(u, P, Len(t))
    <3>1. framed => Unframed(t, P, Len(t))
      BY <1>5, <2>6, FramesAreUnframed DEF P, t
    <3> QED BY <2>3, <2>6, <3>1, UnframedStays
  <2>9. CapsTrue(u, TRUE, TRUE, TRUE)
    <3>1. CapsTrue(t, TRUE, TRUE, TRUE)
      BY <2>2 DEF CapsTrue
    <3> QED BY <2>3, <2>6, <3>1, CapsGrow
  <2>10. /\ Track(u \o FrameOf, E, k, at, entered + 1) /\ Reach(u \o FrameOf, E, at)
         /\ framed => Frames(u \o FrameOf, P)
         /\ CapsTrue(u \o FrameOf, TRUE, TRUE, TRUE)
    <3>1. Len(t) \in Nat /\ Len(t) <= Len(u)
      BY <2>6
    <3> QED BY <2>6, <2>7, <2>8, <2>9, <3>1, FrameIsSent
  <2>11. Tracked' /\ Reached'
    BY <1>7, <2>1, <2>4, <2>10 DEF Tracked, Reached, E, k
  <2>12. FramesCome' /\ CapsInv'
    <3>1. pointer' = TRUE /\ caps' = TRUE
      BY <1>1, <1>9, <1>10, <1>11
    <3> QED BY <1>1, <2>1, <2>10, <3>1 DEF FramesCome, CapsInv, P
  <2> QED BY <1>6, <2>11, <2>12 DEF TrackInv
<1>12. CASE ~(Capable(e) /\ e.on /\ ~pointer /\ caps /\ at # None)
  <2>1. /\ events' = t /\ entered' = entered
        /\ \/ listening' = listening
           \/ Capable(e) /\ e.on /\ listening' = TRUE /\ ~pointer /\ caps /\ at = None
    BY <1>9, <1>12 DEF Dispatch, AfterCapabilities, Capable
  <2>2. Seen' = Seen
    BY <1>1, <2>1 DEF Seen
  <2>3. Tracked' /\ Reached' /\ FramesCome'
    BY <1>1, <1>4, <1>5, <1>7, <1>8, <2>1, <2>2 DEF Tracked, Reached, FramesCome, surfaces
  <2>4. CapsInv'
    <3> HIDE DEF t, e
    <3>1. CASE ~Capable(e)
      <4>1. CapsTrue(t, listening, pointer, caps)
        BY <1>2, <1>9, <3>1, CapsShift
      <4>2. pointer' = pointer /\ caps' = caps /\ events' = t
        BY <1>1, <1>10, <2>1, <3>1
      <4>3. listening' = listening
        BY <2>1, <3>1
      <4> QED BY <4>1, <4>2, <4>3 DEF CapsInv
    <3>2. CASE Capable(e) /\ listening' = listening
      <4>1. ~listening /\ CapsTrue(t, FALSE, e.on, caps)
        <5>1. e.on \in BOOLEAN
          BY <1>2 DEF EventsOver
        <5> QED BY <1>2, <1>9, <3>2, <5>1, CapsShift
      <4>2. listening' = FALSE
        BY <1>9, <3>2, <4>1
      <4> QED BY <1>1, <1>10, <2>1, <3>2, <4>1, <4>2 DEF CapsInv
    <3>3. CASE Capable(e) /\ e.on /\ listening' = TRUE /\ ~pointer /\ caps /\ at = None
      <4>1. \A i \in 1 .. Len(t) : ~Capable(t[i])
        BY <1>2, <1>9, <3>3, CapsShift
      <4>2. pointer' = TRUE /\ caps' = TRUE
        BY <1>1, <1>9, <1>10, <3>3, <1>2 DEF EventsOver
      <4> QED BY <2>1, <3>3, <4>1, <4>2 DEF CapsInv, CapsTrue
    <3> QED BY <2>1, <3>1, <3>2, <3>3
  <2> QED BY <1>6, <2>3, <2>4 DEF TrackInv
<1> QED BY <1>11, <1>12

-----------------------------------------------------------------------------
(* The program destroys D, or nothing, and forgets at most the surface that *)
(* it has.                                                                 *)
LEMMA ForgottenIsTracked ==
  ASSUME PointerInv, TrackInv, NEW D, None \notin D, Without(events, events', D),
         Seen' = IF Seen \in D THEN None ELSE Seen,
         EffectiveSurface' \in {EffectiveSurface, None}, EffectiveSurface' \notin D,
         seat'.pointerEnterSerial = seat.pointerEnterSerial,
         UNCHANGED <<entered, framed, listening, pointer, caps>>,
         resizing' \subseteq resizing, pending'.events \in {pending.events, {}},
         ~torn' => /\ ~torn
                   /\ \A w \in open' : /\ w \in open
                                       /\ EffectiveSurface = Content(w) =>
                                             EffectiveSurface' = EffectiveSurface,
         ClientInv', open' \subseteq Windows
  PROVE  TrackInv'
<1>1. Tracked'
  <2>1. Track(events, EffectiveSurface, seat.pointerEnterSerial, Seen, entered)
        /\ (EffectiveSurface # None => Owner(EffectiveSurface) \notin resizing)
    BY DEF TrackInv, Tracked
  <2>2. Track(events', EffectiveSurface', seat.pointerEnterSerial, Seen', entered)
    BY <2>1, TrackForgets
  <2> QED BY <2>1, <2>2 DEF Tracked
<1>2. Reached'
  <2> SUFFICES ASSUME ~torn', NEW w \in open', Seen' = Content(w)
               PROVE  Reach(events', EffectiveSurface', Seen')
    BY DEF Reached
  <2>1. Content(w) # None /\ w \in open /\ ~torn
    BY SurfacesAre DEF PointerInv
  <2>2. Seen = Content(w) /\ Seen \notin D /\ Seen' = Seen
    BY <2>1
  <2>3. Reach(events, EffectiveSurface, Seen)
    BY <2>1, <2>2 DEF TrackInv, Reached
  <2>4. Reach(events', EffectiveSurface, Seen)
    BY <2>1, <2>2, <2>3, ReachForgets
  <2>5. EffectiveSurface = Seen => EffectiveSurface' = EffectiveSurface
    BY <2>2
  <2> QED BY <2>2, <2>4, <2>5 DEF Reach
<1>3. FramesCome'
  <2>1. framed => Frames(events', pending.events)
    BY FramesForget DEF TrackInv, FramesCome
  <2> QED BY <2>1 DEF FramesCome, Frames
<1>4. CapsInv'
  <2>1. CapsTrue(events', listening, pointer, caps)
    BY CapsForget DEF TrackInv, CapsInv
  <2> QED BY <2>1 DEF CapsInv
<1> QED BY <1>1, <1>2, <1>3, <1>4 DEF TrackInv

LEMMA DestroyedIsWithout ==
  ASSUME PointerInv, NEW S, None \notin S, Destroyed(S), UNCHANGED listening
  PROVE  Without(events, events', S) /\ Seen' = IF Seen \in S THEN None ELSE Seen
<1>1. events \in Seq(EventsOver(alive)) /\ events' \in Seq(EventsOver(alive'))
  BY DestroyedIsForgotten DEF PointerInv
<1> DEFINE f(i) == IF events[i].surface \in S THEN [events[i] EXCEPT !.surface = None]
                   ELSE events[i]
<1>2. events' = [i \in DOMAIN events |-> f(i)]
  BY DEF Destroyed
<1>3. \A i \in 1 .. Len(events) :
         /\ f(i).type = events[i].type /\ f(i).serial = events[i].serial
         /\ f(i).on = events[i].on
         /\ f(i).surface = IF events[i].surface \in S THEN None ELSE events[i].surface
  <2> SUFFICES ASSUME NEW i \in 1 .. Len(events)
               PROVE  /\ f(i).type = events[i].type /\ f(i).serial = events[i].serial
                      /\ f(i).on = events[i].on
                      /\ f(i).surface = IF events[i].surface \in S THEN None
                                        ELSE events[i].surface
    OBVIOUS
  <2>1. events[i] \in EventsOver(alive)
    BY <1>1
  <2> QED BY <2>1 DEF EventsOver
<1> HIDE DEF f
<1>4. DOMAIN events = 1 .. Len(events) /\ Len(events) \in Nat
  BY <1>1
<1>5. DOMAIN events' = 1 .. Len(events) /\ \A i \in 1 .. Len(events) : events'[i] = f(i)
  BY <1>2, <1>4
<1>6. Len(events') = Len(events)
  BY <1>1, <1>4, <1>5
<1>7. Without(events, events', S)
  BY <1>3, <1>4, <1>5, <1>6 DEF Without
<1>8. Seen' = IF Seen \in S THEN None ELSE Seen
  BY DEF Seen, Destroyed
<1> QED BY <1>7, <1>8

LEMMA NothingIsWithout ==
  ASSUME PointerInv, UNCHANGED <<events, listening, at>>
  PROVE  Without(events, events', {}) /\ Seen' = IF Seen \in {} THEN None ELSE Seen
<1>1. Len(events) \in Nat
  BY DEF PointerInv
<1> QED BY <1>1 DEF Without, Seen

LEMMA ContentIsNoEdge ==
  \A v, w \in Windows : /\ Content(v) \notin EdgesOf(w)
                        /\ None \notin EdgesOf(w) /\ Content(w) # None /\ w # None
                        /\ Content(v) = Content(w) => v = w
BY PointerAssumption DEF PointerAssumption, Content, EdgesOf

LEMMA UnstagedIs ==
  ASSUME PointerInv, NEW S
  PROVE  /\ Unstaged(S).events = pending.events
         /\ Unstaged(S).surface = IF pending.surface \in S THEN None ELSE pending.surface
BY DEF PointerInv, Unstaged, StagedOver

LEMMA EdgesTrack ==
  ASSUME PointerInv, TrackInv, NEW w \in Windows, DestroyEdges(w) \/ HideEdges(w)
  PROVE  TrackInv'
<1> DEFINE S == EdgesOf(w)
           i == Invalidated(seat, S)
<1>0. /\ Good(seat, open, alive) /\ TypeOK /\ SeatTrue(seat, decorated) /\ StageTrue(pending)
      /\ CursorTrue(seat, pending, torn)
  BY DEF PointerInv, TrackInv, ClientInv
<1>1. /\ seat' = [i EXCEPT !.focus[w] = None] /\ pending' = Unstaged(S)
      /\ decorated' = decorated \ {w}
      /\ UNCHANGED <<open, resizing, pointer, framed, caps, listening, entered, torn>>
  BY DEF DestroyEdges, HideEdges, compositor
<1>2. /\ None \notin S /\ \A v \in Windows : Content(v) \notin S /\ Content(v) # None
  BY ContentIsNoEdge
<1>3. /\ i \in SeatOver(open, alive)
      /\ i.hovered = seat.hovered /\ i.focus = seat.focus /\ i.cursor = seat.cursor
      /\ i.pointerEnterSerial = seat.pointerEnterSerial
      /\ i.pointerSurface = IF seat.pointerSurface \in S THEN None ELSE seat.pointerSurface
      /\ i.pointerFocus = IF seat.pointerSurface \in S THEN None ELSE seat.pointerFocus
      /\ i.cursorPreviousName = IF seat.pointerSurface \in S THEN None
                                ELSE seat.cursorPreviousName
  BY <1>0 DEF Invalidated, Good, SeatOver, Names
<1> HIDE DEF i
<1>4. /\ seat'.hovered = seat.hovered /\ seat'.cursor = seat.cursor
      /\ seat'.pointerEnterSerial = seat.pointerEnterSerial
      /\ seat'.pointerSurface = i.pointerSurface /\ seat'.pointerFocus = i.pointerFocus
      /\ seat'.cursorPreviousName = i.cursorPreviousName
      /\ \A v \in Windows : seat'.focus[v] = IF v = w THEN None ELSE seat.focus[v]
  BY <1>1, <1>3 DEF SeatOver
<1>5. /\ pending'.events = pending.events
      /\ pending'.surface = IF pending.surface \in S THEN None ELSE pending.surface
  BY <1>1, UnstagedIs
<1>6. SeatTrue(seat', decorated')
  BY <1>0, <1>1, <1>2, <1>3, <1>4 DEF SeatTrue
<1>7. StageTrue(pending')
  BY <1>0, <1>5 DEF StageTrue
<1>8. CursorTrue(seat', pending', torn)
  <2>1. ASSUME seat'.pointerSurface # None, Shown(seat) PROVE Shown(seat')
    <3> DEFINE s == seat.pointerSurface
               o == Owner(s)
    <3>1. seat'.pointerSurface = s /\ s \notin S /\ seat'.cursorPreviousName = seat.cursorPreviousName
      BY <1>3, <1>4, <2>1
    <3>2. s \in alive /\ o \in Windows
      BY <1>0, <2>1, <3>1, SurfacesAre DEF Good, SeatOver
    <3>3. s # Content(o) => o # w
      <4>1. s = <<o, s[2]>> /\ s[2] \in Edges \cup {"content"}
        BY <1>0, <3>2 DEF TypeOK, Surfaces, Owner
      <4> QED BY <3>1, <4>1 DEF EdgesOf, Content
    <3> HIDE DEF o
    <3>4. s # Content(o) => seat'.focus[o] = seat.focus[o]
      BY <1>4, <3>2, <3>3
    <3> QED BY <1>4, <2>1, <3>1, <3>4 DEF Shown, o
  <2> QED BY <1>0, <1>3, <1>4, <1>5, <2>1 DEF CursorTrue
<1>9. ClientInv'
  BY <1>1, <1>6, <1>7, <1>8 DEF ClientInv
<1>10. EffectiveSurface' = IF EffectiveSurface \in S THEN None ELSE EffectiveSurface
  BY <1>3, <1>4, <1>5 DEF EffectiveSurface
<1>11. open' \subseteq Windows /\ \A v \in open' : v \in open /\ Content(v) \notin S
  BY <1>0, <1>1, <1>2 DEF TypeOK
<1>12. CASE DestroyEdges(w)
  <2>1. Without(events, events', S) /\ Seen' = IF Seen \in S THEN None ELSE Seen
    BY <1>1, <1>2, <1>12, DestroyedIsWithout DEF DestroyEdges
  <2> HIDE DEF S
  <2>2. EffectiveSurface' \in {EffectiveSurface, None} /\ EffectiveSurface' \notin S
    BY <1>2, <1>10
  <2>3. \A v \in open' : EffectiveSurface = Content(v) => EffectiveSurface' = EffectiveSurface
    BY <1>10, <1>11
  <2> QED BY <1>1, <1>2, <1>4, <1>5, <1>9, <1>11, <2>1, <2>2, <2>3, ForgottenIsTracked
<1>13. CASE HideEdges(w)
  <2>1. UNCHANGED <<events, listening, at>>
    BY <1>13 DEF HideEdges, compositor
  <2>2. Without(events, events', {}) /\ Seen' = IF Seen \in {} THEN None ELSE Seen
    BY <2>1, NothingIsWithout
  <2> HIDE DEF S
  <2>3. EffectiveSurface' \in {EffectiveSurface, None} /\ EffectiveSurface' \notin {}
    BY <1>10
  <2>4. \A v \in open' : EffectiveSurface = Content(v) => EffectiveSurface' = EffectiveSurface
    BY <1>10, <1>11
  <2> QED BY <1>1, <1>4, <1>5, <1>9, <1>11, <2>2, <2>3, <2>4, ForgottenIsTracked
<1> QED BY <1>12, <1>13

LEMMA CreateTracks ==
  ASSUME PointerInv, TrackInv, NEW w \in Windows, CreateEdges(w)
  PROVE  TrackInv'
<1>1. /\ decorated' = decorated \cup {w}
      /\ UNCHANGED <<open, resizing, pointer, seat, pending, framed, entered, events, torn>>
      /\ UNCHANGED <<caps, listening, at>>
  BY DEF CreateEdges, compositor
<1>2. ClientInv'
  BY <1>1 DEF TrackInv, ClientInv, SeatTrue
<1>3. EffectiveSurface' = EffectiveSurface
  BY <1>1 DEF EffectiveSurface
<1>4. Without(events, events', {}) /\ Seen' = IF Seen \in {} THEN None ELSE Seen
  BY <1>1, NothingIsWithout
<1>5. open' \subseteq Windows
  BY <1>1 DEF PointerInv, TypeOK
<1> QED BY <1>1, <1>2, <1>3, <1>4, <1>5, ForgottenIsTracked

LEMMA CursorTracks ==
  ASSUME PointerInv, TrackInv, NEW w \in Windows, SetCursor(w)
  PROVE  TrackInv'
<1>0. Good(seat, open, alive) /\ SeatTrue(seat, decorated) /\ CursorTrue(seat, pending, torn)
      /\ StageTrue(pending)
  BY DEF PointerInv, TrackInv, ClientInv
<1>1. /\ seat' = [seat EXCEPT !.cursor = <<seat.pointerEnterSerial, "content">>]
      /\ w \in seat.hovered
      /\ UNCHANGED <<decorated, open, resizing, pointer, pending, framed, entered, events, torn>>
      /\ UNCHANGED <<caps, listening, at>>
  BY DEF SetCursor, compositor, surfaces
<1>2. /\ seat'.pointerSurface = seat.pointerSurface /\ seat'.pointerFocus = seat.pointerFocus
      /\ seat'.hovered = seat.hovered /\ seat'.focus = seat.focus
      /\ seat'.pointerEnterSerial = seat.pointerEnterSerial
      /\ seat'.cursor = <<seat.pointerEnterSerial, "content">>
  BY <1>0, <1>1 DEF Good, SeatOver
<1>3. seat.pointerSurface = Content(w) /\ Content(w) # None /\ Owner(Content(w)) = w
  BY <1>0, <1>1, SurfacesAre DEF SeatTrue, PointerInv
<1>4. SeatTrue(seat', decorated)
  BY <1>0, <1>2 DEF SeatTrue
<1>5. Shown(seat')
  BY <1>2, <1>3 DEF Shown
<1>6. ClientInv'
  BY <1>0, <1>1, <1>2, <1>3, <1>4, <1>5 DEF ClientInv, CursorTrue
<1>7. EffectiveSurface' = EffectiveSurface
  BY <1>1, <1>2 DEF EffectiveSurface
<1>8. Without(events, events', {}) /\ Seen' = IF Seen \in {} THEN None ELSE Seen
  BY <1>1, NothingIsWithout
<1>9. open' \subseteq Windows
  BY <1>1 DEF PointerInv, TypeOK
<1> QED BY <1>1, <1>2, <1>6, <1>7, <1>8, <1>9, ForgottenIsTracked

LEMMA WindowTracks ==
  ASSUME PointerInv, TrackInv, NEW w \in Windows, DestroyWindow(w)
  PROVE  TrackInv'
<1> DEFINE S == {Content(w)} \cup EdgesOf(w)
           p == Invalidated(seat, {Content(w)})
           focused == p.pointerFocus = w
           q == IF focused THEN [p EXCEPT !.pointerSurface = None, !.pointerFocus = None] ELSE p
           i == Invalidated(q, EdgesOf(w))
<1>0. /\ Good(seat, open, alive) /\ TypeOK /\ SeatTrue(seat, decorated) /\ StageTrue(pending)
      /\ CursorTrue(seat, pending, torn)
  BY DEF PointerInv, TrackInv, ClientInv
<1>1. /\ open' = open \ {w}
      /\ seat' = [i EXCEPT !.hovered = @ \ {w}, !.focus[w] = None]
      /\ pending' = (IF focused THEN Nothing ELSE Unstaged(S))
      /\ torn' = (torn \/ focused)
      /\ decorated' = decorated \ {w} /\ resizing' = resizing \ {w}
      /\ Destroyed(S)
      /\ UNCHANGED <<pointer, framed, caps, listening, entered>>
  BY DEF DestroyWindow
<1>2. /\ None \notin S /\ w # None
      /\ \A v \in Windows : Content(v) # None /\ (v # w => Content(v) \notin S)
  BY ContentIsNoEdge
<1>3. seat.pointerSurface \in S => seat.pointerFocus = w
  <2>1. ASSUME seat.pointerSurface \in S PROVE Owner(seat.pointerSurface) = w
    BY <2>1 DEF Content, EdgesOf, Owner
  <2> QED BY <1>0, <1>2, <2>1 DEF SeatTrue
<1>4. /\ p \in SeatOver(open, alive)
      /\ p.hovered = seat.hovered /\ p.focus = seat.focus /\ p.cursor = seat.cursor
      /\ p.pointerEnterSerial = seat.pointerEnterSerial
      /\ seat.pointerSurface = Content(w) =>
            p.pointerSurface = None /\ p.pointerFocus = None /\ p.cursorPreviousName = None
      /\ seat.pointerSurface # Content(w) => p = seat
  BY <1>0 DEF Invalidated, Good, SeatOver, Names
<1> HIDE DEF p
<1>5. /\ q \in SeatOver(open, alive)
      /\ q.hovered = seat.hovered /\ q.focus = seat.focus /\ q.cursor = seat.cursor
      /\ q.pointerEnterSerial = seat.pointerEnterSerial
      /\ focused => q.pointerSurface = None
      /\ ~focused => q = p
  BY <1>4 DEF SeatOver
<1> HIDE DEF q
<1>6. q.pointerSurface \notin S
  <2>1. CASE seat.pointerSurface = Content(w)
    BY <1>2, <1>4, <1>5, <2>1
  <2>2. CASE seat.pointerSurface # Content(w)
    BY <1>2, <1>3, <1>4, <1>5, <2>2
  <2> QED BY <2>1, <2>2
<1>7. i = q
  BY <1>6 DEF Invalidated
<1> HIDE DEF i
<1>8. /\ seat'.hovered = seat.hovered \ {w} /\ seat'.cursor = seat.cursor
      /\ seat'.pointerEnterSerial = seat.pointerEnterSerial
      /\ seat'.pointerSurface = q.pointerSurface /\ seat'.pointerFocus = q.pointerFocus
      /\ seat'.cursorPreviousName = q.cursorPreviousName
      /\ \A v \in Windows : seat'.focus[v] = IF v = w THEN None ELSE seat.focus[v]
  BY <1>1, <1>5, <1>7 DEF SeatOver
<1>9. /\ focused => seat'.pointerSurface = None
      /\ ~focused /\ seat.pointerSurface \in S =>
            seat'.pointerSurface = None /\ seat'.cursorPreviousName = None
      /\ ~focused /\ seat.pointerSurface \notin S =>
            /\ seat'.pointerSurface = seat.pointerSurface
            /\ seat'.pointerFocus = seat.pointerFocus
            /\ seat'.cursorPreviousName = seat.cursorPreviousName
  <2>1. Content(w) \in S
    OBVIOUS
  <2>2. CASE seat.pointerSurface = Content(w)
    BY <1>4, <1>5, <1>8, <2>1, <2>2
  <2>3. CASE seat.pointerSurface # Content(w)
    BY <1>3, <1>4, <1>5, <1>8, <2>3
  <2> QED BY <2>2, <2>3
<1>10. focused => seat.pointerFocus = w
  BY <1>2, <1>4
<1> HIDE DEF focused
<1>11. seat'.pointerSurface \in {seat.pointerSurface, None} /\ seat'.pointerSurface \notin S
  BY <1>2, <1>9
<1>12. \A v \in Windows : v # w /\ seat.pointerSurface = Content(v) =>
          ~focused /\ seat'.pointerSurface = seat.pointerSurface
  <2> SUFFICES ASSUME NEW v \in Windows, v # w, seat.pointerSurface = Content(v)
               PROVE  ~focused /\ seat'.pointerSurface = seat.pointerSurface
    OBVIOUS
  <2>1. seat.pointerFocus = v /\ seat.pointerSurface \notin S
    BY <1>0, <1>2 DEF SeatTrue, Owner, Content
  <2> QED BY <1>9, <1>10, <2>1
<1>13. SeatTrue(seat', decorated')
  <2>1. ASSUME NEW v \in Windows
        PROVE  v \in seat'.hovered <=> seat'.pointerSurface = Content(v)
    <3>1. CASE v = w
      <4>1. Content(w) \in S
        OBVIOUS
      <4> QED BY <1>8, <1>11, <3>1, <4>1
    <3>2. CASE v # w
      BY <1>0, <1>2, <1>8, <1>11, <1>12, <3>2 DEF SeatTrue
    <3> QED BY <3>1, <3>2
  <2>2. seat'.pointerSurface # None => seat'.pointerFocus = Owner(seat'.pointerSurface)
    BY <1>0, <1>9 DEF SeatTrue
  <2>3. \A v \in Windows : seat'.focus[v] # None => v \in decorated'
    BY <1>0, <1>1, <1>8 DEF SeatTrue
  <2> QED BY <2>1, <2>2, <2>3 DEF SeatTrue
<1>14. /\ focused => pending' = Nothing
       /\ ~focused => /\ pending'.events = pending.events
                      /\ pending'.surface = IF pending.surface \in S THEN None
                                            ELSE pending.surface
  BY <1>1, UnstagedIs
<1>15. StageTrue(pending')
  BY <1>0, <1>14 DEF StageTrue, Nothing
<1>16. CursorTrue(seat', pending', torn')
  <2> SUFFICES ASSUME ~torn, ~focused PROVE CursorTrue(seat', pending', torn')
    BY <1>1 DEF CursorTrue
  <2>1. ASSUME seat'.pointerSurface # None, Shown(seat) PROVE Shown(seat')
    <3> DEFINE s == seat.pointerSurface
               o == Owner(s)
    <3>1. seat'.pointerSurface = s /\ s \notin S
          /\ seat'.cursorPreviousName = seat.cursorPreviousName
      BY <1>9, <1>11, <2>1
    <3>2. s \in alive /\ o \in Windows
      BY <1>0, <2>1, <3>1, SurfacesAre DEF Good, SeatOver
    <3>3. o # w
      <4>1. s = <<o, s[2]>> /\ s[2] \in Edges \cup {"content"}
        BY <1>0, <3>2 DEF TypeOK, Surfaces, Owner
      <4> QED BY <3>1, <4>1 DEF EdgesOf, Content
    <3> HIDE DEF o
    <3>4. seat'.focus[o] = seat.focus[o]
      BY <1>8, <3>2, <3>3
    <3> QED BY <1>8, <2>1, <3>1, <3>4 DEF Shown, o
  <2>2. seat'.pointerSurface = None => seat'.cursorPreviousName = None
    <3>1. seat.pointerSurface = None => seat.cursorPreviousName = None
      BY <1>0 DEF CursorTrue
    <3> QED BY <1>2, <1>9, <3>1
  <2>3. seat'.pointerSurface # None /\ "surface" \notin pending.events => Shown(seat)
    BY <1>0, <1>9 DEF CursorTrue
  <2> QED BY <1>14, <2>1, <2>2, <2>3 DEF CursorTrue
<1>17. ClientInv'
  BY <1>13, <1>15, <1>16 DEF ClientInv
<1>18. EffectiveSurface' \in {EffectiveSurface, None} /\ EffectiveSurface' \notin S
  <2>1. CASE focused
    <3>1. EffectiveSurface' = None
      BY <1>9, <1>14, <2>1 DEF EffectiveSurface, Nothing
    <3> QED BY <1>2, <3>1
  <2>2. CASE ~focused
    BY <1>2, <1>11, <1>14, <2>2 DEF EffectiveSurface
  <2> QED BY <2>1, <2>2
<1>19. ~torn' => /\ ~torn
                 /\ \A v \in open' : /\ v \in open
                                     /\ EffectiveSurface = Content(v) =>
                                           EffectiveSurface' = EffectiveSurface
  <2> SUFFICES ASSUME ~torn, ~focused, NEW v \in open', EffectiveSurface = Content(v)
               PROVE  EffectiveSurface' = EffectiveSurface
    BY <1>1
  <2>1. v \in Windows /\ v # w /\ Content(v) \notin S
    BY <1>0, <1>1, <1>2 DEF TypeOK
  <2> QED BY <1>12, <1>14, <2>1 DEF EffectiveSurface
<1>20. Without(events, events', S) /\ Seen' = IF Seen \in S THEN None ELSE Seen
  BY <1>1, <1>2, DestroyedIsWithout
<1>21. pending'.events \in {pending.events, {}} /\ open' \subseteq Windows
       /\ resizing' \subseteq resizing
  BY <1>0, <1>1, <1>14 DEF Nothing, TypeOK
<1> HIDE DEF S
<1>22. seat'.pointerEnterSerial = seat.pointerEnterSerial
       /\ UNCHANGED <<entered, framed, listening, pointer, caps>>
  BY <1>1, <1>8
<1> QED BY <1>2, <1>17, <1>18, <1>19, <1>20, <1>21, <1>22, ForgottenIsTracked

-----------------------------------------------------------------------------
(* What the compositor sends is tracked.                                   *)
Told(r, S, n, l, c) ==
  /\ Track(r, EffectiveSurface, seat.pointerEnterSerial, S, n)
  /\ ~torn => \A w \in open : S = Content(w) => Reach(r, EffectiveSurface, S)
  /\ framed => Frames(r, pending.events)
  /\ CapsTrue(r, l, pointer, c)

LEMMA ToldIsTracked ==
  ASSUME TrackInv, UNCHANGED <<client, framed, torn>>,
         Told(events', Seen', entered', listening', caps')
  PROVE  TrackInv'
<1>1. UNCHANGED <<open, decorated, resizing, pointer, seat, pending, framed, torn>>
  BY DEF client, surfaces
<1>2. EffectiveSurface' = EffectiveSurface /\ ClientInv'
  BY <1>1 DEF EffectiveSurface, ClientInv, TrackInv
<1>3. Tracked' /\ Reached' /\ FramesCome' /\ CapsInv'
  BY <1>1, <1>2 DEF Told, TrackInv, Tracked, Reached, FramesCome, CapsInv
<1> QED BY <1>2, <1>3 DEF TrackInv

LEMMA ToldNow ==
  ASSUME TrackInv
  PROVE  Told(events, Seen, entered, listening, caps)
BY DEF TrackInv, Tracked, Reached, FramesCome, CapsInv, Told

(* An event that is not relevant, and needs no frame. *)
LEMMA ToldStays ==
  ASSUME NEW q, NEW r, NEW e, Longer(q, r, e), NEW S, NEW n, NEW l, NEW c,
         Told(q, S, n, l, c), ~Relevant(e), ~Stage(e), NEW c2, CapsTrue(r, l, pointer, c2)
  PROVE  Told(r, S, n, l, c2)
<1>1. Track(r, EffectiveSurface, seat.pointerEnterSerial, S, n)
      /\ (Reach(q, EffectiveSurface, S) => Reach(r, EffectiveSurface, S))
  BY TrackStays DEF Told
<1>2. framed => Frames(r, pending.events)
  BY FramesStay DEF Told
<1> QED BY <1>1, <1>2 DEF Told

(* The pointer has left, and something else follows. *)
LEMMA ToldAfterLeave ==
  ASSUME TypeOK, NEW q, NEW r, NEW e, Longer(q, r, e), NEW n, NEW l, NEW c,
         Told(q, None, n, l, c), ~Stage(e), NEW l2, NEW c2, CapsTrue(r, l2, pointer, c2)
  PROVE  Told(r, None, n, l2, c2)
<1>1. Track(r, EffectiveSurface, seat.pointerEnterSerial, None, n)
  <2>1. ~Enters(e)
    BY DEF Stage, Enters
  <2> QED BY <2>1, TrackGrows DEF Told
<1>2. framed => Frames(r, pending.events)
  BY FramesStay DEF Told
<1>3. \A w \in open : None # Content(w)
  BY SurfacesAre DEF TypeOK
<1> QED BY <1>1, <1>2, <1>3 DEF Told

(* In the middle of what is sent: m events were there before.              *)
Sending(r, S, n, m) ==
  /\ Len(r) \in Nat /\ m \in Nat /\ m <= Len(r) /\ r \in Seq(EventsOver(alive))
  /\ Track(r, EffectiveSurface, seat.pointerEnterSerial, S, n)
  /\ ~torn => \A w \in open : S = Content(w) => Reach(r, EffectiveSurface, S)
  /\ framed => Unframed(r, pending.events, m)
  /\ CapsTrue(r, listening, pointer, caps)

LEMMA SendingStarts ==
  ASSUME PointerInv, TrackInv
  PROVE  Sending(events, Seen, entered, Len(events))
<1>1. Len(events) \in Nat /\ events \in Seq(EventsOver(alive))
  BY DEF PointerInv
<1> QED BY <1>1, ToldNow, FramesAreUnframed DEF Told, Sending

LEMMA SendingEnds ==
  ASSUME NEW r, NEW S, NEW n, NEW m, Sending(r, S, n, m)
  PROVE  Told(r \o FrameOf, S, n, listening, caps)
<1>1. /\ Track(r \o FrameOf, EffectiveSurface, seat.pointerEnterSerial, S, n)
      /\ Reach(r, EffectiveSurface, S) => Reach(r \o FrameOf, EffectiveSurface, S)
      /\ framed => Frames(r \o FrameOf, pending.events)
      /\ CapsTrue(r \o FrameOf, listening, pointer, caps)
  BY FrameIsSent DEF Sending
<1> QED BY <1>1 DEF Told, Sending

LEMMA SendingOne ==
  ASSUME TypeOK, NEW r, NEW S, NEW n, NEW m, Sending(r, S, n, m),
         NEW e \in EventsOver(alive), ~Capable(e)
  PROVE  /\ ~Relevant(e) => Sending(r \o <<e>>, S, n, m)
         /\ LeaveFor(e, S) => Sending(r \o <<e>>, None, n, m)
         /\ S = None /\ Enters(e) /\ e.serial = n + 1 =>
               Sending(r \o <<e>>, e.surface, n + 1, m)
<1> DEFINE t == r \o <<e>>
<1>1. r \in Seq(EventsOver(alive)) /\ Len(r) \in Nat /\ m \in Nat /\ m <= Len(r)
  BY DEF Sending
<1>2. Longer(r, t, e) /\ t \in Seq(EventsOver(alive))
  BY <1>1, AppendIsLonger, SeqGrows, OneIsSeq
<1> HIDE DEF t
<1>3. Len(t) \in Nat /\ m <= Len(t)
  BY <1>1, <1>2 DEF Longer
<1>4. framed => Unframed(t, pending.events, m)
  BY <1>1, <1>2, UnframedStays DEF Sending
<1>5. CapsTrue(t, listening, pointer, caps)
  BY <1>2, CapsGrow DEF Sending
<1>6. \A w \in open : None # Content(w)
  BY SurfacesAre DEF TypeOK
<1>7. ASSUME ~Relevant(e) PROVE Sending(t, S, n, m)
  <2>1. Track(t, EffectiveSurface, seat.pointerEnterSerial, S, n)
        /\ (Reach(r, EffectiveSurface, S) => Reach(t, EffectiveSurface, S))
    BY <1>2, <1>7, TrackStays DEF Sending
  <2> QED BY <1>1, <1>2, <1>3, <1>4, <1>5, <2>1 DEF Sending
<1>8. ASSUME LeaveFor(e, S) PROVE Sending(t, None, n, m)
  <2>1. Track(t, EffectiveSurface, seat.pointerEnterSerial, None, n)
    <3>1. ~Enters(e)
      BY <1>8 DEF LeaveFor, Enters
    <3> QED BY <1>2, <1>8, <3>1, TrackGrows DEF Sending
  <2> QED BY <1>1, <1>2, <1>3, <1>4, <1>5, <1>6, <2>1 DEF Sending
<1>9. ASSUME S = None, Enters(e), e.serial = n + 1 PROVE Sending(t, e.surface, n + 1, m)
  <2>1. Track(t, EffectiveSurface, seat.pointerEnterSerial, e.surface, n + 1)
    BY <1>2, <1>9, TrackGrows DEF Sending
  <2>2. Reach(t, EffectiveSurface, e.surface)
    BY <1>2, <1>9, ReachedAtLast
  <2> QED BY <1>1, <1>2, <1>3, <1>4, <1>5, <2>1, <2>2 DEF Sending
<1> QED BY <1>7, <1>8, <1>9 DEF t

(* The surface is left, if there is one. *)
LEMMA LeavesAreSent ==
  ASSUME PointerInv, TrackInv, listening
  PROVE  /\ Sending(events \o Leaves, None, entered, Len(events))
         /\ events \o Leaves \in Seq(EventsOver(alive))
         /\ at # None => Leaves = LeaveOf(at)
<1>0. TypeOK /\ events \in Seq(EventsOver(alive)) /\ at \in alive \cup {None} /\ Seen = at
  BY DEF PointerInv, TypeOK, Seen
<1>1. Sending(events, at, entered, Len(events))
  BY <1>0, SendingStarts
<1>2. CASE at = None
  <2>1. events \o Leaves = events
    BY <1>0, <1>2 DEF Leaves
  <2> QED BY <1>0, <1>1, <1>2, <2>1
<1>3. CASE at # None
  <2> DEFINE e == EventOf("leave", at, 0, FALSE)
  <2>1. e \in EventsOver(alive) /\ e.type = "leave" /\ e.surface = at
    BY <1>0 DEF EventOf, EventsOver, EventTypes
  <2>2. Leaves = <<e>> /\ Leaves = LeaveOf(at)
    BY <1>3 DEF Leaves, LeaveOf
  <2> HIDE DEF e
  <2>3. ~Capable(e) /\ LeaveFor(e, at)
    BY <2>1 DEF Capable, LeaveFor
  <2>4. Sending(events \o <<e>>, None, entered, Len(events))
    BY <1>0, <1>1, <2>1, <2>3, SendingOne
  <2> QED BY <2>2, <2>4 DEF Sending
<1> QED BY <1>2, <1>3

LEMMA MoveTracks ==
  ASSUME PointerInv, TrackInv, NEW s \in alive \cup {None}, Move(s)
  PROVE  TrackInv'
<1> DEFINE es == IF s = None THEN <<>> ELSE EnterOf(s)
<1>0. TypeOK /\ events \in Seq(EventsOver(alive)) /\ entered \in Nat /\ listening \in BOOLEAN
      /\ at \in alive \cup {None}
  BY DEF PointerInv, TypeOK
<1>1. /\ at' = s /\ Send(Leaves \o es) /\ UNCHANGED <<caps, listening>>
      /\ entered' = (IF s # None /\ listening THEN entered + 1 ELSE entered)
      /\ UNCHANGED <<client, framed, torn>>
  BY DEF Move, Act
<1> HIDE DEF es
<1>2. CASE ~listening
  <2>1. events' = events /\ Seen = None /\ Seen' = None /\ entered' = entered
    BY <1>1, <1>2 DEF Send, Seen
  <2> QED BY <1>1, <2>1, ToldNow, ToldIsTracked
<1>3. CASE listening
  <2>1. Seen' = s
    BY <1>1, <1>3 DEF Seen
  <2>2. /\ es \in Seq(EventsOver(alive)) /\ Leaves \in Seq(EventsOver(alive))
        /\ FrameOf \in Seq(EventsOver(alive))
    <3>1. <<>> \in Seq(EventsOver(alive))
      OBVIOUS
    <3> QED BY <3>1, EventsOfTheCompositor DEF es
  <2>3. events' = ((events \o Leaves) \o es) \o FrameOf
    <3>1. events' = (events \o (Leaves \o es)) \o FrameOf
      BY <1>1, <1>3 DEF Send
    <3>2. (events \o Leaves) \o es = events \o (Leaves \o es)
      BY <1>0, <2>2, ConcatAssociative
    <3> QED BY <3>1, <3>2
  <2>4. Sending((events \o Leaves) \o es, s, entered', Len(events))
    <3>1. Sending(events \o Leaves, None, entered, Len(events))
          /\ events \o Leaves \in Seq(EventsOver(alive))
      BY <1>3, LeavesAreSent
    <3>2. CASE s = None
      <4>1. (events \o Leaves) \o es = events \o Leaves
        BY <3>1, <3>2 DEF es
      <4> QED BY <1>1, <3>1, <3>2, <4>1
    <3>3. CASE s # None
      <4> DEFINE e == EventOf("enter", s, entered + 1, FALSE)
      <4>1. e \in EventsOver(alive) /\ e.type = "enter" /\ e.surface = s /\ e.serial = entered + 1
        BY <1>0 DEF EventOf, EventsOver, EventTypes
      <4>2. es = <<e>> /\ entered' = entered + 1
        BY <1>1, <1>3, <3>3 DEF es, EnterOf
      <4> HIDE DEF e
      <4>3. ~Capable(e) /\ Enters(e)
        BY <3>3, <4>1 DEF Capable, Enters
      <4>4. Sending((events \o Leaves) \o <<e>>, e.surface, entered + 1, Len(events))
        BY <1>0, <3>1, <4>1, <4>3, SendingOne
      <4> QED BY <4>1, <4>2, <4>4
    <3> QED BY <3>2, <3>3
  <2>5. Told(events', Seen', entered', listening', caps')
    BY <1>1, <2>1, <2>3, <2>4, SendingEnds
  <2> QED BY <1>1, <2>5, ToldIsTracked
<1> QED BY <1>0, <1>2, <1>3

LEMMA UseTracks ==
  ASSUME PointerInv, TrackInv, NEW type \in {"motion", "button"}, Use(type)
  PROVE  TrackInv'
<1> DEFINE e == EventOf(type, at, 0, FALSE)
<1>0. TypeOK /\ listening \in BOOLEAN /\ at \in alive \cup {None}
  BY DEF PointerInv, TypeOK
<1>1. /\ Send(<<e>>) /\ UNCHANGED <<caps, listening, at, entered>>
      /\ UNCHANGED <<client, framed, torn>>
  BY DEF Use, Act, compositor
<1>2. e \in EventsOver(alive) /\ e.type = type
  BY <1>0 DEF EventOf, EventsOver, EventTypes
<1> HIDE DEF e
<1>3. Seen' = Seen /\ ~Relevant(e) /\ ~Capable(e)
  BY <1>1, <1>2 DEF Seen, Relevant, Capable
<1>4. CASE ~listening
  <2>1. events' = events
    BY <1>1, <1>4 DEF Send
  <2> QED BY <1>1, <1>3, <2>1, ToldNow, ToldIsTracked
<1>5. CASE listening
  <2>1. events' = (events \o <<e>>) \o FrameOf
    BY <1>1, <1>5 DEF Send
  <2>2. Sending(events \o <<e>>, Seen, entered, Len(events))
    BY <1>0, <1>2, <1>3, SendingStarts, SendingOne
  <2>3. Told(events', Seen', entered', listening', caps')
    BY <1>1, <1>3, <2>1, <2>2, SendingEnds
  <2> QED BY <1>1, <2>3, ToldIsTracked
<1> QED BY <1>0, <1>4, <1>5

LEMMA ResizeTracks ==
  ASSUME PointerInv, TrackInv, BeginResize \/ EndResize
  PROVE  TrackInv'
<1>0. TypeOK /\ events \in Seq(EventsOver(alive)) /\ entered \in Nat /\ listening \in BOOLEAN
      /\ at \in alive \cup {None} /\ asked \in open \cup {None} /\ grab \in open \cup {None}
      /\ \A w \in open : Content(w) \in alive
  BY DEF PointerInv, TypeOK, Housed
<1>1. UNCHANGED <<client, framed, torn>> /\ UNCHANGED <<caps, listening, entered>>
  BY DEF BeginResize, EndResize
<1>2. ASSUME NEW w \in open, NEW on \in BOOLEAN
      PROVE  \E e \in EventsOver(alive) : /\ ConfigureOf(w, on) = <<e>>
                                          /\ ~Stage(e) /\ ~Capable(e)
                                          /\ Relevant(e) => on
  <2> DEFINE e == EventOf("configure", Content(w), 0, on)
  <2>1. e \in EventsOver(alive) /\ e.type = "configure" /\ e.on = on
    BY <1>0 DEF EventOf, EventsOver, EventTypes
  <2>2. ConfigureOf(w, on) = <<e>>
    BY DEF ConfigureOf
  <2> HIDE DEF e
  <2>3. ~Stage(e) /\ ~Capable(e) /\ (Relevant(e) => on)
    BY <2>1 DEF Stage, Capable, Relevant
  <2> QED BY <2>1, <2>2, <2>3
<1>3. CASE BeginResize /\ grab = None /\ at # None /\ Owner(at) = asked
  <2> DEFINE es == IF listening THEN LeaveOf(at) \o FrameOf ELSE <<>>
  <2>1. at' = None /\ events' = (events \o es) \o ConfigureOf(asked, TRUE) /\ asked \in open
    BY <1>0, <1>3 DEF BeginResize
  <2>2. Seen' = None
    BY <2>1 DEF Seen
  <2>3. Told(events \o es, None, entered, listening, caps)
        /\ events \o es \in Seq(EventsOver(alive))
    <3>1. CASE listening
      <4>1. Leaves = LeaveOf(at) /\ Sending(events \o Leaves, None, entered, Len(events))
        BY <1>3, <3>1, LeavesAreSent
      <4>2. Told((events \o Leaves) \o FrameOf, None, entered, listening, caps)
        BY <4>1, SendingEnds
      <4>3. Leaves \in Seq(EventsOver(alive)) /\ FrameOf \in Seq(EventsOver(alive))
        BY EventsOfTheCompositor
      <4>4. (events \o Leaves) \o FrameOf = events \o (Leaves \o FrameOf)
        BY <1>0, <4>3, ConcatAssociative
      <4>5. es = Leaves \o FrameOf /\ es \in Seq(EventsOver(alive))
        BY <3>1, <4>1, <4>3, SeqGrows
      <4> HIDE DEF es
      <4> QED BY <1>0, <4>2, <4>4, <4>5, SeqGrows
    <3>2. CASE ~listening
      <4>1. events \o es = events /\ Seen = None
        BY <1>0, <3>2 DEF Seen
      <4> QED BY <1>0, <4>1, ToldNow
    <3> QED BY <1>0, <3>1, <3>2
  <2> HIDE DEF es
  <2>4. PICK e \in EventsOver(alive) : /\ ConfigureOf(asked, TRUE) = <<e>>
                                       /\ ~Stage(e) /\ ~Capable(e)
    BY <1>2, <2>1
  <2>5. Longer(events \o es, events', e)
    BY <2>1, <2>3, <2>4, AppendIsLonger
  <2>6. Told(events', None, entered, listening, caps)
    <3>1. CapsTrue(events', listening, pointer, caps)
      BY <2>3, <2>4, <2>5, CapsGrow DEF Told
    <3> QED BY <1>0, <2>3, <2>4, <2>5, <3>1, ToldAfterLeave
  <2> QED BY <1>1, <2>2, <2>6, ToldIsTracked
<1>4. CASE EndResize /\ events' = events \o ConfigureOf(grab, FALSE)
  <2>1. grab \in open /\ at' = at
    BY <1>0, <1>4 DEF EndResize
  <2>2. PICK e \in EventsOver(alive) : /\ ConfigureOf(grab, FALSE) = <<e>>
                                       /\ ~Stage(e) /\ ~Capable(e) /\ ~Relevant(e)
    BY <1>2, <2>1
  <2>3. Longer(events, events', e)
    BY <1>0, <1>4, <2>2, AppendIsLonger
  <2>4. Told(events', Seen, entered, listening, caps)
    <3>1. CapsTrue(events', listening, pointer, caps)
      BY <2>2, <2>3, ToldNow, CapsGrow DEF Told
    <3> QED BY <2>2, <2>3, <3>1, ToldNow, ToldStays
  <2>5. Seen' = Seen
    BY <1>1, <2>1 DEF Seen
  <2> QED BY <1>1, <2>4, <2>5, ToldIsTracked
<1>5. CASE UNCHANGED <<events, at>>
  <2>1. Seen' = Seen
    BY <1>1, <1>5 DEF Seen
  <2> QED BY <1>1, <1>5, <2>1, ToldNow, ToldIsTracked
<1> QED BY <1>3, <1>4, <1>5 DEF BeginResize, EndResize

(* The only step that a polite compositor is needed for.                   *)
LEMMA UnplugTracks ==
  ASSUME PointerInv, TrackInv, Polite, Unplug
  PROVE  TrackInv'
<1> DEFINE q == IF Polite /\ at # None THEN events \o LeaveOf(at) \o FrameOf ELSE events
           e == EventOf("capabilities", None, 0, FALSE)
<1>0. TypeOK /\ events \in Seq(EventsOver(alive)) /\ at \in alive \cup {None}
  BY DEF PointerInv, TypeOK
<1>1. /\ listening /\ caps' = FALSE /\ listening' = FALSE /\ events' = q \o <<e>>
      /\ UNCHANGED entered /\ UNCHANGED <<client, framed, torn>>
  BY DEF Unplug, Act
<1>2. e \in EventsOver(alive) /\ e.type = "capabilities" /\ e.on = FALSE
  BY DEF EventOf, EventsOver, EventTypes
<1> HIDE DEF e
<1>3. Capable(e) /\ ~e.on /\ ~Stage(e)
  BY <1>2 DEF Capable, Stage
<1>4. Told(q, None, entered, TRUE, caps) /\ q \in Seq(EventsOver(alive))
  <2>0. listening = TRUE
    BY <1>0, <1>1 DEF TypeOK
  <2>1. CASE at # None
    <3>1. Leaves = LeaveOf(at) /\ Sending(events \o Leaves, None, entered, Len(events))
      BY <1>1, <2>1, LeavesAreSent
    <3>2. q = (events \o Leaves) \o FrameOf
      BY <2>1, <3>1
    <3>3. Told(q, None, entered, listening, caps)
      BY <3>1, <3>2, SendingEnds
    <3>4. q \in Seq(EventsOver(alive))
      BY <1>0, <3>2, EventsOfTheCompositor, ConcatThree
    <3> HIDE DEF q
    <3> QED BY <2>0, <3>3, <3>4
  <2>2. CASE at = None
    <3>1. q = events /\ Seen = None
      BY <2>2 DEF Seen
    <3> QED BY <1>0, <2>0, <3>1, ToldNow
  <2> QED BY <2>1, <2>2
<1> HIDE DEF q
<1>5. Longer(q, events', e)
  BY <1>1, <1>2, <1>4, AppendIsLonger
<1>6. Told(events', None, entered, FALSE, FALSE)
  <2>1. CapsTrue(q, TRUE, pointer, caps)
    BY <1>4 DEF Told
  <2>2. CapsTrue(events', FALSE, pointer, FALSE)
    BY <1>3, <1>5, <2>1, CapsGo
  <2> QED BY <1>0, <1>3, <1>4, <1>5, <2>2, ToldAfterLeave
<1>7. Seen' = None
  BY <1>1 DEF Seen
<1> QED BY <1>1, <1>6, <1>7, ToldIsTracked

LEMMA PlugTracks ==
  ASSUME PointerInv, TrackInv, Plug
  PROVE  TrackInv'
<1> DEFINE e == EventOf("capabilities", None, 0, TRUE)
<1>0. events \in Seq(EventsOver(alive)) /\ caps \in BOOLEAN
  BY DEF PointerInv, TypeOK
<1>1. /\ ~caps /\ caps' = TRUE /\ events' = Append(events, e)
      /\ UNCHANGED <<listening, at, entered>> /\ UNCHANGED <<client, framed, torn>>
  BY DEF Plug, Act
<1>2. e \in EventsOver(alive) /\ e.type = "capabilities" /\ e.on = TRUE
  BY DEF EventOf, EventsOver, EventTypes
<1> HIDE DEF e
<1>3. Capable(e) /\ e.on /\ ~Stage(e) /\ ~Relevant(e)
  BY <1>2 DEF Capable, Stage, Relevant
<1>4. Longer(events, events', e)
  BY <1>0, <1>1, <1>2, AppendIsLonger
<1>5. Told(events', Seen, entered, listening, TRUE)
  <2>1. Told(events, Seen, entered, listening, caps)
    BY ToldNow
  <2>2. caps = FALSE /\ CapsTrue(events, listening, pointer, caps)
    BY <1>0, <1>1, <2>1 DEF Told
  <2>3. CapsTrue(events', listening, pointer, TRUE)
    BY <1>3, <1>4, <2>2, CapsCome
  <2> QED BY <1>3, <1>4, <2>1, <2>3, ToldStays
<1>6. Seen' = Seen
  BY <1>1 DEF Seen
<1> QED BY <1>1, <1>5, <1>6, ToldIsTracked

-----------------------------------------------------------------------------
LEMMA InitIsTracked == Init => TrackInv
<1> SUFFICES ASSUME Init PROVE TrackInv
  OBVIOUS
<1>1. events = <<>> /\ Len(events) = 0 /\ 1 .. Len(events) = {} /\ pending = Nothing
      /\ Seen = None /\ torn = FALSE /\ listening = TRUE /\ pointer = TRUE /\ caps = TRUE
  BY DEF Init, Seen
<1>2. /\ seat.pointerSurface = None /\ seat.hovered = {} /\ seat.cursorPreviousName = None
      /\ \A w \in Windows : seat.focus[w] = None
  BY DEF Init
<1>3. EffectiveSurface = None
  BY <1>1, <1>2 DEF EffectiveSurface, Nothing
<1>4. TypeOK
  BY InitIsGood DEF PointerInv
<1>5. SeatTrue(seat, decorated)
  BY <1>2, <1>4, SurfacesAre DEF SeatTrue
<1>6. ClientInv
  BY <1>1, <1>2, <1>5 DEF ClientInv, StageTrue, CursorTrue, Nothing
<1>7. Tracked
  BY <1>1, <1>3 DEF Tracked, Track
<1>8. Reached
  BY <1>1, <1>4, SurfacesAre DEF Reached, TypeOK
<1>9. FramesCome /\ CapsInv
  BY <1>1 DEF FramesCome, CapsInv, Frames, CapsTrue, Nothing
<1> QED BY <1>6, <1>7, <1>8, <1>9 DEF TrackInv

LEMMA NextIsTracked ==
  ASSUME PointerInv, TrackInv, Polite, [Next]_vars
  PROVE  TrackInv'
<1>1. CASE Dispatch
  BY <1>1, DispatchTracks
<1>2. ASSUME NEW w \in Windows, DestroyEdges(w) \/ HideEdges(w) PROVE TrackInv'
  BY <1>2, EdgesTrack
<1>3. ASSUME NEW w \in Windows, CreateEdges(w) PROVE TrackInv'
  BY <1>3, CreateTracks
<1>4. ASSUME NEW w \in Windows, DestroyWindow(w) PROVE TrackInv'
  BY <1>4, WindowTracks
<1>5. ASSUME NEW w \in Windows, SetCursor(w) PROVE TrackInv'
  BY <1>5, CursorTracks
<1>6. ASSUME NEW s \in alive \cup {None}, Move(s) PROVE TrackInv'
  BY <1>6, MoveTracks
<1>7. ASSUME NEW type \in {"motion", "button"}, Use(type) PROVE TrackInv'
  BY <1>7, UseTracks
<1>8. CASE BeginResize \/ EndResize
  BY <1>8, ResizeTracks
<1>9. CASE Unplug
  BY <1>9, UnplugTracks
<1>10. CASE Plug
  BY <1>10, PlugTracks
<1>11. CASE UNCHANGED vars
  <2>1. UNCHANGED <<client, framed, torn>> /\ UNCHANGED <<events, caps, listening, at, entered>>
    BY <1>11 DEF vars, compositor
  <2>2. Seen' = Seen
    BY <2>1 DEF Seen
  <2> QED BY <2>1, <2>2, ToldNow, ToldIsTracked
<1> QED BY <1>1, <1>2, <1>3, <1>4, <1>5, <1>6, <1>7, <1>8, <1>9, <1>10, <1>11 DEF Next

-----------------------------------------------------------------------------
(* Once all events have arrived, the client has the surface that the       *)
(* pointer is on.                                                          *)
LEMMA SettledAtRest ==
  ASSUME PointerInv, TrackInv, AtRest
  PROVE  /\ EffectiveSurface = seat.pointerSurface /\ "surface" \notin pending.events
         /\ seat.pointerSurface # None =>
               /\ listening /\ at = seat.pointerSurface
               /\ seat.pointerEnterSerial = entered
               /\ Owner(at) \notin resizing
         /\ ~torn => \A w \in open : listening /\ at = Content(w) => seat.pointerSurface = at
<1>1. events = <<>> /\ Len(events) = 0 /\ 0 + 1 .. Len(events) = {} /\ 1 .. Len(events) = {}
  BY DEF AtRest
<1>2. pending.events = {}
  <2>1. ~framed => pending = Nothing
    BY DEF PointerInv, TypeOK
  <2>2. framed => pending.events = {}
    BY <1>1 DEF TrackInv, FramesCome, Frames, FrameComes
  <2> QED BY <2>1, <2>2 DEF Nothing
<1>3. EffectiveSurface = seat.pointerSurface
  BY <1>2 DEF EffectiveSurface
<1>4. ASSUME seat.pointerSurface # None
      PROVE  /\ listening /\ at = seat.pointerSurface
             /\ seat.pointerEnterSerial = entered /\ Owner(at) \notin resizing
  <2>1. Opened(events, 0, seat.pointerSurface, seat.pointerEnterSerial, Seen, entered)
        /\ Owner(seat.pointerSurface) \notin resizing
    BY <1>3, <1>4 DEF TrackInv, Tracked, Track
  <2>2. seat.pointerSurface = Seen /\ seat.pointerEnterSerial = entered
    BY <1>1, <2>1 DEF Opened, Closed, Quiet
  <2> QED BY <1>4, <2>1, <2>2 DEF Seen
<1>5. ASSUME ~torn, NEW w \in open, listening, at = Content(w) PROVE seat.pointerSurface = at
  <2>1. Reach(events, EffectiveSurface, at)
    BY <1>5 DEF TrackInv, Reached, Seen
  <2> QED BY <1>1, <1>3, <2>1 DEF Reach
<1> QED BY <1>2, <1>3, <1>4, <1>5

LEMMA TrackIsTrue ==
  ASSUME PointerInv, TrackInv
  PROVE  HoveredIsTrue /\ EnterHeeded /\ CursorFollows /\ ResizeEnds
<1>0. SeatTrue(seat, decorated) /\ CursorTrue(seat, pending, torn) /\ open \subseteq Windows
      /\ seat.hovered \subseteq open /\ Good(seat, open, alive)
  BY DEF TrackInv, ClientInv, PointerInv, TypeOK, Good, SeatOver
<1>1. HoveredIsTrue
  <2> SUFFICES ASSUME AtRest
               PROVE  /\ \A w \in seat.hovered : at = Content(w)
                      /\ seat.pointerSurface \in {None, at}
    BY DEF HoveredIsTrue
  <2>1. seat.pointerSurface \in {None, at}
    BY SettledAtRest
  <2>2. ASSUME NEW w \in seat.hovered PROVE at = Content(w)
    <3>1. seat.pointerSurface = Content(w) /\ Content(w) # None
      BY <1>0, SurfacesAre DEF SeatTrue, PointerInv
    <3> QED BY <2>1, <3>1
  <2> QED BY <2>1, <2>2
<1>2. EnterHeeded
  <2> SUFFICES ASSUME AtRest, ~torn, NEW w \in open, at = Content(w), listening
               PROVE  w \in seat.hovered
    BY DEF EnterHeeded
  <2>1. seat.pointerSurface = Content(w)
    BY SettledAtRest
  <2> QED BY <1>0, <2>1 DEF SeatTrue
<1>3. CursorFollows
  <2> SUFFICES ASSUME AtRest, ~torn, at # None, seat.pointerSurface = at
               PROVE  \/ at = Content(Owner(at)) /\ seat.cursor = <<entered, "content">>
                      \/ at = seat.focus[Owner(at)] /\ seat.cursor = <<entered, at[2]>>
                      \/ at # Content(Owner(at)) /\ seat.focus[Owner(at)] = None
    BY DEF CursorFollows
  <2>1. "surface" \notin pending.events /\ seat.pointerEnterSerial = entered
    BY SettledAtRest
  <2>2. Shown(seat)
    BY <1>0, <2>1 DEF CursorTrue
  <2> QED BY <2>1, <2>2 DEF Shown
<1>4. ResizeEnds
  BY SettledAtRest DEF ResizeEnds
<1> QED BY <1>1, <1>2, <1>3, <1>4

(* With a compositor that sends a leave before it withdraws the pointer,   *)
(* the client keeps track of it, ...                                       *)
LEMMA PointerIsTracked == Polite /\ Spec => []TrackInv
<1>1. Init => TrackInv
  BY InitIsTracked
<1>2. PointerInv /\ (Polite /\ TrackInv) /\ [Next]_vars => (Polite /\ TrackInv)'
  BY NextIsTracked
<1> QED BY <1>1, <1>2, PointerInvariant, PTL DEF Spec

(* ... so that no window takes itself for hovered that the pointer is not  *)
(* on (the handlers of enter, leave and frame), ...                        *)
THEOREM HoveredIsUnderPointer == Polite /\ Spec => []HoveredIsTrue
<1>1. PointerInv /\ TrackInv => HoveredIsTrue
  BY TrackIsTrue
<1> QED BY <1>1, PointerInvariant, PointerIsTracked, PTL

(* ... the window that the pointer is on knows it, ...                     *)
THEOREM EntersAreHeeded == Polite /\ Spec => []EnterHeeded
<1>1. PointerInv /\ TrackInv => EnterHeeded
  BY TrackIsTrue
<1> QED BY <1>1, PointerInvariant, PointerIsTracked, PTL

(* ... the cursor is the one for the surface, asked for with the serial of *)
(* the enter (setCursorNameWayland and cursorPreviousName), ...            *)
THEOREM CursorIsCurrent == Polite /\ Spec => []CursorFollows
<1>1. PointerInv /\ TrackInv => CursorFollows
  BY TrackIsTrue
<1> QED BY <1>1, PointerInvariant, PointerIsTracked, PTL

(* ... and a window that was entered again is in no resize, even when the  *)
(* compositor does not say that it is over (pointerHandleEnter).           *)
THEOREM EnterEndsResize == Polite /\ Spec => []ResizeEnds
<1>1. PointerInv /\ TrackInv => ResizeEnds
  BY TrackIsTrue
<1> QED BY <1>1, PointerInvariant, PointerIsTracked, PTL
=============================================================================
