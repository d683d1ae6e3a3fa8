------------------------- MODULE WaylandEventsProofs -------------------------
(***************************************************************************)
(* That no key sticks and none repeats that is not pressed, for any number *)
(* of windows, keys and threads and however far main is behind the         *)
(* compositor.  A dispatch handles a whole queue, so that this takes an    *)
(* induction over the events in it.                                        *)
(***************************************************************************)
EXTENDS WaylandEvents, WellFoundedInduction, SequenceTheorems, TLAPS

Event ==
  [type : {"enter", "leave"}, of : Windows]
    \cup [type : {"press", "release"}, of : Keys]
    \cup [type : {"rate", "done"}, of : {None}]

(* What is on its way to main, and what a compositor may put into it when  *)
(* window f has the keyboard and the keys h are down: q[j] is the last     *)
(* word on what q[i] said, if they differ.                                 *)
Coming == queue \o socket
Later(q, i, type) == \E j \in i + 1 .. Len(q) : q[j].type = type
Released(q, i, k) == \E j \in i + 1 .. Len(q) : q[j].type = "release" /\ q[j].of = k
Between(q, i, j) == \E l \in i + 1 .. j - 1 : q[l].type = "leave"

Sound(q, f, h) ==
  \A i \in 1 .. Len(q) :
     /\ q[i].type = "enter" =>
           /\ q[i].of # f => Later(q, i, "leave")
           /\ \A j \in i + 1 .. Len(q) : q[j].type = "enter" => Between(q, i, j)
     /\ q[i].type = "press" =>
           /\ f = None => Later(q, i, "leave")
           /\ q[i].of \notin h => Later(q, i, "leave") \/ Released(q, i, q[i].of)

(* And what is still to come for a seat s that has handled n events of q.  *)
Behind(s, q, n, f, h) ==
  s.keyboardFocus # None =>
     /\ s.keyboardFocus # f => Later(q, n, "leave")
     /\ \A j \in n + 1 .. Len(q) : q[j].type = "enter" => Between(q, n, j)
     /\ \A k \in s.keys[s.keyboardFocus] \ h : Later(q, n, "leave") \/ Released(q, n, k)

Times == {"off", "armed", "expired"}
IsSeat(s, o) ==
  /\ s = [keyboardFocus |-> s.keyboardFocus, keys |-> s.keys, timer |-> s.timer,
          keyRepeatScancode |-> s.keyRepeatScancode, repeats |-> s.repeats]
  /\ s.keyboardFocus \in o \cup {None} /\ s.keys \in [Windows -> SUBSET Keys]
  /\ s.keyRepeatScancode \in Keys \cup {None} /\ s.repeats \in BOOLEAN /\ s.timer \in Times

(* Only the window with the keyboard has keys pressed, the one that        *)
(* repeats among them if any does.                                         *)
Tidy(s) ==
  /\ \A w \in Windows : s.keys[w] # {} => w = s.keyboardFocus
  /\ s.timer # "off" => /\ s.keyboardFocus # None
                        /\ s.keyRepeatScancode \in s.keys[s.keyboardFocus]

Counted ==
  /\ posts \in 0 .. MaxPosts /\ out \in 0 .. posts /\ wire \in 0 .. Capacity

SeatInv ==
  /\ IsSeat(seat, open) /\ Tidy(seat)
  /\ queue \in Seq(Event) /\ socket \in Seq(Event)
  /\ Sound(Coming, focus, held) /\ Behind(seat, Coming, 0, focus, held)

-----------------------------------------------------------------------------
(* Induction. *)
Below == {p \in Nat \X Nat : p[1] < p[2]}

LEMMA LeastNumber ==
  ASSUME NEW T \in SUBSET Nat, T # {}
  PROVE  \E n \in T : \A m \in T : n <= m
<1>1. Below = OpToRel(<, Nat)
  BY DEF Below, OpToRel
<1>2. IsWellFoundedOn(Below, Nat)
  BY <1>1, NatLessThanWellFounded
<1>3. PICK n \in T : \A m \in T : ~ (<<m, n>> \in Below)
  BY <1>2, WFMin
<1>4. \A m \in T : n <= m
  <2> TAKE m \in T
  <2>1. <<m, n>> \in Below <=> m < n
    BY DEF Below
  <2> QED BY <1>3, <2>1
<1> QED BY <1>4

(* Induction for sets: an operator as its parameter would be out of reach  *)
(* of the provers.                                                         *)
LEMMA SetInduction ==
  ASSUME NEW T, 0 \in T, \A n \in Nat : n \in T => n + 1 \in T
  PROVE  Nat \subseteq T
<1> SUFFICES ASSUME Nat \ T # {} PROVE FALSE
  OBVIOUS
<1>1. PICK n \in Nat \ T : \A m \in Nat \ T : n <= m
  BY LeastNumber
<1>2. n # 0 /\ n - 1 \in Nat /\ n - 1 < n
  BY <1>1
<1> QED BY <1>1, <1>2

(* The recursive function of the model is what its equation says. *)
LEMMA HandledIs ==
  ASSUME Len(queue) \in Nat
  PROVE  /\ Handled[0] = seat
         /\ \A n \in 1 .. Len(queue) : Handled[n] = Handle(Handled[n - 1], queue[n])
<1> DEFINE Is(g, m) == g = [n \in 0 .. m |-> IF n = 0 THEN seat ELSE Handle(g[n - 1], queue[n])]
           T == {m \in Nat : \E g : Is(g, m)}
<1>1. 0 \in T
  <2>1. Is([n \in 0 .. 0 |-> seat], 0)
    OBVIOUS
  <2> QED BY <2>1
<1>2. ASSUME NEW m \in Nat, m \in T PROVE m + 1 \in T
  <2>1. PICK g : Is(g, m)
    BY <1>2
  <2> DEFINE h == [n \in 0 .. m + 1 |-> IF n <= m THEN g[n] ELSE Handle(g[m], queue[m + 1])]
  <2>2. \A n \in 0 .. m + 1 : h[n] = IF n = 0 THEN seat ELSE Handle(h[n - 1], queue[n])
    BY <2>1
  <2>3. h = [n \in 0 .. m + 1 |-> h[n]]
    OBVIOUS
  <2> HIDE DEF h
  <2>4. Is(h, m + 1)
    BY <2>2, <2>3
  <2> QED BY <2>4
<1>3. Len(queue) \in T
  <2> HIDE DEF T
  <2>1. \A n \in Nat : n \in T => n + 1 \in T
    BY <1>2
  <2> QED BY <1>1, <2>1, SetInduction
<1>4. PICK g : Is(g, Len(queue))
  BY <1>3
<1>5. Is(Handled, Len(queue))
  BY <1>4, Zenon DEF Handled
<1> QED BY <1>5

-----------------------------------------------------------------------------
(* The compositor sends: what was to follow still does. *)
LEMMA Grown ==
  ASSUME NEW q \in Seq(Event), NEW e \in Event
  PROVE  /\ q \o <<e>> \in Seq(Event) /\ Len(q) \in Nat /\ Len(q \o <<e>>) = Len(q) + 1
         /\ (q \o <<e>>)[Len(q) + 1] = e
         /\ \A i \in 1 .. Len(q) : (q \o <<e>>)[i] = q[i]
OBVIOUS

(* One more event keeps what was said of the earlier ones. *)
Longer(q, t, e) ==
  /\ Len(q) \in Nat /\ Len(t) = Len(q) + 1 /\ t[Len(t)] = e
  /\ \A i \in 1 .. Len(q) : t[i] = q[i]

LEMMA LongerKeeps ==
  ASSUME NEW q, NEW t, NEW e, Longer(q, t, e), NEW i \in 0 .. Len(q)
  PROVE  /\ \A y : Later(q, i, y) => Later(t, i, y)
         /\ \A k : Released(q, i, k) => Released(t, i, k)
         /\ \A j \in 1 .. Len(q) : Between(q, i, j) <=> Between(t, i, j)
         /\ Later(q, i, "leave") => Between(t, i, Len(t))
         /\ \A y : e.type = y => Later(t, i, y)
         /\ \A k : e.type = "release" /\ e.of = k => Released(t, i, k)
BY DEF Longer, Later, Released, Between

LEMMA LeaveComes ==
  ASSUME NEW q, NEW t, NEW e, Longer(q, t, e), e.type = "leave",
         NEW s, NEW f, NEW h, Sound(q, f, h), Behind(s, q, 0, f, h)
  PROVE  Sound(t, None, h) /\ Behind(s, t, 0, None, h)
<1>1. \A i \in 0 .. Len(q) : Later(t, i, "leave")
  BY LongerKeeps
<1>2. Len(q) \in Nat /\ Len(t) = Len(q) + 1 /\ t[Len(t)] = e /\ \A i \in 1 .. Len(q) : t[i] = q[i]
  BY DEF Longer
<1>3. \A i \in 0 .. Len(q) : \A j \in 1 .. Len(q) : Between(q, i, j) => Between(t, i, j)
  BY LongerKeeps
<1>4. \A i \in 1 .. Len(t) : i \in 1 .. Len(q) \/ i = Len(t)
  BY <1>2
<1>5. Sound(t, None, h)
  <2> SUFFICES ASSUME NEW i \in 1 .. Len(t), t[i].type \in {"enter", "press"}
               PROVE  /\ Later(t, i, "leave")
                      /\ t[i].type = "enter" => \A j \in i + 1 .. Len(t) :
                            t[j].type = "enter" => Between(t, i, j)
    BY DEF Sound
  <2>1. i \in 1 .. Len(q)
    BY <1>2, <1>4
  <2>2. ASSUME t[i].type = "enter", NEW j \in i + 1 .. Len(t), t[j].type = "enter"
        PROVE  Between(t, i, j)
    <3>1. j \in i + 1 .. Len(q) /\ j \in 1 .. Len(q)
      BY <1>2, <2>1, <2>2
    <3>2. Between(q, i, j)
      BY <1>2, <2>1, <2>2, <3>1 DEF Sound
    <3> QED BY <1>3, <2>1, <3>1, <3>2
  <2> QED BY <1>1, <2>1, <2>2
<1>6. Behind(s, t, 0, None, h)
  <2> SUFFICES ASSUME s.keyboardFocus # None, NEW j \in 1 .. Len(t), t[j].type = "enter"
               PROVE  Between(t, 0, j)
    BY <1>1, <1>2 DEF Behind
  <2>1. j \in 1 .. Len(q)
    BY <1>2, <1>4
  <2> QED BY <1>2, <1>3, <2>1 DEF Behind
<1> QED BY <1>5, <1>6

LEMMA EnterComes ==
  ASSUME NEW q, NEW t, NEW e, Longer(q, t, e), e.type = "enter",
         NEW s, NEW h, Sound(q, None, h), Behind(s, q, 0, None, h),
         \A i \in 1 .. Len(q) : q[i].type = "enter" => q[i].of # None
  PROVE  Sound(t, e.of, h) /\ Behind(s, t, 0, e.of, h)
<1>1. Len(q) \in Nat /\ Len(t) = Len(q) + 1 /\ t[Len(t)] = e /\ \A i \in 1 .. Len(q) : t[i] = q[i]
  BY DEF Longer
<1>2. \A i \in 0 .. Len(q) : /\ \A j \in 1 .. Len(q) : Between(q, i, j) => Between(t, i, j)
                             /\ Later(q, i, "leave") => Later(t, i, "leave") /\ Between(t, i, Len(t))
  BY LongerKeeps
<1>3. \A i \in 1 .. Len(t) : i \in 1 .. Len(q) \/ i = Len(t)
  BY <1>1
<1>4. \A i \in 1 .. Len(q) : q[i].type \in {"enter", "press"} => Later(q, i, "leave")
  BY DEF Sound
<1>5. Sound(t, e.of, h)
  <2> SUFFICES ASSUME NEW i \in 1 .. Len(q), t[i].type \in {"enter", "press"}
               PROVE  /\ Later(t, i, "leave")
                      /\ t[i].type = "enter" => \A j \in i + 1 .. Len(t) :
                            t[j].type = "enter" => Between(t, i, j)
    BY <1>1, <1>3 DEF Sound
  <2>1. ASSUME t[i].type = "enter", NEW j \in i + 1 .. Len(t), t[j].type = "enter", j # Len(t)
        PROVE  Between(t, i, j)
    <3>1. j \in i + 1 .. Len(q) /\ j \in 1 .. Len(q)
      BY <1>1, <2>1
    <3>2. Between(q, i, j)
      BY <1>1, <2>1, <3>1 DEF Sound
    <3> QED BY <1>2, <3>1, <3>2
  <2> QED BY <1>1, <1>2, <1>4, <2>1
<1>6. Behind(s, t, 0, e.of, h)
  <2> SUFFICES ASSUME s.keyboardFocus # None
               PROVE  /\ Later(t, 0, "leave")
                      /\ \A j \in 1 .. Len(t) : t[j].type = "enter" => Between(t, 0, j)
    BY <1>1 DEF Behind
  <2>1. Later(q, 0, "leave") /\ 0 \in 0 .. Len(q)
    BY <1>1 DEF Behind
  <2>2. \A j \in 1 .. Len(q) : q[j].type = "enter" => Between(q, 0, j)
    BY DEF Behind
  <2> QED BY <1>1, <1>2, <1>3, <2>1, <2>2
<1> QED BY <1>5, <1>6

(* Keys and other events: only a key whose release is sent goes up. *)
LEMMA OtherComes ==
  ASSUME NEW q, NEW t, NEW e, Longer(q, t, e), e.type \notin {"enter", "leave"},
         NEW s, NEW f, NEW h, NEW hh, Sound(q, f, h), Behind(s, q, 0, f, h),
         e.type = "press" => f # None /\ e.of \in hh,
         \A k \in h : k \in hh \/ (e.type = "release" /\ e.of = k)
  PROVE  Sound(t, f, hh) /\ Behind(s, t, 0, f, hh)
<1>1. Len(q) \in Nat /\ Len(t) = Len(q) + 1 /\ t[Len(t)] = e /\ \A i \in 1 .. Len(q) : t[i] = q[i]
  BY DEF Longer
<1>2. \A i \in 0 .. Len(q) : /\ \A j \in 1 .. Len(q) : Between(q, i, j) => Between(t, i, j)
                             /\ Later(q, i, "leave") => Later(t, i, "leave")
  BY LongerKeeps
<1>3. \A i \in 1 .. Len(t) : i \in 1 .. Len(q) \/ i = Len(t)
  BY <1>1
<1>4. \A i \in 0 .. Len(q) : \A k \in h \ hh : Released(t, i, k)
  BY LongerKeeps
<1>5. Sound(t, f, hh)
  <2> SUFFICES ASSUME NEW i \in 1 .. Len(t)
               PROVE  /\ t[i].type = "enter" =>
                           /\ t[i].of # f => Later(t, i, "leave")
                           /\ \A j \in i + 1 .. Len(t) : t[j].type = "enter" => Between(t, i, j)
                      /\ t[i].type = "press" =>
                           /\ f = None => Later(t, i, "leave")
                           /\ t[i].of \notin hh => Later(t, i, "leave") \/ Released(t, i, t[i].of)
    BY DEF Sound
  <2>1. CASE i = Len(t)
    BY <1>1, <2>1
  <2>2. CASE i \in 1 .. Len(q)
    <3>1. t[i] = q[i] /\ i \in 0 .. Len(q)
      BY <1>1, <2>2
    <3>2. t[i].type = "enter" => /\ t[i].of # f => Later(t, i, "leave")
                                 /\ \A j \in i + 1 .. Len(t) : t[j].type = "enter" => Between(t, i, j)
      <4>1. ASSUME t[i].type = "enter", NEW j \in i + 1 .. Len(t), t[j].type = "enter"
            PROVE  Between(t, i, j)
        <5>1. j \in i + 1 .. Len(q) /\ j \in 1 .. Len(q)
          BY <1>1, <2>2, <4>1
        <5>2. Between(q, i, j)
          BY <1>1, <2>2, <4>1, <5>1 DEF Sound
        <5> QED BY <1>2, <3>1, <5>1, <5>2
      <4>2. t[i].type = "enter" /\ t[i].of # f => Later(q, i, "leave")
        BY <2>2, <3>1 DEF Sound
      <4> QED BY <1>2, <3>1, <4>1, <4>2
    <3>3. t[i].type = "press" /\ f = None => Later(t, i, "leave")
      BY <1>2, <2>2, <3>1 DEF Sound
    <3>4. ASSUME t[i].type = "press", t[i].of \notin hh
          PROVE  Later(t, i, "leave") \/ Released(t, i, t[i].of)
      <4>1. CASE t[i].of \in h
        BY <1>4, <3>1, <3>4, <4>1
      <4>2. CASE t[i].of \notin h
        <5>1. Later(q, i, "leave") \/ Released(q, i, t[i].of)
          BY <2>2, <3>1, <3>4, <4>2 DEF Sound
        <5> QED BY <3>1, <5>1, LongerKeeps
      <4> QED BY <4>1, <4>2
    <3> QED BY <3>2, <3>3, <3>4
  <2> QED BY <1>3, <2>1, <2>2
<1>6. Behind(s, t, 0, f, hh)
  <2> SUFFICES ASSUME s.keyboardFocus # None
               PROVE  /\ s.keyboardFocus # f => Later(t, 0, "leave")
                      /\ \A j \in 1 .. Len(t) : t[j].type = "enter" => Between(t, 0, j)
                      /\ \A k \in s.keys[s.keyboardFocus] \ hh :
                            Later(t, 0, "leave") \/ Released(t, 0, k)
    BY <1>1 DEF Behind
  <2>1. 0 \in 0 .. Len(q)
    BY <1>1
  <2>2. s.keyboardFocus # f => Later(t, 0, "leave")
    BY <1>2, <2>1 DEF Behind
  <2>3. ASSUME NEW j \in 1 .. Len(t), t[j].type = "enter" PROVE Between(t, 0, j)
    <3>1. j \in 1 .. Len(q) /\ q[j].type = "enter"
      BY <1>1, <1>3, <2>3
    <3>2. Between(q, 0, j)
      BY <3>1 DEF Behind
    <3> QED BY <1>2, <2>1, <3>1, <3>2
  <2>4. ASSUME NEW k \in s.keys[s.keyboardFocus] \ hh
        PROVE  Later(t, 0, "leave") \/ Released(t, 0, k)
    <3>1. CASE k \in h
      BY <1>4, <2>1, <2>4, <3>1
    <3>2. CASE k \notin h
      <4>1. Later(q, 0, "leave") \/ Released(q, 0, k)
        BY <2>4, <3>2 DEF Behind
      <4> QED BY <2>1, <4>1, LongerKeeps
    <3> QED BY <3>1, <3>2
  <2> QED BY <2>2, <2>3, <2>4
<1> QED BY <1>5, <1>6

(* Without a window with the keyboard keys go up and down unseen: all that *)
(* was said of them ends with a leave.                                     *)
LEMMA KeysUnseen ==
  ASSUME NEW q, NEW s, NEW h, NEW hh, Sound(q, None, h), Behind(s, q, 0, None, h)
  PROVE  Sound(q, None, hh) /\ Behind(s, q, 0, None, hh)
BY DEF Sound, Behind

-----------------------------------------------------------------------------
(* A seat handles the next event. *)
LEMMA HandledOne ==
  ASSUME NEW q \in Seq(Event), NEW n \in 0 .. Len(q) - 1, NEW s, NEW f, NEW h,
         IsSeat(s, open), Tidy(s), open \subseteq Windows,
         Sound(q, f, h), Behind(s, q, n, f, h)
  PROVE  LET r == Handle(s, q[n + 1])
         IN  IsSeat(r, open) /\ Tidy(r) /\ Behind(r, q, n + 1, f, h)
<1> DEFINE e == q[n + 1]
           r == Handle(s, e)
<1> SUFFICES IsSeat(r, open) /\ Tidy(r) /\ Behind(r, q, n + 1, f, h)
  OBVIOUS
<1>1. Len(q) \in Nat /\ n \in Nat /\ n + 1 \in 1 .. Len(q) /\ e \in Event
  OBVIOUS
<1>2. None \notin Windows /\ None \notin Keys
  BY EventsAssumption DEF EventsAssumption
<1>3. /\ Later(q, n, "leave") => Later(q, n + 1, "leave") \/ e.type = "leave"
      /\ \A k : Released(q, n, k) => Released(q, n + 1, k) \/ (e.type = "release" /\ e.of = k)
      /\ \A j \in n + 2 .. Len(q) : Between(q, n, j) => Between(q, n + 1, j) \/ e.type = "leave"
  BY <1>1 DEF Later, Released, Between
<1>4. /\ e.type = "enter" => /\ e.of # f => Later(q, n + 1, "leave")
                             /\ \A j \in n + 2 .. Len(q) :
                                   q[j].type = "enter" => Between(q, n + 1, j)
      /\ e.type = "press" /\ e.of \notin h => Later(q, n + 1, "leave") \/ Released(q, n + 1, e.of)
  BY <1>1 DEF Sound
<1>5. s.keyboardFocus # None =>
        /\ e.type # "enter"
        /\ s.keyboardFocus # f => Later(q, n, "leave")
        /\ \A j \in n + 2 .. Len(q) : q[j].type = "enter" => Between(q, n, j)
        /\ \A k \in s.keys[s.keyboardFocus] \ h : Later(q, n, "leave") \/ Released(q, n, k)
  <2>1. ~Between(q, n, n + 1)
    BY <1>1 DEF Between
  <2> QED BY <1>1, <2>1 DEF Behind
<1>6. /\ e.type \in {"enter", "leave", "press", "release", "rate", "done"}
      /\ e.type \in {"enter", "leave"} => e.of \in Windows
      /\ e.type \in {"press", "release"} => e.of \in Keys
  BY <1>1 DEF Event
<1>7. n + 1 + 1 = n + 2
  BY <1>1
<1> HIDE DEF e
<1>8. CASE e.type = "enter"
  <2>1. CASE e.of \notin open
    <3>1. r = s
      BY <1>8, <2>1 DEF Handle, HandleEnter
    <3>2. Behind(s, q, n + 1, f, h)
      BY <1>5, <1>8 DEF Behind
    <3> QED BY <3>1, <3>2
  <2>2. CASE e.of \in open
    <3>1. r = [s EXCEPT !.keyboardFocus = e.of]
      BY <1>8, <2>2 DEF Handle, HandleEnter
    <3> HIDE DEF r
    <3>2. /\ r.keyboardFocus = e.of /\ r.keys = s.keys /\ r.timer = s.timer
          /\ IsSeat(r, open)
      BY <2>2, <3>1 DEF IsSeat
    <3>3. s.keyboardFocus = None /\ s.timer = "off" /\ \A w \in Windows : s.keys[w] = {}
      BY <1>2, <1>5, <1>8 DEF Tidy
    <3>4. Tidy(r)
      BY <3>2, <3>3 DEF Tidy
    <3>5. Behind(r, q, n + 1, f, h)
      BY <1>4, <1>6, <1>7, <1>8, <3>2, <3>3 DEF Behind
    <3> QED BY <3>2, <3>4, <3>5
  <2> QED BY <2>1, <2>2
<1>9. CASE e.type = "leave"
  <2>1. CASE s.keyboardFocus = None
    <3>1. r = s
      BY <1>9, <2>1 DEF Handle, HandleLeave
    <3> HIDE DEF r
    <3> QED BY <2>1, <3>1 DEF Behind
  <2>2. CASE s.keyboardFocus # None
    <3>1. r = [s EXCEPT !.keyboardFocus = None, !.keys[s.keyboardFocus] = {}, !.timer = "off"]
      BY <1>9, <2>2 DEF Handle, HandleLeave
    <3> HIDE DEF r
    <3>2. /\ IsSeat(r, open) /\ r.keyboardFocus = None /\ r.timer = "off"
          /\ r.keys = [s.keys EXCEPT ![s.keyboardFocus] = {}]
      BY <3>1 DEF IsSeat, Times
    <3>3. Tidy(r)
      BY <3>2 DEF Tidy, IsSeat
    <3> QED BY <3>2, <3>3 DEF Behind
  <2> QED BY <2>1, <2>2
<1>10. CASE e.type \in {"press", "release"} /\ s.keyboardFocus # None
  <2> DEFINE pressed == e.type = "press"
             repeats == pressed /\ e.of \in Repeating /\ s.repeats
             w == s.keyboardFocus
             down == IF pressed THEN s.keys[w] \cup {e.of} ELSE s.keys[w] \ {e.of}
             last == IF repeats THEN e.of ELSE s.keyRepeatScancode
             timer == CASE repeats -> "armed"
                        [] ~pressed /\ e.of = s.keyRepeatScancode -> "off"
                        [] OTHER -> s.timer
  <2>1. r = [s EXCEPT !.keys[w] = down, !.keyRepeatScancode = last, !.timer = timer]
    BY <1>10 DEF Handle, HandleKey
  <2>2. w \in Windows /\ w # None /\ down \in SUBSET Keys /\ last \in Keys \cup {None} /\ timer \in Times
        /\ \A v \in Windows : s.keys[v] \subseteq Keys
    BY <1>2, <1>6, <1>10 DEF IsSeat, Times
  <2> HIDE DEF r, down, last, timer, repeats, w
  <2>3. /\ IsSeat(r, open) /\ r.keyboardFocus = w /\ r.keyRepeatScancode = last /\ r.timer = timer
        /\ r.keys = [s.keys EXCEPT ![w] = down]
    BY <2>1, <2>2 DEF IsSeat, w
  <2>4. /\ r.keys[w] = down /\ \A v \in Windows \ {w} : r.keys[v] = s.keys[v]
    BY <2>2, <2>3 DEF IsSeat
  <2>5. timer # "off" => last \in down
    <3>1. s.timer # "off" => s.keyRepeatScancode \in s.keys[w]
      BY DEF Tidy, w
    <3> QED BY <3>1 DEF timer, last, down, repeats
  <2>6. Tidy(r)
    BY <2>2, <2>3, <2>4, <2>5 DEF Tidy, w
  <2>7. /\ w # f => Later(q, n + 1, "leave")
        /\ \A j \in n + 2 .. Len(q) : q[j].type = "enter" => Between(q, n + 1, j)
    BY <1>3, <1>5, <1>10 DEF w
  <2>8. ASSUME NEW k \in down \ h
        PROVE  Later(q, n + 1, "leave") \/ Released(q, n + 1, k)
    <3>1. CASE e.type = "press" /\ k = e.of
      BY <1>4, <2>8, <3>1
    <3>2. CASE ~(e.type = "press" /\ k = e.of)
      <4>1. k \in s.keys[w] \ h /\ ~(e.type = "release" /\ e.of = k)
        BY <1>10, <2>8, <3>2 DEF down
      <4> QED BY <1>3, <1>5, <1>10, <4>1 DEF w
    <3> QED BY <3>1, <3>2
  <2>9. Behind(r, q, n + 1, f, h)
    BY <1>7, <2>3, <2>4, <2>7, <2>8 DEF Behind
  <2> QED BY <2>3, <2>6, <2>9
<1>11. CASE e.type \in {"rate", "done"} \/ (e.type \in {"press", "release"} /\ s.keyboardFocus = None)
  <2>1. r.keyboardFocus = s.keyboardFocus /\ r.keys = s.keys /\ r.timer = s.timer
        /\ r.keyRepeatScancode = s.keyRepeatScancode /\ IsSeat(r, open)
    BY <1>11 DEF Handle, HandleKey, HandleRepeatInfo, IsSeat
  <2> HIDE DEF r
  <2>2. Tidy(r)
    BY <2>1 DEF Tidy
  <2>3. s.keyboardFocus # None =>
          /\ s.keyboardFocus # f => Later(q, n + 1, "leave")
          /\ \A j \in n + 2 .. Len(q) : q[j].type = "enter" => Between(q, n + 1, j)
          /\ \A k \in s.keys[s.keyboardFocus] \ h : Later(q, n + 1, "leave") \/ Released(q, n + 1, k)
    BY <1>3, <1>5, <1>11
  <2>4. Behind(r, q, n + 1, f, h)
    BY <1>7, <2>1, <2>3 DEF Behind
  <2> QED BY <2>1, <2>2, <2>4
<1> QED BY <1>6, <1>8, <1>9, <1>10, <1>11

(* What is left when the events a are gone. *)
LEMMA Shifted ==
  ASSUME NEW a \in Seq(Event), NEW b \in Seq(Event), NEW s, NEW f, NEW h,
         Sound(a \o b, f, h), Behind(s, a \o b, Len(a), f, h)
  PROVE  Sound(b, f, h) /\ Behind(s, b, 0, f, h)
<1> DEFINE q == a \o b
           m == Len(a)
<1>1. /\ m \in Nat /\ Len(b) \in Nat /\ Len(q) = m + Len(b)
      /\ \A i \in 1 .. Len(b) : q[m + i] = b[i]
  OBVIOUS
<1>2. Sound(q, f, h) /\ Behind(s, q, m, f, h)
  OBVIOUS
<1> HIDE DEF q, m
<1>3. \A i \in 0 .. Len(b) :
         /\ m + i \in m .. Len(q)
         /\ i # 0 => m + i \in 1 .. Len(q)
         /\ \A j \in i + 1 .. Len(b) : m + j \in m + i + 1 .. Len(q)
         /\ \A j \in m + i + 1 .. Len(q) : j - m \in i + 1 .. Len(b) /\ b[j - m] = q[j]
  BY <1>1
<1>4. \A i \in 0 .. Len(b) :
         /\ \A y : Later(q, m + i, y) => Later(b, i, y)
         /\ \A k : Released(q, m + i, k) => Released(b, i, k)
  BY <1>3 DEF Later, Released
<1>5. \A i \in 0 .. Len(b) : \A j \in 1 .. Len(b) : Between(q, m + i, m + j) => Between(b, i, j)
  <2> SUFFICES ASSUME NEW i \in 0 .. Len(b), NEW j \in 1 .. Len(b), Between(q, m + i, m + j)
               PROVE  Between(b, i, j)
    OBVIOUS
  <2>1. PICK l \in m + i + 1 .. (m + j) - 1 : q[l].type = "leave"
    BY DEF Between
  <2> DEFINE x == l - m
  <2>2. m \in Int /\ i \in Int /\ j \in Int /\ l \in Int /\ i >= 0 /\ j <= Len(b) /\ Len(b) \in Int
    BY <1>1
  <2>3. x \in i + 1 .. j - 1 /\ x \in 1 .. Len(b) /\ m + x = l
    BY <2>2
  <2> HIDE DEF x
  <2>4. b[x].type = "leave"
    BY <1>1, <2>1, <2>3
  <2> QED BY <2>3, <2>4 DEF Between
<1>6. Sound(b, f, h)
  <2> SUFFICES ASSUME NEW i \in 1 .. Len(b)
               PROVE  /\ b[i].type = "enter" =>
                           /\ b[i].of # f => Later(b, i, "leave")
                           /\ \A j \in i + 1 .. Len(b) : b[j].type = "enter" => Between(b, i, j)
                      /\ b[i].type = "press" =>
                           /\ f = None => Later(b, i, "leave")
                           /\ b[i].of \notin h => Later(b, i, "leave") \/ Released(b, i, b[i].of)
    BY DEF Sound
  <2>1. i \in 0 .. Len(b) /\ m + i \in 1 .. Len(q) /\ q[m + i] = b[i]
    BY <1>1
  <2>2. b[i].type = "enter" /\ b[i].of # f => Later(q, m + i, "leave")
    BY <1>2, <2>1 DEF Sound
  <2>3. ASSUME b[i].type = "enter", NEW j \in i + 1 .. Len(b), b[j].type = "enter"
        PROVE  Between(b, i, j)
    <3>1. j \in 1 .. Len(b) /\ m + j \in m + i + 1 .. Len(q) /\ q[m + j] = b[j]
      BY <1>1, <2>3
    <3>2. \A l \in m + i + 1 .. Len(q) : q[l].type = "enter" => Between(q, m + i, l)
      BY <1>2, <2>1, <2>3 DEF Sound
    <3>3. Between(q, m + i, m + j)
      BY <2>3, <3>1, <3>2
    <3> QED BY <1>5, <2>1, <3>1, <3>3
  <2>4. b[i].type = "press" =>
          /\ f = None => Later(q, m + i, "leave")
          /\ b[i].of \notin h => Later(q, m + i, "leave") \/ Released(q, m + i, b[i].of)
    BY <1>2, <2>1 DEF Sound
  <2> QED BY <1>4, <2>1, <2>2, <2>3, <2>4
<1>7. Behind(s, b, 0, f, h)
  <2> SUFFICES ASSUME s.keyboardFocus # None
               PROVE  /\ s.keyboardFocus # f => Later(b, 0, "leave")
                      /\ \A j \in 1 .. Len(b) : b[j].type = "enter" => Between(b, 0, j)
                      /\ \A k \in s.keys[s.keyboardFocus] \ h :
                            Later(b, 0, "leave") \/ Released(b, 0, k)
    BY DEF Behind
  <2>1. 0 \in 0 .. Len(b) /\ m + 0 = m
    BY <1>1
  <2>2. /\ s.keyboardFocus # f => Later(q, m, "leave")
        /\ \A j \in m + 1 .. Len(q) : q[j].type = "enter" => Between(q, m, j)
        /\ \A k \in s.keys[s.keyboardFocus] \ h : Later(q, m, "leave") \/ Released(q, m, k)
    BY <1>2 DEF Behind
  <2>3. ASSUME NEW j \in 1 .. Len(b), b[j].type = "enter" PROVE Between(b, 0, j)
    <3>1. m + j \in m + 1 .. Len(q) /\ q[m + j] = b[j]
      BY <1>1
    <3>2. Between(q, m, m + j)
      BY <2>2, <2>3, <3>1
    <3>3. Between(q, m + 0, m + j)
      BY <2>1, <3>2
    <3> QED BY <1>5, <2>1, <3>3
  <2>4. \A y : Later(q, m, y) => Later(b, 0, y)
    BY <1>4, <2>1
  <2>5. \A k : Released(q, m, k) => Released(b, 0, k)
    BY <1>4, <2>1
  <2> QED BY <2>2, <2>3, <2>4, <2>5
<1> QED BY <1>6, <1>7

-----------------------------------------------------------------------------
(* The inductive invariant, step by step. *)
Places == {"app", "prepare", "flush", "poll", "read", "dispatch", "repeat"}
Rest ==
  /\ pc \in Places /\ ready \subseteq {"display", "repeat"} /\ event \in BOOLEAN
  /\ error \in {"none", "told", "set"} /\ lost \in {"no", "told", "silent"}
  /\ post \in [Threads -> {"idle", "flush"}] /\ open \subseteq Windows /\ closing \in BOOLEAN
  /\ focus \in Windows \cup {None} /\ held \subseteq Keys

EventsInv == Rest /\ Counted /\ SeatInv

(* All queued events are handled at once. *)
LEMMA DispatchKeeps ==
  ASSUME SeatInv, open \subseteq Windows, Dispatched, UNCHANGED <<open, focus, held, socket>>
  PROVE  SeatInv'
<1>1. CASE error # "none"
  BY <1>1 DEF Dispatched, SeatInv, Coming
<1>2. CASE error = "none"
  <2> DEFINE q == queue \o socket
             n == Len(queue)
             At(m) == /\ IsSeat(Handled[m], open) /\ Tidy(Handled[m])
                      /\ Behind(Handled[m], q, m, focus, held)
             T == {m \in Nat : m <= n => At(m)}
  <2>1. /\ queue \in Seq(Event) /\ socket \in Seq(Event) /\ q \in Seq(Event)
        /\ n \in Nat /\ Len(q) \in Nat /\ Len(q) >= n /\ \A i \in 1 .. n : q[i] = queue[i]
    BY DEF SeatInv
  <2>2. Sound(q, focus, held) /\ Behind(seat, q, 0, focus, held) /\ IsSeat(seat, open) /\ Tidy(seat)
    BY DEF SeatInv, Coming
  <2>3. Handled[0] = seat /\ \A m \in 1 .. n : Handled[m] = Handle(Handled[m - 1], queue[m])
    BY <2>1, HandledIs
  <2>4. 0 \in T
    BY <2>2, <2>3
  <2>5. ASSUME NEW m \in Nat, m \in T PROVE m + 1 \in T
    <3>1. SUFFICES ASSUME m + 1 <= n PROVE At(m + 1)
      OBVIOUS
    <3>2. At(m)
      BY <2>1, <2>5, <3>1
    <3> HIDE DEF q, n
    <3>3. m \in 0 .. Len(q) - 1 /\ m + 1 \in 1 .. n /\ m + 1 - 1 = m
      BY <2>1, <3>1
    <3>4. Handled[m + 1] = Handle(Handled[m], q[m + 1])
      BY <2>1, <2>3, <3>3
    <3> QED BY <2>1, <2>2, <3>2, <3>3, <3>4, HandledOne
  <2>6. n \in T
    <3> HIDE DEF T, n
    <3>1. \A m \in Nat : m \in T => m + 1 \in T
      BY <2>5
    <3> QED BY <2>1, <2>4, <3>1, SetInduction
  <2>7. At(n)
    BY <2>1, <2>6
  <2>8. Sound(socket, focus, held) /\ Behind(Handled[n], socket, 0, focus, held)
    BY <2>1, <2>2, <2>7, Shifted
  <2>9. queue' = <<>> /\ seat' = Handled[n] /\ Coming' = socket
    BY <1>2, <2>1 DEF Dispatched, Coming
  <2> QED BY <2>1, <2>7, <2>8, <2>9 DEF SeatInv
<1> QED BY <1>1, <1>2

(* The events only change queues. *)
LEMMA SameComing ==
  ASSUME SeatInv, Coming' = Coming, queue' \in Seq(Event), socket' \in Seq(Event),
         UNCHANGED <<seat, open, focus, held>>
  PROVE  SeatInv'
BY DEF SeatInv

(* Only what the seat is behind with counts for its queue. *)
LEMMA SameFocus ==
  ASSUME SeatInv, UNCHANGED <<queue, socket, focus, held>>,
         IsSeat(seat', open'), Tidy(seat'),
         seat'.keyboardFocus # None => /\ seat'.keyboardFocus = seat.keyboardFocus
                                       /\ seat'.keys[seat.keyboardFocus] = seat.keys[seat.keyboardFocus]
  PROVE  SeatInv'
BY DEF SeatInv, Behind, Coming

(* The compositor sends an event. *)
LEMMA Sending ==
  ASSUME queue \in Seq(Event), socket \in Seq(Event), NEW e \in Event
  PROVE  /\ socket \o <<e>> \in Seq(Event)
         /\ queue \o (socket \o <<e>>) = Coming \o <<e>>
         /\ Longer(Coming, Coming \o <<e>>, e)
         /\ Coming \in Seq(Event)
<1>1. Coming \in Seq(Event)
  BY DEF Coming
<1>2. Longer(Coming, Coming \o <<e>>, e)
  BY <1>1, Grown DEF Longer
<1>3. queue \o (socket \o <<e>>) = Coming \o <<e>>
  BY DEF Coming
<1> QED BY <1>1, <1>2, <1>3

LEMMA MinOfTwo ==
  ASSUME NEW a \in Nat, NEW b \in Nat
  PROVE  Min({a, b}) \in {a, b} /\ Min({a, b}) <= a /\ Min({a, b}) <= b
<1>1. \E x \in {a, b} : \A y \in {a, b} : x <= y
  <2>1. CASE a <= b
    BY <2>1
  <2>2. CASE b <= a
    BY <2>2
  <2> QED BY <2>1, <2>2
<1>2. Min({a, b}) \in {a, b} /\ \A y \in {a, b} : Min({a, b}) <= y
  BY <1>1 DEF Min
<1> QED BY <1>2

LEMMA FlushedKeeps ==
  ASSUME Counted, Flushed, UNCHANGED posts
  PROVE  Counted'
<1> DEFINE n == Min({out, Capacity - wire})
<1>1. Capacity \in Nat /\ MaxPosts \in Nat
  BY EventsAssumption DEF EventsAssumption
<1>2. posts \in Nat /\ out \in Nat /\ wire \in Nat /\ Capacity - wire \in Nat
  BY <1>1 DEF Counted
<1>3. n \in Nat /\ n <= out /\ n <= Capacity - wire
  BY <1>2, MinOfTwo
<1>4. out' = out - n /\ wire' = wire + n
  BY DEF Flushed
<1> HIDE DEF n
<1> QED BY <1>1, <1>2, <1>3, <1>4 DEF Counted

LEMMA ReadKeeps ==
  ASSUME SeatInv, ReadDisplay, error \in {"none", "told", "set"}, lost \in {"no", "told", "silent"},
         UNCHANGED <<seat, open, focus, held>>
  PROVE  SeatInv' /\ error' \in {"none", "told", "set"}
<1>1. queue' = queue \o socket /\ socket' = <<>>
  BY DEF ReadDisplay
<1>2. queue' \in Seq(Event) /\ socket' \in Seq(Event) /\ queue' \o socket' = queue \o socket
  BY <1>1 DEF SeatInv
<1>3. SeatInv'
  BY <1>2, SameComing DEF Coming
<1>4. error' \in {"none", "told", "set"}
  BY DEF ReadDisplay
<1> QED BY <1>3, <1>4

(* The repeat of a key that is pressed presses none. *)
LEMMA RepeatKeeps ==
  ASSUME EventsInv, Repeat
  PROVE  SeatInv'
<1> DEFINE some == Expired /\ seat.keyboardFocus # None
           w == seat.keyboardFocus
           k == seat.keyRepeatScancode
           time == IF Expired THEN "armed" ELSE seat.timer
           pressed == IF some THEN [seat.keys EXCEPT ![w] = @ \cup {k}] ELSE seat.keys
<1>1. IsSeat(seat, open) /\ Tidy(seat) /\ open \subseteq Windows
  BY DEF EventsInv, SeatInv, Rest
<1>2. seat' = [seat EXCEPT !.timer = time, !.keys = pressed]
  BY DEF Repeat, WithKey
<1>3. pressed = seat.keys
  <2>1. CASE ~some
    BY <2>1
  <2>2. CASE some
    <3>1. seat.timer = "expired" /\ w \in Windows /\ k \in seat.keys[w]
      BY <1>1, <2>2 DEF IsSeat, Expired, Tidy
    <3>2. seat.keys \in [Windows -> SUBSET Keys]
      BY <1>1 DEF IsSeat
    <3>3. seat.keys[w] \cup {k} = seat.keys[w]
      BY <3>1
    <3>4. pressed = [seat.keys EXCEPT ![w] = seat.keys[w] \cup {k}]
      BY <2>2
    <3> HIDE DEF pressed, w, k
    <3> QED BY <3>1, <3>2, <3>3, <3>4
  <2> QED BY <2>1, <2>2
<1>4. time \in Times /\ (time # "off" => seat.timer # "off")
  BY <1>1 DEF IsSeat, Times, Expired
<1> HIDE DEF pressed, time
<1>5. /\ seat'.keyboardFocus = seat.keyboardFocus /\ seat'.keys = seat.keys
      /\ seat'.keyRepeatScancode = seat.keyRepeatScancode /\ seat'.timer = time
      /\ IsSeat(seat', open)
  BY <1>1, <1>2, <1>3, <1>4 DEF IsSeat
<1>6. Tidy(seat')
  BY <1>1, <1>4, <1>5 DEF Tidy
<1>7. UNCHANGED <<queue, socket, focus, held, open>>
  BY DEF Repeat, Outside, connection, compositor
<1> QED BY <1>5, <1>6, <1>7, SameFocus DEF EventsInv

LEMMA DestroyKeeps ==
  ASSUME EventsInv, NEW w \in Windows, DestroyWindow(w)
  PROVE  SeatInv'
<1>1. IsSeat(seat, open) /\ Tidy(seat) /\ open \subseteq Windows /\ open' = open \ {w}
  BY DEF EventsInv, SeatInv, Rest, DestroyWindow
<1> DEFINE u == Unfocused(seat, w)
<1>2. /\ u.keyboardFocus = IF seat.keyboardFocus = w THEN None ELSE seat.keyboardFocus
      /\ u.timer = IF seat.keyboardFocus = w THEN "off" ELSE seat.timer
      /\ u.keys = seat.keys /\ u.keyRepeatScancode = seat.keyRepeatScancode
      /\ IsSeat(u, open')
  BY <1>1 DEF Unfocused, IsSeat, Times
<1>3. seat' = [u EXCEPT !.keys[w] = {}]
  BY DEF DestroyWindow
<1> HIDE DEF u
<1>4. /\ seat'.keyboardFocus = u.keyboardFocus /\ seat'.timer = u.timer
      /\ seat'.keyRepeatScancode = seat.keyRepeatScancode
      /\ seat'.keys = [seat.keys EXCEPT ![w] = {}] /\ IsSeat(seat', open')
  BY <1>2, <1>3 DEF IsSeat
<1>5. seat'.keys[w] = {} /\ \A v \in Windows \ {w} : seat'.keys[v] = seat.keys[v]
  BY <1>1, <1>4 DEF IsSeat
<1>6. None \notin Windows
  BY EventsAssumption DEF EventsAssumption
<1>7. Tidy(seat')
  BY <1>1, <1>2, <1>4, <1>5, <1>6 DEF Tidy, IsSeat
<1>8. seat'.keyboardFocus # None => seat'.keyboardFocus = seat.keyboardFocus /\ seat.keyboardFocus \in Windows \ {w}
  BY <1>1, <1>2, <1>4 DEF IsSeat
<1>9. UNCHANGED <<queue, socket, focus, held>>
  BY DEF DestroyWindow, Elsewhere, compositor
<1> QED BY <1>4, <1>5, <1>7, <1>8, <1>9, SameFocus DEF EventsInv

LEMMA InitEventsInv == Init => EventsInv
<1> SUFFICES ASSUME Init PROVE EventsInv
  OBVIOUS
<1>1. Capacity \in Nat /\ MaxPosts \in Nat /\ None \notin Windows
  BY EventsAssumption DEF EventsAssumption
<1>2. Rest /\ Counted
  <2>1. post \in [Threads -> {"idle", "flush"}]
    BY DEF Init
  <2>2. out = 0 /\ posts = 0 /\ wire = 0
    BY DEF Init
  <2>3. Counted
    BY <1>1, <2>2 DEF Counted
  <2>4. Rest
    BY <2>1 DEF Init, Rest, Places
  <2> QED BY <2>3, <2>4
<1>3. Coming = <<>> /\ queue \in Seq(Event) /\ socket \in Seq(Event)
  BY DEF Init, Coming
<1>4. IsSeat(seat, open) /\ Tidy(seat)
  BY DEF Init, IsSeat, Times, Tidy
<1>5. Sound(Coming, focus, held) /\ Behind(seat, Coming, 0, focus, held)
  BY <1>3 DEF Init, Sound, Behind
<1> QED BY <1>2, <1>3, <1>4, <1>5 DEF EventsInv, SeatInv

(* The steps of the compositor that send at most one event. *)
LEMMA OtherSent ==
  ASSUME SeatInv, NEW e \in Event, e.type \notin {"enter", "leave"},
         socket' = socket \o <<e>>, UNCHANGED <<seat, open, queue, focus>>,
         e.type = "press" => focus # None /\ e.of \in held',
         \A k \in held : k \in held' \/ (e.type = "release" /\ e.of = k)
  PROVE  SeatInv'
<1>1. queue \in Seq(Event) /\ socket \in Seq(Event)
  BY DEF SeatInv
<1>2. /\ socket' \in Seq(Event) /\ Coming' = Coming \o <<e>> /\ Longer(Coming, Coming', e)
  BY <1>1, Sending DEF Coming
<1>3. Sound(Coming, focus, held) /\ Behind(seat, Coming, 0, focus, held)
  BY DEF SeatInv
<1>4. Sound(Coming', focus, held') /\ Behind(seat, Coming', 0, focus, held')
  BY <1>2, <1>3, OtherComes
<1> QED BY <1>2, <1>4 DEF SeatInv

LEMMA FocusKeeps ==
  ASSUME SeatInv, NEW w \in Windows \cup {None}, focus \in Windows \cup {None}, Focus(w)
  PROVE  SeatInv'
<1> DEFINE l == [type |-> "leave", of |-> focus]
           n == [type |-> "enter", of |-> w]
           mid == IF focus = None THEN socket ELSE socket \o <<l>>
           q == queue \o mid
<1>1. /\ queue \in Seq(Event) /\ socket \in Seq(Event)
      /\ Sound(Coming, focus, held) /\ Behind(seat, Coming, 0, focus, held)
      /\ UNCHANGED <<queue, seat, open, held>> /\ focus' = w /\ w # focus
  BY DEF SeatInv, Focus, Unseen
<1>2. focus # None => l \in Event /\ l.type = "leave"
  BY DEF Event
<1>3. w # None => n \in Event /\ n.type = "enter" /\ n.of = w
  BY DEF Event
<1>4. socket' = socket \o (IF focus = None THEN <<>> ELSE <<l>>)
                       \o (IF w = None THEN <<>> ELSE <<n>>)
  BY DEF Focus, Of
<1> HIDE DEF l, n
<1>5. mid \in Seq(Event) /\ q \in Seq(Event)
  BY <1>1, <1>2
<1>6. Sound(q, None, held) /\ Behind(seat, q, 0, None, held)
  <2>1. CASE focus = None
    BY <1>1, <2>1 DEF Coming
  <2>2. CASE focus # None
    <3>1. q = Coming \o <<l>> /\ Longer(Coming, Coming \o <<l>>, l)
      BY <1>1, <1>2, <2>2, Sending
    <3> HIDE DEF q
    <3> QED BY <1>1, <1>2, <2>2, <3>1, LeaveComes
  <2> QED BY <2>1, <2>2
<1>7. socket' = IF w = None THEN mid ELSE mid \o <<n>>
  <2>1. CASE focus = None
    BY <1>1, <1>4, <2>1
  <2>2. CASE focus # None
    <3>1. socket \o <<l>> \in Seq(Event)
      BY <1>1, <1>2, <2>2
    <3> QED BY <1>1, <1>4, <2>2, <3>1
  <2> QED BY <2>1, <2>2
<1> HIDE DEF mid
<1>8. CASE w = None
  BY <1>1, <1>5, <1>6, <1>7, <1>8 DEF SeatInv, Coming
<1>9. CASE w # None
  <2>1. Longer(q, q \o <<n>>, n) /\ q \o <<n>> = queue \o (mid \o <<n>>) /\ mid \o <<n>> \in Seq(Event)
    <3>1. q \o <<n>> = queue \o (mid \o <<n>>) /\ mid \o <<n>> \in Seq(Event)
      BY <1>1, <1>3, <1>5, <1>9
    <3> HIDE DEF q
    <3> QED BY <1>3, <1>5, <1>9, <3>1, Grown DEF Longer
  <2>2. \A i \in 1 .. Len(q) : q[i].type = "enter" => q[i].of # None
    <3> HIDE DEF q
    <3>1. \A i \in 1 .. Len(q) : q[i] \in Event
      BY <1>5
    <3> QED BY <3>1, EventsAssumption DEF Event, EventsAssumption
  <2>3. Coming' = q \o <<n>>
    BY <1>1, <1>7, <1>9, <2>1 DEF Coming
  <2> HIDE DEF q
  <2>4. Sound(q \o <<n>>, w, held) /\ Behind(seat, q \o <<n>>, 0, w, held)
    BY <1>3, <1>6, <1>9, <2>1, <2>2, EnterComes
  <2> QED BY <1>1, <1>7, <1>9, <2>1, <2>3, <2>4 DEF SeatInv
<1> QED BY <1>8, <1>9

LEMMA KeyKeeps ==
  ASSUME SeatInv, NEW k \in Keys, Press(k) \/ Release(k)
  PROVE  SeatInv'
<1>1. UNCHANGED <<queue, seat, open, focus>>
  BY DEF Press, Release, Unseen
<1>2. CASE focus = None
  <2>1. socket' = socket
    BY <1>2 DEF Press, Release
  <2>2. Sound(Coming, None, held) /\ Behind(seat, Coming, 0, None, held)
    BY <1>2 DEF SeatInv
  <2>3. Sound(Coming, None, held') /\ Behind(seat, Coming, 0, None, held')
    BY <2>2, KeysUnseen
  <2> QED BY <1>1, <1>2, <2>1, <2>3 DEF SeatInv, Coming
<1>3. CASE focus # None /\ Press(k)
  <2> DEFINE e == [type |-> "press", of |-> k]
  <2>1. e \in Event /\ e.type = "press" /\ e.of = k
    BY DEF Event
  <2>2. socket' = socket \o <<e>> /\ held' = held \cup {k}
    BY <1>3 DEF Press, Of
  <2> HIDE DEF e
  <2> QED BY <1>1, <1>3, <2>1, <2>2, OtherSent
<1>4. CASE focus # None /\ Release(k)
  <2> DEFINE e == [type |-> "release", of |-> k]
  <2>1. e \in Event /\ e.type = "release" /\ e.of = k
    BY DEF Event
  <2>2. socket' = socket \o <<e>> /\ held' = held \ {k}
    BY <1>4 DEF Release, Of
  <2> HIDE DEF e
  <2> QED BY <1>1, <1>4, <2>1, <2>2, OtherSent
<1> QED BY <1>2, <1>3, <1>4

LEMMA NextKeeps ==
  ASSUME EventsInv, [Next]_vars
  PROVE  EventsInv'
<1>1. Rest /\ Counted /\ SeatInv
  BY DEF EventsInv
<1>2. Capacity \in Nat \ {0} /\ MaxPosts \in Nat
  BY EventsAssumption DEF EventsAssumption
<1>3. open \subseteq Windows /\ queue \in Seq(Event) /\ socket \in Seq(Event)
  BY <1>1 DEF Rest, SeatInv
<1> DEFINE Still == UNCHANGED <<queue, socket, seat, open, focus, held>>
<1>4. Still => SeatInv'
  BY <1>1 DEF SeatInv, Coming
<1>5. UNCHANGED <<out, wire, posts>> => Counted'
  BY <1>1 DEF Counted
<1>6. UNCHANGED <<pc, ready, event, error, lost, post, open, closing, focus, held>> => Rest'
  BY <1>1 DEF Rest
<1>7. CASE Begin \/ Poll \/ TimeOut
  <2>1. Rest' /\ Still /\ UNCHANGED <<out, wire, posts>>
    BY <1>1, <1>7 DEF Begin, Poll, TimeOut, Rest, Places, Outside, connection, compositor, Return,
                      Readable
  <2> QED BY <1>4, <1>5, <2>1 DEF EventsInv
<1>8. CASE PrepareRead
  <2>1. Rest' /\ UNCHANGED <<out, wire, posts>>
    BY <1>1, <1>8 DEF PrepareRead, Rest, Places, Outside, compositor, Return, Dispatched
  <2>2. CASE Unread
    <3>1. Dispatched /\ UNCHANGED <<open, focus, held, socket>>
      BY <1>8, <2>2 DEF PrepareRead, Outside, compositor
    <3> QED BY <1>1, <1>3, <1>5, <2>1, <3>1, DispatchKeeps DEF EventsInv
  <2>3. CASE ~Unread
    <3>1. Still
      BY <1>8, <2>3 DEF PrepareRead, Outside, compositor
    <3> QED BY <1>4, <1>5, <2>1, <3>1 DEF EventsInv
  <2> QED BY <2>2, <2>3
<1>9. CASE Flush
  <2>1. Rest' /\ Still /\ UNCHANGED posts
    BY <1>1, <1>9 DEF Flush, Rest, Places, Outside, compositor, Return
  <2>2. Counted'
    BY <1>1, <1>5, <1>9, <2>1, FlushedKeeps DEF Flush
  <2> QED BY <1>4, <2>1, <2>2 DEF EventsInv
<1>10. CASE Read
  <2>1. CASE "display" \in ready
    <3>1. /\ ReadDisplay /\ pc' = "dispatch"
          /\ UNCHANGED <<ready, event, seat, closing, post, open, lost, focus, held, posts>>
      BY <1>10, <2>1 DEF Read, Outside, compositor
    <3>2. SeatInv' /\ error' \in {"none", "told", "set"}
      BY <1>1, <3>1, ReadKeeps DEF Rest
    <3>3. Rest' /\ Counted'
      BY <1>1, <1>5, <3>1, <3>2 DEF Rest, Places, ReadDisplay
    <3> QED BY <3>2, <3>3 DEF EventsInv
  <2>2. CASE "display" \notin ready
    <3>1. Rest' /\ Still /\ UNCHANGED <<out, wire, posts>>
      BY <1>1, <1>10, <2>2 DEF Read, Rest, Places, Outside, compositor, connection
    <3> QED BY <1>4, <1>5, <3>1 DEF EventsInv
  <2> QED BY <2>1, <2>2
<1>11. CASE Dispatch
  <2>1. Dispatched /\ UNCHANGED <<open, focus, held, socket, out, wire, posts>>
    BY <1>11 DEF Dispatch, Outside, compositor
  <2>2. Rest'
    BY <1>1, <1>11 DEF Dispatch, Rest, Places, Outside, compositor, Dispatched, Some
  <2>3. SeatInv'
    BY <1>1, <1>3, <2>1, DispatchKeeps
  <2> QED BY <1>5, <2>1, <2>2, <2>3 DEF EventsInv
<1>12. CASE Repeat
  <2>1. Rest' /\ UNCHANGED <<out, wire, posts>>
    BY <1>1, <1>12 DEF Repeat, Rest, Places, Outside, compositor, connection
  <2> QED BY <1>5, <1>12, <2>1, RepeatKeeps DEF EventsInv
<1>13. CASE SwapBuffers
  <2>1. /\ ReadDisplay
        /\ UNCHANGED <<pc, ready, event, seat, closing, post, open, lost, focus, held, posts>>
    BY <1>13 DEF SwapBuffers, Outside, compositor
  <2>2. SeatInv' /\ error' \in {"none", "told", "set"}
    BY <1>1, <2>1, ReadKeeps DEF Rest
  <2>3. Rest' /\ Counted'
    BY <1>1, <1>5, <2>1, <2>2 DEF Rest, ReadDisplay
  <2> QED BY <2>2, <2>3 DEF EventsInv
<1>14. CASE Expire
  <2>1. /\ seat.timer = "armed" /\ seat' = [seat EXCEPT !.timer = "expired"]
        /\ IsSeat(seat, open) /\ Tidy(seat)
        /\ UNCHANGED <<pc, ready, event, queue, error, out, post, open, closing, posts, lost, focus,
                       held, wire, socket>>
    BY <1>1, <1>14 DEF Expire, Unseen, compositor, SeatInv
  <2>2. /\ seat'.keyboardFocus = seat.keyboardFocus /\ seat'.keys = seat.keys
        /\ seat'.keyRepeatScancode = seat.keyRepeatScancode
        /\ IsSeat(seat', open)
    BY <2>1 DEF IsSeat, Times
  <2>3. Tidy(seat')
    BY <2>1, <2>2 DEF Tidy
  <2>4. SeatInv'
    BY <1>1, <2>1, <2>2, <2>3, SameFocus
  <2> QED BY <1>5, <1>6, <2>1, <2>4 DEF EventsInv
<1>15. CASE Serve \/ ChangeRate
  <2> DEFINE e(t) == [type |-> t, of |-> None]
  <2>1. PICK t \in {"rate", "done"} : socket' = socket \o <<e(t)>>
    BY <1>15 DEF Serve, ChangeRate, Of
  <2>2. /\ UNCHANGED <<pc, ready, event, queue, error, out, post, open, closing, posts, lost, focus,
                       held, seat>>
        /\ wire' = wire \/ (wire > 0 /\ wire' = wire - 1)
    BY <1>15 DEF Serve, ChangeRate, Unseen, compositor
  <2>3. e(t) \in Event /\ e(t).type \notin {"enter", "leave", "press"}
    BY DEF Event
  <2> HIDE DEF e
  <2>4. SeatInv'
    BY <1>1, <2>1, <2>2, <2>3, OtherSent
  <2>5. Counted'
    BY <1>1, <1>2, <2>2 DEF Counted
  <2> QED BY <1>6, <2>2, <2>4, <2>5 DEF EventsInv
<1>16. CASE Lose
  <2>1. Rest' /\ Still /\ UNCHANGED <<out, wire, posts>>
    BY <1>1, <1>16 DEF Lose, Unseen, Rest
  <2> QED BY <1>4, <1>5, <2>1 DEF EventsInv
<1>17. ASSUME NEW w \in Windows, DestroyWindow(w) PROVE EventsInv'
  <2>1. SeatInv'
    BY <1>17, DestroyKeeps
  <2>2. Rest' /\ UNCHANGED <<out, wire, posts>>
    BY <1>1, <1>17 DEF DestroyWindow, Elsewhere, Rest, compositor
  <2> QED BY <1>5, <2>1, <2>2 DEF EventsInv
<1>18. ASSUME NEW g \in Threads, Post(g) PROVE EventsInv'
  <2>1. Rest' /\ Still
    BY <1>1, <1>18 DEF Post, Elsewhere, Rest, compositor
  <2>2. Counted'
    BY <1>1, <1>2, <1>18 DEF Post, Counted, Elsewhere
  <2> QED BY <1>4, <2>1, <2>2 DEF EventsInv
<1>19. ASSUME NEW g \in Threads, PostFlush(g) PROVE EventsInv'
  <2>1. Rest' /\ Still
    BY <1>1, <1>19 DEF PostFlush, Elsewhere, Rest, compositor
  <2>2. Counted'
    BY <1>1, <1>5, <1>19, FlushedKeeps DEF PostFlush
  <2> QED BY <1>4, <2>1, <2>2 DEF EventsInv
<1>20. ASSUME NEW w \in open \cup {None}, Focus(w) PROVE EventsInv'
  <2>1. w \in Windows \cup {None} /\ focus \in Windows \cup {None}
    BY <1>1, <1>3 DEF Rest
  <2>2. SeatInv'
    BY <1>1, <1>20, <2>1, FocusKeeps
  <2>3. Rest' /\ UNCHANGED <<out, wire, posts>>
    BY <1>1, <1>20, <2>1 DEF Focus, Unseen, Rest
  <2> QED BY <1>5, <2>2, <2>3 DEF EventsInv
<1>21. ASSUME NEW k \in Keys, Press(k) \/ Release(k) PROVE EventsInv'
  <2>1. SeatInv'
    BY <1>1, <1>21, KeyKeeps
  <2>2. Rest' /\ UNCHANGED <<out, wire, posts>>
    BY <1>1, <1>21 DEF Press, Release, Unseen, Rest
  <2> QED BY <1>5, <2>1, <2>2 DEF EventsInv
<1>22. CASE UNCHANGED vars
  BY <1>4, <1>5, <1>6, <1>22 DEF vars, connection, compositor, EventsInv
<1> QED BY <1>7, <1>8, <1>9, <1>10, <1>11, <1>12, <1>13, <1>14, <1>15, <1>16, <1>17, <1>18, <1>19,
           <1>20, <1>21, <1>22 DEF Next, HandleEvents

-----------------------------------------------------------------------------
(* Type correctness of the event loop and the seat, for any number of      *)
(* windows, keys and threads: a window with the keyboard is not destroyed. *)
THEOREM EventsTypeCorrect == Spec => []TypeOK
<1>1. EventsInv => TypeOK
  <2> SUFFICES ASSUME EventsInv PROVE TypeOK
    OBVIOUS
  <2>1. /\ MaxPosts \in Nat /\ Rest /\ Counted /\ IsSeat(seat, open)
        /\ queue \o socket \in Seq(Event)
    BY EventsAssumption DEF EventsAssumption, EventsInv, SeatInv
  <2>2. out \in 0 .. MaxPosts /\ wire \in 0 .. Capacity
    BY <2>1 DEF Counted
  <2>3. seat \in [keyboardFocus : open \cup {None}, keys : [Windows -> SUBSET Keys],
                  keyRepeatScancode : Keys \cup {None}, repeats : BOOLEAN,
                  timer : {"off", "armed", "expired"}]
    BY <2>1 DEF IsSeat, Times
  <2>4. \A e \in Range(queue \o socket) :
           e.type \in {"enter", "leave", "press", "release", "rate", "done"}
    <3> DEFINE q == queue \o socket
    <3>1. q \in Seq(Event)
      BY <2>1
    <3> HIDE DEF q
    <3>2. \A i \in DOMAIN q : q[i] \in Event
      BY <3>1
    <3> QED BY <3>2 DEF Range, Event, q
  <2> QED BY <2>1, <2>2, <2>3, <2>4 DEF TypeOK, Rest, Places
<1> QED BY <1>1, InitEventsInv, NextKeeps, PTL DEF Spec

(* A key repeats only while the window with the keyboard has it pressed,   *)
(* whatever releases, leaves and destructions come between the expiry of   *)
(* the timer and its repeat (keyboardHandleKey, handleEvents).             *)
THEOREM OnlyHeldRepeats == Spec => []RepeatIsHeld
<1>1. EventsInv => RepeatIsHeld
  BY DEF EventsInv, SeatInv, Tidy, RepeatIsHeld
<1> QED BY <1>1, InitEventsInv, NextKeeps, PTL DEF Spec

(* When all events have been handled, no window has a key pressed that is  *)
(* not down, or has one without the keyboard (keyboardHandleLeave,         *)
(* _glfwInputWindowFocus).                                                 *)
THEOREM NoKeySticks == Spec => []NoStuckKeys
<1>1. EventsInv => NoStuckKeys
  <2> SUFFICES ASSUME EventsInv, queue \o socket = <<>>, NEW w \in open, seat.keys[w] # {}
               PROVE  w = focus /\ seat.keys[w] \subseteq held
    BY DEF NoStuckKeys
  <2>1. w \in Windows /\ None \notin Windows
    BY EventsAssumption DEF EventsAssumption, EventsInv, Rest
  <2>2. w = seat.keyboardFocus
    BY <2>1 DEF EventsInv, SeatInv, Tidy
  <2>3. ~Later(Coming, 0, "leave") /\ \A k : ~Released(Coming, 0, k)
    BY DEF Coming, Later, Released
  <2>4. Behind(seat, Coming, 0, focus, held)
    BY DEF EventsInv, SeatInv
  <2> QED BY <2>1, <2>2, <2>3, <2>4 DEF Behind
<1> QED BY <1>1, InitEventsInv, NextKeeps, PTL DEF Spec
=============================================================================
