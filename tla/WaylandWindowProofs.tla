------------------------ MODULE WaylandWindowProofs ------------------------
(***************************************************************************)
(* What holds of a Wayland window whatever its compositor answers, and in  *)
(* whatever order: the types, the size of its buffer and the size it tells *)
(* of, the teardown of its shadow and, from what each queue still holds,   *)
(* that nothing stays outstanding and what was asked for is reached; and   *)
(* that a prompt compositor leaves it the size that was asked for.         *)
(***************************************************************************)
EXTENDS WaylandWindow, SequenceTheorems, TLAPS

-----------------------------------------------------------------------------
(* Queues.  The last element of s that is in O is in G; if s has none in O, *)
(* the state at its head is what it should be.                              *)
Ends(s, is, should, G, O) ==
  \/ is = should /\ \A i \in DOMAIN s : s[i] \notin O
  \/ \E j \in DOMAIN s : s[j] \in G /\ \A i \in DOMAIN s : i > j => s[i] \notin O

Elems(s) == {s[i] : i \in DOMAIN s}

LEMMA AppendFacts ==
  ASSUME NEW R, NEW s \in Seq(R), NEW r \in R
  PROVE  /\ Append(s, r) \in Seq(R) /\ Len(s) \in Nat /\ DOMAIN s = 1 .. Len(s)
         /\ DOMAIN Append(s, r) = 1 .. (Len(s) + 1) /\ Append(s, r)[Len(s) + 1] = r
         /\ \A i \in 1 .. Len(s) : Append(s, r)[i] = s[i]
OBVIOUS

LEMMA TailFacts ==
  ASSUME NEW R, NEW s \in Seq(R), s # <<>>
  PROVE  /\ Tail(s) \in Seq(R) /\ Head(s) \in R /\ Head(s) = s[1] /\ Len(s) \in Nat \ {0}
         /\ DOMAIN s = 1 .. Len(s) /\ DOMAIN Tail(s) = 1 .. (Len(s) - 1)
         /\ \A i \in 1 .. (Len(s) - 1) : Tail(s)[i] = s[i + 1]
OBVIOUS

LEMMA EndsAppend ==
  ASSUME NEW R, NEW s \in Seq(R), NEW r \in R, NEW a, NEW b, NEW G, NEW O,
         Ends(s, a, b, G, O), r \notin O
  PROVE  Ends(Append(s, r), a, b, G, O)
BY AppendFacts DEF Ends

LEMMA EndsGiven ==
  ASSUME NEW R, NEW s \in Seq(R), NEW r \in R, NEW a, NEW b, NEW G, NEW O, r \in G
  PROVE  Ends(Append(s, r), a, b, G, O)
<1>1. \A i \in DOMAIN Append(s, r) : ~(i > Len(s) + 1)
  BY AppendFacts
<1>2. Len(s) + 1 \in DOMAIN Append(s, r) /\ Append(s, r)[Len(s) + 1] \in G
  BY AppendFacts
<1> QED BY <1>1, <1>2 DEF Ends

LEMMA EndsTail ==
  ASSUME NEW R, NEW s \in Seq(R), s # <<>>, NEW a, NEW b, NEW c, NEW G, NEW O,
         Ends(s, a, b, G, O),
         Head(s) \in G => c = b, Head(s) \notin O /\ a = b => c = b
  PROVE  Ends(Tail(s), c, b, G, O)
<1> DEFINE t == Tail(s)
<1>1. /\ Head(s) = s[1] /\ 1 \in DOMAIN s
      /\ \A i \in DOMAIN t : i + 1 \in DOMAIN s /\ t[i] = s[i + 1] /\ i \in Int
      /\ \A i \in DOMAIN s : i # 1 => i - 1 \in DOMAIN t /\ s[i] = t[i - 1] /\ i \in Int
  BY TailFacts
<1> HIDE DEF t
<1>2. CASE a = b /\ \A i \in DOMAIN s : s[i] \notin O
  BY <1>1, <1>2 DEF Ends, t
<1>3. ASSUME NEW j \in DOMAIN s, s[j] \in G, \A i \in DOMAIN s : i > j => s[i] \notin O
      PROVE  Ends(t, c, b, G, O)
  <2>1. CASE j = 1
    <3>1. \A i \in DOMAIN t : t[i] \notin O
      <4>1. \A i \in DOMAIN t : i + 1 # 1 /\ i - 1 + 1 = i
        BY <1>1
      <4>2. \A i \in DOMAIN t : i + 1 > 1
        BY TailFacts DEF t
      <4> QED BY <1>1, <1>3, <2>1, <4>2
    <3> QED BY <1>1, <1>3, <2>1, <3>1 DEF Ends
  <2>2. CASE j # 1
    <3>1. j - 1 \in DOMAIN t /\ t[j - 1] \in G
      BY <1>1, <1>3, <2>2
    <3>2. \A i \in DOMAIN t : i > j - 1 => t[i] \notin O
      <4>1. \A i \in DOMAIN t : i > j - 1 => i + 1 > j
        BY <1>1, <2>2
      <4> QED BY <1>1, <1>3, <4>1
    <3> QED BY <3>1, <3>2 DEF Ends
  <2> QED BY <2>1, <2>2
<1> QED BY <1>2, <1>3 DEF Ends, t

LEMMA EndsEmpty ==
  ASSUME NEW a, NEW b, NEW G, NEW O, Ends(<<>>, a, b, G, O)
  PROVE  a = b
BY DEF Ends

LEMMA ElemsAppend ==
  ASSUME NEW R, NEW s \in Seq(R), NEW r \in R
  PROVE  Elems(Append(s, r)) = Elems(s) \cup {r}
<1> DEFINE t == Append(s, r)
<1>1. /\ Len(s) \in Nat /\ DOMAIN s = 1 .. Len(s) /\ DOMAIN t = 1 .. (Len(s) + 1)
      /\ t[Len(s) + 1] = r /\ \A i \in 1 .. Len(s) : t[i] = s[i]
  BY AppendFacts
<1> HIDE DEF t
<1>2. Elems(s) \cup {r} \subseteq Elems(t)
  BY <1>1 DEF Elems
<1>3. ASSUME NEW i \in DOMAIN t PROVE t[i] \in Elems(s) \/ t[i] = r
  <2>1. i \in DOMAIN s \/ i = Len(s) + 1
    BY <1>1
  <2> QED BY <1>1, <2>1 DEF Elems
<1> QED BY <1>2, <1>3 DEF Elems, t

LEMMA ElemsTail ==
  ASSUME NEW R, NEW s \in Seq(R), s # <<>>
  PROVE  Elems(s) = {Head(s)} \cup Elems(Tail(s))
<1>1. /\ Head(s) = s[1] /\ 1 \in DOMAIN s
      /\ \A i \in DOMAIN Tail(s) : i + 1 \in DOMAIN s /\ Tail(s)[i] = s[i + 1]
      /\ \A i \in DOMAIN s : i # 1 => i - 1 \in DOMAIN Tail(s) /\ s[i] = Tail(s)[i - 1]
  BY TailFacts
<1>2. {Head(s)} \cup Elems(Tail(s)) \subseteq Elems(s)
  BY <1>1 DEF Elems
<1>3. ASSUME NEW i \in DOMAIN s PROVE s[i] \in {Head(s)} \cup Elems(Tail(s))
  <2>1. CASE i = 1
    BY <1>1, <2>1
  <2>2. CASE i # 1
    BY <1>1, <2>2 DEF Elems
  <2> QED BY <2>1, <2>2
<1> QED BY <1>2, <1>3 DEF Elems

LEMMA EndsElems ==
  ASSUME NEW s, NEW a, NEW b, NEW G, NEW O, Ends(s, a, b, G, O), a # b
  PROVE  \E r \in Elems(s) : r \in G
BY DEF Ends, Elems

-----------------------------------------------------------------------------
(* Types. *)
Ids == 0 .. MaxCalls
Lengths == Nat \ {0}
Configuring == {"full", "unfull", "max", "unmax"}

Request ==
  [op : Configuring \cup {"roundtrip", "destroyRole", "destroyShadow"}]
    \cup [op : {"commit"}, shadow : BOOLEAN, limit : Nat, mapped : BOOLEAN, outer : Nat]
    \cup [op : {"role"}, id : Ids \ {0}, full : BOOLEAN, max : BOOLEAN, ssd : BOOLEAN]
    \cup [op : {"mode"}, ssd : BOOLEAN]
    \cup [op : {"sync"}, id : Ids]

Fields == {"role", "monitor", "width", "fullscreen", "maximized", "pending", "restore", "sync",
           "visible", "sizeCommitPending", "eglWidth", "resizePending", "buffer", "latched",
           "limits", "decorated", "mode", "fallback", "requested", "shadow", "told", "dirty",
           "blocked", "sent"}

IsWindow(w) ==
  /\ DOMAIN w = Fields
  /\ w.role \in Ids /\ w.sync \in Ids /\ w.restore \in Sizes \cup {0}
  /\ w.width \in Lengths /\ w.eglWidth \in Lengths /\ w.latched \in Lengths
  /\ w.buffer \in Nat /\ w.limits \in Nat
  /\ w.monitor \in BOOLEAN /\ w.fullscreen \in BOOLEAN /\ w.maximized \in BOOLEAN
  /\ w.decorated \in BOOLEAN /\ w.requested \in BOOLEAN /\ w.shadow \in BOOLEAN
  /\ w.sent \in Seq(Request)

(* The shadow that goes with the state of a window that has a role. *)
Shaded(w) == w.requested /\ ~w.maximized /\ ~w.fullscreen

(* A commit finds the size staged that its buffer has; a window without a  *)
(* role shows nothing; a shown window has the shadow it should have and    *)
(* will be painted if a size waits for it; an exit that is not waited for  *)
(* has been applied; and a fullscreen window has no fallback decorations.  *)
Staged(w) ==
  /\ w.buffer # 0 => w.latched = w.buffer
  /\ w.buffer # 0 /\ ~w.sizeCommitPending => w.width = w.buffer
  /\ ~w.resizePending => w.eglWidth = w.width
  /\ w.role = 0 => w.buffer = 0 /\ ~w.visible
  /\ w.visible /\ w.sizeCommitPending => w.dirty
  /\ w.restore # 0 /\ w.sync = 0 => w.fullscreen
  /\ w.monitor => ~w.fallback

ShadowFits(w) == w.visible => w.shadow = Shaded(w)
Fits(w) == Staged(w) /\ ShadowFits(w)

Good(w) == IsWindow(w) /\ Fits(w)
Told(w) == w.told = w.width

-----------------------------------------------------------------------------
(* What the functions of a window change. *)
Only(w, x, F) == DOMAIN x = Fields /\ \A f \in Fields \ F : x[f] = w[f]

LEMMA OnlySelf ==
  ASSUME NEW w, DOMAIN w = Fields, NEW F
  PROVE  Only(w, w, F)
BY DEF Only

LEMMA OnlyThen ==
  ASSUME NEW w, NEW x, NEW y, NEW F, NEW G, NEW H, Only(w, x, F), Only(x, y, G),
         F \cup G \subseteq H
  PROVE  Only(w, y, H)
BY DEF Only

LEMMA Sends ==
  ASSUME NEW w, DOMAIN w = Fields, NEW r
  PROVE  Only(w, Send(w, r), {"sent"}) /\ Send(w, r).sent = Append(w.sent, r)
BY DEF Send, Fields, Only

LEMMA SendIsGood ==
  ASSUME NEW w, Good(w), NEW r \in Request
  PROVE  Good(Send(w, r)) /\ Only(w, Send(w, r), {"sent"}) /\ Send(w, r).sent = Append(w.sent, r)
<1> DEFINE x == Send(w, r)
<1>1. Only(w, x, {"sent"}) /\ x.sent = Append(w.sent, r)
  BY Sends DEF Good, IsWindow
<1>2. x.sent \in Seq(Request)
  BY <1>1, AppendFacts DEF Good, IsWindow
<1>o. Only(w, x, {"sent"})
  BY <1>1
<1> HIDE DEF x
<1>3. IsWindow(x)
  BY <1>o, <1>2 DEF Only, Good, IsWindow, Fields
<1>4. Fits(x)
  BY <1>1 DEF Only, Good, Fits, Staged, ShadowFits, Shaded, Fields
<1> QED BY <1>1, <1>3, <1>4 DEF Good, x

(* A commit with everything staged for the buffer. *)
CommitRequest(w) ==
  [op |-> "commit", shadow |-> w.shadow, limit |-> w.limits, mapped |-> w.buffer # 0,
   outer |-> w.width + (IF w.fallback /\ ~w.requested THEN Border ELSE 0)]

LEMMA CommitIsRequest ==
  ASSUME NEW w, IsWindow(w)
  PROVE  CommitRequest(w) \in Request
BY SizeAssumption DEF IsWindow, CommitRequest, Request, Lengths, SizeAssumption

LEMMA Commits ==
  ASSUME NEW w, IsWindow(w)
  PROVE  /\ Only(w, Commit(w), {"latched", "sent"}) /\ Commit(w).latched = w.width
         /\ Commit(w).sent = Append(w.sent, CommitRequest(w))
<1> DEFINE x == [w EXCEPT !.latched = w.width]
<1>1. Only(w, x, {"latched"}) /\ x.latched = w.width /\ x.sent = w.sent
  BY DEF Only, IsWindow, Fields
<1>2. Only(x, Commit(w), {"sent"}) /\ Commit(w).sent = Append(x.sent, CommitRequest(w))
  <2>1. Commit(w) = Send(x, CommitRequest(w))
    BY DEF Commit, CommitRequest
  <2>2. DOMAIN x = Fields
    BY <1>1 DEF Only
  <2> HIDE DEF x
  <2> QED BY <2>1, <2>2, Sends
<1> HIDE DEF x
<1> QED BY <1>1, <1>2, OnlyThen DEF Only, Fields

LEMMA CommitIsGood ==
  ASSUME NEW w, Good(w), w.buffer # 0 => ~w.sizeCommitPending
  PROVE  Good(Commit(w))
<1>1. CommitRequest(w) \in Request
  BY CommitIsRequest DEF Good
<1> QED BY <1>1, Commits, AppendFacts DEF Good, IsWindow, Fits, Staged, ShadowFits, Shaded, Only, Fields

LEMMA BareCommits ==
  ASSUME NEW w, Good(w)
  PROVE  /\ Good(BareCommit(w)) /\ Only(w, BareCommit(w), {"latched", "sent"})
         /\ w.sizeCommitPending => BareCommit(w) = w
         /\ ~w.sizeCommitPending => BareCommit(w) = Commit(w)
BY CommitIsGood, Commits, OnlySelf DEF BareCommit, Good, IsWindow

(* The shadow is shown or hidden with the state. *)
ShadowFor(w) == IF w.requested /\ ~w.maximized /\ ~w.fullscreen THEN w.role # 0 \/ w.shadow
                ELSE FALSE

LEMMA Shadows ==
  ASSUME NEW w, IsWindow(w)
  PROVE  /\ Only(w, UpdateWindowShadow(w), {"shadow"})
         /\ UpdateWindowShadow(w).shadow = ShadowFor(w)
         /\ ~ShadowChanges(w) => UpdateWindowShadow(w).shadow = w.shadow
<1> USE DEF IsWindow, UpdateWindowShadow, ShadowFor, ShadowChanges, HideRefyneShadowSurfaces,
        CreateRefyneWindowShadow
<1>1. Only(w, UpdateWindowShadow(w), {"shadow"})
  BY DEF Only, Fields
<1>2. UpdateWindowShadow(w).shadow = ShadowFor(w)
  BY DEF Fields
<1> QED BY <1>1, <1>2

LEMMA ShadowIsGood ==
  ASSUME NEW w, IsWindow(w), Staged(w)
  PROVE  Good(UpdateWindowShadow(w))
<1> DEFINE x == UpdateWindowShadow(w)
<1>1. Only(w, x, {"shadow"}) /\ x.shadow = ShadowFor(w)
  BY Shadows
<1>2. w.visible => w.role # 0
  BY DEF Staged
<1>3. ShadowFor(w) \in BOOLEAN /\ (w.role # 0 => ShadowFor(w) = Shaded(w))
  BY DEF ShadowFor, Shaded, IsWindow
<1> HIDE DEF x
<1>4. IsWindow(x) /\ Staged(x)
  BY <1>1, <1>3 DEF IsWindow, Staged, Only, Fields
<1>5. ShadowFits(x)
  BY <1>1, <1>2, <1>3 DEF ShadowFits, Shaded, Only, Fields
<1> QED BY <1>4, <1>5 DEF Good, Fits, x

-----------------------------------------------------------------------------
(* What the requests on their way, s, will make of the compositor's view v *)
(* of the window w.                                                        *)
Ops(names) == {r \in Request : r.op \in names}
RoleRequest(id) == {r \in Request : r.op = "role" /\ r.id = id}
FullRequest(full) == {r \in Request : \/ r.op = "role" /\ r.full = full
                                      \/ r.op = "full" /\ full = TRUE
                                      \/ r.op = "unfull" /\ full = FALSE}
CommitOf(shadow) == {r \in Request : r.op = "commit" /\ r.shadow = shadow}

RoleReaches(w, v) ==
  w.role # 0 => Ends(w.sent, v.role, w.role, RoleRequest(w.role), Ops({"role", "destroyRole"}))
FullReaches(w, v) ==
  w.role # 0 => Ends(w.sent, v.full, w.monitor, FullRequest(w.monitor),
                     Ops({"role", "full", "unfull"}))
ShadowReaches(w, v) ==
  w.role # 0 /\ ~w.sizeCommitPending =>
     Ends(w.sent, v.shadow, w.shadow, CommitOf(w.shadow), Ops({"commit", "destroyShadow"}))

(* A request for a state comes while the toplevel exists ... *)
LivesAt(s, role, i) ==
  \/ role # 0 /\ \A k \in 1 .. (i - 1) : s[k].op # "destroyRole"
  \/ \E j \in 1 .. (i - 1) : s[j].op = "role" /\ \A k \in (j + 1) .. (i - 1) : s[k].op # "destroyRole"
OnlyWhileLive(s, role) ==
  \A i \in DOMAIN s : s[i].op \in Configuring => LivesAt(s, role, i)

(* ... and the shadow is destroyed just after it. *)
RoleGoesFirst(s, role) ==
  \A i \in DOMAIN s : s[i].op = "destroyShadow" =>
     IF i = 1 THEN role = 0 ELSE s[i - 1].op = "destroyRole"

Ordered(w, v) == OnlyWhileLive(w.sent, v.role) /\ RoleGoesFirst(w.sent, v.role)
SentOK(w, v) == RoleReaches(w, v) /\ FullReaches(w, v) /\ ShadowReaches(w, v) /\ Ordered(w, v)

LEMMA OrderedAppend ==
  ASSUME NEW s \in Seq(Request), NEW r \in Request, NEW role,
         OnlyWhileLive(s, role), RoleGoesFirst(s, role),
         r.op \in Configuring => LivesAt(s, role, Len(s) + 1),
         r.op = "destroyShadow" => s # <<>> /\ s[Len(s)].op = "destroyRole"
  PROVE  OnlyWhileLive(Append(s, r), role) /\ RoleGoesFirst(Append(s, r), role)
<1> DEFINE t == Append(s, r)
<1>1. /\ Len(s) \in Nat /\ DOMAIN s = 1 .. Len(s) /\ DOMAIN t = 1 .. (Len(s) + 1)
      /\ t[Len(s) + 1] = r /\ \A i \in 1 .. Len(s) : t[i] = s[i]
      /\ s # <<>> => Len(s) # 0
  BY AppendFacts, EmptySeq
<1> HIDE DEF t
<1>2. ASSUME NEW i \in 1 .. (Len(s) + 1), LivesAt(s, role, i) PROVE LivesAt(t, role, i)
  <2>1. \A k \in 1 .. (i - 1) : t[k] = s[k]
    BY <1>1
  <2>2. ASSUME NEW j \in 1 .. (i - 1), s[j].op = "role",
               \A k \in (j + 1) .. (i - 1) : s[k].op # "destroyRole"
        PROVE  LivesAt(t, role, i)
    <3>1. \A k \in (j + 1) .. (i - 1) : k \in 1 .. (i - 1)
      OBVIOUS
    <3> QED BY <2>1, <2>2, <3>1 DEF LivesAt
  <2> QED BY <1>2, <2>1, <2>2 DEF LivesAt
<1>3. OnlyWhileLive(t, role)
  BY <1>1, <1>2 DEF OnlyWhileLive
<1>4. RoleGoesFirst(t, role)
  <2> SUFFICES ASSUME NEW i \in DOMAIN t, t[i].op = "destroyShadow"
               PROVE  IF i = 1 THEN role = 0 ELSE t[i - 1].op = "destroyRole"
    BY DEF RoleGoesFirst
  <2>1. CASE i \in 1 .. Len(s)
    BY <1>1, <2>1 DEF RoleGoesFirst
  <2>2. CASE i = Len(s) + 1
    <3>1. Len(s) # 0 /\ s[Len(s)].op = "destroyRole"
      BY <1>1, <2>2
    <3> QED BY <1>1, <2>2, <3>1
  <2> QED BY <1>1, <2>1, <2>2
<1> QED BY <1>3, <1>4 DEF t

(* While the window has a role, its toplevel lives at the end of the line. *)
LEMMA LivesAtTheEnd ==
  ASSUME NEW w, NEW v, IsWindow(w), RoleReaches(w, v), w.role # 0
  PROVE  LivesAt(w.sent, v.role, Len(w.sent) + 1)
<1> DEFINE s == w.sent
           G == RoleRequest(w.role)
           O == Ops({"role", "destroyRole"})
<1>1. s \in Seq(Request) /\ Len(s) \in Nat /\ DOMAIN s = 1 .. Len(s)
  BY DEF IsWindow
<1>2. \A i \in DOMAIN s : s[i] \in Request
  BY <1>1
<1>3. Ends(s, v.role, w.role, G, O)
  BY DEF RoleReaches
<1>4. \A i \in DOMAIN s : s[i] \notin O => s[i].op # "destroyRole"
  BY <1>2 DEF Ops
<1>5. \A i \in DOMAIN s : s[i] \in G => s[i].op = "role"
  BY DEF RoleRequest
<1> HIDE DEF s, G, O
<1>6. CASE v.role = w.role /\ \A i \in DOMAIN s : s[i] \notin O
  BY <1>1, <1>4, <1>6 DEF LivesAt, s
<1>7. ASSUME NEW j \in DOMAIN s, s[j] \in G, \A i \in DOMAIN s : i > j => s[i] \notin O
      PROVE  LivesAt(s, v.role, Len(s) + 1)
  <2>1. j \in 1 .. (Len(s) + 1 - 1) /\ s[j].op = "role"
    BY <1>1, <1>5, <1>7
  <2>2. \A k \in (j + 1) .. (Len(s) + 1 - 1) : s[k].op # "destroyRole"
    <3>1. \A k \in (j + 1) .. (Len(s) + 1 - 1) : k \in DOMAIN s /\ k > j
      BY <1>1, <2>1
    <3> QED BY <3>1, <1>4, <1>7
  <2> QED BY <2>1, <2>2 DEF LivesAt
<1> QED BY <1>3, <1>6, <1>7 DEF Ends, s

(* A commit brings the shadow up to date. *)
LEMMA CommitReaches ==
  ASSUME NEW w, NEW v, IsWindow(w), RoleReaches(w, v), FullReaches(w, v), Ordered(w, v)
  PROVE  SentOK(Commit(w), v)
<1> DEFINE x == Commit(w)
           r == CommitRequest(w)
<1>1. Only(w, x, {"latched", "sent"}) /\ x.sent = Append(w.sent, r) /\ r \in Request
  BY Commits, CommitIsRequest
<1>2. r.op = "commit" /\ r.shadow = w.shadow
  BY DEF CommitRequest
<1>3. w.sent \in Seq(Request)
  BY DEF IsWindow
<1>4. /\ x.role = w.role /\ x.monitor = w.monitor /\ x.shadow = w.shadow
      /\ x.sizeCommitPending = w.sizeCommitPending
  BY <1>1 DEF Only, Fields
<1>5. r \in CommitOf(w.shadow) /\ r \notin Ops({"role", "destroyRole"})
      /\ r \notin Ops({"role", "full", "unfull"})
  BY <1>1, <1>2 DEF CommitOf, Ops
<1> HIDE DEF x, r
<1>6. RoleReaches(x, v)
  BY <1>1, <1>3, <1>4, <1>5, EndsAppend DEF RoleReaches
<1>7. FullReaches(x, v)
  BY <1>1, <1>3, <1>4, <1>5, EndsAppend DEF FullReaches
<1>8. ShadowReaches(x, v)
  BY <1>1, <1>3, <1>4, <1>5, EndsGiven DEF ShadowReaches
<1>9. Ordered(x, v)
  BY <1>1, <1>2, <1>3, OrderedAppend DEF Ordered, Configuring
<1> QED BY <1>6, <1>7, <1>8, <1>9 DEF SentOK, x

(* Any other request, from a window that keeps its role and its shadow. *)
LEMMA RequestReaches ==
  ASSUME NEW w, NEW v, NEW x, NEW r \in Request, IsWindow(w), SentOK(w, v),
         x.sent = Append(w.sent, r), x.role = w.role, x.shadow = w.shadow,
         x.sizeCommitPending = w.sizeCommitPending,
         \/ r.op \in {"roundtrip", "mode", "sync"} /\ x.monitor = w.monitor
         \/ r.op \in {"max", "unmax"} /\ x.monitor = w.monitor /\ w.role # 0
         \/ r.op = "full" /\ x.monitor = TRUE /\ w.role # 0
         \/ r.op = "unfull" /\ x.monitor = FALSE /\ w.role # 0
  PROVE  SentOK(x, v)
<1>1. w.sent \in Seq(Request)
  BY DEF IsWindow
<1>2. r \notin Ops({"role", "destroyRole"}) /\ r \notin Ops({"commit", "destroyShadow"})
  BY DEF Ops
<1>3. RoleReaches(x, v)
  BY <1>1, <1>2, EndsAppend DEF RoleReaches, SentOK
<1>4. FullReaches(x, v)
  <2>1. CASE r.op \notin {"full", "unfull"}
    <3>1. r \notin Ops({"role", "full", "unfull"})
      BY <2>1 DEF Ops
    <3> QED BY <1>1, <2>1, <3>1, EndsAppend DEF FullReaches, SentOK
  <2>2. CASE r.op \in {"full", "unfull"}
    <3>1. r \in FullRequest(x.monitor)
      BY <2>2 DEF FullRequest
    <3> QED BY <1>1, <3>1, EndsGiven DEF FullReaches
  <2> QED BY <2>1, <2>2
<1>5. ShadowReaches(x, v)
  BY <1>1, <1>2, EndsAppend DEF ShadowReaches, SentOK
<1>6. Ordered(x, v)
  <2>1. r.op \in Configuring => LivesAt(w.sent, v.role, Len(w.sent) + 1)
    BY LivesAtTheEnd DEF SentOK, Configuring
  <2>2. r.op # "destroyShadow"
    OBVIOUS
  <2> QED BY <1>1, <2>1, <2>2, OrderedAppend DEF Ordered, SentOK
<1> QED BY <1>3, <1>4, <1>5, <1>6 DEF SentOK

(* No request: the window keeps its shadow, or a commit is due. *)
LEMMA SilenceReaches ==
  ASSUME NEW w, NEW v, NEW x, SentOK(w, v), x.sent = w.sent, x.role = w.role,
         x.role = 0 \/ x.monitor = w.monitor,
         \/ x.sizeCommitPending
         \/ x.shadow = w.shadow /\ x.sizeCommitPending = w.sizeCommitPending
  PROVE  SentOK(x, v)
BY DEF SentOK, RoleReaches, FullReaches, ShadowReaches, Ordered

-----------------------------------------------------------------------------
(* The calls of the application.  What is sent is added to, with no new    *)
(* role: x then does to w what F allows.                                   *)
Adds(s, t) == Elems(s) \subseteq Elems(t) /\ Elems(t) \ Elems(s) \subseteq Request \ Ops({"role"})

Fine(w, v) == Good(w) /\ SentOK(w, v)
Keeps(w, x, F) == Only(w, x, F) /\ Adds(w.sent, x.sent)

LEMMA ElemsAreRequests ==
  ASSUME NEW s \in Seq(Request)
  PROVE  Elems(s) \subseteq Request
BY DEF Elems

LEMMA AddsOne ==
  ASSUME NEW s \in Seq(Request), NEW r \in Request, r.op # "role"
  PROVE  Adds(s, Append(s, r))
BY ElemsAppend DEF Adds, Ops

LEMMA KeepsSame ==
  ASSUME NEW w, NEW x, NEW F, Only(w, x, F), x.sent = w.sent
  PROVE  Keeps(w, x, F)
BY DEF Keeps, Adds

LEMMA KeepsThen ==
  ASSUME NEW w, NEW x, NEW y, NEW F, NEW G, NEW H, Keeps(w, x, F), Keeps(x, y, G),
         F \cup G \subseteq H
  PROVE  Keeps(w, y, H)
BY OnlyThen DEF Keeps, Adds

(* A window that sends nothing stays fine as long as its shadow does. *)
LEMMA StaysFine ==
  ASSUME NEW w, NEW v, NEW x, SentOK(w, v), Good(x), x.sent = w.sent, x.role = w.role,
         x.role = 0 \/ x.monitor = w.monitor,
         \/ x.sizeCommitPending
         \/ x.shadow = w.shadow /\ x.sizeCommitPending = w.sizeCommitPending
  PROVE  Fine(x, v)
BY SilenceReaches DEF Fine

(* Fields that nothing of it rests on. *)
LEMMA ElsewhereIsFine ==
  ASSUME NEW w, NEW x, NEW F, Good(w), Only(w, x, F),
         F \subseteq {"told", "mode", "pending", "blocked", "limits", "dirty"},
         x.limits \in Nat, w.dirty => x.dirty
  PROVE  Good(x) /\ Keeps(w, x, F) /\ \A v : SentOK(w, v) => SentOK(x, v)
<1>1. IsWindow(x)
  BY DEF Good, IsWindow, Only, Fields
<1>2. Fits(x)
  BY DEF Good, Fits, Staged, ShadowFits, Shaded, Only, Fields
<1>3. x.sent = w.sent /\ x.role = w.role /\ x.monitor = w.monitor /\ x.shadow = w.shadow
      /\ x.sizeCommitPending = w.sizeCommitPending
  BY DEF Only, Fields
<1> QED BY <1>1, <1>2, <1>3, SilenceReaches, KeepsSame DEF Good

LEMMA Damages ==
  ASSUME NEW w, Good(w)
  PROVE  /\ Good(Damage(w)) /\ Keeps(w, Damage(w), {"dirty"}) /\ Damage(w).dirty = TRUE
         /\ \A v : SentOK(w, v) => SentOK(Damage(w), v)
<1> DEFINE x == Damage(w)
<1>1. Only(w, x, {"dirty"}) /\ x.dirty = TRUE /\ x.limits = w.limits
  BY DEF Damage, Good, IsWindow, Only, Fields
<1> HIDE DEF x
<1> QED BY <1>1, ElsewhereIsFine DEF Good, IsWindow, x

LEMMA Tells ==
  ASSUME NEW w, Good(w)
  PROVE  /\ Good(TellSize(w)) /\ Keeps(w, TellSize(w), {"told"}) /\ Told(TellSize(w))
         /\ \A v : SentOK(w, v) => SentOK(TellSize(w), v)
<1> DEFINE x == TellSize(w)
<1>1. Only(w, x, {"told"}) /\ x.told = w.width /\ x.limits = w.limits /\ x.dirty = w.dirty
      /\ x.width = w.width
  BY DEF TellSize, Good, IsWindow, Only, Fields
<1> HIDE DEF x
<1> QED BY <1>1, ElsewhereIsFine DEF Good, IsWindow, Told, x

LEMMA Limits ==
  ASSUME NEW w, Good(w)
  PROVE  /\ Good(UpdateXdgSizeLimits(w)) /\ Keeps(w, UpdateXdgSizeLimits(w), {"limits"})
         /\ \A v : SentOK(w, v) => SentOK(UpdateXdgSizeLimits(w), v)
<1> DEFINE x == UpdateXdgSizeLimits(w)
<1>1. Only(w, x, {"limits"}) /\ x.limits \in Nat /\ x.dirty = w.dirty
  BY DEF UpdateXdgSizeLimits, Good, IsWindow, Only, Fields, Lengths
<1> HIDE DEF x
<1> QED BY <1>1, ElsewhereIsFine DEF x

(* A resize waits for its buffer, and brings the shadow up to date. *)
Resizing == {"width", "resizePending", "sizeCommitPending", "dirty", "shadow"}
LEMMA Resizes ==
  ASSUME NEW w, NEW v, NEW size \in Nat, IsWindow(w), Staged(w), SentOK(w, v)
  PROVE  LET x == ResizeWindow(w, size)
         IN  /\ Keeps(w, x, Resizing) /\ x.width = Larger(size, 1) /\ x.sent = w.sent
             /\ x.width = w.width => x = w
             /\ x.width # w.width =>
                   Fine(x, v) /\ x.sizeCommitPending = TRUE /\ (w.role # 0 => x.shadow = Shaded(x))
<1> DEFINE x == ResizeWindow(w, size)
           y == ResizeFramebuffer([w EXCEPT !.width = Larger(size, 1)])
<1>0. Larger(size, 1) \in Lengths
  BY DEF Larger, Lengths
<1>1. CASE Larger(size, 1) = w.width
  <2>1. x = w
    BY <1>1 DEF ResizeWindow
  <2> QED BY <2>1, <1>1, OnlySelf, KeepsSame DEF IsWindow
<1>2. CASE Larger(size, 1) # w.width
  <2>1. x = UpdateWindowShadow(y)
    BY <1>2 DEF ResizeWindow
  <2>2. /\ Only(w, y, {"width", "resizePending", "sizeCommitPending", "dirty"})
        /\ y.width = Larger(size, 1) /\ y.resizePending = TRUE /\ y.sizeCommitPending = TRUE
        /\ y.dirty = TRUE
    BY DEF ResizeFramebuffer, IsWindow, Only, Fields
  <2> HIDE DEF x, y
  <2>3. IsWindow(y) /\ Staged(y)
    BY <2>2, <1>0 DEF IsWindow, Staged, Only, Fields
  <2>4. Good(x) /\ Only(y, x, {"shadow"})
    BY <2>1, <2>3, Shadows, ShadowIsGood
  <2>5. Only(w, x, Resizing)
    BY <2>2, <2>4, OnlyThen DEF Resizing
  <2>6. x.width = y.width /\ x.sizeCommitPending = TRUE /\ x.sent = w.sent /\ x.role = w.role
        /\ x.monitor = w.monitor
    BY <2>2, <2>4 DEF Only, Fields
  <2>7. Fine(x, v)
    BY <2>4, <2>6, StaysFine
  <2>8. w.role # 0 => x.shadow = Shaded(x)
    <3>1. x.shadow = ShadowFor(y)
      BY <2>1, <2>3, Shadows
    <3> QED BY <2>2, <2>4, <3>1 DEF ShadowFor, Shaded, Only, Fields
  <2> QED BY <1>2, <2>2, <2>5, <2>6, <2>7, <2>8, KeepsSame DEF x
<1> QED BY <1>1, <1>2

LEMMA SizesAreLengths ==
  /\ \A s \in Sizes : s \in Nat \ {0}
  /\ \A s \in Sizes \cup {0} : s \in Nat
BY SizeAssumption DEF SizeAssumption

Sizing == Resizing \cup {"restore", "limits"}
LEMMA SizesWindow ==
  ASSUME NEW w, NEW v, NEW size \in Sizes, Fine(w, v)
  PROVE  LET x == SetWindowSize(w, size)
         IN  Fine(x, v) /\ Keeps(w, x, Sizing) /\ (w.monitor => x = w)
             /\ (w.role # 0 /\ w.restore # 0 => x.width = w.width)
<1> DEFINE x == SetWindowSize(w, size)
           y == IF w.restore > 0 THEN [w EXCEPT !.restore = size] ELSE w
           z == ResizeWindow(y, size)
           u == IF ~kind.resizable /\ z.role # 0 THEN UpdateXdgSizeLimits(z) ELSE z
           d == IF u.visible THEN Damage(u) ELSE u
<1>0. w.restore \in Sizes \cup {0} /\ DOMAIN w = Fields
  BY DEF Fine, Good, IsWindow
<1>1. size \in Nat \ {0} /\ w.restore \in Nat
  <2>1. w.restore \in Sizes \cup {0}
    BY <1>0
  <2> QED BY <2>1, SizesAreLengths
<1>2. Only(w, y, {"restore"}) /\ y.restore \in Sizes \cup {0} /\ (y.restore # 0 => w.restore # 0)
      /\ y.sent = w.sent /\ y.width = w.width /\ y.role = w.role /\ y.monitor = w.monitor
      /\ y.shadow = w.shadow /\ y.sizeCommitPending = w.sizeCommitPending
  BY <1>0, <1>1 DEF Only, Fields
<1>3. \/ x = w /\ w.monitor
      \/ x = y /\ ~w.monitor
      \/ x = d /\ ~w.monitor /\ z.width # w.width /\ ~(w.restore > 0 /\ w.role # 0)
  BY DEF SetWindowSize
<1> HIDE DEF x, y
<1>4. Good(y)
  BY <1>2 DEF Fine, Good, Fits, Staged, ShadowFits, Shaded, IsWindow, Only, Fields
<1>5. Fine(y, v)
  BY <1>2, <1>4, StaysFine DEF Fine
<1>6. Keeps(w, y, {"restore"})
  BY <1>2, KeepsSame
<1>7. ASSUME x = d, z.width # w.width, ~(w.restore > 0 /\ w.role # 0)
      PROVE  Fine(x, v) /\ Keeps(w, x, Sizing)
  <2>1. Fine(z, v) /\ Keeps(y, z, Resizing)
    BY <1>1, <1>2, <1>5, <1>7, Resizes DEF Fine, Good, Fits
  <2> HIDE DEF z
  <2>2. Fine(u, v) /\ Keeps(z, u, {"limits"})
    BY <2>1, Limits, OnlySelf, KeepsSame DEF Fine, Good, IsWindow
  <2> HIDE DEF u
  <2>3. Fine(d, v) /\ Keeps(u, d, {"dirty"})
    BY <2>2, Damages, OnlySelf, KeepsSame DEF Fine, Good, IsWindow
  <2> HIDE DEF d
  <2>4. Keeps(w, z, Resizing \cup {"restore"})
    BY <1>6, <2>1, KeepsThen
  <2>5. Keeps(w, u, Sizing)
    BY <2>2, <2>4, KeepsThen DEF Sizing
  <2>6. Keeps(w, d, Sizing)
    BY <2>3, <2>5, KeepsThen DEF Sizing, Resizing
  <2> QED BY <1>7, <2>3, <2>6
<1>8. Keeps(w, w, Sizing)
  BY OnlySelf, KeepsSame DEF Fine, Good, IsWindow
<1>9. Keeps(w, y, Sizing)
  BY <1>6, <1>8, KeepsThen DEF Sizing
<1>10. w.role # 0 /\ w.restore # 0 => x = w \/ x = y
  BY <1>1, <1>3
<1>11. w.monitor => x = w
  BY <1>3
<1>12. Fine(x, v) /\ Keeps(w, x, Sizing)
  BY <1>3, <1>5, <1>7, <1>8, <1>9
<1>13. w.role # 0 /\ w.restore # 0 => x.width = w.width
  BY <1>2, <1>10
<1> QED BY <1>11, <1>12, <1>13 DEF x

LEMMA SizesWindowed ==
  ASSUME NEW w, NEW v, NEW size \in Sizes, Fine(w, v), Told(w)
  PROVE  LET x == SetWindowedSize(w, size)
         IN  Fine(x, v) /\ Keeps(w, x, Sizing \cup {"told"}) /\ (w.role = 0 => Told(x))
<1> DEFINE y == SetWindowSize(w, size)
           x == SetWindowedSize(w, size)
<1>1. Fine(y, v) /\ Keeps(w, y, Sizing)
  BY SizesWindow
<1>2. x = TellSize(y) \/ (x = y /\ (y.role # 0 \/ y.width = w.width))
  BY DEF SetWindowedSize
<1> HIDE DEF x, y
<1>3. y.role = w.role /\ y.told = w.told
  BY <1>1 DEF Keeps, Only, Fields, Sizing, Resizing
<1>4. Fine(TellSize(y), v) /\ Keeps(y, TellSize(y), {"told"}) /\ Told(TellSize(y))
  BY <1>1, Tells DEF Fine
<1>5. Keeps(w, TellSize(y), Sizing \cup {"told"})
  BY <1>1, <1>4, KeepsThen
<1>6. Keeps(y, y, {}) 
  BY <1>1, OnlySelf, KeepsSame DEF Keeps, Only
<1>7. Keeps(w, y, Sizing \cup {"told"})
  BY <1>1, <1>6, KeepsThen
<1> QED BY <1>1, <1>2, <1>3, <1>4, <1>5, <1>7 DEF x, Told

(* Fullscreen is entered with the request to follow. *)
LEMMA EntersFullscreen ==
  ASSUME NEW w, NEW v, Fine(w, v), ~w.monitor
  PROVE  LET x == EnterFullscreen(w)
         IN  Fine(x, v) /\ Keeps(w, x, {"monitor", "fallback", "sent"})
<1> DEFINE x == EnterFullscreen(w)
<1>0. DOMAIN w = Fields /\ w.sent \in Seq(Request) /\ w.monitor \in BOOLEAN
  BY DEF Fine, Good, IsWindow
<1>1. /\ Only(w, x, {"monitor", "fallback", "sent"}) /\ x.monitor = TRUE
      /\ ~x.fallback
      /\ x.sent = IF w.role = 0 THEN w.sent ELSE Append(w.sent, [op |-> "full"])
  <2> DEFINE a == [w EXCEPT !.monitor = TRUE]
             b == IF w.role = 0 THEN a ELSE Send(a, [op |-> "full"])
             c == IF b.fallback THEN DestroyFallbackDecorations(b) ELSE b
  <2>1. Only(w, a, {"monitor"}) /\ a.monitor = TRUE /\ a.role = w.role /\ a.sent = w.sent
    BY <1>0 DEF Only, Fields
  <2>2. x = IF b.fallback THEN DestroyFallbackDecorations(b) ELSE b
    BY <2>1 DEF EnterFullscreen, AcquireMonitor
  <2> HIDE DEF a, x
  <2>3. Only(a, b, {"sent"}) /\ b.sent = IF w.role = 0 THEN w.sent ELSE Append(w.sent, [op |-> "full"])
    <3>1. DOMAIN a = Fields
      BY <2>1 DEF Only
    <3>2. CASE w.role = 0
      <4>1. b = a
        BY <3>2
      <4> QED BY <2>1, <3>1, <3>2, <4>1, OnlySelf
    <3>3. CASE w.role # 0
      <4>1. b = Send(a, [op |-> "full"])
        BY <3>3
      <4> QED BY <2>1, <3>1, <3>3, <4>1, Sends
    <3> QED BY <3>2, <3>3
  <2> HIDE DEF b
  <2>4. Only(b, x, {"fallback"}) /\ ~x.fallback
    BY <2>2, <2>3 DEF Only, Fields, DestroyFallbackDecorations
  <2> QED BY <2>1, <2>3, <2>4, OnlyThen DEF Only, Fields
<1> HIDE DEF x
<1>2. [op |-> "full"] \in Request
  BY DEF Request, Configuring
<1>3. x.sent \in Seq(Request) /\ Adds(w.sent, x.sent)
  <2>1. Adds(w.sent, Append(w.sent, [op |-> "full"]))
    BY <1>0, <1>2, AddsOne
  <2>2. Adds(w.sent, w.sent)
    BY DEF Adds
  <2> QED BY <1>0, <1>1, <1>2, <2>1, <2>2, AppendFacts
<1>4. IsWindow(x)
  <2>o. Only(w, x, {"monitor", "fallback", "sent"}) /\ x.monitor = TRUE
    BY <1>1
  <2> QED BY <2>o, <1>3 DEF IsWindow, Only, Fields, Fine, Good
<1>5. Fits(x)
  <2>o. Only(w, x, {"monitor", "fallback", "sent"}) /\ ~x.fallback
    BY <1>1
  <2> QED BY <2>o DEF Fine, Good, Fits, Staged, ShadowFits, Shaded, Only, Fields
<1>6. x.role = w.role /\ x.shadow = w.shadow /\ x.sizeCommitPending = w.sizeCommitPending
  BY <1>1 DEF Only, Fields
<1>7. SentOK(x, v)
  BY <1>1, <1>2, <1>6, RequestReaches, SilenceReaches DEF Fine, Good
<1> QED BY <1>1, <1>3, <1>4, <1>5, <1>7 DEF Fine, Good, Keeps, x

LEMMA SameIsKept ==
  ASSUME NEW w, NEW F, Good(w)
  PROVE  Keeps(w, w, F)
BY OnlySelf, KeepsSame DEF Good, IsWindow

LEMMA KeepsMore ==
  ASSUME NEW w, NEW x, NEW F, NEW G, Keeps(w, x, F), F \subseteq G
  PROVE  Keeps(w, x, G)
BY DEF Keeps, Only

LEMMA SendIsFine ==
  ASSUME NEW w, NEW v, NEW r \in Request, Fine(w, v),
         \/ r.op \in {"roundtrip", "mode", "sync"}
         \/ r.op \in {"max", "unmax"} /\ w.role # 0
  PROVE  /\ Fine(Send(w, r), v) /\ Keeps(w, Send(w, r), {"sent"})
         /\ Send(w, r).sent = Append(w.sent, r) /\ r \in Elems(Send(w, r).sent)
<1> DEFINE x == Send(w, r)
<1>1. Good(x) /\ Only(w, x, {"sent"}) /\ x.sent = Append(w.sent, r)
  BY SendIsGood DEF Fine
<1>2. w.sent \in Seq(Request) /\ IsWindow(w)
  BY DEF Fine, Good, IsWindow
<1>3. x.role = w.role /\ x.shadow = w.shadow /\ x.sizeCommitPending = w.sizeCommitPending
      /\ x.monitor = w.monitor
  BY <1>1 DEF Only, Fields
<1> HIDE DEF x
<1>4. Adds(w.sent, x.sent)
  <2>1. r.op # "role"
    OBVIOUS
  <2> QED BY <1>1, <1>2, <2>1, AddsOne
<1>5. SentOK(x, v)
  BY <1>1, <1>2, <1>3, RequestReaches DEF Fine
<1>6. r \in Elems(x.sent)
  <2>1. Len(w.sent) + 1 \in DOMAIN x.sent /\ x.sent[Len(w.sent) + 1] = r
    BY <1>1, <1>2, AppendFacts
  <2> QED BY <2>1 DEF Elems
<1> QED BY <1>1, <1>4, <1>5, <1>6 DEF Fine, Keeps, x

LEMMA Releases ==
  ASSUME NEW w, NEW v, Fine(w, v)
  PROVE  LET x == [ReleaseMonitor(w) EXCEPT !.monitor = FALSE]
         IN  Fine(x, v) /\ Keeps(w, x, {"monitor", "fallback", "sent"}) /\ x.monitor = FALSE
<1> DEFINE x == [ReleaseMonitor(w) EXCEPT !.monitor = FALSE]
<1>0. DOMAIN w = Fields /\ w.sent \in Seq(Request)
  BY DEF Fine, Good, IsWindow
<1>1. /\ Only(w, x, {"monitor", "fallback", "sent"}) /\ x.monitor = FALSE
      /\ x.sent = IF w.role = 0 THEN w.sent ELSE Append(w.sent, [op |-> "unfull"])
  <2> DEFINE b == IF w.role = 0 THEN w ELSE Send(w, [op |-> "unfull"])
             c == IF b.mode # "server" /\ b.decorated THEN CreateFallbackDecorations(b) ELSE b
  <2>1. x = [c EXCEPT !.monitor = FALSE]
    BY DEF ReleaseMonitor
  <2> HIDE DEF x
  <2>2. Only(w, b, {"sent"}) /\ b.sent = IF w.role = 0 THEN w.sent ELSE Append(w.sent, [op |-> "unfull"])
    <3>1. CASE w.role = 0
      BY <1>0, <3>1, OnlySelf
    <3>2. CASE w.role # 0
      BY <1>0, <3>2, Sends
    <3> QED BY <3>1, <3>2
  <2> HIDE DEF b
  <2>3. Only(b, c, {"fallback"})
    BY <2>2 DEF Only, Fields, CreateFallbackDecorations
  <2> HIDE DEF c
  <2>4. Only(c, x, {"monitor"}) /\ x.monitor = FALSE
    BY <2>1, <2>3 DEF Only, Fields
  <2>5. Only(w, c, {"sent", "fallback"})
    BY <2>2, <2>3, OnlyThen
  <2>6. Only(w, x, {"monitor", "fallback", "sent"})
    BY <2>4, <2>5, OnlyThen
  <2>7. x.sent = b.sent
    BY <2>3, <2>4 DEF Only, Fields
  <2> QED BY <2>2, <2>4, <2>6, <2>7
<1> HIDE DEF x
<1>2. [op |-> "unfull"] \in Request
  BY DEF Request, Configuring
<1>3. x.sent \in Seq(Request) /\ Adds(w.sent, x.sent)
  <2>1. Adds(w.sent, Append(w.sent, [op |-> "unfull"]))
    BY <1>0, <1>2, AddsOne
  <2>2. Adds(w.sent, w.sent)
    BY DEF Adds
  <2> QED BY <1>0, <1>1, <1>2, <2>1, <2>2, AppendFacts
<1>o. Only(w, x, {"monitor", "fallback", "sent"}) /\ x.monitor = FALSE
  BY <1>1
<1>4. IsWindow(x)
  BY <1>o, <1>3 DEF IsWindow, Only, Fields, Fine, Good
<1>5. Fits(x)
  BY <1>o DEF Fine, Good, Fits, Staged, ShadowFits, Shaded, Only, Fields
<1>6. x.role = w.role /\ x.shadow = w.shadow /\ x.sizeCommitPending = w.sizeCommitPending
  BY <1>o DEF Only, Fields
<1>7. SentOK(x, v)
  BY <1>1, <1>2, <1>6, RequestReaches, SilenceReaches DEF Fine, Good
<1> QED BY <1>1, <1>3, <1>4, <1>5, <1>7 DEF Fine, Good, Keeps, x

(* An exit resizes, or waits for the configure that will. *)
Leaving == Sizing \cup {"told", "monitor", "fallback", "sent", "sync"}
LEMMA LeavesFullscreen ==
  ASSUME NEW w, NEW v, NEW size \in Sizes, NEW id \in Ids \ {0}, Fine(w, v), Told(w)
  PROVE  LET x == LeaveFullscreen(w, size, id)
             y == IF w.monitor THEN x ELSE TellSize(x)
         IN  /\ Fine(y, v) /\ Told(y) /\ Keeps(w, y, Leaving)
             /\ y.sync # w.sync => y.sync = id /\ [op |-> "sync", id |-> id] \in Elems(y.sent)
<1> DEFINE x == LeaveFullscreen(w, size, id)
           y == IF w.monitor THEN x ELSE TellSize(x)
           u == [ReleaseMonitor(w) EXCEPT !.monitor = FALSE]
           Q == /\ Fine(y, v) /\ Told(y) /\ Keeps(w, y, Leaving)
                /\ y.sync # w.sync => y.sync = id /\ [op |-> "sync", id |-> id] \in Elems(y.sent)
<1> SUFFICES Q
  OBVIOUS
<1>1. Fine(u, v) /\ Keeps(w, u, {"monitor", "fallback", "sent"}) /\ u.monitor = FALSE
  BY Releases
<1>2. u.role = w.role /\ u.sync = w.sync /\ u.told = w.told /\ u.width = w.width /\ Told(u)
  BY <1>1 DEF Keeps, Only, Fields, Told
<1>3. ASSUME ~w.monitor, Fine(x, v), Keeps(w, x, Sizing \cup {"told"})
      PROVE  Q
  <2>1. y = TellSize(x)
    BY <1>3
  <2> HIDE DEF x, y
  <2>2. Fine(y, v) /\ Told(y) /\ Keeps(x, y, {"told"})
    BY <1>3, <2>1, Tells DEF Fine
  <2>3. Keeps(w, y, Leaving)
    BY <1>3, <2>2, KeepsThen DEF Leaving
  <2>4. y.sync = w.sync
    BY <1>3, <2>2 DEF Keeps, Only, Fields, Sizing, Resizing
  <2> QED BY <2>2, <2>3, <2>4
<1>4. CASE ~w.monitor /\ w.restore > 0
  <2>1. x = [w EXCEPT !.restore = size]
    BY <1>4 DEF LeaveFullscreen
  <2>2. w.restore # 0 /\ DOMAIN w = Fields
    BY <1>4, SizesAreLengths DEF Fine, Good, IsWindow
  <2> HIDE DEF x
  <2>3. Only(w, x, {"restore"}) /\ x.restore = size /\ x.sent = w.sent
        /\ x.role = w.role /\ x.monitor = w.monitor
        /\ x.shadow = w.shadow /\ x.sizeCommitPending = w.sizeCommitPending
    BY <2>1, <2>2 DEF Only, Fields
  <2>4. Good(x)
    BY <2>2, <2>3 DEF Fine, Good, Fits, Staged, ShadowFits, Shaded, IsWindow, Only, Fields
  <2>5. Fine(x, v)
    BY <2>3, <2>4, StaysFine DEF Fine
  <2>6. Keeps(w, x, {"restore"})
    BY <2>3, KeepsSame
  <2>7. Keeps(w, x, Sizing \cup {"told"})
    BY <2>6, KeepsMore DEF Sizing
  <2> QED BY <1>3, <1>4, <2>5, <2>7
<1>5. CASE ~w.monitor /\ ~(w.restore > 0)
  <2>1. x = SetWindowedSize(w, size)
    BY <1>5 DEF LeaveFullscreen
  <2>2. Fine(x, v) /\ Keeps(w, x, Sizing \cup {"told"})
    BY <2>1, SizesWindowed
  <2> QED BY <1>3, <1>5, <2>2
<1>6. CASE w.monitor /\ w.role = 0
  <2>1. y = SetWindowedSize(u, size)
    BY <1>2, <1>6 DEF LeaveFullscreen
  <2> HIDE DEF y, u
  <2>2. Fine(y, v) /\ Keeps(u, y, Sizing \cup {"told"}) /\ Told(y)
    BY <1>1, <1>2, <1>6, <2>1, SizesWindowed
  <2>3. Keeps(w, y, Leaving)
    BY <1>1, <2>2, KeepsThen DEF Leaving
  <2>4. y.sync = w.sync
    BY <1>2, <2>2 DEF Keeps, Only, Fields, Sizing, Resizing
  <2> QED BY <2>2, <2>3, <2>4
<1>7. CASE w.monitor /\ w.role # 0
  <2> DEFINE z == [u EXCEPT !.restore = size, !.sync = id]
             r == [op |-> "sync", id |-> id]
  <2>1. y = Send(z, r)
    BY <1>2, <1>7 DEF LeaveFullscreen
  <2> HIDE DEF u, y
  <2>2. DOMAIN u = Fields /\ Good(u)
    BY <1>1 DEF Fine, Good, IsWindow
  <2>3. Only(u, z, {"restore", "sync"}) /\ z.restore = size /\ z.sync = id /\ z.sent = u.sent
        /\ z.role = u.role /\ z.monitor = u.monitor
        /\ z.shadow = u.shadow /\ z.sizeCommitPending = u.sizeCommitPending
    BY <2>2 DEF Only, Fields
  <2> HIDE DEF z
  <2>4. Good(z)
    BY <2>2, <2>3 DEF Good, Fits, Staged, ShadowFits, Shaded, IsWindow, Only, Fields
  <2>5. Fine(z, v) /\ Keeps(u, z, {"restore", "sync"})
    BY <1>1, <2>3, <2>4, StaysFine, KeepsSame DEF Fine
  <2>6. r \in Request /\ r.op = "sync"
    BY DEF Request
  <2>7. Fine(y, v) /\ Keeps(z, y, {"sent"}) /\ r \in Elems(y.sent)
    BY <2>1, <2>5, <2>6, SendIsFine
  <2>8. Keeps(w, z, Leaving)
    BY <1>1, <2>5, KeepsThen DEF Leaving, Sizing
  <2>9. Keeps(w, y, Leaving)
    BY <2>7, <2>8, KeepsThen DEF Leaving
  <2>10. y.sync = id /\ y.told = y.width
    BY <1>2, <2>3, <2>7 DEF Keeps, Only, Fields, Told
  <2> QED BY <2>7, <2>9, <2>10 DEF Told
<1> QED BY <1>4, <1>5, <1>6, <1>7

(* A new role brings its states with it, and its first commit the shadow. *)
Showing == {"role", "fallback", "limits", "latched", "blocked", "sent"}
RoleOf(w, id) == [op |-> "role", id |-> id, full |-> w.monitor,
                  max |-> w.maximized /\ ~w.monitor, ssd |-> w.decorated]
RoleLine(s, r, t) ==
  \E m \in Request : /\ m.op = "commit"
                     /\ t = Append(Append(Append(s, r), m), [op |-> "roundtrip"])
LEMMA CreatesRole ==
  ASSUME NEW w, NEW v, NEW id \in Ids \ {0}, Fine(w, v), w.role = 0
  PROVE  LET x == CreateXdgShellObjects(w, id)
         IN  /\ Fine(x, v) /\ Only(w, x, Showing) /\ x.role = id
             /\ Elems(w.sent) \subseteq Elems(x.sent) /\ Elems(x.sent) \subseteq Request
             /\ RoleOf(w, id) \in Elems(x.sent) /\ [op |-> "roundtrip"] \in Elems(x.sent)
             /\ \A r \in Elems(x.sent) \ Elems(w.sent) : r.op = "role" => r = RoleOf(w, id)
             /\ RoleLine(w.sent, RoleOf(w, id), x.sent)
<1> DEFINE r == RoleOf(w, id)
           t == [op |-> "roundtrip"]
           a == [w EXCEPT !.role = id]
           b == Send(a, r)
           c == IF kind.manager = "none" /\ w.decorated /\ ~w.monitor
                THEN CreateFallbackDecorations(b) ELSE b
           d == UpdateXdgSizeLimits(c)
           e == Commit(d)
           f == Send(e, t)
           x == CreateXdgShellObjects(w, id)
<1>0. DOMAIN w = Fields /\ w.sent \in Seq(Request) /\ Good(w) /\ ~w.visible /\ w.buffer = 0
  BY DEF Fine, Good, IsWindow, Fits, Staged
<1>1. x = [f EXCEPT !.blocked = TRUE]
  BY DEF CreateXdgShellObjects, RoleOf
<1>2. r \in Request /\ t \in Request /\ r.op = "role" /\ r.id = id /\ r.full = w.monitor
      /\ t.op = "roundtrip"
  <2>1. w.monitor \in BOOLEAN /\ w.maximized \in BOOLEAN /\ w.decorated \in BOOLEAN
    BY <1>0 DEF Good, IsWindow
  <2> QED BY <2>1 DEF RoleOf, Request
<1>3. Only(w, a, {"role"}) /\ a.role = id /\ a.sent = w.sent
  BY <1>0 DEF Only, Fields
<1> HIDE DEF x, a, r, t
<1>4. Good(a)
  BY <1>0, <1>3 DEF Good, Fits, Staged, ShadowFits, Shaded, IsWindow, Only, Fields
<1>5. Good(b) /\ Only(a, b, {"sent"}) /\ b.sent = Append(w.sent, r)
  BY <1>2, <1>3, <1>4, SendIsGood
<1> HIDE DEF b
<1>6. Only(b, c, {"fallback"}) /\ (w.monitor => c.fallback = b.fallback)
  <2>1. DOMAIN b = Fields
    BY <1>5 DEF Only
  <2> QED BY <2>1, OnlySelf DEF Only, Fields, CreateFallbackDecorations
<1>7. c.monitor = w.monitor
  BY <1>3, <1>5, <1>6 DEF Only, Fields
<1> HIDE DEF c
<1>8. Good(c)
  <2>1. IsWindow(c)
    BY <1>5, <1>6 DEF Good, IsWindow, Only, Fields
  <2>2. b.monitor = c.monitor /\ b.monitor = w.monitor
    BY <1>3, <1>5, <1>6 DEF Only, Fields
  <2>3. Fits(c)
    BY <1>5, <1>6, <2>2 DEF Good, Fits, Staged, ShadowFits, Shaded, Only, Fields
  <2> QED BY <2>1, <2>3 DEF Good
<1>9. Good(d) /\ Keeps(c, d, {"limits"})
  BY <1>8, Limits
<1> HIDE DEF d
<1>10. d.role = id /\ d.monitor = w.monitor /\ d.sent = Append(w.sent, r) /\ d.buffer = 0
  BY <1>0, <1>3, <1>5, <1>6, <1>9 DEF Keeps, Only, Fields
<1>11. RoleReaches(d, v) /\ FullReaches(d, v) /\ Ordered(d, v)
  <2>1. r \in RoleRequest(id) /\ r \in FullRequest(w.monitor)
    BY <1>2 DEF RoleRequest, FullRequest
  <2>2. RoleReaches(d, v)
    BY <1>0, <1>2, <1>10, <2>1, EndsGiven DEF RoleReaches
  <2>3. FullReaches(d, v)
    BY <1>0, <1>2, <1>10, <2>1, EndsGiven DEF FullReaches
  <2>4. Ordered(d, v)
    BY <1>0, <1>2, <1>10, OrderedAppend DEF Ordered, Configuring, Fine, SentOK
  <2> QED BY <2>2, <2>3, <2>4
<1>12. Fine(e, v) /\ Only(d, e, {"latched", "sent"}) /\ e.sent = Append(d.sent, CommitRequest(d))
  BY <1>9, <1>10, <1>11, Commits, CommitIsGood, CommitReaches DEF Fine, Good
<1> HIDE DEF e
<1>13. Fine(f, v) /\ Keeps(e, f, {"sent"}) /\ f.sent = Append(e.sent, t) /\ t \in Elems(f.sent)
  BY <1>2, <1>12, SendIsFine
<1> HIDE DEF f
<1>14. Only(f, x, {"blocked"})
  BY <1>1, <1>13 DEF Only, Fields, Keeps
<1>15. x.limits = f.limits /\ x.dirty = f.dirty /\ x.sent = f.sent /\ x.role = id
  <2>1. e.role = d.role
    BY <1>12 DEF Only, Fields
  <2>2. f.role = e.role
    BY <1>13 DEF Keeps, Only, Fields
  <2> QED BY <1>10, <1>14, <2>1, <2>2 DEF Only, Fields
<1>16. Fine(x, v)
  <2>1. Good(f) /\ SentOK(f, v) /\ f.limits \in Nat
    BY <1>13 DEF Fine, Good, IsWindow
  <2> QED BY <1>14, <1>15, <2>1, ElsewhereIsFine DEF Fine
<1>17. Only(w, x, Showing)
  <2>1. Only(w, b, {"role", "sent"})
    BY <1>3, <1>5, OnlyThen
  <2>2. Only(w, c, {"role", "sent", "fallback"})
    BY <2>1, <1>6, OnlyThen
  <2>3. Only(w, d, {"role", "sent", "fallback", "limits"})
    BY <2>2, <1>9, OnlyThen DEF Keeps
  <2>4. Only(w, e, {"role", "sent", "fallback", "limits", "latched"})
    BY <2>3, <1>12, OnlyThen
  <2>5. Only(w, f, {"role", "sent", "fallback", "limits", "latched"})
    BY <2>4, <1>13, OnlyThen DEF Keeps
  <2> QED BY <2>5, <1>14, OnlyThen DEF Showing
<1>18. /\ Elems(d.sent) = Elems(w.sent) \cup {r}
       /\ Elems(e.sent) = Elems(d.sent) \cup {CommitRequest(d)}
       /\ Elems(f.sent) = Elems(e.sent) \cup {t}
  <2>1. CommitRequest(d) \in Request
    BY <1>9, CommitIsRequest DEF Good
  <2>2. d.sent \in Seq(Request) /\ e.sent \in Seq(Request)
    BY <1>9, <1>12 DEF Fine, Good, IsWindow
  <2>3. Elems(d.sent) = Elems(w.sent) \cup {r}
    BY <1>0, <1>2, <1>10, ElemsAppend
  <2>4. Elems(e.sent) = Elems(d.sent) \cup {CommitRequest(d)}
    BY <1>12, <2>1, <2>2, ElemsAppend
  <2>5. Elems(f.sent) = Elems(e.sent) \cup {t}
    BY <1>2, <1>13, <2>2, ElemsAppend
  <2> QED BY <2>3, <2>4, <2>5
<1>19. \A q \in Elems(x.sent) \ Elems(w.sent) : q.op = "role" => q = r
  BY <1>2, <1>15, <1>18 DEF CommitRequest
<1>20. Elems(x.sent) \subseteq Request
  BY <1>16, ElemsAreRequests DEF Fine, Good, IsWindow
<1>21. RoleLine(w.sent, r, x.sent)
  <2>1. CommitRequest(d) \in Request /\ CommitRequest(d).op = "commit"
    BY <1>9, CommitIsRequest DEF Good, CommitRequest
  <2>2. x.sent = Append(Append(Append(w.sent, r), CommitRequest(d)), t)
    BY <1>10, <1>12, <1>13, <1>15
  <2> QED BY <2>1, <2>2 DEF RoleLine, t
<1> QED BY <1>13, <1>15, <1>16, <1>17, <1>18, <1>19, <1>20, <1>21 DEF x, r, t

(* The role goes with everything that hung on it. *)
Hiding == {"role", "mode", "fallback", "visible", "shadow", "requested", "buffer", "latched", "sent"}
HideLine(s, t) ==
  \E p \in Request, q \in Request, m \in Request :
     /\ p.op = "destroyRole" /\ q.op = "destroyShadow" /\ m.op = "commit"
     /\ t = Append(Append(Append(s, p), q), m)
LEMMA HidesWindow ==
  ASSUME NEW w, NEW v, Fine(w, v), w.visible
  PROVE  LET x == HideWindow(w)
         IN  /\ Fine(x, v) /\ Keeps(w, x, Hiding) /\ x.role = 0
             /\ HideLine(w.sent, x.sent)
<1> DEFINE p == [op |-> "destroyRole"]
           q == [op |-> "destroyShadow"]
           a == [w EXCEPT !.visible = FALSE]
           b == Send(a, p)
           c == Send(b, q)
           d == [DestroyShellObjects(a) EXCEPT !.buffer = 0]
           x == HideWindow(w)
<1>0. DOMAIN w = Fields /\ w.sent \in Seq(Request) /\ Good(w)
  BY DEF Fine, Good, IsWindow
<1>1. x = Commit(d)
  BY DEF HideWindow
<1>2. p \in Request /\ q \in Request /\ p.op = "destroyRole" /\ q.op = "destroyShadow"
  BY DEF Request
<1> HIDE DEF p, q, x
<1>3. Only(w, a, {"visible"}) /\ a.visible = FALSE /\ a.sent = w.sent
  BY <1>0 DEF Only, Fields
<1>4. d = [DestroyFallbackDecorations([c EXCEPT !.role = 0, !.mode = "unset", !.shadow = FALSE,
                                                !.requested = FALSE]) EXCEPT !.buffer = 0]
  BY DEF DestroyShellObjects, p, q
<1> HIDE DEF a
<1>5. Only(a, b, {"sent"}) /\ b.sent = Append(w.sent, p)
  BY <1>3, Sends DEF Only
<1> HIDE DEF b
<1>6. Only(b, c, {"sent"}) /\ c.sent = Append(b.sent, q)
  BY <1>5, Sends DEF Only
<1> HIDE DEF c, d
<1>7. /\ Only(c, d, {"role", "mode", "shadow", "requested", "fallback", "buffer"})
      /\ d.role = 0 /\ d.shadow = FALSE /\ d.requested = FALSE /\ d.fallback = FALSE
      /\ d.buffer = 0
  BY <1>4, <1>6 DEF Only, Fields, DestroyFallbackDecorations
<1>8. Only(w, d, Hiding \ {"latched"})
  <2>1. Only(w, b, {"visible", "sent"})
    BY <1>3, <1>5, OnlyThen
  <2>2. Only(w, c, {"visible", "sent"})
    BY <2>1, <1>6, OnlyThen
  <2>3. Only(c, d, {"role", "mode", "shadow", "requested", "fallback", "buffer"})
    BY <1>7
  <2> QED BY <2>2, <2>3, OnlyThen DEF Hiding
<1>9. d.visible = FALSE /\ d.sent = c.sent
  BY <1>3, <1>5, <1>6, <1>7 DEF Only, Fields
<1>10. b.sent \in Seq(Request) /\ c.sent \in Seq(Request)
  BY <1>0, <1>2, <1>5, <1>6, AppendFacts
<1>11. Good(d)
  <2>1. d.role \in Ids /\ d.sent \in Seq(Request)
    BY <1>7, <1>9, <1>10, SizeAssumption DEF Ids, SizeAssumption
  <2>2. IsWindow(d)
    <3>1. /\ Only(w, d, Hiding \ {"latched"}) /\ IsWindow(w)
          /\ d.shadow \in BOOLEAN /\ d.requested \in BOOLEAN /\ d.buffer \in Nat
      <4>1. Only(w, d, Hiding \ {"latched"}) /\ IsWindow(w)
        BY <1>0, <1>8 DEF Good
      <4>2. d.shadow \in BOOLEAN /\ d.requested \in BOOLEAN
        BY <1>7
      <4>3. d.buffer \in Nat
        BY <1>7
      <4> QED BY <4>1, <4>2, <4>3
    <3> QED BY <2>1, <3>1 DEF IsWindow, Only, Fields, Hiding
  <2>3. Staged(d)
    BY <1>0, <1>7, <1>8, <1>9 DEF Good, Fits, Staged, Only, Fields, Hiding
  <2> QED BY <1>9, <2>2, <2>3 DEF Good, Fits, ShadowFits
<1>12. OnlyWhileLive(b.sent, v.role) /\ RoleGoesFirst(b.sent, v.role)
  BY <1>0, <1>2, <1>5, OrderedAppend DEF Fine, SentOK, Ordered, Configuring
<1>13. Ordered(d, v)
  <2>1. b.sent # <<>> /\ b.sent[Len(b.sent)] = p
    BY <1>0, <1>2, <1>5
  <2> QED BY <1>2, <1>6, <1>9, <1>10, <1>12, <2>1, OrderedAppend DEF Ordered, Configuring
<1>14. RoleReaches(d, v) /\ FullReaches(d, v)
  BY <1>7 DEF RoleReaches, FullReaches
<1>15. Good(x) /\ SentOK(x, v) /\ Only(d, x, {"latched", "sent"})
       /\ x.sent = Append(d.sent, CommitRequest(d))
  BY <1>1, <1>7, <1>11, <1>13, <1>14, Commits, CommitIsGood, CommitReaches DEF Good
<1>16. Only(w, x, Hiding)
  <2>1. Only(d, x, {"latched", "sent"})
    BY <1>15
  <2> QED BY <1>8, <2>1, OnlyThen DEF Hiding
<1>17. x.role = 0
  BY <1>7, <1>15 DEF Only, Fields
<1>18. Adds(w.sent, x.sent)
  <2>1. Adds(w.sent, b.sent) /\ Adds(b.sent, c.sent)
    BY <1>0, <1>2, <1>5, <1>6, <1>10, AddsOne
  <2>2. CommitRequest(d) \in Request /\ CommitRequest(d).op = "commit"
    BY <1>11, CommitIsRequest DEF Good, CommitRequest
  <2>3. Adds(c.sent, x.sent)
    BY <1>9, <1>10, <1>15, <2>2, AddsOne
  <2> QED BY <2>1, <2>3 DEF Adds
<1>19. HideLine(w.sent, x.sent)
  <2>1. CommitRequest(d) \in Request /\ CommitRequest(d).op = "commit"
    BY <1>11, CommitIsRequest DEF Good, CommitRequest
  <2>2. x.sent = Append(Append(Append(w.sent, p), q), CommitRequest(d))
    BY <1>5, <1>6, <1>9, <1>15
  <2> QED BY <1>2, <2>1, <2>2 DEF HideLine
<1> QED BY <1>15, <1>16, <1>17, <1>18, <1>19 DEF Fine, Keeps, x

LEMMA BareCommitIsFine ==
  ASSUME NEW w, NEW v, Good(w), RoleReaches(w, v), FullReaches(w, v), Ordered(w, v)
  PROVE  Fine(BareCommit(w), v) /\ Keeps(w, BareCommit(w), {"latched", "sent"})
<1>1. CASE w.sizeCommitPending
  BY <1>1, BareCommits, SameIsKept DEF Fine, SentOK, ShadowReaches
<1>2. CASE ~w.sizeCommitPending
  <2> DEFINE x == BareCommit(w)
  <2>1. x = Commit(w) /\ Good(x) /\ Only(w, x, {"latched", "sent"})
    BY <1>2, BareCommits
  <2>2. SentOK(Commit(w), v) /\ Commit(w).sent = Append(w.sent, CommitRequest(w))
    BY CommitReaches, Commits DEF Good
  <2>3. CommitRequest(w) \in Request /\ CommitRequest(w).op = "commit" /\ w.sent \in Seq(Request)
    BY CommitIsRequest DEF Good, IsWindow, CommitRequest
  <2>4. Adds(w.sent, Append(w.sent, CommitRequest(w)))
    BY <2>3, AddsOne
  <2> QED BY <2>1, <2>2, <2>4 DEF Fine, Keeps
<1> QED BY <1>1, <1>2

LEMMA Decorates ==
  ASSUME NEW w, NEW v, NEW enabled \in BOOLEAN, Fine(w, v)
  PROVE  LET x == SetWindowDecorated(w, enabled)
         IN  Fine(x, v) /\ Keeps(w, x, {"decorated", "fallback", "latched", "sent"})
<1> DEFINE x == SetWindowDecorated(w, enabled)
           F == {"decorated", "fallback", "latched", "sent"}
           a == [w EXCEPT !.decorated = enabled]
           b == IF enabled THEN CreateFallbackDecorations(a) ELSE DestroyFallbackDecorations(a)
           r == [op |-> "mode", ssd |-> enabled]
<1> SUFFICES Fine(x, v) /\ Keeps(w, x, F)
  OBVIOUS
<1>0. DOMAIN w = Fields
  BY DEF Fine, Good, IsWindow
<1>1. \/ x = a
      \/ x = Send(a, r)
      \/ x = BareCommit(b) /\ ~w.monitor
  BY DEF SetWindowDecorated
<1> HIDE DEF x
<1>2. Only(w, a, {"decorated"}) /\ a.decorated \in BOOLEAN /\ a.sent = w.sent
      /\ a.role = w.role /\ a.monitor = w.monitor
      /\ a.shadow = w.shadow /\ a.sizeCommitPending = w.sizeCommitPending
  BY <1>0 DEF Only, Fields
<1> HIDE DEF a
<1>3. Good(a)
  BY <1>2 DEF Fine, Good, Fits, Staged, ShadowFits, Shaded, IsWindow, Only, Fields
<1>4. Fine(a, v) /\ Keeps(w, a, {"decorated"})
  BY <1>2, <1>3, StaysFine, KeepsSame DEF Fine
<1>5. CASE x = a
  BY <1>4, <1>5, KeepsMore
<1>6. CASE x = Send(a, r)
  <2>1. r \in Request /\ r.op = "mode"
    BY DEF Request
  <2> HIDE DEF r, F
  <2>2. Fine(x, v) /\ Keeps(a, x, {"sent"})
    BY <1>4, <1>6, <2>1, SendIsFine
  <2> QED BY <1>4, <2>2, KeepsThen DEF F
<1>7. CASE x = BareCommit(b) /\ ~w.monitor
  <2>1. Only(a, b, {"fallback"})
    BY <1>2 DEF Only, Fields, CreateFallbackDecorations, DestroyFallbackDecorations
  <2> HIDE DEF b, F
  <2>2. b.sent = a.sent /\ b.role = a.role /\ b.monitor = a.monitor
      /\ b.shadow = a.shadow /\ b.sizeCommitPending = a.sizeCommitPending
    BY <2>1 DEF Only, Fields
  <2>3. Good(b)
    BY <1>2, <1>3, <1>7, <2>1 DEF Good, Fits, Staged, ShadowFits, Shaded, IsWindow, Only, Fields
  <2>4. Fine(b, v) /\ Keeps(a, b, {"fallback"})
    BY <1>4, <2>1, <2>2, <2>3, StaysFine, KeepsSame DEF Fine
  <2>5. Fine(x, v) /\ Keeps(b, x, {"latched", "sent"})
    BY <1>7, <2>4, BareCommitIsFine DEF Fine, SentOK
  <2>6. Keeps(w, b, {"decorated", "fallback"})
    BY <1>4, <2>4, KeepsThen
  <2> QED BY <2>5, <2>6, KeepsThen DEF F
<1> QED BY <1>1, <1>5, <1>6, <1>7

LEMMA AddsShadow ==
  ASSUME NEW w, NEW v, Fine(w, v)
  PROVE  LET x == SetWindowShadow(w)
         IN  Fine(x, v) /\ Keeps(w, x, {"requested", "shadow", "latched", "sent"})
<1> DEFINE x == SetWindowShadow(w)
           a == [w EXCEPT !.requested = TRUE]
           b == UpdateWindowShadow(a)
<1>0. DOMAIN w = Fields
  BY DEF Fine, Good, IsWindow
<1>1. x = IF ShadowChanges(a) THEN BareCommit(b) ELSE b
  BY DEF SetWindowShadow
<1>2. Only(w, a, {"requested"}) /\ a.requested \in BOOLEAN /\ a.sent = w.sent
      /\ a.role = w.role /\ a.monitor = w.monitor
      /\ a.shadow = w.shadow /\ a.sizeCommitPending = w.sizeCommitPending
  BY <1>0 DEF Only, Fields
<1> HIDE DEF x, a
<1>3. IsWindow(a) /\ Staged(a)
  BY <1>2 DEF Fine, Good, Fits, Staged, IsWindow, Only, Fields
<1>4. Good(b) /\ Only(a, b, {"shadow"}) /\ (~ShadowChanges(a) => b.shadow = a.shadow)
  BY <1>3, ShadowIsGood, Shadows
<1> HIDE DEF b
<1>5. b.sent = w.sent /\ b.role = w.role /\ b.monitor = w.monitor
      /\ b.sizeCommitPending = w.sizeCommitPending
  BY <1>2, <1>4 DEF Only, Fields
<1>6. Only(w, b, {"requested", "shadow"})
  BY <1>2, <1>4, OnlyThen
<1>7. Keeps(w, b, {"requested", "shadow"})
  BY <1>5, <1>6, KeepsSame
<1>8. CASE ShadowChanges(a)
  <2>1. RoleReaches(b, v) /\ FullReaches(b, v) /\ Ordered(b, v)
    BY <1>5 DEF Fine, SentOK, RoleReaches, FullReaches, Ordered
  <2>2. Fine(x, v) /\ Keeps(b, x, {"latched", "sent"})
    BY <1>1, <1>4, <1>8, <2>1, BareCommitIsFine
  <2>3. Keeps(w, x, {"requested", "shadow", "latched", "sent"})
    BY <1>7, <2>2, KeepsThen
  <2> QED BY <2>2, <2>3 DEF x
<1>9. CASE ~ShadowChanges(a)
  <2>1. x = b /\ b.shadow = w.shadow
    BY <1>1, <1>2, <1>4, <1>9
  <2>2. Fine(b, v)
    BY <1>4, <1>5, <2>1, StaysFine DEF Fine
  <2>3. Keeps(w, b, {"requested", "shadow", "latched", "sent"})
    BY <1>7, KeepsMore
  <2> QED BY <2>1, <2>2, <2>3 DEF x
<1> QED BY <1>8, <1>9

LEMMA Maximizes ==
  ASSUME NEW w, NEW v, Fine(w, v),
         NEW x \in {MaximizeWindow(w), RestoreWindow(w)}
  PROVE  Fine(x, v) /\ Keeps(w, x, {"maximized", "sent"})
<1>0. DOMAIN w = Fields
  BY DEF Fine, Good, IsWindow
<1>1. \/ x = w
      \/ w.role # 0 /\ (x = Send(w, [op |-> "max"]) \/ x = Send(w, [op |-> "unmax"]))
      \/ w.role = 0 /\ (x = [w EXCEPT !.maximized = TRUE] \/ x = [w EXCEPT !.maximized = FALSE])
  BY DEF MaximizeWindow, RestoreWindow
<1>2. CASE x = w
  BY <1>2, SameIsKept DEF Fine
<1>3. ASSUME NEW r \in {[op |-> "max"], [op |-> "unmax"]}, w.role # 0, x = Send(w, r)
      PROVE  Fine(x, v) /\ Keeps(w, x, {"maximized", "sent"})
  <2>1. r \in Request /\ r.op \in {"max", "unmax"}
    BY <1>3 DEF Request, Configuring
  <2>2. Fine(x, v) /\ Keeps(w, x, {"sent"})
    BY <1>3, <2>1, SendIsFine
  <2> QED BY <2>2, KeepsMore
<1>4. ASSUME NEW b \in BOOLEAN, w.role = 0, x = [w EXCEPT !.maximized = b]
      PROVE  Fine(x, v) /\ Keeps(w, x, {"maximized", "sent"})
  <2>1. Only(w, x, {"maximized"}) /\ x.maximized \in BOOLEAN /\ x.sent = w.sent
        /\ x.role = w.role /\ x.monitor = w.monitor
        /\ x.shadow = w.shadow /\ x.sizeCommitPending = w.sizeCommitPending
    BY <1>0, <1>4 DEF Only, Fields
  <2>2. Good(x)
    BY <1>4, <2>1 DEF Fine, Good, Fits, Staged, ShadowFits, Shaded, IsWindow, Only, Fields
  <2>3. Fine(x, v)
    BY <2>1, <2>2, StaysFine DEF Fine
  <2>4. Keeps(w, x, {"maximized"})
    BY <2>1, KeepsSame
  <2> QED BY <2>3, <2>4, KeepsMore
<1> QED BY <1>1, <1>2, <1>3, <1>4

(* The swap commits a buffer of the size that is staged. *)
Painting == {"eglWidth", "resizePending", "buffer", "latched", "sizeCommitPending", "dirty", "sent"}
LEMMA Paints ==
  ASSUME NEW w, NEW v, Fine(w, v)
  PROVE  LET x == [SwapBuffers(MakeContextCurrent(w)) EXCEPT !.dirty = FALSE]
         IN  Fine(x, v) /\ Keeps(w, x, Painting)
<1> DEFINE y == MakeContextCurrent(w)
           z == [y EXCEPT !.buffer = y.eglWidth]
           c == Commit(z)
           u == [z EXCEPT !.sizeCommitPending = FALSE]
           x == [SwapBuffers(y) EXCEPT !.dirty = FALSE]
<1> SUFFICES Fine(x, v) /\ Keeps(w, x, Painting)
  OBVIOUS
<1>0. DOMAIN w = Fields /\ Good(w) /\ IsWindow(w)
  BY DEF Fine, Good, IsWindow
<1>1. SwapBuffers(y) = IF ~y.visible THEN y ELSE [c EXCEPT !.sizeCommitPending = FALSE]
  BY DEF SwapBuffers
<1>2. Only(w, y, {"eglWidth", "resizePending"}) /\ y.eglWidth = w.width
      /\ (y.resizePending => w.resizePending /\ FALSE)
  <2>1. CASE w.resizePending
    BY <1>0, <2>1 DEF MakeContextCurrent, Only, Fields
  <2>2. CASE ~w.resizePending
    <3>1. y = w
      BY <2>2 DEF MakeContextCurrent
    <3>2. w.eglWidth = w.width
      BY <1>0, <2>2 DEF Good, Fits, Staged
    <3> QED BY <1>0, <2>2, <3>1, <3>2, OnlySelf
  <2> QED BY <2>1, <2>2
<1>3. x = IF ~y.visible THEN [y EXCEPT !.dirty = FALSE]
          ELSE [[c EXCEPT !.sizeCommitPending = FALSE] EXCEPT !.dirty = FALSE]
  BY <1>1
<1> HIDE DEF y, x
<1>4. CASE ~y.visible
  <2>1. Only(y, x, {"dirty"}) /\ x.visible = y.visible
    BY <1>2, <1>3, <1>4 DEF Only, Fields
  <2>2. Only(w, x, {"eglWidth", "resizePending", "dirty"})
    BY <1>2, <2>1, OnlyThen
  <2>3. x.eglWidth = w.width /\ ~x.visible /\ x.sent = w.sent /\ x.role = w.role
        /\ x.monitor = w.monitor
        /\ x.shadow = w.shadow /\ x.sizeCommitPending = w.sizeCommitPending
    BY <1>2, <1>4, <2>1, <2>2 DEF Only, Fields
  <2>4. Good(x)
    BY <1>0, <2>2, <2>3 DEF Good, Fits, Staged, ShadowFits, Shaded, IsWindow, Only, Fields
  <2>5. Keeps(w, x, {"eglWidth", "resizePending", "dirty"})
    BY <2>2, <2>3, KeepsSame
  <2> QED BY <2>3, <2>4, <2>5, StaysFine, KeepsMore DEF Fine, Painting
<1>5. CASE y.visible
  <2>1. Only(y, z, {"buffer"}) /\ z.buffer = y.eglWidth
    BY <1>2 DEF Only, Fields
  <2> HIDE DEF z
  <2>2. Only(z, u, {"sizeCommitPending"}) /\ u.sizeCommitPending = FALSE
    BY <2>1 DEF Only, Fields
  <2> HIDE DEF u
  <2>3. Only(w, z, {"eglWidth", "resizePending", "buffer"})
    BY <1>2, <2>1, OnlyThen
  <2>4. Only(w, u, {"eglWidth", "resizePending", "buffer", "sizeCommitPending"})
    BY <2>2, <2>3, OnlyThen
  <2>5. z.eglWidth = w.width /\ z.buffer = w.width /\ u.eglWidth = w.width /\ u.buffer = w.width
    BY <1>2, <2>1, <2>2 DEF Only, Fields
  <2>6. IsWindow(z) /\ IsWindow(u)
    <3>1. w.width \in Lengths /\ w.width \in Nat
      BY <1>0 DEF IsWindow, Lengths
    <3> QED BY <1>0, <2>3, <2>4, <2>5, <3>1 DEF IsWindow, Only, Fields
  <2>7. Only(z, c, {"latched", "sent"}) /\ c.latched = z.width
        /\ c.sent = Append(z.sent, CommitRequest(z))
    BY <2>6, Commits
  <2>8. CommitRequest(u) = CommitRequest(z) /\ u.sent = z.sent
    BY <2>2 DEF CommitRequest, Only, Fields
  <2>9. SentOK(Commit(u), v)
    <3>1. u.sent = w.sent /\ u.role = w.role /\ u.monitor = w.monitor
      BY <2>4 DEF Only, Fields
    <3>2. RoleReaches(u, v) /\ FullReaches(u, v) /\ Ordered(u, v)
      BY <3>1 DEF Fine, SentOK, RoleReaches, FullReaches, Ordered
    <3> QED BY <2>6, <3>2, CommitReaches
  <2>10. Only(u, Commit(u), {"latched", "sent"}) /\ Commit(u).sent = Append(u.sent, CommitRequest(u))
    BY <2>6, Commits
  <2> HIDE DEF c
  <2>11. Only(c, x, {"sizeCommitPending", "dirty"}) /\ x.sizeCommitPending = FALSE
    BY <1>3, <1>5, <2>7 DEF Only, Fields
  <2>12. Only(w, c, {"eglWidth", "resizePending", "buffer", "latched", "sent"})
    BY <2>3, <2>7, OnlyThen
  <2>13. Only(w, x, Painting)
    <3>1. Only(c, x, {"sizeCommitPending", "dirty"})
      BY <2>11
    <3> QED BY <2>12, <3>1, OnlyThen DEF Painting
  <2>14. /\ x.sent = Commit(u).sent /\ x.role = Commit(u).role /\ x.monitor = Commit(u).monitor
         /\ x.shadow = Commit(u).shadow /\ x.sizeCommitPending = Commit(u).sizeCommitPending
    <3>1. x.sent = Commit(u).sent
      BY <2>7, <2>8, <2>10, <2>11 DEF Only, Fields
    <3>2. x.sizeCommitPending = Commit(u).sizeCommitPending
      BY <2>2, <2>10, <2>11 DEF Only, Fields
    <3>3. x.role = w.role /\ x.monitor = w.monitor /\ x.shadow = w.shadow
      BY <2>13 DEF Only, Fields, Painting
    <3>4. u.role = w.role /\ u.monitor = w.monitor /\ u.shadow = w.shadow
      BY <2>4 DEF Only, Fields
    <3>5. Commit(u).role = u.role /\ Commit(u).monitor = u.monitor /\ Commit(u).shadow = u.shadow
      BY <2>10 DEF Only, Fields
    <3> QED BY <3>1, <3>2, <3>3, <3>4, <3>5
  <2>15. SentOK(x, v)
    BY <2>9, <2>14, SilenceReaches
  <2>16. x.latched = w.width /\ x.buffer = w.width /\ x.eglWidth = w.width
    <3>1. z.width = w.width
      BY <2>3 DEF Only, Fields
    <3> QED BY <2>5, <2>7, <2>11, <3>1 DEF Only, Fields
  <2>17. CommitRequest(z) \in Request /\ CommitRequest(z).op = "commit" /\ z.sent = w.sent
         /\ w.sent \in Seq(Request)
    BY <1>0, <2>3, <2>6, CommitIsRequest DEF IsWindow, CommitRequest, Only, Fields
  <2>18. x.sent = Append(w.sent, CommitRequest(z))
    BY <2>8, <2>10, <2>14, <2>17
  <2>19. Adds(w.sent, x.sent) /\ x.sent \in Seq(Request)
    BY <2>17, <2>18, AddsOne, AppendFacts
  <2>20. IsWindow(x)
    <3>1. w.width \in Lengths /\ w.width \in Nat
      BY <1>0 DEF IsWindow, Lengths
    <3>2. x.sent \in Seq(Request)
      BY <2>19
    <3>3. x.latched \in Lengths /\ x.buffer \in Nat /\ x.eglWidth \in Lengths
      BY <2>16, <3>1
    <3> QED BY <1>0, <2>13, <3>2, <3>3 DEF IsWindow, Only, Fields, Painting
  <2>21. Fits(x)
    <3>1. Fits(w) /\ w.visible
      BY <1>0, <1>2, <1>5 DEF Good, Only, Fields
    <3>2. ~x.sizeCommitPending
      BY <2>11
    <3>3. w.role # 0
      BY <3>1 DEF Fits, Staged
    <3> QED BY <2>13, <2>16, <3>1, <3>2, <3>3
         DEF Fits, Staged, ShadowFits, Shaded, Only, Fields, Painting
  <2> QED BY <2>13, <2>15, <2>19, <2>20, <2>21 DEF Fine, Good, Keeps
<1> QED BY <1>4, <1>5

-----------------------------------------------------------------------------
(* The handlers of events. *)
LEMMA HandlesDecoration ==
  ASSUME NEW w, NEW v, NEW mode, Fine(w, v)
  PROVE  LET x == XdgDecorationHandleConfigure(w, mode)
         IN  Fine(x, v) /\ Keeps(w, x, {"mode", "fallback"}) /\ x.mode = mode
<1> DEFINE x == XdgDecorationHandleConfigure(w, mode)
           a == [w EXCEPT !.mode = mode]
<1>0. DOMAIN w = Fields
  BY DEF Fine, Good, IsWindow
<1>1. \/ x = [a EXCEPT !.fallback = FALSE]
      \/ x = [a EXCEPT !.fallback = TRUE] /\ ~w.monitor
      \/ x = a
  BY DEF XdgDecorationHandleConfigure, CreateFallbackDecorations, DestroyFallbackDecorations
<1>2. Only(w, a, {"mode"}) /\ a.mode = mode
  BY <1>0 DEF Only, Fields
<1> HIDE DEF x, a
<1>3. Only(a, x, {"fallback"}) /\ (w.monitor => x.fallback = FALSE \/ x.fallback = a.fallback)
  BY <1>1, <1>2 DEF Only, Fields
<1>4. /\ x.sent = w.sent /\ x.role = w.role /\ x.monitor = w.monitor
      /\ x.shadow = w.shadow /\ x.sizeCommitPending = w.sizeCommitPending
      /\ (w.monitor => x.fallback = FALSE \/ x.fallback = w.fallback) /\ x.mode = mode
  BY <1>2, <1>3 DEF Only, Fields
<1>5. Only(w, x, {"mode", "fallback"})
  BY <1>2, <1>3, OnlyThen
<1>6. Good(x)
  BY <1>4, <1>5 DEF Fine, Good, Fits, Staged, ShadowFits, Shaded, IsWindow, Only, Fields
<1> QED BY <1>4, <1>5, <1>6, StaysFine, KeepsSame DEF Fine, x

LEMMA HandlesDone ==
  ASSUME NEW w, NEW v, Fine(w, v)
  PROVE  LET x == RestoreSyncHandleDone(w)
         IN  Fine(x, v) /\ Keeps(w, x, {"sync", "restore"}) /\ x.sync = 0
<1> DEFINE x == RestoreSyncHandleDone(w)
<1>0. DOMAIN w = Fields /\ w.restore \in Sizes \cup {0}
  BY DEF Fine, Good, IsWindow
<1>1. /\ Only(w, x, {"sync", "restore"}) /\ x.sync = 0 /\ x.restore \in Sizes \cup {0}
      /\ (x.restore # 0 => w.fullscreen)
  BY <1>0 DEF RestoreSyncHandleDone, Only, Fields
<1> HIDE DEF x
<1>2. 0 \in Ids
  BY SizeAssumption DEF SizeAssumption, Ids
<1>3. Good(x)
  BY <1>1, <1>2 DEF Fine, Good, Fits, Staged, ShadowFits, Shaded, IsWindow, Only, Fields
<1>4. /\ x.sent = w.sent /\ x.role = w.role /\ x.monitor = w.monitor
      /\ x.shadow = w.shadow /\ x.sizeCommitPending = w.sizeCommitPending
  BY <1>1 DEF Only, Fields
<1> QED BY <1>1, <1>3, <1>4, StaysFine, KeepsSame DEF Fine, x

LEMMA HandlesRoundtrip ==
  ASSUME NEW w, NEW v, Fine(w, v)
  PROVE  LET x == [w EXCEPT !.blocked = FALSE]
         IN  Fine(x, v) /\ Keeps(w, x, {"blocked"})
<1> DEFINE x == [w EXCEPT !.blocked = FALSE]
<1>1. Only(w, x, {"blocked"}) /\ x.limits = w.limits /\ x.dirty = w.dirty
  BY DEF Fine, Good, IsWindow, Only, Fields
<1> HIDE DEF x
<1> QED BY <1>1, ElsewhereIsFine DEF Fine, Good, IsWindow, x

(* A configure is applied, with its shadow, and may show the window. *)
Decided(w) == kind.manager = "none" \/ w.mode # "unset"
Configuration == Sizing \cup {"pending", "maximized", "fullscreen", "told", "visible", "latched", "sent"}
LEMMA HandlesConfigure ==
  ASSUME NEW w, NEW v, NEW e, Fine(w, v), Told(w), w.role # 0,
         e.full \in BOOLEAN, e.max \in BOOLEAN, e.width \in Nat
  PROVE  LET x == XdgSurfaceHandleConfigure(XdgToplevelHandleConfigure(w, e))
         IN  /\ Fine(x, v) /\ Told(x) /\ Keeps(w, x, Configuration) /\ x.fullscreen = e.full
             /\ w.visible \/ Decided(w) => x.visible
<1> DEFINE a == XdgToplevelHandleConfigure(w, e)
           restoring == ~a.pending.full /\ ~a.pending.max /\ a.restore > 0
           b == [a EXCEPT !.maximized = a.pending.max, !.fullscreen = a.pending.full,
                          !.restore = IF ~a.pending.full /\ a.sync = 0 THEN 0 ELSE @]
           c == ResizeWindow(b, a.pending.width)
           d == IF restoring /\ ~kind.resizable THEN UpdateXdgSizeLimits(c) ELSE c
           f == UpdateWindowShadow(d)
           h == IF a.visible THEN Damage(d) ELSE d
           told == IF c.width # a.width THEN TellSize(h)
                   ELSE IF ShadowChanges(d) THEN BareCommit(f) ELSE f
           x == XdgSurfaceHandleConfigure(a)
           Q == /\ Fine(x, v) /\ Told(x) /\ Keeps(w, x, Configuration) /\ x.fullscreen = e.full
                /\ w.visible \/ Decided(w) => x.visible
<1> SUFFICES Q
  OBVIOUS
<1>0. IsWindow(w) /\ Staged(w) /\ DOMAIN w = Fields /\ w.restore \in Nat
  BY SizesAreLengths DEF Fine, Good, Fits, IsWindow
<1>1. x = IF ~told.visible /\ (kind.manager = "none" \/ told.mode # "unset")
          THEN Damage([told EXCEPT !.visible = TRUE]) ELSE told
  BY DEF XdgSurfaceHandleConfigure
<1>2. /\ Only(w, a, {"pending"}) /\ a.pending.full = e.full /\ a.pending.max = e.max
      /\ a.pending.width \in Nat
  <2>1. PendingSize(w, e) \in Nat
    <3>1. w.width \in Nat /\ Border \in Nat
      BY <1>0, SizeAssumption DEF IsWindow, Lengths, SizeAssumption
    <3>2. Less(e.width, Border) \in Nat
      BY <3>1 DEF Less
    <3> QED BY <1>0, <3>1, <3>2 DEF PendingSize
  <2> QED BY <1>0, <2>1 DEF XdgToplevelHandleConfigure, Only, Fields
<1> HIDE DEF a, x
<1>3. /\ Only(a, b, {"maximized", "fullscreen", "restore"})
      /\ b.fullscreen = e.full /\ b.maximized = e.max /\ b.restore \in Sizes \cup {0}
      /\ b.restore # 0 /\ b.sync = 0 => b.fullscreen
  <2>1. DOMAIN a = Fields /\ a.restore = w.restore /\ a.sync = w.sync
    BY <1>2 DEF Only, Fields
  <2> QED BY <1>0, <1>2, <2>1 DEF Only, Fields, IsWindow
<1> HIDE DEF b
<1>4. Only(w, b, {"pending", "maximized", "fullscreen", "restore"})
  BY <1>2, <1>3, OnlyThen
<1>5. IsWindow(b) /\ Staged(b)
  <2>1. b.fullscreen \in BOOLEAN /\ b.maximized \in BOOLEAN /\ b.restore \in Sizes \cup {0}
    BY <1>3
  <2>2. IsWindow(b)
    BY <1>0, <1>4, <2>1 DEF IsWindow, Only, Fields
  <2>3. b.restore # 0 /\ b.sync = 0 => b.fullscreen
    BY <1>3
  <2>4. Staged(b)
    BY <1>0, <1>4, <2>3 DEF Staged, Only, Fields
  <2> QED BY <2>2, <2>4
<1>6. /\ b.sent = w.sent /\ b.role = w.role /\ b.monitor = w.monitor /\ b.width = w.width
      /\ b.shadow = w.shadow /\ b.sizeCommitPending = w.sizeCommitPending /\ b.told = w.told
      /\ b.visible = w.visible /\ a.width = w.width
  <2>1. a.width = w.width
    BY <1>2 DEF Only, Fields
  <2>2. Only(w, b, {"pending", "maximized", "fullscreen", "restore"})
    BY <1>4
  <2> QED BY <2>1, <2>2 DEF Only, Fields
<1>7. SentOK(b, v)
  <2>1. SentOK(w, v)
    BY DEF Fine
  <2>2. b.sent = w.sent /\ b.role = w.role /\ b.monitor = w.monitor
    BY <1>6
  <2>3. b.shadow = w.shadow /\ b.sizeCommitPending = w.sizeCommitPending
    BY <1>6
  <2> QED BY <2>1, <2>2, <2>3, SilenceReaches
<1>8. /\ Keeps(b, c, Resizing) /\ c.sent = b.sent
      /\ c.width = b.width => c = b
      /\ c.width # b.width => Fine(c, v) /\ c.shadow = Shaded(c)
  <2>1. a.pending.width \in Nat /\ b.role # 0
    BY <1>2, <1>6
  <2>2. /\ Keeps(b, c, Resizing) /\ c.sent = b.sent
        /\ c.width = b.width => c = b
        /\ c.width # b.width => Fine(c, v) /\ (b.role # 0 => c.shadow = Shaded(c))
    BY <1>5, <1>7, <2>1, Resizes
  <2> QED BY <2>1, <2>2
<1> HIDE DEF c
<1>9. c.role = w.role /\ c.told = w.told /\ c.fullscreen = e.full
  BY <1>3, <1>6, <1>8 DEF Keeps, Only, Fields, Resizing
<1> DEFINE P(y) == /\ Fine(y, v) /\ Told(y) /\ Keeps(c, y, {"limits", "dirty", "told", "shadow", "latched", "sent"})
                   /\ y.shadow = Shaded(y)
<1>10. ASSUME c.width # w.width PROVE P(told)
  <2>1. told = TellSize(h) /\ Fine(c, v) /\ c.shadow = Shaded(c)
    BY <1>6, <1>8, <1>10
  <2>2. Fine(d, v) /\ Keeps(c, d, {"limits"})
    BY <2>1, Limits, SameIsKept DEF Fine
  <2> HIDE DEF d, told
  <2>3. Fine(h, v) /\ Keeps(d, h, {"dirty"})
    BY <2>2, Damages, SameIsKept DEF Fine
  <2> HIDE DEF h
  <2>4. Fine(told, v) /\ Keeps(h, told, {"told"}) /\ Told(told)
    BY <2>1, <2>3, Tells DEF Fine
  <2>5. Keeps(c, h, {"limits", "dirty"})
    BY <2>2, <2>3, KeepsThen
  <2>6. Keeps(c, told, {"limits", "dirty", "told"})
    BY <2>4, <2>5, KeepsThen
  <2>7. told.shadow = Shaded(told)
    BY <2>1, <2>6 DEF Shaded, Keeps, Only, Fields
  <2>8. Keeps(c, told, {"limits", "dirty", "told", "shadow", "latched", "sent"})
    BY <2>6, KeepsMore
  <2> QED BY <2>4, <2>7, <2>8
<1>11. ASSUME c.width = w.width PROVE P(told)
  <2>1. c = b /\ told = IF ShadowChanges(d) THEN BareCommit(f) ELSE f
    BY <1>6, <1>8, <1>11
  <2>2. Only(b, d, {"limits"}) /\ d.limits \in Nat
    BY <1>5, <2>1 DEF UpdateXdgSizeLimits, Only, Fields, IsWindow, Lengths
  <2> HIDE DEF d, told
  <2>3. IsWindow(d) /\ Staged(d)
    BY <1>5, <2>2 DEF IsWindow, Staged, Only, Fields
  <2>4. Good(f) /\ Only(d, f, {"shadow"}) /\ (~ShadowChanges(d) => f.shadow = d.shadow)
        /\ f.shadow = ShadowFor(d)
    BY <2>3, ShadowIsGood, Shadows
  <2> HIDE DEF f
  <2>5. Only(b, f, {"limits", "shadow"})
    BY <2>2, <2>4, OnlyThen
  <2>6. f.sent = b.sent /\ f.role = b.role /\ f.monitor = b.monitor
        /\ f.sizeCommitPending = b.sizeCommitPending /\ d.shadow = b.shadow /\ d.role = b.role
        /\ f.told = b.told /\ f.width = b.width
    BY <2>2, <2>5 DEF Only, Fields
  <2>7. Keeps(b, f, {"limits", "shadow"})
    BY <2>5, <2>6, KeepsSame
  <2>8. f.shadow = Shaded(f)
    BY <1>6, <2>4, <2>6 DEF ShadowFor, Shaded, Only, Fields
  <2>9. Fine(told, v) /\ Keeps(f, told, {"latched", "sent"})
    <3>1. CASE ShadowChanges(d)
      <4>1. RoleReaches(f, v) /\ FullReaches(f, v) /\ Ordered(f, v)
        BY <1>7, <2>6 DEF SentOK, RoleReaches, FullReaches, Ordered
      <4> QED BY <2>1, <2>4, <3>1, <4>1, BareCommitIsFine
    <3>2. CASE ~ShadowChanges(d)
      <4>1. told = f /\ f.shadow = b.shadow
        BY <2>1, <2>4, <2>6, <3>2
      <4> QED BY <1>7, <2>4, <2>6, <4>1, StaysFine, SameIsKept
    <3> QED BY <3>1, <3>2
  <2>10. Keeps(c, told, {"limits", "shadow", "latched", "sent"})
    BY <2>1, <2>7, <2>9, KeepsThen
  <2>11. told.shadow = Shaded(told)
    BY <2>8, <2>9 DEF Shaded, Keeps, Only, Fields
  <2>12. Told(told)
    <3>1. told.told = f.told /\ told.width = f.width
      BY <2>9 DEF Keeps, Only, Fields
    <3> QED BY <1>6, <2>6, <3>1 DEF Told
  <2>13. Keeps(c, told, {"limits", "dirty", "told", "shadow", "latched", "sent"})
    BY <2>10, KeepsMore
  <2> QED BY <2>9, <2>11, <2>12, <2>13
<1>12. P(told)
  BY <1>10, <1>11
<1> HIDE DEF told
<1>13. Keeps(w, told, Configuration \ {"visible"})
  <2>1. Keeps(w, b, {"pending", "maximized", "fullscreen", "restore"})
    BY <1>4, <1>6, KeepsSame
  <2>2. Keeps(w, c, Resizing \cup {"pending", "maximized", "fullscreen", "restore"})
    BY <1>8, <2>1, KeepsThen
  <2> QED BY <1>12, <2>2, KeepsThen DEF Configuration, Sizing, Resizing
<1>14. /\ told.role = w.role /\ told.visible = w.visible /\ told.mode = w.mode
       /\ told.fullscreen = e.full /\ told.monitor = w.monitor
  <2>1. told.fullscreen = c.fullscreen
    BY <1>12 DEF Keeps, Only, Fields
  <2>2. told.role = w.role /\ told.visible = w.visible /\ told.mode = w.mode /\ told.monitor = w.monitor
    BY <1>13 DEF Keeps, Only, Fields, Configuration, Sizing, Resizing
  <2> QED BY <1>9, <2>1, <2>2
<1>15. CASE x = told /\ (told.visible \/ ~Decided(w))
  <2>1. Keeps(w, told, Configuration)
    BY <1>13, KeepsMore
  <2> QED BY <1>12, <1>14, <1>15, <2>1
<1>16. CASE x = Damage([told EXCEPT !.visible = TRUE])
  <2>1. x = [[told EXCEPT !.visible = TRUE] EXCEPT !.dirty = TRUE]
    BY <1>16 DEF Damage
  <2>2. Only(told, x, {"visible", "dirty"}) /\ x.visible = TRUE /\ x.dirty = TRUE
    BY <1>12, <2>1 DEF Only, Fields, Keeps
  <2>3. /\ x.sent = told.sent /\ x.role = told.role /\ x.monitor = told.monitor
        /\ x.shadow = told.shadow /\ x.sizeCommitPending = told.sizeCommitPending
        /\ x.told = told.told /\ x.width = told.width /\ x.fullscreen = told.fullscreen
    BY <2>2 DEF Only, Fields
  <2>4. Good(x)
    <3>1. Good(told) /\ told.role # 0 /\ told.shadow = Shaded(told)
      BY <1>12, <1>14 DEF Fine
    <3>2. IsWindow(x)
      BY <2>2, <3>1 DEF Good, IsWindow, Only, Fields
    <3>3. Staged(x)
      BY <2>2, <3>1 DEF Good, Fits, Staged, Only, Fields
    <3>4. ShadowFits(x)
      BY <2>2, <3>1 DEF ShadowFits, Shaded, Only, Fields
    <3> QED BY <3>2, <3>3, <3>4 DEF Good, Fits
  <2>5. Fine(x, v) /\ Told(x)
    BY <1>12, <2>3, <2>4, StaysFine DEF Fine, Told
  <2>6. Keeps(told, x, {"visible", "dirty"})
    BY <2>2, <2>3, KeepsSame
  <2>7. Keeps(w, x, Configuration)
    BY <1>13, <2>6, KeepsThen DEF Configuration, Sizing, Resizing
  <2> QED BY <1>14, <2>2, <2>3, <2>5, <2>7
<1> QED BY <1>1, <1>14, <1>15, <1>16 DEF Decided

-----------------------------------------------------------------------------
(* The compositor's view, and the events on their way.                     *)
Event ==
  [type : {"configure"}, role : Ids \ {0}, full : BOOLEAN, max : BOOLEAN, width : Nat,
   own : BOOLEAN]
    \cup [type : {"decoration"}, role : Ids, mode : {"client", "server"}]
    \cup [type : {"done"}, id : Ids]
    \cup [type : {"roundtrip"}]

Views == {"role", "full", "max", "float", "rect", "limit", "shadow", "owes", "torn"}
IsView(v) ==
  /\ DOMAIN v = Views /\ v.role \in Ids
  /\ v.full \in BOOLEAN /\ v.max \in BOOLEAN
  /\ v.float \in Nat /\ v.rect \in Nat /\ v.limit \in Nat

Configures(role) == {e \in Event : e.type = "configure" /\ e.role = role}
Sets(role, full) == {e \in Configures(role) : e.full = full}
Decorations(role) == {e \in Event : e.type = "decoration" /\ e.role = role}

(* A configure that will show the window: its mode is decided when it comes. *)
Shows(es, role, decided) ==
  \E i \in DOMAIN es : /\ es[i] \in Configures(role)
                       /\ decided \/ \E h \in 1 .. (i - 1) : es[h] \in Decorations(role)

(* What the window waits for is on its way: the state it asked for, the    *)
(* end of its roundtrip, the answer to its sync, its first configure.      *)
StateComes(w, v, es) ==
  w.role # 0 /\ v.role = w.role =>
     v.owes \/ Ends(es, w.fullscreen, v.full, Sets(w.role, v.full), Configures(w.role))
RoundtripComes(w, es) ==
  w.blocked => \/ \E r \in Elems(w.sent) : r.op = "roundtrip"
               \/ \E e \in Elems(es) : e.type = "roundtrip"
DoneComes(w, es) ==
  w.sync # 0 => \/ \E r \in Elems(w.sent) : r.op = "sync" /\ r.id = w.sync
                \/ \E e \in Elems(es) : e.type = "done" /\ e.id = w.sync
ConfigureComes(w, v, es) ==
  w.role # 0 /\ ~w.visible =>
     \/ \E r \in Elems(w.sent) : r.op = "role" /\ r.id = w.role
     \/ /\ v.role = w.role /\ v.owes
        /\ Decided(w) \/ \E e \in Elems(es) : e \in Decorations(w.role)
     \/ Shows(es, w.role, Decided(w))
Answered(w, v, es) ==
  StateComes(w, v, es) /\ RoundtripComes(w, es) /\ DoneComes(w, es) /\ ConfigureComes(w, v, es)

(* A call of the application that adds to its requests. *)
LEMMA AnswersKept ==
  ASSUME NEW w, NEW x, NEW v, NEW es, Answered(w, v, es), Elems(w.sent) \subseteq Elems(x.sent),
         x.role = w.role \/ x.role = 0,
         x.fullscreen = w.fullscreen, x.mode = w.mode \/ x.role = 0,
         w.visible => x.visible \/ x.role = 0,
         x.blocked => w.blocked,
         x.sync = w.sync \/ [op |-> "sync", id |-> x.sync] \in Elems(x.sent)
  PROVE  Answered(x, v, es)
<1>1. StateComes(x, v, es)
  BY DEF Answered, StateComes
<1>2. RoundtripComes(x, es)
  BY DEF Answered, RoundtripComes
<1>3. DoneComes(x, es)
  <2>1. CASE x.sync = w.sync
    BY <2>1 DEF Answered, DoneComes
  <2>2. CASE [op |-> "sync", id |-> x.sync] \in Elems(x.sent)
    <3>1. PICK r \in Elems(x.sent) : r = [op |-> "sync", id |-> x.sync]
      BY <2>2
    <3>2. r.op = "sync" /\ r.id = x.sync
      BY <3>1
    <3> QED BY <3>2 DEF DoneComes
  <2> QED BY <2>1, <2>2
<1>4. ConfigureComes(x, v, es)
  BY DEF Answered, ConfigureComes, Decided
<1> QED BY <1>1, <1>2, <1>3, <1>4 DEF Answered

LEMMA ShowsTail ==
  ASSUME NEW es \in Seq(Event), es # <<>>, NEW role, NEW d \in BOOLEAN, Shows(es, role, d)
  PROVE  \/ Head(es) \in Configures(role) /\ d
         \/ Shows(Tail(es), role, d \/ Head(es) \in Decorations(role))
<1> DEFINE t == Tail(es)
<1>1. /\ Head(es) = es[1] /\ Len(es) \in Nat \ {0}
      /\ DOMAIN es = 1 .. Len(es) /\ DOMAIN t = 1 .. (Len(es) - 1)
      /\ \A i \in 1 .. (Len(es) - 1) : t[i] = es[i + 1]
  BY TailFacts
<1> HIDE DEF t
<1>2. PICK i \in 1 .. Len(es) :
        /\ es[i] \in Configures(role)
        /\ d \/ \E h \in 1 .. (i - 1) : es[h] \in Decorations(role)
  BY <1>1 DEF Shows
<1>3. CASE i = 1
  BY <1>1, <1>2, <1>3
<1>4. CASE i # 1
  <2>1. i - 1 \in DOMAIN t /\ t[i - 1] \in Configures(role)
    BY <1>1, <1>2, <1>4
  <2>2. CASE d
    BY <2>1, <2>2 DEF Shows, t
  <2>3. ASSUME NEW h \in 1 .. (i - 1), es[h] \in Decorations(role)
        PROVE  Shows(t, role, d \/ Head(es) \in Decorations(role))
    <3>1. CASE h = 1
      BY <1>1, <2>1, <2>3, <3>1 DEF Shows
    <3>2. CASE h # 1
      <4>1. h - 1 \in 1 .. (i - 1 - 1) /\ t[h - 1] = es[h]
        BY <1>1, <3>2
      <4> QED BY <2>1, <2>3, <4>1 DEF Shows
    <3> QED BY <3>1, <3>2
  <2> QED BY <1>2, <2>2, <2>3 DEF t
<1> QED BY <1>3, <1>4

(* An event is handled: x has done what the event at the head asked for. *)
LEMMA AnswersTail ==
  ASSUME NEW w, NEW x, NEW v, NEW es \in Seq(Event), es # <<>>, Answered(w, v, es),
         Elems(w.sent) \subseteq Elems(x.sent), x.role = w.role,
         Head(es) \in Configures(w.role) => x.fullscreen = Head(es).full,
         Head(es) \notin Configures(w.role) => x.fullscreen = w.fullscreen,
         w.visible \/ (Head(es) \in Configures(w.role) /\ Decided(w)) => x.visible,
         Decided(w) \/ Head(es) \in Decorations(w.role) => Decided(x),
         x.blocked => w.blocked /\ Head(es).type # "roundtrip",
         x.sync # 0 => x.sync = w.sync /\ ~(Head(es).type = "done" /\ Head(es).id = w.sync)
  PROVE  Answered(x, v, Tail(es))
<1>0. Elems(es) = {Head(es)} \cup Elems(Tail(es))
  BY ElemsTail
<1>1. StateComes(x, v, Tail(es))
  <2> SUFFICES ASSUME w.role # 0, v.role = w.role, ~v.owes
               PROVE  Ends(Tail(es), x.fullscreen, v.full, Sets(w.role, v.full), Configures(w.role))
    BY DEF StateComes
  <2>1. Ends(es, w.fullscreen, v.full, Sets(w.role, v.full), Configures(w.role))
    BY DEF Answered, StateComes
  <2>2. Head(es) \in Sets(w.role, v.full) => x.fullscreen = v.full
    BY DEF Sets
  <2> QED BY <2>1, <2>2, EndsTail
<1>2. RoundtripComes(x, Tail(es))
  BY <1>0 DEF Answered, RoundtripComes
<1>3. DoneComes(x, Tail(es))
  BY <1>0 DEF Answered, DoneComes
<1>4. ConfigureComes(x, v, Tail(es))
  <2> SUFFICES ASSUME w.role # 0, ~x.visible PROVE ConfigureComes(x, v, Tail(es))
    BY DEF ConfigureComes
  <2>1. ~w.visible
    OBVIOUS
  <2>2. CASE \E r \in Elems(w.sent) : r.op = "role" /\ r.id = w.role
    BY <2>2 DEF ConfigureComes
  <2>3. CASE /\ v.role = w.role /\ v.owes
             /\ Decided(w) \/ \E e \in Elems(es) : e \in Decorations(w.role)
    <3>1. Decided(x) \/ \E e \in Elems(Tail(es)) : e \in Decorations(x.role)
      BY <1>0, <2>3
    <3> QED BY <2>3, <3>1 DEF ConfigureComes
  <2>4. CASE Shows(es, w.role, Decided(w))
    <3>1. Decided(w) \in BOOLEAN
      BY DEF Decided
    <3>2. Shows(Tail(es), w.role, Decided(w) \/ Head(es) \in Decorations(w.role))
      BY <2>4, <3>1, ShowsTail
    <3>3. Shows(Tail(es), x.role, Decided(x))
      BY <3>2 DEF Shows
    <3> QED BY <3>3 DEF ConfigureComes
  <2> QED BY <2>1, <2>2, <2>3, <2>4 DEF Answered, ConfigureComes
<1> QED BY <1>1, <1>2, <1>3, <1>4 DEF Answered

-----------------------------------------------------------------------------
(* The compositor receives a request.                                      *)
Receipt(v, r, x) ==
  /\ IsView(x)
  /\ r.op = "role" => x.role = r.id /\ x.full = r.full
  /\ r.op = "destroyRole" => x.role = 0 /\ x.owes = FALSE
  /\ r.op \notin {"role", "destroyRole"} => x.role = v.role
  /\ r.op = "full" => x.full = TRUE
  /\ r.op = "unfull" => x.full = FALSE
  /\ r.op \notin {"role", "full", "unfull"} => x.full = v.full
  /\ r.op = "commit" => x.shadow = r.shadow
  /\ r.op \notin {"commit", "destroyShadow"} => x.shadow = v.shadow
  /\ r.op # "destroyRole" => x.owes = v.owes
  /\ r.op # "destroyShadow" \/ v.role = 0 => (x.torn <=> v.torn)

LEMMA Receives ==
  ASSUME NEW v, IsView(v), NEW r \in Request
  PROVE  Receipt(v, r, Received(v, r))
<1> USE DEF Receipt
<1> DEFINE x == Received(v, r)
<1> SUFFICES Receipt(v, r, x)
  OBVIOUS
<1>1. CASE r.op = "role"
  <2>1. x = [v EXCEPT !.role = r.id, !.full = r.full, !.max = r.max, !.float = 0,
                      !.rect = 0, !.limit = 0]
    BY <1>1 DEF Received
  <2>2. r.id \in Ids /\ r.full \in BOOLEAN /\ r.max \in BOOLEAN
    BY <1>1 DEF Request, Configuring
  <2> HIDE DEF x
  <2> QED BY <1>1, <2>1, <2>2 DEF IsView, Views
<1>2. CASE r.op \in {"full", "max"}
  <2> DEFINE u == Unfloat(v)
  <2>1. IsView(u) /\ u.role = v.role /\ u.full = v.full /\ u.shadow = v.shadow
        /\ u.owes = v.owes /\ u.torn = v.torn
    BY DEF Unfloat, IsView, Views
  <2>2. x = IF r.op = "full" THEN [u EXCEPT !.full = TRUE] ELSE [u EXCEPT !.max = TRUE]
    BY <1>2 DEF Received
  <2> HIDE DEF x, u
  <2> QED BY <1>2, <2>1, <2>2 DEF IsView, Views
<1>3. CASE r.op \in {"unfull", "unmax"}
  <2>1. x = IF r.op = "unfull" THEN [v EXCEPT !.full = FALSE] ELSE [v EXCEPT !.max = FALSE]
    BY <1>3 DEF Received
  <2> HIDE DEF x
  <2> QED BY <1>3, <2>1 DEF IsView, Views
<1>4. CASE r.op = "commit"
  <2>1. x = [v EXCEPT !.shadow = r.shadow, !.limit = r.limit,
                      !.rect = IF r.mapped THEN r.outer ELSE @,
                      !.float = IF r.mapped /\ Floating(v) THEN r.outer ELSE @]
    BY <1>4 DEF Received
  <2>2. r.limit \in Nat /\ r.outer \in Nat
    BY <1>4 DEF Request, Configuring
  <2> HIDE DEF x
  <2> QED BY <1>4, <2>1, <2>2 DEF IsView, Views
<1>5. CASE r.op = "destroyRole"
  <2>1. x = [v EXCEPT !.role = 0, !.owes = FALSE]
    BY <1>5 DEF Received
  <2>2. 0 \in Ids
    BY SizeAssumption DEF SizeAssumption, Ids
  <2> HIDE DEF x
  <2> QED BY <1>5, <2>1, <2>2 DEF IsView, Views
<1>6. CASE r.op = "destroyShadow"
  <2>1. x = [v EXCEPT !.torn = @ \/ (v.role # 0 /\ v.full /\ v.shadow), !.shadow = FALSE]
    BY <1>6 DEF Received
  <2> HIDE DEF x
  <2> QED BY <1>6, <2>1 DEF IsView, Views
<1>7. CASE r.op \in {"roundtrip", "mode", "sync"}
  <2>1. x = v
    BY <1>7 DEF Received
  <2> HIDE DEF x
  <2> QED BY <1>7, <2>1
<1> HIDE DEF x
<1> QED BY <1>1, <1>2, <1>3, <1>4, <1>5, <1>6, <1>7 DEF Request, Configuring

(* What is left to be received of the same line is still in order. *)
LEMMA LivesAtTail ==
  ASSUME NEW s \in Seq(Request), s # <<>>, NEW role, NEW after, NEW i \in 2 .. Len(s),
         LivesAt(s, role, i),
         after = IF Head(s).op = "role" THEN Head(s).id
                 ELSE IF Head(s).op = "destroyRole" THEN 0 ELSE role
  PROVE  LivesAt(Tail(s), after, i - 1)
<1> DEFINE t == Tail(s)
<1>1. /\ Head(s) = s[1] /\ Len(s) \in Nat \ {0} /\ Head(s) \in Request
      /\ \A k \in 1 .. (Len(s) - 1) : t[k] = s[k + 1]
  BY TailFacts
<1>2. Head(s).op = "role" => Head(s).id # 0
  BY <1>1 DEF Request, Configuring
<1> HIDE DEF t
<1>3. ASSUME NEW j \in 1 .. (i - 1), \A k \in (j + 1) .. (i - 1) : s[k].op # "destroyRole"
      PROVE  \A k \in j .. (i - 2) : t[k].op # "destroyRole"
  <2>1. \A k \in j .. (i - 2) : k + 1 \in (j + 1) .. (i - 1) /\ k \in 1 .. (Len(s) - 1)
    OBVIOUS
  <2> QED BY <1>1, <1>3, <2>1
<1>4. CASE role # 0 /\ \A k \in 1 .. (i - 1) : s[k].op # "destroyRole"
  <2>1. after # 0
    BY <1>1, <1>2, <1>4
  <2>2. \A k \in 2 .. (i - 1) : s[k].op # "destroyRole"
    BY <1>4
  <2>3. \A k \in 1 .. (i - 2) : t[k].op # "destroyRole"
    BY <1>3, <2>2
  <2> QED BY <2>1, <2>3 DEF LivesAt, t
<1>5. ASSUME NEW j \in 1 .. (i - 1), s[j].op = "role",
             \A k \in (j + 1) .. (i - 1) : s[k].op # "destroyRole"
      PROVE  LivesAt(t, after, i - 1)
  <2>1. \A k \in j .. (i - 2) : t[k].op # "destroyRole"
    BY <1>3, <1>5
  <2>2. CASE j = 1
    <3>1. after # 0
      BY <1>1, <1>2, <1>5, <2>2
    <3> QED BY <2>1, <2>2, <3>1 DEF LivesAt
  <2>3. CASE j # 1
    <3>1. j - 1 \in 1 .. (i - 1 - 1) /\ t[j - 1].op = "role"
      BY <1>1, <1>5, <2>3
    <3>2. \A k \in (j - 1 + 1) .. (i - 1 - 1) : t[k].op # "destroyRole"
      BY <2>1
    <3> QED BY <3>1, <3>2 DEF LivesAt
  <2> QED BY <2>2, <2>3
<1> QED BY <1>4, <1>5 DEF LivesAt, t

LEMMA OrderedTail ==
  ASSUME NEW s \in Seq(Request), s # <<>>, NEW role, NEW after,
         OnlyWhileLive(s, role), RoleGoesFirst(s, role),
         after = IF Head(s).op = "role" THEN Head(s).id
                 ELSE IF Head(s).op = "destroyRole" THEN 0 ELSE role
  PROVE  OnlyWhileLive(Tail(s), after) /\ RoleGoesFirst(Tail(s), after)
<1> DEFINE t == Tail(s)
<1>1. /\ Head(s) = s[1] /\ Len(s) \in Nat \ {0} /\ DOMAIN s = 1 .. Len(s)
      /\ DOMAIN t = 1 .. (Len(s) - 1) /\ \A i \in 1 .. (Len(s) - 1) : t[i] = s[i + 1]
  BY TailFacts
<1> HIDE DEF t
<1>2. ASSUME NEW i \in DOMAIN t, t[i].op \in Configuring PROVE LivesAt(t, after, i)
  <2>1. i + 1 \in 2 .. Len(s) /\ i + 1 \in DOMAIN s /\ s[i + 1].op \in Configuring /\ i + 1 - 1 = i
    BY <1>1, <1>2
  <2>2. LivesAt(s, role, i + 1)
    BY <2>1 DEF OnlyWhileLive
  <2> QED BY <2>1, <2>2, LivesAtTail DEF t
<1>3. ASSUME NEW i \in DOMAIN t, t[i].op = "destroyShadow"
      PROVE  IF i = 1 THEN after = 0 ELSE t[i - 1].op = "destroyRole"
  <2>1. i + 1 \in DOMAIN s /\ s[i + 1].op = "destroyShadow" /\ i + 1 # 1 /\ i + 1 - 1 = i
    BY <1>1, <1>3
  <2>2. s[i].op = "destroyRole"
    BY <2>1 DEF RoleGoesFirst
  <2>3. CASE i = 1
    BY <1>1, <2>2, <2>3
  <2>4. CASE i # 1
    BY <1>1, <2>2, <2>4
  <2> QED BY <2>3, <2>4
<1> QED BY <1>2, <1>3 DEF OnlyWhileLive, RoleGoesFirst, t

LEMMA ReceivedReaches ==
  ASSUME NEW w, NEW v, NEW x, NEW u, Good(w), IsView(v), SentOK(w, v), w.sent # <<>>,
         x.sent = Tail(w.sent), Only(w, x, {"sent"}),
         u.role = Received(v, Head(w.sent)).role, u.full = Received(v, Head(w.sent)).full,
         u.shadow = Received(v, Head(w.sent)).shadow
  PROVE  SentOK(x, u)
<1> DEFINE r == Head(w.sent)
<1>1. w.sent \in Seq(Request) /\ r \in Request /\ w.monitor \in BOOLEAN
  BY TailFacts DEF Good, IsWindow
<1>2. /\ r.op = "role" => u.role = r.id /\ u.full = r.full
      /\ r.op = "destroyRole" => u.role = 0
      /\ r.op \notin {"role", "destroyRole"} => u.role = v.role
      /\ r.op = "full" => u.full = TRUE
      /\ r.op = "unfull" => u.full = FALSE
      /\ r.op \notin {"role", "full", "unfull"} => u.full = v.full
      /\ r.op = "commit" => u.shadow = r.shadow
      /\ r.op \notin {"commit", "destroyShadow"} => u.shadow = v.shadow
  <2> DEFINE y == Received(v, Head(w.sent))
  <2>1. Receipt(v, r, y)
    BY <1>1, Receives
  <2>2. u.role = y.role /\ u.full = y.full /\ u.shadow = y.shadow
    OBVIOUS
  <2> HIDE DEF y, r
  <2> QED BY <2>1, <2>2 DEF Receipt
<1>3. x.role = w.role /\ x.monitor = w.monitor /\ x.shadow = w.shadow
      /\ x.sizeCommitPending = w.sizeCommitPending
  BY DEF Only, Fields
<1> HIDE DEF r
<1>4. RoleReaches(x, u)
  <2> SUFFICES ASSUME w.role # 0
               PROVE  Ends(Tail(w.sent), u.role, w.role, RoleRequest(w.role),
                           Ops({"role", "destroyRole"}))
    BY <1>3 DEF RoleReaches
  <2>1. Ends(w.sent, v.role, w.role, RoleRequest(w.role), Ops({"role", "destroyRole"}))
    BY DEF SentOK, RoleReaches
  <2>2. r \in RoleRequest(w.role) => u.role = w.role
    BY <1>2 DEF RoleRequest
  <2>3. r \notin Ops({"role", "destroyRole"}) => u.role = v.role
    BY <1>1, <1>2 DEF Ops
  <2> QED BY <1>1, <2>1, <2>2, <2>3, EndsTail DEF r
<1>5. FullReaches(x, u)
  <2> SUFFICES ASSUME w.role # 0
               PROVE  Ends(Tail(w.sent), u.full, w.monitor, FullRequest(w.monitor),
                           Ops({"role", "full", "unfull"}))
    BY <1>3 DEF FullReaches
  <2>1. Ends(w.sent, v.full, w.monitor, FullRequest(w.monitor), Ops({"role", "full", "unfull"}))
    BY DEF SentOK, FullReaches
  <2>2. r \in FullRequest(w.monitor) => u.full = w.monitor
    BY <1>1, <1>2 DEF FullRequest
  <2>3. r \notin Ops({"role", "full", "unfull"}) => u.full = v.full
    BY <1>1, <1>2 DEF Ops
  <2> QED BY <1>1, <2>1, <2>2, <2>3, EndsTail DEF r
<1>6. ShadowReaches(x, u)
  <2> SUFFICES ASSUME w.role # 0, ~w.sizeCommitPending
               PROVE  Ends(Tail(w.sent), u.shadow, w.shadow, CommitOf(w.shadow),
                           Ops({"commit", "destroyShadow"}))
    BY <1>3 DEF ShadowReaches
  <2>1. Ends(w.sent, v.shadow, w.shadow, CommitOf(w.shadow), Ops({"commit", "destroyShadow"}))
    BY DEF SentOK, ShadowReaches
  <2>2. r \in CommitOf(w.shadow) => u.shadow = w.shadow
    BY <1>2 DEF CommitOf
  <2>3. r \notin Ops({"commit", "destroyShadow"}) => u.shadow = v.shadow
    BY <1>1, <1>2 DEF Ops
  <2> QED BY <1>1, <2>1, <2>2, <2>3, EndsTail DEF r
<1>7. Ordered(x, u)
  BY <1>1, <1>2, OrderedTail DEF SentOK, Ordered, r
<1> QED BY <1>4, <1>5, <1>6, <1>7 DEF SentOK

-----------------------------------------------------------------------------
(* The compositor answers: what it appends keeps what was on its way.      *)
LEMMA ShowsAppend ==
  ASSUME NEW es \in Seq(Event), NEW e \in Event, NEW role, NEW d
  PROVE  /\ Shows(es, role, d) => Shows(Append(es, e), role, d)
         /\ e \in Configures(role) /\ (d \/ \E c \in Elems(es) : c \in Decorations(role))
            => Shows(Append(es, e), role, d)
<1> DEFINE t == Append(es, e)
<1>1. /\ Len(es) \in Nat /\ DOMAIN es = 1 .. Len(es) /\ DOMAIN t = 1 .. (Len(es) + 1)
      /\ t[Len(es) + 1] = e /\ \A i \in 1 .. Len(es) : t[i] = es[i]
  BY AppendFacts
<1> HIDE DEF t
<1>2. ASSUME Shows(es, role, d) PROVE Shows(t, role, d)
  <2>1. PICK i \in 1 .. Len(es) :
          /\ es[i] \in Configures(role)
          /\ d \/ \E h \in 1 .. (i - 1) : es[h] \in Decorations(role)
    BY <1>1, <1>2 DEF Shows
  <2>2. \A h \in 1 .. (i - 1) : t[h] = es[h]
    BY <1>1
  <2>3. i \in DOMAIN t /\ t[i] = es[i]
    BY <1>1
  <2> QED BY <2>1, <2>2, <2>3 DEF Shows
<1>3. ASSUME e \in Configures(role), d \/ \E c \in Elems(es) : c \in Decorations(role)
      PROVE  Shows(t, role, d)
  <2>1. Len(es) + 1 \in DOMAIN t /\ t[Len(es) + 1] \in Configures(role)
    BY <1>1, <1>3
  <2>2. d \/ \E h \in 1 .. (Len(es) + 1 - 1) : t[h] \in Decorations(role)
    <3>1. ASSUME NEW c \in Elems(es), c \in Decorations(role)
          PROVE  \E h \in 1 .. (Len(es) + 1 - 1) : t[h] \in Decorations(role)
      <4>1. PICK h \in 1 .. Len(es) : es[h] = c
        BY <1>1 DEF Elems
      <4>2. h \in 1 .. (Len(es) + 1 - 1) /\ t[h] = c
        BY <1>1, <4>1
      <4> QED BY <3>1, <4>2
    <3> QED BY <1>3, <3>1
  <2> QED BY <2>1, <2>2 DEF Shows
<1> QED BY <1>2, <1>3 DEF t

(* An event that is no configure. *)
LEMMA OtherAnswer ==
  ASSUME NEW w, NEW v, NEW es \in Seq(Event), NEW e \in Event, Answered(w, v, es),
         e.type # "configure"
  PROVE  Answered(w, v, Append(es, e))
<1>1. Elems(Append(es, e)) = Elems(es) \cup {e}
  BY ElemsAppend
<1>2. e \notin Configures(w.role)
  BY DEF Configures
<1>3. StateComes(w, v, Append(es, e))
  BY <1>2, EndsAppend DEF Answered, StateComes
<1>4. RoundtripComes(w, Append(es, e)) /\ DoneComes(w, Append(es, e))
  BY <1>1 DEF Answered, RoundtripComes, DoneComes
<1>5. ConfigureComes(w, v, Append(es, e))
  BY <1>1, ShowsAppend DEF Answered, ConfigureComes
<1> QED BY <1>3, <1>4, <1>5 DEF Answered

(* A configure for the state the toplevel has. *)
LEMMA ConfigureAnswer ==
  ASSUME NEW w, NEW v, NEW u, NEW es \in Seq(Event), NEW e \in Event, Answered(w, v, es),
         e.type = "configure", e.role = u.role, e.full = u.full,
         u.role = v.role
  PROVE  Answered(w, u, Append(es, e))
<1>1. Elems(Append(es, e)) = Elems(es) \cup {e}
  BY ElemsAppend
<1>2. StateComes(w, u, Append(es, e))
  <2>1. ASSUME u.role = w.role
        PROVE  Ends(Append(es, e), w.fullscreen, u.full, Sets(w.role, u.full), Configures(w.role))
    <3>1. e \in Sets(w.role, u.full)
      BY <2>1 DEF Sets, Configures
    <3> QED BY <3>1, EndsGiven
  <2> QED BY <2>1 DEF StateComes
<1>3. RoundtripComes(w, Append(es, e)) /\ DoneComes(w, Append(es, e))
  BY <1>1 DEF Answered, RoundtripComes, DoneComes
<1>4. ConfigureComes(w, u, Append(es, e))
  <2> SUFFICES ASSUME w.role # 0, ~w.visible PROVE ConfigureComes(w, u, Append(es, e))
    BY DEF ConfigureComes
  <2>1. CASE \E r \in Elems(w.sent) : r.op = "role" /\ r.id = w.role
    BY <2>1 DEF ConfigureComes
  <2>2. CASE /\ v.role = w.role
             /\ Decided(w) \/ \E c \in Elems(es) : c \in Decorations(w.role)
    <3>1. e \in Configures(w.role)
      BY <2>2 DEF Configures
    <3> QED BY <2>2, <3>1, ShowsAppend DEF ConfigureComes
  <2>3. CASE Shows(es, w.role, Decided(w))
    BY <2>3, ShowsAppend DEF ConfigureComes
  <2> QED BY <2>1, <2>2, <2>3 DEF Answered, ConfigureComes
<1> QED BY <1>2, <1>3, <1>4 DEF Answered

(* A configure that is put off. *)
LEMMA OwedAnswer ==
  ASSUME NEW w, NEW v, NEW u, NEW es, Answered(w, v, es), u.owes, u.role = v.role
  PROVE  Answered(w, u, es)
BY DEF Answered, StateComes, ConfigureComes, RoundtripComes, DoneComes

(* A request is received, and answered by what its op asks for. *)
LEMMA ServedAnswers ==
  ASSUME NEW w, NEW v, NEW x, NEW u, NEW es \in Seq(Event), NEW es2, NEW r \in Request,
         Answered(w, v, es), w.sent \in Seq(Request), w.sent # <<>>, r = Head(w.sent),
         x.sent = Tail(w.sent), Only(w, x, {"sent"}), RoleReaches(x, u),
         u.role = IF r.op = "role" THEN r.id ELSE IF r.op = "destroyRole" THEN 0 ELSE v.role,
         r.op = "roundtrip" => \E e \in Elems(es) : e.type = "roundtrip",
         r.op = "sync" => \E e \in Elems(es) : e.type = "done" /\ e.id = r.id,
         r.op = "role" /\ kind.manager # "none" => \E e \in Elems(es) : e \in Decorations(r.id),
         \/ /\ r.op \in Configuring \cup {"role"} /\ u.owes /\ es2 = es
         \/ /\ r.op \in Configuring \cup {"role"}
            /\ \E e \in Event : /\ e.type = "configure" /\ e.role = u.role /\ e.full = u.full
                                /\ es2 = Append(es, e)
         \/ /\ r.op \notin Configuring \cup {"role"} /\ es2 = es /\ u.full = v.full
            /\ r.op # "destroyRole" => (u.owes <=> v.owes)
  PROVE  Answered(x, u, es2)
<1> DEFINE C == Configuring \cup {"role"}
<1>0. Elems(w.sent) = {r} \cup Elems(x.sent)
  BY ElemsTail
<1>1. /\ x.role = w.role /\ x.fullscreen = w.fullscreen /\ x.blocked = w.blocked
      /\ x.sync = w.sync /\ x.visible = w.visible /\ x.mode = w.mode
  BY DEF Only, Fields
<1>2. \/ es2 = es
      \/ \E e \in Event : es2 = Append(es, e)
  <2>1. CASE es2 = es
    BY <2>1
  <2>2. CASE \E e \in Event : /\ e.type = "configure" /\ e.role = u.role /\ e.full = u.full
                              /\ es2 = Append(es, e)
    BY <2>2
  <2> QED BY <2>1, <2>2
<1>3. Elems(es) \subseteq Elems(es2)
  <2>1. \A e \in Event : Elems(Append(es, e)) = Elems(es) \cup {e}
    BY ElemsAppend
  <2> QED BY <1>2, <2>1
<1>4. StateComes(x, u, es2)
  <2> SUFFICES ASSUME w.role # 0, u.role = w.role, ~u.owes
               PROVE  Ends(es2, w.fullscreen, u.full, Sets(w.role, u.full), Configures(w.role))
    BY <1>1 DEF StateComes
  <2>1. CASE r.op \notin C
    <3>1. r.op # "destroyRole" /\ v.role = w.role /\ es2 = es /\ u.full = v.full /\ ~v.owes
      BY <2>1
    <3> QED BY <3>1 DEF Answered, StateComes
  <2>2. CASE r.op \in C
    <3>1. PICK e \in Event : /\ e.type = "configure" /\ e.role = u.role /\ e.full = u.full
                             /\ es2 = Append(es, e)
      BY <2>2
    <3>2. e \in Sets(w.role, u.full)
      BY <3>1 DEF Sets, Configures
    <3> QED BY <3>1, <3>2, EndsGiven
  <2> QED BY <2>1, <2>2
<1>5. RoundtripComes(x, es2)
  BY <1>0, <1>1, <1>3 DEF Answered, RoundtripComes
<1>6. DoneComes(x, es2)
  BY <1>0, <1>1, <1>3 DEF Answered, DoneComes
<1>7. ConfigureComes(x, u, es2)
  <2> SUFFICES ASSUME w.role # 0, ~w.visible,
                      ~ \E q \in Elems(x.sent) : q.op = "role" /\ q.id = w.role
               PROVE  \/ /\ u.role = w.role /\ u.owes
                         /\ Decided(w) \/ \E e \in Elems(es2) : e \in Decorations(w.role)
                      \/ Shows(es2, w.role, Decided(w))
    BY <1>1 DEF ConfigureComes, Decided
  <2>1. u.role = w.role
    <3>1. Ends(x.sent, u.role, w.role, RoleRequest(w.role), Ops({"role", "destroyRole"}))
      BY <1>1 DEF RoleReaches
    <3>2. ~ \E q \in Elems(x.sent) : q \in RoleRequest(w.role)
      BY DEF RoleRequest
    <3> QED BY <3>1, <3>2, EndsElems
  <2>2. CASE r.op = "role"
    <3>1. r.id = w.role
      BY <2>1, <2>2
    <3>2. Decided(w) \/ \E e \in Elems(es) : e \in Decorations(w.role)
      BY <2>2, <3>1 DEF Decided
    <3>3. CASE u.owes /\ es2 = es
      BY <2>1, <3>2, <3>3
    <3>4. ASSUME NEW e \in Event, e.type = "configure", e.role = u.role, es2 = Append(es, e)
          PROVE  Shows(es2, w.role, Decided(w))
      <4>1. e \in Configures(w.role)
        BY <2>1, <3>4 DEF Configures
      <4> QED BY <3>2, <3>4, <4>1, ShowsAppend
    <3> QED BY <2>2, <3>3, <3>4
  <2>3. CASE r.op # "role"
    <3>1. v.role = w.role /\ r.op # "destroyRole"
      BY <2>1, <2>3
    <3>2. \/ v.owes /\ (Decided(w) \/ \E e \in Elems(es) : e \in Decorations(w.role))
          \/ Shows(es, w.role, Decided(w))
      BY <1>0, <2>3 DEF Answered, ConfigureComes
    <3>3. CASE Shows(es, w.role, Decided(w))
      BY <1>2, <3>3, ShowsAppend
    <3>4. CASE v.owes /\ (Decided(w) \/ \E e \in Elems(es) : e \in Decorations(w.role))
      <4>1. CASE u.owes
        BY <1>3, <2>1, <3>4, <4>1
      <4>2. ASSUME NEW e \in Event, e.type = "configure", e.role = u.role, es2 = Append(es, e)
            PROVE  Shows(es2, w.role, Decided(w))
        <5>1. e \in Configures(w.role)
          BY <2>1, <4>2 DEF Configures
        <5> QED BY <3>4, <4>2, <5>1, ShowsAppend
      <4> QED BY <3>1, <3>4, <4>1, <4>2
    <3> QED BY <3>2, <3>3, <3>4
  <2> QED BY <2>2, <2>3
<1> QED BY <1>4, <1>5, <1>6, <1>7 DEF Answered

-----------------------------------------------------------------------------
(* The invariant.  Role numbers are handed out in order.                   *)
ViewOK(v) == IsView(v) /\ ~v.torn /\ (v.owes => v.role # 0)
Fresh(s, v, n) == v.role <= n /\ \A r \in Elems(s) : r.op = "role" => r.id <= n

WindowInv ==
  /\ Fine(win, srv) /\ Told(win) /\ ViewOK(srv) /\ events \in Seq(Event)
  /\ Answered(win, srv, events)
  /\ calls \in 0 .. MaxCalls /\ Fresh(win.sent, srv, calls) /\ asked \in Sizes \cup {0}

LEMMA AnsweredNext ==
  ASSUME kind' = kind, Answered(win', srv', events')
  PROVE  Answered(win, srv, events)'
BY DEF Answered, StateComes, RoundtripComes, DoneComes, ConfigureComes, Shows, Decided

LEMMA InitWindowInv == Init => WindowInv
<1> SUFFICES ASSUME Init PROVE WindowInv
  OBVIOUS
<1>1. CreateSize \in Nat \ {0} /\ 0 \in Nat /\ MaxCalls \in Nat
  BY SizeAssumption DEF SizeAssumption
<1>2. /\ DOMAIN win = Fields /\ win.role = 0 /\ win.sync = 0 /\ win.restore = 0
      /\ win.width = CreateSize /\ win.eglWidth = CreateSize /\ win.latched = CreateSize
      /\ win.buffer = 0 /\ win.limits = 0 /\ win.monitor = FALSE /\ win.fullscreen = FALSE
      /\ win.maximized = FALSE /\ win.decorated = TRUE /\ win.requested = FALSE
      /\ win.shadow = FALSE /\ win.sent = <<>> /\ win.visible = FALSE /\ win.fallback = FALSE
      /\ win.told = CreateSize /\ win.blocked = FALSE
  BY DEF Init, NewWindow, Fields
<1>3. IsWindow(win)
  <2>1. 0 \in Ids /\ 0 \in Sizes \cup {0} /\ CreateSize \in Lengths /\ <<>> \in Seq(Request)
    BY <1>1 DEF Ids, Lengths
  <2> QED BY <1>1, <1>2, <2>1 DEF IsWindow
<1>4. Fits(win) /\ Told(win)
  BY <1>2 DEF Fits, Staged, ShadowFits, Told
<1>5. SentOK(win, srv)
  <2>1. DOMAIN win.sent = {}
    BY <1>2
  <2>2. Ordered(win, srv)
    BY <2>1 DEF Ordered, OnlyWhileLive, RoleGoesFirst
  <2> QED BY <1>2, <2>2 DEF SentOK, RoleReaches, FullReaches, ShadowReaches
<1>6. ViewOK(srv) /\ srv.role = 0
  BY <1>1 DEF Init, ViewOK, IsView, Views, Ids
<1>7. Answered(win, srv, events)
  BY <1>2 DEF Answered, StateComes, RoundtripComes, DoneComes, ConfigureComes
<1>8. Fresh(win.sent, srv, calls)
  <2>1. Elems(win.sent) = {}
    BY <1>2 DEF Elems
  <2> QED BY <1>6, <2>1 DEF Init, Fresh
<1>9. events \in Seq(Event) /\ calls \in 0 .. MaxCalls /\ asked \in Sizes \cup {0}
  BY <1>1 DEF Init
<1> QED BY <1>3, <1>4, <1>5, <1>6, <1>7, <1>8, <1>9 DEF WindowInv, Fine, Good

(* A step of the application that sends no role. *)
LEMMA CallKeeps ==
  ASSUME WindowInv, UNCHANGED <<events, srv, kind>>, Fine(win', srv), Told(win'),
         Adds(win.sent, win'.sent), Answered(win', srv, events),
         calls' \in {calls, calls + 1}, calls' \in 0 .. MaxCalls, asked' \in Sizes \cup {0}
  PROVE  WindowInv'
<1>1. Fresh(win'.sent, srv, calls')
  <2>1. Elems(win'.sent) \ Elems(win.sent) \subseteq Request \ Ops({"role"})
    BY DEF Adds
  <2>2. \A r \in Elems(win'.sent) : r.op = "role" => r \in Elems(win.sent)
    BY <2>1 DEF Ops
  <2>3. \A r \in Elems(win.sent) : r.op = "role" => r.id \in Nat /\ r.id <= calls
    <3>1. Elems(win.sent) \subseteq Request
      BY ElemsAreRequests DEF WindowInv, Fine, Good, IsWindow
    <3> QED BY <3>1, SizeAssumption DEF WindowInv, Fresh, Request, Configuring, Ids, SizeAssumption
  <2>4. srv.role \in Nat /\ srv.role <= calls /\ calls \in Nat
    BY SizeAssumption DEF WindowInv, Fresh, ViewOK, IsView, Ids, SizeAssumption
  <2> QED BY <2>2, <2>3, <2>4 DEF Fresh
<1>2. Fine(win', srv') /\ ViewOK(srv') /\ events' \in Seq(Event) /\ Fresh(win'.sent, srv', calls')
  BY <1>1 DEF WindowInv
<1>3. Answered(win, srv, events)'
  BY AnsweredNext
<1> QED BY <1>2, <1>3 DEF WindowInv

(* One that leaves what the answers are for alone. *)
Asked == {"role", "fullscreen", "mode", "visible", "blocked", "sync"}
LEMMA PlainCallKeeps ==
  ASSUME WindowInv, UNCHANGED <<events, srv, kind>>, Fine(win', srv), Told(win'),
         NEW F, Keeps(win, win', F), F \cap Asked = {},
         calls' \in {calls, calls + 1}, calls' \in 0 .. MaxCalls, asked' \in Sizes \cup {0}
  PROVE  WindowInv'
<1>1. /\ win'.role = win.role /\ win'.fullscreen = win.fullscreen /\ win'.mode = win.mode
      /\ win'.visible = win.visible /\ win'.blocked = win.blocked /\ win'.sync = win.sync
  BY DEF Keeps, Only, Fields, Asked
<1>2. Elems(win.sent) \subseteq Elems(win'.sent) /\ Adds(win.sent, win'.sent)
  BY DEF Keeps, Adds
<1>3. Answered(win', srv, events)
  BY <1>1, <1>2, AnswersKept DEF WindowInv
<1> QED BY <1>2, <1>3, CallKeeps

LEMMA StillTold ==
  ASSUME NEW w, NEW x, NEW F, Keeps(w, x, F), F \cap {"told", "width"} = {}, Told(w)
  PROVE  Told(x)
BY DEF Keeps, Only, Fields, Told

(* Every step of the application keeps it. *)
LEMMA ShowKeeps == WindowInv /\ Show => WindowInv'
<1> SUFFICES ASSUME WindowInv, Show PROVE WindowInv'
  OBVIOUS
<1> DEFINE n == calls + 1
<1>1. /\ win.role = 0 /\ win' = CreateXdgShellObjects(win, n) /\ calls' = n
      /\ UNCHANGED <<events, srv, kind, asked>>
      /\ calls \in Nat /\ MaxCalls \in Nat /\ calls < MaxCalls /\ Fine(win, srv)
      /\ Answered(win, srv, events)
  BY SizeAssumption DEF Show, Call, WindowInv, SizeAssumption
<1>2. n \in Ids \ {0} /\ calls' \in 0 .. MaxCalls
  BY <1>1 DEF Ids
<1> HIDE DEF n
<1>3. /\ Fine(win', srv) /\ Only(win, win', Showing) /\ win'.role = n
      /\ Elems(win.sent) \subseteq Elems(win'.sent) /\ Elems(win'.sent) \subseteq Request
      /\ RoleOf(win, n) \in Elems(win'.sent) /\ [op |-> "roundtrip"] \in Elems(win'.sent)
      /\ \A r \in Elems(win'.sent) \ Elems(win.sent) : r.op = "role" => r = RoleOf(win, n)
  BY <1>1, <1>2, CreatesRole
<1>4. /\ win'.sync = win.sync /\ win'.told = win.told /\ win'.width = win.width
      /\ win'.fullscreen = win.fullscreen
  BY <1>3 DEF Only, Fields, Showing
<1>5. RoleOf(win, n).op = "role" /\ RoleOf(win, n).id = n
  BY DEF RoleOf
<1>6. srv.role \in Nat /\ srv.role <= calls /\ n = calls + 1
  BY SizeAssumption DEF WindowInv, Fresh, ViewOK, IsView, Ids, SizeAssumption, n
<1>7. Fresh(win'.sent, srv, calls')
  <2>1. \A r \in Elems(win.sent) : r.op = "role" => r.id \in Nat /\ r.id <= calls
    <3>1. Elems(win.sent) \subseteq Request
      BY ElemsAreRequests DEF WindowInv, Fine, Good, IsWindow
    <3> QED BY <3>1, SizeAssumption DEF WindowInv, Fresh, Request, Configuring, Ids, SizeAssumption
  <2>2. \A r \in Elems(win'.sent) : r.op = "role" => r.id <= calls + 1
    <3> SUFFICES ASSUME NEW r \in Elems(win'.sent), r.op = "role" PROVE r.id <= calls + 1
      OBVIOUS
    <3>1. CASE r \in Elems(win.sent)
      BY <1>1, <2>1, <3>1
    <3>2. CASE r \notin Elems(win.sent)
      BY <1>1, <1>3, <1>5, <1>6, <3>2
    <3> QED BY <3>1, <3>2
  <2> QED BY <1>1, <1>6, <2>2 DEF Fresh
<1>8. Answered(win', srv, events)
  <2>1. StateComes(win', srv, events)
    BY <1>1, <1>3, <1>6 DEF StateComes
  <2>2. RoundtripComes(win', events)
    <3>1. PICK r \in Elems(win'.sent) : r = [op |-> "roundtrip"]
      BY <1>3
    <3>2. r.op = "roundtrip"
      BY <3>1
    <3> QED BY <3>2 DEF RoundtripComes
  <2>3. DoneComes(win', events)
    BY <1>1, <1>3, <1>4 DEF Answered, DoneComes
  <2>4. ConfigureComes(win', srv, events)
    BY <1>3, <1>5 DEF ConfigureComes
  <2> QED BY <2>1, <2>2, <2>3, <2>4 DEF Answered
<1>9. Answered(win, srv, events)'
  BY <1>1, <1>8, AnsweredNext
<1>10. Told(win')
  BY <1>4 DEF WindowInv, Told
<1> QED BY <1>1, <1>2, <1>3, <1>7, <1>9, <1>10 DEF WindowInv

LEMMA CallsGrow == ASSUME WindowInv, NEW w, Call(w) PROVE
  /\ win' = w /\ UNCHANGED <<events, srv, kind>> /\ calls' \in {calls, calls + 1}
  /\ calls' \in 0 .. MaxCalls /\ calls + 1 \in Ids \ {0}
  /\ Fine(win, srv) /\ Told(win) /\ asked \in Sizes \cup {0} /\ Answered(win, srv, events)
BY SizeAssumption DEF Call, WindowInv, SizeAssumption, Ids

LEMMA HideKeeps == WindowInv /\ Hide => WindowInv'
<1> SUFFICES ASSUME WindowInv, Hide PROVE WindowInv'
  OBVIOUS
<1>1. Call(HideWindow(win)) /\ win.visible /\ asked' = asked
  BY DEF Hide
<1>2. Fine(win', srv) /\ Keeps(win, win', Hiding) /\ win'.role = 0
  BY <1>1, CallsGrow, HidesWindow
<1>3. Told(win')
  BY <1>1, <1>2, CallsGrow, StillTold DEF Hiding
<1>4. /\ win'.fullscreen = win.fullscreen /\ win'.blocked = win.blocked
      /\ win'.sync = win.sync /\ Elems(win.sent) \subseteq Elems(win'.sent)
      /\ Adds(win.sent, win'.sent)
  BY <1>2 DEF Keeps, Only, Fields, Hiding, Adds
<1>5. Answered(win', srv, events)
  BY <1>1, <1>2, <1>4, CallsGrow, AnswersKept
<1> QED BY <1>1, <1>2, <1>3, <1>4, <1>5, CallsGrow, CallKeeps

LEMMA EnterKeeps == WindowInv /\ Enter => WindowInv'
<1> SUFFICES ASSUME WindowInv, Enter PROVE WindowInv'
  OBVIOUS
<1> DEFINE F == {"monitor", "fallback", "sent"}
<1>1. Call(EnterFullscreen(win)) /\ ~win.monitor /\ asked' = asked
  BY DEF Enter
<1>2. Fine(win', srv) /\ Keeps(win, win', F)
  BY <1>1, CallsGrow, EntersFullscreen
<1>3. F \cap Asked = {} /\ F \cap {"told", "width"} = {}
  BY DEF Asked
<1> HIDE DEF F
<1> QED BY <1>1, <1>2, <1>3, CallsGrow, StillTold, PlainCallKeeps

LEMMA LeaveKeeps == WindowInv /\ (\E s \in Sizes : Leave(s)) => WindowInv'
<1> SUFFICES ASSUME WindowInv, NEW s \in Sizes, Leave(s) PROVE WindowInv'
  OBVIOUS
<1> DEFINE x == LeaveFullscreen(win, s, calls + 1)
           y == IF win.monitor THEN x ELSE TellSize(x)
<1>1. Call(y) /\ asked' \in Sizes \cup {0}
  BY DEF Leave, Asks
<1>2. win' = y /\ calls + 1 \in Ids \ {0} /\ Fine(win, srv) /\ Told(win)
      /\ Answered(win, srv, events)
  <2> HIDE DEF y
  <2> QED BY <1>1, CallsGrow
<1>3. /\ Fine(win', srv) /\ Told(win') /\ Keeps(win, win', Leaving)
      /\ win'.sync # win.sync => /\ win'.sync = calls + 1
                                 /\ [op |-> "sync", id |-> calls + 1] \in Elems(win'.sent)
  BY <1>2, LeavesFullscreen
<1>4. /\ win'.role = win.role /\ win'.fullscreen = win.fullscreen /\ win'.mode = win.mode
      /\ win'.visible = win.visible /\ win'.blocked = win.blocked
      /\ Elems(win.sent) \subseteq Elems(win'.sent) /\ Adds(win.sent, win'.sent)
  BY <1>3 DEF Keeps, Only, Fields, Leaving, Sizing, Resizing, Adds
<1>5. win'.sync = win.sync \/ [op |-> "sync", id |-> win'.sync] \in Elems(win'.sent)
  BY <1>3
<1>6. Answered(win', srv, events)
  BY <1>2, <1>4, <1>5, AnswersKept
<1> HIDE DEF y
<1> QED BY <1>1, <1>3, <1>4, <1>6, CallsGrow, CallKeeps

LEMMA ResizeKeeps == WindowInv /\ (\E s \in Sizes : Resize(s)) => WindowInv'
<1> SUFFICES ASSUME WindowInv, NEW s \in Sizes, Resize(s) PROVE WindowInv'
  OBVIOUS
<1> DEFINE x == SetWindowSize(win, s)
           F == Sizing \cup {"told"}
<1>1. Call(TellSize(x)) /\ asked' \in Sizes \cup {0}
  BY DEF Resize, Asks
<1>2. Fine(x, srv) /\ Keeps(win, x, Sizing)
  BY <1>1, CallsGrow, SizesWindow
<1> HIDE DEF x
<1>3. Fine(TellSize(x), srv) /\ Keeps(x, TellSize(x), {"told"}) /\ Told(TellSize(x))
  BY <1>2, Tells DEF Fine
<1>4. Keeps(win, TellSize(x), F)
  BY <1>2, <1>3, KeepsThen
<1>5. F \cap Asked = {}
  BY DEF Asked, Sizing, Resizing
<1>6. win' = TellSize(x)
  BY <1>1, CallsGrow
<1> HIDE DEF F
<1>7. Fine(win', srv) /\ Told(win') /\ Keeps(win, win', F)
  BY <1>3, <1>4, <1>6
<1> QED BY <1>1, <1>5, <1>7, CallsGrow, PlainCallKeeps

LEMMA DecorateKeeps == WindowInv /\ (\E b \in BOOLEAN : Decorate(b)) => WindowInv'
<1> SUFFICES ASSUME WindowInv, NEW b \in BOOLEAN, Decorate(b) PROVE WindowInv'
  OBVIOUS
<1> DEFINE F == {"decorated", "fallback", "latched", "sent"}
<1>1. Call(SetWindowDecorated(win, b)) /\ asked' = asked
  BY DEF Decorate
<1>2. Fine(win', srv) /\ Keeps(win, win', F)
  BY <1>1, CallsGrow, Decorates
<1>3. F \cap Asked = {} /\ F \cap {"told", "width"} = {}
  BY DEF Asked
<1> HIDE DEF F
<1> QED BY <1>1, <1>2, <1>3, CallsGrow, StillTold, PlainCallKeeps

LEMMA ShadowKeeps == WindowInv /\ Shadow => WindowInv'
<1> SUFFICES ASSUME WindowInv, Shadow PROVE WindowInv'
  OBVIOUS
<1> DEFINE F == {"requested", "shadow", "latched", "sent"}
<1>1. Call(SetWindowShadow(win)) /\ asked' = asked
  BY DEF Shadow
<1>2. Fine(win', srv) /\ Keeps(win, win', F)
  BY <1>1, CallsGrow, AddsShadow
<1>3. F \cap Asked = {} /\ F \cap {"told", "width"} = {}
  BY DEF Asked
<1> HIDE DEF F
<1> QED BY <1>1, <1>2, <1>3, CallsGrow, StillTold, PlainCallKeeps

LEMMA MaximizeKeeps == WindowInv /\ (Maximize \/ Restore) => WindowInv'
<1> SUFFICES ASSUME WindowInv, Maximize \/ Restore PROVE WindowInv'
  OBVIOUS
<1> DEFINE F == {"maximized", "sent"}
<1>1. PICK x \in {MaximizeWindow(win), RestoreWindow(win)} : Call(x) /\ asked' = 0
  BY DEF Maximize, Restore
<1>2. Fine(win', srv) /\ Keeps(win, win', F)
  BY <1>1, CallsGrow, Maximizes
<1>3. F \cap Asked = {} /\ F \cap {"told", "width"} = {}
  BY DEF Asked
<1> HIDE DEF F
<1> QED BY <1>1, <1>2, <1>3, CallsGrow, StillTold, PlainCallKeeps

LEMMA PaintKeeps == WindowInv /\ Paint => WindowInv'
<1> SUFFICES ASSUME WindowInv, Paint PROVE WindowInv'
  OBVIOUS
<1>1. /\ win' = [SwapBuffers(MakeContextCurrent(win)) EXCEPT !.dirty = FALSE]
      /\ UNCHANGED <<events, srv, kind, calls, asked>>
  BY DEF Paint
<1>2. Fine(win, srv) /\ Told(win) /\ asked \in Sizes \cup {0} /\ calls \in 0 .. MaxCalls
  BY DEF WindowInv
<1>3. Fine(win', srv) /\ Keeps(win, win', Painting)
  BY <1>1, <1>2, Paints
<1>4. Painting \cap Asked = {} /\ Painting \cap {"told", "width"} = {}
  BY DEF Asked, Painting
<1>5. Told(win')
  BY <1>2, <1>3, <1>4, StillTold
<1> QED BY <1>1, <1>2, <1>3, <1>4, <1>5, PlainCallKeeps

(* An event that is dispatched does what it was awaited for. *)
LEMMA DispatchKeeps == WindowInv /\ Dispatch => WindowInv'
<1> SUFFICES ASSUME WindowInv, Dispatch PROVE WindowInv'
  OBVIOUS
<1> DEFINE e == Head(events)
           configured == e.type = "configure" /\ e.role = win.role
           decorated == e.type = "decoration" /\ e.role = win.role
           done == e.type = "done" /\ e.id = win.sync
           unblocked == e.type = "roundtrip"
<1>1. /\ events # <<>> /\ events \in Seq(Event) /\ e \in Event /\ events' = Tail(events)
      /\ Tail(events) \in Seq(Event) /\ UNCHANGED <<srv, kind, calls>>
      /\ asked' \in Sizes \cup {0} /\ win' = Handle(win, e)
  BY TailFacts DEF WindowInv, Dispatch
<1>2. Fine(win, srv) /\ Told(win) /\ Answered(win, srv, events)
  BY DEF WindowInv
<1> HIDE DEF e
<1>3. /\ e \in Configures(win.role) <=> configured
      /\ e \in Decorations(win.role) <=> decorated
  BY <1>1 DEF Configures, Decorations
<1> DEFINE Q == /\ Fine(win', srv) /\ Told(win') /\ Adds(win.sent, win'.sent)
                /\ win'.role = win.role
                /\ configured => win'.fullscreen = e.full
                /\ ~configured => win'.fullscreen = win.fullscreen
                /\ win.visible \/ (configured /\ Decided(win)) => win'.visible
                /\ Decided(win) \/ decorated => Decided(win')
                /\ win'.blocked => win.blocked /\ ~unblocked
                /\ win'.sync # 0 => win'.sync = win.sync /\ ~done
<1>4. ASSUME configured PROVE Q
  <2>1. win' = XdgSurfaceHandleConfigure(XdgToplevelHandleConfigure(win, e))
    BY <1>1, <1>4 DEF Handle
  <2>2. e.full \in BOOLEAN /\ e.max \in BOOLEAN /\ e.width \in Nat /\ e.role # 0
    BY <1>1, <1>4 DEF Event
  <2>3. /\ Fine(win', srv) /\ Told(win') /\ Keeps(win, win', Configuration)
        /\ win'.fullscreen = e.full /\ (win.visible \/ Decided(win) => win'.visible)
    BY <1>2, <1>4, <2>1, <2>2, HandlesConfigure
  <2>4. win'.role = win.role /\ win'.mode = win.mode /\ win'.blocked = win.blocked
        /\ win'.sync = win.sync /\ Adds(win.sent, win'.sent)
    BY <2>3 DEF Keeps, Only, Fields, Configuration, Sizing, Resizing
  <2>5. ~done /\ ~unblocked /\ ~decorated
    BY <1>4
  <2> QED BY <1>4, <2>3, <2>4, <2>5 DEF Decided
<1>5. ASSUME decorated PROVE Q
  <2>1. win' = XdgDecorationHandleConfigure(win, e.mode)
    BY <1>1, <1>5 DEF Handle
  <2>2. e.mode # "unset" /\ ~configured /\ ~done /\ ~unblocked
    BY <1>1, <1>5 DEF Event
  <2>3. Fine(win', srv) /\ Keeps(win, win', {"mode", "fallback"}) /\ win'.mode = e.mode
    BY <1>2, <2>1, HandlesDecoration
  <2>4. Told(win')
    BY <1>2, <2>3, StillTold
  <2>5. win'.role = win.role /\ win'.fullscreen = win.fullscreen /\ win'.blocked = win.blocked
        /\ win'.sync = win.sync /\ Adds(win.sent, win'.sent) /\ win'.visible = win.visible
    BY <2>3 DEF Keeps, Only, Fields
  <2> QED BY <2>2, <2>3, <2>4, <2>5 DEF Decided
<1>6. ASSUME done PROVE Q
  <2>1. win' = RestoreSyncHandleDone(win)
    BY <1>1, <1>6 DEF Handle
  <2>2. ~configured /\ ~decorated /\ ~unblocked
    BY <1>6
  <2>3. Fine(win', srv) /\ Keeps(win, win', {"sync", "restore"}) /\ win'.sync = 0
    BY <1>2, <2>1, HandlesDone
  <2>4. Told(win')
    BY <1>2, <2>3, StillTold
  <2>5. win'.role = win.role /\ win'.fullscreen = win.fullscreen /\ win'.blocked = win.blocked
        /\ win'.mode = win.mode /\ Adds(win.sent, win'.sent) /\ win'.visible = win.visible
    BY <2>3 DEF Keeps, Only, Fields
  <2> QED BY <2>2, <2>3, <2>4, <2>5 DEF Decided
<1>7. ASSUME unblocked PROVE Q
  <2>1. win' = [win EXCEPT !.blocked = FALSE]
    BY <1>1, <1>7 DEF Handle
  <2>2. ~configured /\ ~decorated /\ ~done
    BY <1>7
  <2>3. Fine(win', srv) /\ Keeps(win, win', {"blocked"}) /\ win'.blocked = FALSE
    <3>1. DOMAIN win = Fields
      BY <1>2 DEF Fine, Good, IsWindow
    <3>2. win'.blocked = FALSE
      BY <2>1, <3>1 DEF Fields
    <3> QED BY <1>2, <2>1, <3>2, HandlesRoundtrip
  <2>4. Told(win')
    BY <1>2, <2>3, StillTold
  <2>5. win'.role = win.role /\ win'.fullscreen = win.fullscreen /\ win'.sync = win.sync
        /\ win'.mode = win.mode /\ Adds(win.sent, win'.sent) /\ win'.visible = win.visible
    BY <2>3 DEF Keeps, Only, Fields
  <2> QED BY <2>2, <2>3, <2>4, <2>5 DEF Decided
<1>8. ASSUME ~configured /\ ~decorated /\ ~done /\ ~unblocked PROVE Q
  <2>1. win' = win
    BY <1>1, <1>8 DEF Handle
  <2>2. Adds(win.sent, win'.sent)
    BY <2>1 DEF Adds
  <2> QED BY <1>2, <1>8, <2>1, <2>2 DEF Decided
<1>9. Q
  BY <1>4, <1>5, <1>6, <1>7, <1>8
<1> HIDE DEF configured, decorated
<1>10. Elems(win.sent) \subseteq Elems(win'.sent)
  BY <1>9 DEF Adds
<1>11. Answered(win', srv, Tail(events))
  <2>1. /\ e \in Configures(win.role) => win'.fullscreen = e.full
        /\ e \notin Configures(win.role) => win'.fullscreen = win.fullscreen
        /\ win.visible \/ (e \in Configures(win.role) /\ Decided(win)) => win'.visible
        /\ Decided(win) \/ e \in Decorations(win.role) => Decided(win')
    BY <1>3, <1>9
  <2>2. /\ win'.blocked => win.blocked /\ e.type # "roundtrip"
        /\ win'.sync # 0 => win'.sync = win.sync /\ ~(e.type = "done" /\ e.id = win.sync)
        /\ win'.role = win.role
    BY <1>9
  <2> QED BY <1>1, <1>2, <1>10, <2>1, <2>2, AnswersTail DEF e
<1>12. Answered(win, srv, events)'
  BY <1>1, <1>11, AnsweredNext
<1>13. Fresh(win'.sent, srv, calls)
  <2>1. Elems(win'.sent) \ Elems(win.sent) \subseteq Request \ Ops({"role"})
    BY <1>9 DEF Adds
  <2>2. \A r \in Elems(win'.sent) : r.op = "role" => r \in Elems(win.sent)
    BY <2>1 DEF Ops
  <2> QED BY <2>2 DEF WindowInv, Fresh
<1>14. Fine(win', srv') /\ ViewOK(srv') /\ events' \in Seq(Event) /\ calls' \in 0 .. MaxCalls
       /\ Fresh(win'.sent, srv', calls') /\ Told(win')
  BY <1>1, <1>9, <1>13 DEF WindowInv
<1> QED BY <1>1, <1>12, <1>14 DEF WindowInv

LEMMA SuggestionIsNat == ASSUME NEW v, IsView(v) PROVE Suggestion(v) \in Nat
BY SizeAssumption DEF Suggestion, IsView, SizeAssumption

LEMMA ConfigureIsEvent ==
  ASSUME NEW v, IsView(v), v.role # 0, NEW mine \in BOOLEAN
  PROVE  /\ Configure(v, mine) \in Event /\ Configure(v, mine).type = "configure"
         /\ Configure(v, mine).role = v.role /\ Configure(v, mine).full = v.full
BY SuggestionIsNat DEF Configure, Event, IsView

LEMMA AppendOne == ASSUME NEW R, NEW s \in Seq(R), NEW r \in R PROVE
  s \o <<r>> = Append(s, r) /\ s \o <<>> = s
OBVIOUS

LEMMA SendOwedKeeps == WindowInv /\ SendOwed => WindowInv'
<1> SUFFICES ASSUME WindowInv, SendOwed PROVE WindowInv'
  OBVIOUS
<1> DEFINE c == Configure(srv, FALSE)
<1>1. /\ srv.owes /\ events' = Append(events, c) /\ srv' = [srv EXCEPT !.owes = FALSE]
      /\ UNCHANGED <<win, kind, calls, asked>> /\ ViewOK(srv) /\ events \in Seq(Event)
      /\ Fine(win, srv) /\ Told(win) /\ Answered(win, srv, events)
  BY DEF SendOwed, WindowInv
<1>2. c \in Event /\ c.type = "configure" /\ c.role = srv.role /\ c.full = srv.full
  BY <1>1, ConfigureIsEvent DEF ViewOK
<1> HIDE DEF c
<1>3. /\ DOMAIN srv' = Views /\ \A f \in Views \ {"owes"} : srv'[f] = srv[f]
      /\ srv'.owes = FALSE
  BY <1>1 DEF ViewOK, IsView, Views
<1>4. /\ ViewOK(srv') /\ srv'.role = srv.role /\ srv'.full = srv.full /\ srv'.shadow = srv.shadow
  BY <1>1, <1>3 DEF ViewOK, IsView, Views
<1>5. Answered(win', srv', events')
  BY <1>1, <1>2, <1>4, ConfigureAnswer
<1>6. Answered(win, srv, events)'
  BY <1>1, <1>5, AnsweredNext
<1>7. Fine(win', srv')
  BY <1>1, <1>4 DEF Fine, SentOK, RoleReaches, FullReaches, ShadowReaches, Ordered
<1>8. events' \in Seq(Event) /\ Fresh(win'.sent, srv', calls') /\ asked' \in Sizes \cup {0}
      /\ calls' \in 0 .. MaxCalls /\ Told(win')
  BY <1>1, <1>2, <1>4, AppendFacts DEF WindowInv, Fresh
<1> QED BY <1>4, <1>6, <1>7, <1>8 DEF WindowInv

LEMMA ConfigureUnaskedKeeps == WindowInv /\ ConfigureUnasked => WindowInv'
<1> SUFFICES ASSUME WindowInv, ConfigureUnasked PROVE WindowInv'
  OBVIOUS
<1> DEFINE c == Configure(srv', TRUE)
<1>0. /\ ViewOK(srv) /\ events \in Seq(Event)
      /\ Fine(win, srv) /\ Told(win) /\ Answered(win, srv, events)
  BY DEF WindowInv
<1>1. PICK s \in {srv.float} \cup Sizes :
         srv' = [srv EXCEPT !.float = s] /\ events' = Append(events, c)
  BY DEF ConfigureUnasked
<1>2. srv.role # 0 /\ UNCHANGED <<win, kind, calls, asked>>
  BY DEF ConfigureUnasked
<1>3. s \in Nat
  BY <1>0, SizesAreLengths DEF ViewOK, IsView
<1>4. /\ ViewOK(srv') /\ srv'.role = srv.role /\ srv'.full = srv.full /\ srv'.shadow = srv.shadow
  BY <1>0, <1>1, <1>3 DEF ViewOK, IsView, Views
<1>5. c \in Event /\ c.type = "configure" /\ c.role = srv'.role /\ c.full = srv'.full
  BY <1>2, <1>4, ConfigureIsEvent DEF ViewOK
<1> HIDE DEF c
<1>6. Answered(win', srv', events')
  BY <1>0, <1>1, <1>2, <1>4, <1>5, ConfigureAnswer
<1>7. Answered(win, srv, events)'
  BY <1>2, <1>6, AnsweredNext
<1>8. Fine(win', srv')
  BY <1>0, <1>2, <1>4 DEF Fine, SentOK, RoleReaches, FullReaches, ShadowReaches, Ordered
<1>9. events' \in Seq(Event) /\ Fresh(win'.sent, srv', calls') /\ asked' \in Sizes \cup {0}
      /\ calls' \in 0 .. MaxCalls /\ Told(win')
  BY <1>0, <1>1, <1>2, <1>4, <1>5, AppendFacts DEF WindowInv, Fresh
<1> QED BY <1>4, <1>7, <1>8, <1>9 DEF WindowInv

(* A request that is served keeps what is left of the line, and is         *)
(* answered.                                                               *)
LEMMA ServeKeeps == WindowInv /\ Serve => WindowInv'
<1> SUFFICES ASSUME WindowInv, Serve PROVE WindowInv'
  OBVIOUS
<1> DEFINE r == Head(win.sent)
           v == Received(srv, r)
           configures == r.op \in {"role", "full", "unfull", "max", "unmax"}
           deco == IF kind.manager # "none" /\ r.op \in {"role", "mode"}
                   THEN <<Decoration(v, r.ssd)>> ELSE <<>>
           reply == CASE r.op = "sync" -> <<[type |-> "done", id |-> r.id]>>
                      [] r.op = "roundtrip" -> <<[type |-> "roundtrip"]>>
                      [] OTHER -> <<>>
           c == Configure(v, FALSE)
           es == events \o deco
           fs == es \o reply
<1>1. /\ win.sent # <<>> /\ win.sent \in Seq(Request) /\ r \in Request /\ r = Head(win.sent)
      /\ Tail(win.sent) \in Seq(Request) /\ Fine(win, srv) /\ Told(win) /\ ViewOK(srv)
      /\ IsView(srv) /\ events \in Seq(Event) /\ Answered(win, srv, events)
  BY TailFacts DEF WindowInv, Serve, Fine, Good, IsWindow, ViewOK
<1>2. /\ win' = [win EXCEPT !.sent = Tail(@)] /\ UNCHANGED <<kind, calls, asked>>
      /\ \/ srv' = [v EXCEPT !.owes = @ /\ ~configures]
            /\ events' = fs \o (IF configures THEN <<c>> ELSE <<>>)
         \/ configures /\ srv' = [v EXCEPT !.owes = TRUE] /\ events' = fs
  BY DEF Serve
<1>3. Receipt(srv, r, v)
  <2> HIDE DEF r
  <2> QED BY <1>1, Receives
<1>4. Only(win, win', {"sent"}) /\ win'.sent = Tail(win.sent)
  BY <1>1, <1>2 DEF Only, Fields, Fine, Good, IsWindow
<1>5. configures <=> r.op \in Configuring \cup {"role"}
  BY DEF Configuring
<1>6. \/ ~configures /\ srv' = [v EXCEPT !.owes = @ /\ TRUE] /\ events' = fs \o <<>>
      \/ configures /\ srv' = [v EXCEPT !.owes = FALSE] /\ events' = fs \o <<c>>
      \/ configures /\ srv' = [v EXCEPT !.owes = TRUE] /\ events' = fs
  <2>1. CASE configures
    <3> HIDE DEF v, fs, c
    <3>1. [v EXCEPT !.owes = @ /\ ~configures] = [v EXCEPT !.owes = FALSE]
      BY <2>1
    <3> HIDE DEF configures
    <3> QED BY <1>2, <2>1, <3>1
  <2>2. CASE ~configures
    <3> HIDE DEF v, fs, c
    <3>1. [v EXCEPT !.owes = @ /\ ~configures] = [v EXCEPT !.owes = @ /\ TRUE]
      BY <2>2
    <3> HIDE DEF configures
    <3> QED BY <1>2, <2>2, <3>1
  <2> QED BY <2>1, <2>2
<1> HIDE DEF r, v, c
<1>7. /\ DOMAIN srv' = Views /\ \A f \in Views \ {"owes"} : srv'[f] = v[f]
      /\ ~configures => srv'.owes = (v.owes /\ TRUE)
  <2>1. DOMAIN v = Views
    BY <1>3 DEF Receipt, IsView
  <2> HIDE DEF configures, fs
  <2> QED BY <1>6, <2>1 DEF Views
<1>8. /\ IsView(srv') /\ srv'.role = v.role /\ srv'.full = v.full /\ srv'.shadow = v.shadow
      /\ srv'.torn = v.torn
  BY <1>3, <1>7 DEF Receipt, IsView, Views
<1>9. SentOK(win', srv')
  BY <1>1, <1>4, <1>8, ReceivedReaches DEF r, v, Fine
<1>10. Good(win')
  BY <1>1, <1>4 DEF Fine, Good, IsWindow, Fits, Staged, ShadowFits, Shaded, Only, Fields
<1>11. r.op \in Configuring => srv.role # 0
  <2>1. LivesAt(win.sent, srv.role, 1) \/ r.op \notin Configuring
    <3>1. 1 \in DOMAIN win.sent /\ r = win.sent[1]
      BY <1>1, TailFacts DEF r
    <3> QED BY <1>1, <3>1 DEF Fine, SentOK, Ordered, OnlyWhileLive
  <2> QED BY <2>1 DEF LivesAt
<1>12. r.op = "destroyShadow" => srv.role = 0
  <2>1. 1 \in DOMAIN win.sent /\ r = win.sent[1]
    BY <1>1, TailFacts DEF r
  <2> QED BY <1>1, <2>1 DEF Fine, SentOK, Ordered, RoleGoesFirst
<1>13. configures => v.role # 0
  <2>1. r.op = "role" => r.id # 0
    BY <1>1 DEF Request, Configuring
  <2> QED BY <1>3, <1>5, <1>11, <2>1 DEF Receipt, Configuring
<1>14. ViewOK(srv')
  <2>1. ~srv'.torn
    BY <1>1, <1>3, <1>8, <1>12 DEF Receipt, ViewOK
  <2>2. srv'.owes => srv'.role # 0
    <3>1. CASE configures
      BY <1>8, <1>13, <3>1
    <3>2. CASE ~configures
      <4>1. r.op # "role"
        BY <3>2
      <4> QED BY <1>1, <1>3, <1>7, <1>8, <3>2, <4>1 DEF Receipt, ViewOK
    <3> QED BY <3>1, <3>2
  <2> QED BY <1>8, <2>1, <2>2 DEF ViewOK
<1>15. /\ es \in Seq(Event) /\ Answered(win, srv, es)
       /\ r.op = "role" /\ kind.manager # "none" => \E e \in Elems(es) : e \in Decorations(r.id)
  <2> DEFINE d == Decoration(v, r.ssd)
  <2>1. d \in Event /\ d.type = "decoration" /\ d.role = v.role
    BY <1>3 DEF Decoration, Event, Receipt, IsView
  <2>2. CASE deco = <<>> /\ ~(r.op = "role" /\ kind.manager # "none")
    <3> HIDE DEF deco
    <3>1. es = events
      BY <1>1, <2>2
    <3> QED BY <1>1, <2>2, <3>1
  <2>3. CASE deco = <<d>>
    <3> HIDE DEF deco, d
    <3>1. es = Append(events, d)
      BY <1>1, <2>1, <2>3, AppendOne
    <3>2. Answered(win, srv, Append(events, d)) /\ Append(events, d) \in Seq(Event)
      BY <1>1, <2>1, OtherAnswer, AppendFacts
    <3>3. Elems(Append(events, d)) = Elems(events) \cup {d}
      BY <1>1, <2>1, ElemsAppend
    <3>4. r.op = "role" => d \in Decorations(r.id)
      BY <1>3, <2>1 DEF Decorations, Receipt
    <3> QED BY <3>1, <3>2, <3>3, <3>4
  <2> QED BY <2>2, <2>3
<1> HIDE DEF deco, es
<1>16. /\ fs \in Seq(Event) /\ Answered(win, srv, fs) /\ Elems(es) \subseteq Elems(fs)
       /\ r.op = "roundtrip" => \E e \in Elems(fs) : e.type = "roundtrip"
       /\ r.op = "sync" => \E e \in Elems(fs) : e.type = "done" /\ e.id = r.id
  <2>1. ASSUME NEW e \in Event, e.type # "configure", fs = es \o <<e>>
        PROVE  /\ fs \in Seq(Event) /\ Answered(win, srv, fs) /\ Elems(es) \subseteq Elems(fs)
               /\ e \in Elems(fs)
    <3>1. fs = Append(es, e)
      BY <1>15, <2>1, AppendOne
    <3>2. Elems(Append(es, e)) = Elems(es) \cup {e}
      BY <1>15, <2>1, ElemsAppend
    <3> HIDE DEF fs
    <3>3. Append(es, e) \in Seq(Event)
      BY <1>15, <2>1, AppendFacts
    <3>4. Answered(win, srv, Append(es, e))
      BY <1>15, <2>1, OtherAnswer
    <3> QED BY <3>1, <3>2, <3>3, <3>4
  <2>2. CASE r.op = "sync"
    <3> DEFINE e == [type |-> "done", id |-> r.id]
    <3>1. e \in Event /\ e.type = "done" /\ e.id = r.id
      BY <1>1, <2>2 DEF Event, Request, Configuring
    <3>2. fs = es \o <<e>>
      BY <2>2
    <3> HIDE DEF e, fs
    <3> QED BY <2>1, <2>2, <3>1, <3>2
  <2>3. CASE r.op = "roundtrip"
    <3> DEFINE e == [type |-> "roundtrip"]
    <3>1. e \in Event /\ e.type = "roundtrip"
      BY DEF Event
    <3>2. fs = es \o <<e>>
      BY <2>3
    <3> HIDE DEF e, fs
    <3> QED BY <2>1, <2>3, <3>1, <3>2
  <2>4. CASE r.op \notin {"sync", "roundtrip"}
    <3>1. fs = es \o <<>>
      BY <2>4
    <3>2. fs = es
      BY <1>15, <3>1, AppendOne
    <3> HIDE DEF fs
    <3> QED BY <1>15, <2>4, <3>2
  <2> QED BY <2>2, <2>3, <2>4
<1> HIDE DEF fs
<1>17. \/ c \in Event /\ c.type = "configure" /\ c.role = v.role /\ c.full = v.full
       \/ ~configures
  BY <1>3, <1>13, ConfigureIsEvent DEF c, Receipt
<1>18. \/ configures /\ srv'.owes /\ events' = fs
       \/ configures /\ events' = Append(fs, c)
       \/ ~configures /\ events' = fs /\ srv'.owes = (v.owes /\ TRUE)
  <2>1. CASE ~configures
    <3>1. events' = fs \o <<>>
      BY <1>6, <2>1
    <3> QED BY <1>7, <1>16, <2>1, <3>1
  <2>2. CASE configures /\ srv' = [v EXCEPT !.owes = TRUE] /\ events' = fs
    <3>1. DOMAIN v = Views
      BY <1>3 DEF Receipt, IsView
    <3> QED BY <2>2, <3>1 DEF Views
  <2>3. CASE configures /\ events' = fs \o <<c>>
    BY <1>16, <1>17, <2>3, AppendOne
  <2> HIDE DEF configures
  <2> QED BY <1>6, <2>1, <2>2, <2>3
<1>19. events' \in Seq(Event)
  BY <1>16, <1>17, <1>18, AppendFacts
<1>20. Answered(win', srv', events')
  <2>1. srv'.role = IF r.op = "role" THEN r.id ELSE IF r.op = "destroyRole" THEN 0 ELSE srv.role
    BY <1>3, <1>8 DEF Receipt
  <2>2. RoleReaches(win', srv')
    BY <1>9 DEF SentOK
  <2>3. r.op = "role" /\ kind.manager # "none" => \E e \in Elems(fs) : e \in Decorations(r.id)
    BY <1>15, <1>16
  <2>4. \/ /\ r.op \in Configuring \cup {"role"} /\ srv'.owes /\ events' = fs
        \/ /\ r.op \in Configuring \cup {"role"}
           /\ \E e \in Event : /\ e.type = "configure" /\ e.role = srv'.role /\ e.full = srv'.full
                               /\ events' = Append(fs, e)
        \/ /\ r.op \notin Configuring \cup {"role"} /\ events' = fs /\ srv'.full = srv.full
           /\ r.op # "destroyRole" => (srv'.owes <=> srv.owes)
    <3> HIDE DEF configures
    <3>1. CASE configures
      BY <1>5, <1>8, <1>17, <1>18, <3>1
    <3>2. CASE ~configures
      <4>1. srv'.full = srv.full
        BY <1>3, <1>5, <1>8, <3>2 DEF Receipt, Configuring
      <4>2. r.op # "destroyRole" => v.owes = srv.owes
        BY <1>3 DEF Receipt
      <4> QED BY <1>5, <1>18, <3>2, <4>1, <4>2
    <3> QED BY <3>1, <3>2
  <2> QED BY <1>1, <1>4, <1>16, <2>1, <2>2, <2>3, <2>4, ServedAnswers
<1>21. Answered(win, srv, events)'
  BY <1>2, <1>20, AnsweredNext
<1>22. Fresh(win'.sent, srv', calls')
  <2>1. Elems(win.sent) = {r} \cup Elems(win'.sent)
    BY <1>1, <1>4, ElemsTail DEF r
  <2>2. srv'.role <= calls
    <3>1. 0 <= calls
      BY SizeAssumption DEF WindowInv, SizeAssumption
    <3> QED BY <1>3, <1>8, <2>1, <3>1 DEF WindowInv, Fresh, Receipt
  <2> QED BY <1>2, <2>1, <2>2 DEF WindowInv, Fresh
<1>23. Told(win')
  BY <1>1, <1>4 DEF Told, Only, Fields
<1>24. calls' \in 0 .. MaxCalls /\ asked' \in Sizes \cup {0}
  BY <1>2 DEF WindowInv
<1> QED BY <1>9, <1>10, <1>14, <1>19, <1>21, <1>22, <1>23, <1>24 DEF WindowInv, Fine

-----------------------------------------------------------------------------
LEMMA WindowInvStep == WindowInv /\ [Next]_vars => WindowInv'
<1> SUFFICES ASSUME WindowInv, [Next]_vars PROVE WindowInv'
  OBVIOUS
<1>1. CASE Show
  BY <1>1, ShowKeeps
<1>2. CASE Hide
  BY <1>2, HideKeeps
<1>3. CASE Enter
  BY <1>3, EnterKeeps
<1>4. CASE Shadow
  BY <1>4, ShadowKeeps
<1>5. CASE Maximize \/ Restore
  BY <1>5, MaximizeKeeps
<1>6. CASE \E s \in Sizes : Leave(s) \/ Resize(s)
  BY <1>6, LeaveKeeps, ResizeKeeps
<1>7. CASE \E b \in BOOLEAN : Decorate(b)
  BY <1>7, DecorateKeeps
<1>8. CASE Paint
  BY <1>8, PaintKeeps
<1>9. CASE Dispatch
  BY <1>9, DispatchKeeps
<1>10. CASE Serve
  BY <1>10, ServeKeeps
<1>11. CASE SendOwed
  BY <1>11, SendOwedKeeps
<1>12. CASE ConfigureUnasked
  BY <1>12, ConfigureUnaskedKeeps
<1>13. CASE UNCHANGED vars
  <2>1. /\ win' = win /\ events' = events /\ srv' = srv /\ kind' = kind
        /\ calls' = calls /\ asked' = asked
    BY <1>13 DEF vars
  <2>2. Answered(win', srv', events')
    BY <2>1 DEF WindowInv
  <2>3. Answered(win, srv, events)'
    BY <2>1, <2>2, AnsweredNext
  <2> QED BY <2>1, <2>3 DEF WindowInv
<1> QED BY <1>1, <1>2, <1>3, <1>4, <1>5, <1>6, <1>7, <1>8, <1>9, <1>10, <1>11, <1>12, <1>13
     DEF Next

LEMMA WindowIsInv == Spec => []WindowInv
BY InitWindowInv, WindowInvStep, PTL DEF Spec

(* When nothing is on its way any more, what was to come has come.         *)
LEMMA AllReached ==
  ASSUME NEW w, NEW v, NEW es \in Seq(Event), Fine(w, v), Answered(w, v, es), w.sent = <<>>,
         ~v.owes, \A i \in DOMAIN es : es[i].type # "configure", w.role # 0
  PROVE  /\ v.role = w.role /\ w.fullscreen = w.monitor
         /\ ~w.sizeCommitPending => v.shadow = w.shadow
<1>1. v.role = w.role
  BY EndsEmpty DEF Fine, SentOK, RoleReaches
<1>2. v.full = w.monitor
  BY EndsEmpty DEF Fine, SentOK, FullReaches
<1>3. ~w.sizeCommitPending => v.shadow = w.shadow
  BY EndsEmpty DEF Fine, SentOK, ShadowReaches
<1>4. w.fullscreen = v.full
  <2>1. Ends(es, w.fullscreen, v.full, Sets(w.role, v.full), Configures(w.role))
    BY <1>1 DEF Answered, StateComes
  <2>2. \A i \in DOMAIN es : es[i] \notin Sets(w.role, v.full)
    BY DEF Sets, Configures
  <2> QED BY <2>1, <2>2 DEF Ends
<1> QED BY <1>1, <1>2, <1>3, <1>4

(* The window, its sizes and its counters keep their types, and so does    *)
(* what the compositor knows of them (wl_window.c; the bounds are those of *)
(* the model).                                                             *)
THEOREM WindowTypes == Spec => []TypeOK
<1>1. WindowInv => TypeOK
  BY DEF WindowInv, Fine, Good, IsWindow, ViewOK, IsView, TypeOK, Ids, Lengths
<1> QED BY <1>1, WindowIsInv, PTL

(* Whatever is resized, shown, decorated or shadowed in between: a commit  *)
(* of the surface, bare or by a swap, latches the size that the attached   *)
(* buffer was drawn for (sizeCommitPending and the bare commits of         *)
(* wl_window.c, and the swap of egl_context.c).                            *)
THEOREM BufferAlwaysMatches == Spec => []BufferMatches
<1>1. WindowInv => BufferMatches
  BY DEF WindowInv, Fine, Good, Fits, Staged, BufferMatches
<1> QED BY <1>1, WindowIsInv, PTL

(* The application is told of every size the window takes, by its own call *)
(* or by a configure (_glfwInputWindowSize in wl_window.c).                *)
THEOREM SizeAlwaysTold == Spec => []ToldSize
<1>1. WindowInv => ToldSize
  BY DEF WindowInv, Told, ToldSize
<1> QED BY <1>1, WindowIsInv, PTL

(* The shadow's subsurfaces outlive the role they hang on: in whatever     *)
(* order requests are sent and served, none is destroyed while mapped      *)
(* under a fullscreen toplevel (destroyShellObjects).                      *)
THEOREM ScanoutAlwaysSafe == Spec => []ScanoutSafe
<1>1. WindowInv => ScanoutSafe
  BY DEF WindowInv, ViewOK, ScanoutSafe
<1> QED BY <1>1, WindowIsInv, PTL

(* Once the compositor has answered, the window is fullscreen if and only  *)
(* if it should be, without decorations if it is, and the compositor shows *)
(* its shadow if and only if it should have one.                           *)
THEOREM IntentAlwaysReached == Spec => []IntentReached
<1>1. ASSUME WindowInv, Settled PROVE IntentReached
  <2>1. /\ win.sent = <<>> /\ ~srv.owes /\ ~win.dirty /\ win.role # 0 /\ win.visible
        /\ \A i \in DOMAIN events : events[i].type # "configure"
    BY <1>1 DEF Settled, Quiet, Answers
  <2>2. Fine(win, srv) /\ Answered(win, srv, events) /\ events \in Seq(Event)
    BY <1>1 DEF WindowInv
  <2>3. ~win.sizeCommitPending /\ win.shadow = Shaded(win) /\ (win.monitor => ~win.fallback)
    BY <2>1, <2>2 DEF Fine, Good, Fits, Staged, ShadowFits
  <2>4. win.fullscreen = win.monitor /\ srv.shadow = win.shadow
    BY <2>1, <2>2, <2>3, AllReached
  <2>5. Shaded(win) = (win.requested /\ ~win.fullscreen /\ ~win.maximized)
    BY DEF Shaded
  <2> QED BY <2>3, <2>4, <2>5 DEF IntentReached
<1>2. WindowInv => IntentReached
  BY <1>1 DEF IntentReached
<1> QED BY <1>2, WindowIsInv, PTL

(* When requests and events have run dry, no roundtrip blocks the loop, no *)
(* sync of an exit is waited for, a window with a role is shown, its size  *)
(* committed, and a size to restore is left only to a fullscreen or a      *)
(* hidden window (the waits of wl_window.c all end).                       *)
THEOREM NothingStaysOutstanding == Spec => []NothingOutstanding
<1>1. ASSUME WindowInv, Idle PROVE NothingOutstanding
  <2>1. win.sent = <<>> /\ events = <<>> /\ ~srv.owes /\ ~win.dirty
    BY <1>1 DEF Idle
  <2>2. Fine(win, srv) /\ Answered(win, srv, events) /\ events \in Seq(Event)
    BY <1>1 DEF WindowInv
  <2>3. Elems(win.sent) = {} /\ Elems(events) = {} /\ \A i \in DOMAIN events : FALSE
    BY <2>1 DEF Elems
  <2>4. ~win.blocked /\ win.sync = 0
    BY <2>2, <2>3 DEF Answered, RoundtripComes, DoneComes
  <2>5. win.role # 0 => win.visible
    BY <2>1, <2>2, <2>3 DEF Answered, ConfigureComes, Shows
  <2>6. win.visible => ~win.sizeCommitPending
    BY <2>1, <2>2 DEF Fine, Good, Fits, Staged
  <2>7. win.restore # 0 => win.monitor \/ win.role = 0
    <3>1. win.restore # 0 => win.fullscreen
      BY <2>2, <2>4 DEF Fine, Good, Fits, Staged
    <3>2. win.role # 0 => win.fullscreen = win.monitor
      BY <2>1, <2>2, <2>3, AllReached
    <3> QED BY <3>1, <3>2
  <2> QED BY <2>4, <2>5, <2>6, <2>7 DEF NothingOutstanding
<1>2. WindowInv => NothingOutstanding
  BY <1>1 DEF NothingOutstanding
<1> QED BY <1>2, WindowIsInv, PTL

-----------------------------------------------------------------------------
(* The size that was asked for.  Requests for the present role are live;   *)
(* what the compositor replies to them may bring another size.             *)
Live(s, i) == \A j \in DOMAIN s : j > i => s[j].op # "destroyRole"
Asking == Configuring \cup {"role"}
Replies(role) == {e \in Configures(role) : ~e.own}
Dones(id) == {e \in Event : e.type = "done" /\ e.id = id}
Syncs(id) == {r \in Request : r.op = "sync" /\ r.id = id}

(* Roles and syncs are numbered by the calls that made them.               *)
EventsUpTo(es, n) ==
  \A i \in DOMAIN es : /\ es[i].type = "configure" => es[i].role <= n
                       /\ es[i].type = "done" => es[i].id <= n
SyncsUpTo(s, n) == \A i \in DOMAIN s : s[i].op = "sync" => s[i].id <= n
AllDead(s) == \A i \in DOMAIN s : s[i].op \in Asking => ~Live(s, i)
Once(s, served, role) ==
  \A i \in DOMAIN s : s[i] \in RoleRequest(role) =>
     /\ served # role /\ Live(s, i)
     /\ \A k \in DOMAIN s : s[k] \in RoleRequest(role) => k = i
Numbered(w, v, es, n) ==
  /\ EventsUpTo(es, n) /\ SyncsUpTo(w.sent, n)
  /\ w.role = 0 => AllDead(w.sent)
  /\ w.role # 0 => Once(w.sent, v.role, w.role)

(* Either only a new role is still to be answered, which leaves the size   *)
(* as it is, or restores it, unless the window is maximized ...            *)
RoleAnswer(w, e) == ~e.full /\ e.max = w.maximized /\ (e.max \/ e.width = 0)
RoleIsAsked(w, r) == r.op = "role" /\ ~r.full /\ r.max = w.maximized
RoleAnswers(w, es) == \A i \in DOMAIN es : es[i] \in Replies(w.role) => RoleAnswer(w, es[i])
RoleAsks(w, s) == \A i \in DOMAIN s : s[i].op \in Asking /\ Live(s, i) => RoleIsAsked(w, s[i])
Right(w, size, l) == l \/ w.width = size \/ w.maximized \/ (w.fullscreen /\ w.restore # 0)

(* ... or the last that will be answered is an exit, before its sync is.   *)
ExitAnswered(w, es) ==
  /\ \E i \in DOMAIN es :
       /\ es[i] \in Replies(w.role) /\ ~es[i].full
       /\ \A k \in DOMAIN es : /\ k > i => es[k] \notin Replies(w.role)
                               /\ k < i => es[k] \notin Dones(w.sync)
  /\ AllDead(w.sent)
ExitAsked(w, es) ==
  /\ \E i \in DOMAIN w.sent :
       /\ w.sent[i].op = "unfull" /\ Live(w.sent, i)
       /\ \A k \in DOMAIN w.sent : /\ k > i => w.sent[k].op \notin Asking
                                   /\ k < i => w.sent[k] \notin Syncs(w.sync)
  /\ \A k \in DOMAIN es : es[k] \notin Dones(w.sync)
Exiting(w, es) == w.restore # 0 /\ w.sync # 0 /\ (ExitAnswered(w, es) \/ ExitAsked(w, es))
Wins(w, es, size, l) ==
  /\ w.restore # 0 => w.restore = size
  /\ \/ Right(w, size, l) /\ RoleAnswers(w, es) /\ RoleAsks(w, w.sent)
     \/ Exiting(w, es)

Counts == kind.prompt /\ asked # 0 /\ ~win.monitor
SizeInv ==
  /\ WindowInv /\ Numbered(win, srv, events, calls)
  /\ kind.prompt => ~srv.owes
  /\ Counts => Wins(win, events, asked, late)

LEMMA LiveAppend ==
  ASSUME NEW s \in Seq(Request), NEW r \in Request
  PROVE  LET t == Append(s, r)
         IN  /\ Live(t, Len(s) + 1)
             /\ r.op # "destroyRole" => \A i \in DOMAIN s : Live(t, i) <=> Live(s, i)
             /\ r.op = "destroyRole" => \A i \in DOMAIN s : ~Live(t, i)
<1> DEFINE t == Append(s, r)
<1>1. /\ Len(s) \in Nat /\ DOMAIN s = 1 .. Len(s) /\ DOMAIN t = 1 .. (Len(s) + 1)
      /\ t[Len(s) + 1] = r /\ \A i \in 1 .. Len(s) : t[i] = s[i]
  BY AppendFacts
<1> HIDE DEF t
<1>2. Live(t, Len(s) + 1)
  BY <1>1 DEF Live
<1>3. r.op = "destroyRole" => \A i \in DOMAIN s : ~Live(t, i)
  BY <1>1 DEF Live
<1>4. ASSUME r.op # "destroyRole", NEW i \in DOMAIN s PROVE Live(t, i) <=> Live(s, i)
  BY <1>1, <1>4 DEF Live
<1> QED BY <1>2, <1>3, <1>4 DEF t

LEMMA LiveTail ==
  ASSUME NEW s \in Seq(Request), s # <<>>
  PROVE  \A i \in DOMAIN Tail(s) : Live(Tail(s), i) <=> Live(s, i + 1)
<1> DEFINE t == Tail(s)
<1>1. /\ Len(s) \in Nat \ {0} /\ DOMAIN s = 1 .. Len(s) /\ DOMAIN t = 1 .. (Len(s) - 1)
      /\ \A i \in 1 .. (Len(s) - 1) : t[i] = s[i + 1]
  BY TailFacts
<1> HIDE DEF t
<1>2. ASSUME NEW i \in DOMAIN t, Live(t, i) PROVE Live(s, i + 1)
  <2> SUFFICES ASSUME NEW j \in DOMAIN s, j > i + 1 PROVE s[j].op # "destroyRole"
    BY DEF Live
  <2>1. j - 1 \in DOMAIN t /\ j - 1 > i /\ t[j - 1] = s[j]
    BY <1>1
  <2> QED BY <1>2, <2>1 DEF Live
<1>3. ASSUME NEW i \in DOMAIN t, Live(s, i + 1) PROVE Live(t, i)
  <2> SUFFICES ASSUME NEW j \in DOMAIN t, j > i PROVE t[j].op # "destroyRole"
    BY DEF Live
  <2>1. j + 1 \in DOMAIN s /\ j + 1 > i + 1 /\ t[j] = s[j + 1]
    BY <1>1
  <2> QED BY <1>3, <2>1 DEF Live
<1> QED BY <1>2, <1>3 DEF t

(* A request that is not about the role. *)
LEMMA StillNumbered ==
  ASSUME NEW w, NEW x, NEW v, NEW es \in Seq(Event), NEW n \in Nat, NEW m \in Nat, n <= m,
         Numbered(w, v, es, n), x.role = w.role, x.sent = w.sent, w.sent \in Seq(Request)
  PROVE  Numbered(x, v, es, m)
<1>1. EventsUpTo(es, m)
  <2> SUFFICES ASSUME NEW i \in DOMAIN es
               PROVE  /\ es[i].type = "configure" => es[i].role <= m
                      /\ es[i].type = "done" => es[i].id <= m
    BY DEF EventsUpTo
  <2>1. es[i] \in Event
    OBVIOUS
  <2>2. /\ es[i].type = "configure" => es[i].role \in Nat
        /\ es[i].type = "done" => es[i].id \in Nat
    BY <2>1 DEF Event, Ids
  <2> QED BY <2>2 DEF Numbered, EventsUpTo
<1>2. SyncsUpTo(x.sent, m)
  <2> SUFFICES ASSUME NEW i \in DOMAIN w.sent, w.sent[i].op = "sync" PROVE w.sent[i].id <= m
    BY DEF SyncsUpTo
  <2>1. w.sent[i] \in Request
    OBVIOUS
  <2>2. w.sent[i].id \in Nat
    BY <2>1 DEF Request, Ids, Configuring
  <2> QED BY <2>2 DEF Numbered, SyncsUpTo
<1> QED BY <1>1, <1>2 DEF Numbered

LEMMA SendIsNumbered ==
  ASSUME NEW w, NEW x, NEW v, NEW es \in Seq(Event), NEW n \in Nat,
         NEW r \in Request, Numbered(w, v, es, n), x.role = w.role, w.sent \in Seq(Request),
         x.sent = Append(w.sent, r), r.op \notin {"role", "destroyRole"},
         r.op = "sync" => r.id <= n, r.op \in Configuring => w.role # 0
  PROVE  Numbered(x, v, es, n)
<1> DEFINE s == w.sent
           t == Append(s, r)
<1>1. /\ Len(s) \in Nat /\ DOMAIN s = 1 .. Len(s) /\ DOMAIN t = 1 .. (Len(s) + 1)
      /\ t[Len(s) + 1] = r /\ \A i \in 1 .. Len(s) : t[i] = s[i]
      /\ \A i \in DOMAIN s : Live(t, i) <=> Live(s, i)
  BY AppendFacts, LiveAppend
<1>2. x.sent = t
  OBVIOUS
<1> HIDE DEF t
<1>3. SyncsUpTo(t, n)
  BY <1>1 DEF Numbered, SyncsUpTo
<1>4. w.role = 0 => AllDead(t)
  BY <1>1 DEF Numbered, AllDead, Asking
<1>5. r \notin RoleRequest(w.role)
  BY DEF RoleRequest
<1>6. ASSUME w.role # 0 PROVE Once(t, v.role, w.role)
  <2> DEFINE R == RoleRequest(w.role)
  <2>1. Once(s, v.role, w.role) /\ r \notin R
    BY <1>5, <1>6 DEF Numbered
  <2> HIDE DEF R
  <2>2. \A i \in DOMAIN t : t[i] \in R => i \in DOMAIN s /\ s[i] \in R
    BY <1>1, <2>1
  <2>3. \A i \in DOMAIN s : s[i] \in R =>
           v.role # w.role /\ Live(s, i) /\ \A k \in DOMAIN s : s[k] \in R => k = i
    BY <2>1 DEF Once, R
  <2>4. \A i \in DOMAIN t : t[i] \in R =>
           v.role # w.role /\ Live(t, i) /\ \A k \in DOMAIN t : t[k] \in R => k = i
    BY <1>1, <2>2, <2>3
  <2> QED BY <2>4 DEF Once, R
<1> QED BY <1>2, <1>3, <1>4, <1>6 DEF Numbered

(* What a call leaves alone, and what it adds to the requests.             *)
Alike(w, x) ==
  /\ x.role = w.role /\ x.width = w.width /\ x.restore = w.restore /\ x.sync = w.sync
  /\ x.fullscreen = w.fullscreen /\ x.maximized = w.maximized

LEMMA StillWins ==
  ASSUME NEW w, NEW x, NEW es, NEW size, NEW l, Wins(w, es, size, l), Alike(w, x), x.sent = w.sent
  PROVE  Wins(x, es, size, l)
BY DEF Wins, Alike, Exiting, ExitAnswered, ExitAsked, RoleAnswers, RoleAsks, Right, RoleAnswer,
       RoleIsAsked

LEMMA AsksAppend ==
  ASSUME NEW s \in Seq(Request), NEW r \in Request, r.op \notin Asking \cup {"destroyRole"}
  PROVE  /\ AllDead(s) => AllDead(Append(s, r))
         /\ \A w : RoleAsks(w, s) => RoleAsks(w, Append(s, r))
<1> DEFINE t == Append(s, r)
<1>1. /\ Len(s) \in Nat /\ DOMAIN s = 1 .. Len(s) /\ DOMAIN t = 1 .. (Len(s) + 1)
      /\ t[Len(s) + 1] = r /\ \A i \in 1 .. Len(s) : t[i] = s[i]
      /\ \A i \in DOMAIN s : Live(t, i) <=> Live(s, i)
  BY AppendFacts, LiveAppend
<1> HIDE DEF t
<1>2. AllDead(s) => AllDead(t)
  BY <1>1 DEF AllDead
<1>3. ASSUME NEW w, RoleAsks(w, s) PROVE RoleAsks(w, t)
  BY <1>1, <1>3 DEF RoleAsks
<1> QED BY <1>2, <1>3 DEF t

LEMMA SendWins ==
  ASSUME NEW w, NEW x, NEW es, NEW size, NEW l, Wins(w, es, size, l), Alike(w, x),
         w.sent \in Seq(Request), NEW r \in Request, x.sent = Append(w.sent, r),
         r.op \notin Asking \cup {"destroyRole"}
  PROVE  Wins(x, es, size, l)
<1> DEFINE s == w.sent
           t == Append(s, r)
<1>1. /\ Len(s) \in Nat /\ DOMAIN s = 1 .. Len(s) /\ DOMAIN t = 1 .. (Len(s) + 1)
      /\ t[Len(s) + 1] = r /\ \A i \in 1 .. Len(s) : t[i] = s[i]
      /\ \A i \in DOMAIN s : Live(t, i) <=> Live(s, i)
  BY AppendFacts, LiveAppend
<1>2. x.sent = t /\ (AllDead(s) => AllDead(t)) /\ (RoleAsks(w, s) => RoleAsks(w, t))
  BY AsksAppend
<1> HIDE DEF t
<1>3. x.restore # 0 => x.restore = size
  BY DEF Wins, Alike
<1>4. ASSUME Right(w, size, l), RoleAnswers(w, es), RoleAsks(w, s) PROVE Wins(x, es, size, l)
  BY <1>2, <1>3, <1>4 DEF Wins, Alike, RoleAnswers, RoleAsks, Right, RoleAnswer, RoleIsAsked
<1>5. ASSUME w.restore # 0, w.sync # 0, ExitAnswered(w, es) PROVE Wins(x, es, size, l)
  BY <1>2, <1>3, <1>5 DEF Wins, Exiting, ExitAnswered, Alike
<1>6. ASSUME w.restore # 0, w.sync # 0, ExitAsked(w, es) PROVE Wins(x, es, size, l)
  <2>1. PICK i \in DOMAIN s :
          /\ s[i].op = "unfull" /\ Live(s, i)
          /\ \A k \in DOMAIN s : /\ k > i => s[k].op \notin Asking
                                 /\ k < i => s[k] \notin Syncs(w.sync)
    BY <1>6 DEF ExitAsked
  <2>2. i \in DOMAIN t /\ t[i].op = "unfull" /\ Live(t, i)
    BY <1>1, <2>1
  <2>3. ASSUME NEW k \in DOMAIN t
        PROVE  (k > i => t[k].op \notin Asking) /\ (k < i => t[k] \notin Syncs(w.sync))
    <3>1. CASE k \in DOMAIN s
      BY <1>1, <2>1, <3>1
    <3>2. CASE k = Len(s) + 1
      BY <1>1, <2>1, <3>2
    <3> QED BY <1>1, <3>1, <3>2
  <2>4. ExitAsked(x, es)
    BY <1>2, <1>6, <2>2, <2>3 DEF ExitAsked, Alike
  <2> QED BY <1>3, <1>6, <2>4 DEF Wins, Exiting, Alike
<1> QED BY <1>4, <1>5, <1>6 DEF Wins, Exiting

(* An event that is no reply and no end of the wait for the exit.          *)
LEMMA EventWins ==
  ASSUME NEW w, NEW es \in Seq(Event), NEW e \in Event, NEW size, NEW l, Wins(w, es, size, l),
         e \notin Replies(w.role), e \notin Dones(w.sync)
  PROVE  Wins(w, Append(es, e), size, l)
<1> DEFINE fs == Append(es, e)
<1>1. /\ Len(es) \in Nat /\ DOMAIN es = 1 .. Len(es) /\ DOMAIN fs = 1 .. (Len(es) + 1)
      /\ fs[Len(es) + 1] = e /\ \A i \in 1 .. Len(es) : fs[i] = es[i]
  BY AppendFacts
<1> HIDE DEF fs
<1>2. ASSUME RoleAnswers(w, es) PROVE RoleAnswers(w, fs)
  BY <1>1, <1>2 DEF RoleAnswers
<1>3. ASSUME ExitAnswered(w, es) PROVE ExitAnswered(w, fs)
  <2>1. PICK i \in DOMAIN es :
          /\ es[i] \in Replies(w.role) /\ ~es[i].full
          /\ \A k \in DOMAIN es : /\ k > i => es[k] \notin Replies(w.role)
                                  /\ k < i => es[k] \notin Dones(w.sync)
    BY <1>3 DEF ExitAnswered
  <2>2. i \in DOMAIN fs /\ fs[i] = es[i]
    BY <1>1, <2>1
  <2>3. ASSUME NEW k \in DOMAIN fs
        PROVE  (k > i => fs[k] \notin Replies(w.role)) /\ (k < i => fs[k] \notin Dones(w.sync))
    <3>1. CASE k \in DOMAIN es
      BY <1>1, <2>1, <3>1
    <3>2. CASE k = Len(es) + 1
      BY <1>1, <2>1, <3>2
    <3> QED BY <1>1, <3>1, <3>2
  <2> QED BY <1>3, <2>1, <2>2, <2>3 DEF ExitAnswered
<1>4. ASSUME ExitAsked(w, es) PROVE ExitAsked(w, fs)
  BY <1>1, <1>4 DEF ExitAsked
<1> QED BY <1>2, <1>3, <1>4 DEF Wins, Exiting, fs

LEMMA EventIsNumbered ==
  ASSUME NEW w, NEW v, NEW es \in Seq(Event), NEW e \in Event, NEW n, Numbered(w, v, es, n),
         e.type = "configure" => e.role <= n, e.type = "done" => e.id <= n
  PROVE  Numbered(w, v, Append(es, e), n)
BY AppendFacts DEF Numbered, EventsUpTo

(* The compositor serves the head of the line.                             *)
LEMMA AsksTail ==
  ASSUME NEW s \in Seq(Request), s # <<>>
  PROVE  /\ AllDead(s) => AllDead(Tail(s))
         /\ \A w : RoleAsks(w, s) => RoleAsks(w, Tail(s))
<1> DEFINE t == Tail(s)
<1>1. /\ Len(s) \in Nat \ {0} /\ DOMAIN s = 1 .. Len(s) /\ DOMAIN t = 1 .. (Len(s) - 1)
      /\ \A i \in 1 .. (Len(s) - 1) : t[i] = s[i + 1]
      /\ \A i \in DOMAIN t : Live(t, i) <=> Live(s, i + 1)
  BY TailFacts, LiveTail
<1> HIDE DEF t
<1>2. \A i \in DOMAIN t : i + 1 \in DOMAIN s /\ t[i] = s[i + 1]
  BY <1>1
<1>3. AllDead(s) => AllDead(t)
  BY <1>1, <1>2 DEF AllDead
<1>4. ASSUME NEW w, RoleAsks(w, s) PROVE RoleAsks(w, t)
  BY <1>1, <1>2, <1>4 DEF RoleAsks
<1> QED BY <1>3, <1>4 DEF t

LEMMA TailIsNumbered ==
  ASSUME NEW w, NEW x, NEW v, NEW u, NEW es \in Seq(Event), NEW n \in Nat,
         Numbered(w, v, es, n), x.role = w.role, w.sent \in Seq(Request), w.sent # <<>>,
         x.sent = Tail(w.sent), w.role \in Ids,
         u.role \in {v.role, 0} \/ (Head(w.sent).op = "role" /\ u.role = Head(w.sent).id)
  PROVE  Numbered(x, u, es, n)
<1> DEFINE s == w.sent
           t == Tail(s)
<1>1. /\ Len(s) \in Nat \ {0} /\ DOMAIN s = 1 .. Len(s) /\ DOMAIN t = 1 .. (Len(s) - 1)
      /\ \A i \in 1 .. (Len(s) - 1) : t[i] = s[i + 1]
      /\ \A i \in DOMAIN t : Live(t, i) <=> Live(s, i + 1)
      /\ Head(s) = s[1] /\ Head(s) \in Request
  BY TailFacts, LiveTail
<1>2. x.sent = t /\ (w.role = 0 => AllDead(t))
  BY AsksTail DEF Numbered
<1> HIDE DEF t
<1>3. \A i \in DOMAIN t : i + 1 \in DOMAIN s /\ t[i] = s[i + 1]
  BY <1>1
<1>4. SyncsUpTo(t, n)
  BY <1>3 DEF Numbered, SyncsUpTo
<1>5. ASSUME w.role # 0 PROVE Once(t, u.role, w.role)
  <2> DEFINE R == RoleRequest(w.role)
  <2>1. \A i \in DOMAIN s : s[i] \in R =>
           v.role # w.role /\ Live(s, i) /\ \A k \in DOMAIN s : s[k] \in R => k = i
    BY <1>5 DEF Once, Numbered
  <2>2. Head(s).op = "role" /\ Head(s).id = w.role => s[1] \in R
    BY <1>1 DEF RoleRequest
  <2> HIDE DEF R
  <2> SUFFICES ASSUME NEW i \in DOMAIN t, t[i] \in R
               PROVE  u.role # w.role /\ Live(t, i) /\ \A k \in DOMAIN t : t[k] \in R => k = i
    BY DEF Once, R
  <2>3. i + 1 \in DOMAIN s /\ s[i + 1] \in R /\ 1 \in DOMAIN s /\ i + 1 # 1
    BY <1>1, <1>3
  <2>4. v.role # w.role /\ Live(s, i + 1) /\ \A k \in DOMAIN s : s[k] \in R => k = i + 1
    BY <2>1, <2>3
  <2>5. s[1] \notin R
    BY <2>3, <2>4
  <2>6. u.role # w.role
    BY <1>5, <2>2, <2>4, <2>5
  <2>7. ASSUME NEW k \in DOMAIN t, t[k] \in R PROVE k = i
    <3>1. k + 1 \in DOMAIN s /\ s[k + 1] \in R
      BY <1>3, <2>7
    <3>2. k + 1 = i + 1
      BY <2>4, <3>1
    <3> QED BY <1>1, <3>2
  <2> QED BY <1>1, <2>4, <2>6, <2>7
<1> QED BY <1>2, <1>4, <1>5 DEF Numbered

(* One that asks for nothing, as answered with events gs.                  *)
LEMMA ExitShift ==
  ASSUME NEW s \in Seq(Request), s # <<>>, NEW id, NEW i \in DOMAIN s, i # 1,
         s[i].op = "unfull", Live(s, i),
         \A k \in DOMAIN s : /\ k > i => s[k].op \notin Asking
                             /\ k < i => s[k] \notin Syncs(id)
  PROVE  /\ i - 1 \in DOMAIN Tail(s) /\ Tail(s)[i - 1].op = "unfull" /\ Live(Tail(s), i - 1)
         /\ \A k \in DOMAIN Tail(s) : /\ k > i - 1 => Tail(s)[k].op \notin Asking
                                      /\ k < i - 1 => Tail(s)[k] \notin Syncs(id)
         /\ Head(s) \notin Syncs(id)
<1> DEFINE t == Tail(s)
<1>1. /\ Len(s) \in Nat \ {0} /\ DOMAIN s = 1 .. Len(s) /\ DOMAIN t = 1 .. (Len(s) - 1)
      /\ \A k \in 1 .. (Len(s) - 1) : t[k] = s[k + 1]
      /\ \A k \in DOMAIN t : Live(t, k) <=> Live(s, k + 1)
      /\ Head(s) = s[1]
  BY TailFacts, LiveTail
<1> HIDE DEF t
<1>2. i - 1 \in DOMAIN t /\ i - 1 + 1 = i
  BY <1>1
<1>3. t[i - 1].op = "unfull" /\ Live(t, i - 1)
  BY <1>1, <1>2
<1>4. \A k \in DOMAIN t : k + 1 \in DOMAIN s /\ t[k] = s[k + 1] /\ (k > i - 1 => k + 1 > i)
                          /\ (k < i - 1 => k + 1 < i)
  BY <1>1
<1>5. 1 \in DOMAIN s /\ 1 < i
  BY <1>1
<1> QED BY <1>1, <1>2, <1>3, <1>4, <1>5 DEF t

LEMMA ExitAskedTail ==
  ASSUME NEW w, NEW x, NEW es, ExitAsked(w, es), Alike(w, x), w.sent \in Seq(Request),
         w.sent # <<>>, x.sent = Tail(w.sent),
         ~(Head(w.sent).op = "unfull" /\ Live(w.sent, 1))
  PROVE  ExitAsked(x, es) /\ Head(w.sent) \notin Syncs(w.sync)
<1>1. PICK i \in DOMAIN w.sent :
        /\ w.sent[i].op = "unfull" /\ Live(w.sent, i)
        /\ \A k \in DOMAIN w.sent : /\ k > i => w.sent[k].op \notin Asking
                                    /\ k < i => w.sent[k] \notin Syncs(w.sync)
  BY DEF ExitAsked
<1>2. i # 1
  BY <1>1, TailFacts
<1>3. /\ i - 1 \in DOMAIN x.sent /\ x.sent[i - 1].op = "unfull" /\ Live(x.sent, i - 1)
      /\ \A k \in DOMAIN x.sent : /\ k > i - 1 => x.sent[k].op \notin Asking
                                  /\ k < i - 1 => x.sent[k] \notin Syncs(w.sync)
      /\ Head(w.sent) \notin Syncs(w.sync)
  BY <1>1, <1>2, ExitShift
<1> QED BY <1>3 DEF ExitAsked, Alike

LEMMA TailWins ==
  ASSUME NEW w, NEW x, NEW es, NEW size, NEW l, Wins(w, es, size, l), Alike(w, x),
         w.sent \in Seq(Request), w.sent # <<>>, x.sent = Tail(w.sent),
         ~(Head(w.sent).op = "unfull" /\ Live(w.sent, 1))
  PROVE  Wins(x, es, size, l)
<1>1. x.restore # 0 => x.restore = size
  BY DEF Wins, Alike
<1>2. ASSUME Right(w, size, l), RoleAnswers(w, es), RoleAsks(w, w.sent) PROVE Wins(x, es, size, l)
  <2>1. RoleAsks(w, x.sent)
    BY <1>2, AsksTail
  <2> QED BY <1>1, <1>2, <2>1 DEF Wins, Alike, RoleAnswers, RoleAsks, Right, RoleAnswer, RoleIsAsked
<1>3. ASSUME w.restore # 0, w.sync # 0, ExitAnswered(w, es) PROVE Wins(x, es, size, l)
  <2>1. AllDead(x.sent)
    BY <1>3, AsksTail DEF ExitAnswered
  <2> QED BY <1>1, <1>3, <2>1 DEF Wins, Exiting, ExitAnswered, Alike
<1>4. ASSUME w.restore # 0, w.sync # 0, ExitAsked(w, es) PROVE Wins(x, es, size, l)
  <2>1. ExitAsked(x, es)
    BY <1>4, ExitAskedTail
  <2> QED BY <1>1, <1>4, <2>1 DEF Wins, Exiting, Alike
<1> QED BY <1>2, <1>3, <1>4 DEF Wins, Exiting

(* A sync is answered when all before it has been.                         *)
LEMMA SyncWins ==
  ASSUME NEW w, NEW x, NEW es \in Seq(Event), NEW size, NEW l, Wins(w, es, size, l), Alike(w, x),
         w.sent \in Seq(Request), w.sent # <<>>, x.sent = Tail(w.sent),
         NEW e \in Event, e.type = "done", Head(w.sent).op = "sync", e.id = Head(w.sent).id
  PROVE  Wins(x, Append(es, e), size, l)
<1>1. Wins(x, es, size, l)
  BY TailWins
<1>2. e \notin Replies(x.role)
  BY DEF Replies, Configures
<1>3. CASE e \notin Dones(x.sync)
  BY <1>1, <1>2, <1>3, EventWins
<1>4. CASE e \in Dones(x.sync)
  <2> DEFINE fs == Append(es, e)
  <2>1. /\ Len(es) \in Nat /\ DOMAIN es = 1 .. Len(es) /\ DOMAIN fs = 1 .. (Len(es) + 1)
        /\ fs[Len(es) + 1] = e /\ \A i \in 1 .. Len(es) : fs[i] = es[i]
    BY AppendFacts
  <2> HIDE DEF fs
  <2>2. Head(w.sent) \in Syncs(w.sync)
    BY <1>4, TailFacts DEF Dones, Syncs, Alike
  <2>3. ~ExitAsked(w, es)
    BY <2>2, ExitAskedTail
  <2>4. ASSUME RoleAnswers(x, es) PROVE RoleAnswers(x, fs)
    BY <1>2, <2>1, <2>4 DEF RoleAnswers
  <2>5. ASSUME ExitAnswered(x, es) PROVE ExitAnswered(x, fs)
    <3>1. PICK i \in DOMAIN es :
            /\ es[i] \in Replies(x.role) /\ ~es[i].full
            /\ \A k \in DOMAIN es : /\ k > i => es[k] \notin Replies(x.role)
                                    /\ k < i => es[k] \notin Dones(x.sync)
      BY <2>5 DEF ExitAnswered
    <3>2. i \in DOMAIN fs /\ fs[i] = es[i]
      BY <2>1, <3>1
    <3>3. ASSUME NEW k \in DOMAIN fs
          PROVE  (k > i => fs[k] \notin Replies(x.role)) /\ (k < i => fs[k] \notin Dones(x.sync))
      <4>1. CASE k \in DOMAIN es
        BY <2>1, <3>1, <4>1
      <4>2. CASE k = Len(es) + 1
        BY <1>2, <2>1, <3>1, <4>2
      <4> QED BY <2>1, <4>1, <4>2
    <3> QED BY <2>5, <3>1, <3>2, <3>3 DEF ExitAnswered
  <2>6. /\ x.restore # 0 => x.restore = size
        /\ \/ Right(x, size, l) /\ RoleAnswers(x, es) /\ RoleAsks(x, x.sent)
           \/ x.restore # 0 /\ x.sync # 0 /\ ExitAnswered(w, es)
    <3>1. \/ Right(w, size, l) /\ RoleAnswers(w, es) /\ RoleAsks(w, w.sent)
          \/ w.restore # 0 /\ w.sync # 0 /\ ExitAnswered(w, es)
      BY <2>3 DEF Wins, Exiting
    <3>2. RoleAsks(w, w.sent) => RoleAsks(w, x.sent)
      BY AsksTail
    <3> QED BY <1>1, <3>1, <3>2
         DEF Wins, Alike, RoleAnswers, RoleAsks, Right, RoleAnswer, RoleIsAsked
  <2>7. ExitAnswered(w, es) => ExitAnswered(x, es)
    <3>1. AllDead(w.sent) => AllDead(x.sent)
      BY AsksTail
    <3> QED BY <3>1 DEF ExitAnswered, Alike
  <2> QED BY <2>4, <2>5, <2>6, <2>7 DEF Wins, Exiting, fs
<1> QED BY <1>3, <1>4

(* A request for a state is answered by a configure with that state; one   *)
(* for a role that is destroyed later in the line does not reach the new.  *)
LEMMA DeadIsForAnother ==
  ASSUME NEW w, NEW v, NEW es, NEW n, IsWindow(w), RoleReaches(w, v), Numbered(w, v, es, n),
         w.sent # <<>>, Head(w.sent).op \in Asking, ~Live(w.sent, 1), w.role # 0,
         NEW c \in Event, c.type = "configure",
         IF Head(w.sent).op = "role" THEN c.role = Head(w.sent).id ELSE c.role = v.role
  PROVE  c.role # w.role
<1> DEFINE s == w.sent
           r == Head(s)
<1>1. s \in Seq(Request) /\ r = s[1] /\ r \in Request /\ 1 \in DOMAIN s
  BY TailFacts DEF IsWindow
<1>2. PICK d \in DOMAIN s : d > 1 /\ s[d].op = "destroyRole"
  BY DEF Live
<1>3. s[d] \in Ops({"role", "destroyRole"})
  BY <1>1, <1>2 DEF Ops
<1>4. PICK j \in DOMAIN s : s[j] \in RoleRequest(w.role)
  BY <1>3 DEF RoleReaches, Ends
<1>5. v.role # w.role
  BY <1>4 DEF Numbered, Once
<1>6. ASSUME r.op = "role", r.id = w.role PROVE FALSE
  <2>1. s[1] \in RoleRequest(w.role)
    BY <1>1, <1>6 DEF RoleRequest
  <2>2. Live(s, 1)
    BY <1>1, <2>1 DEF Numbered, Once
  <2> QED BY <2>2
<1> QED BY <1>5, <1>6

LEMMA AskWins ==
  ASSUME NEW w, NEW x, NEW v, NEW es \in Seq(Event), NEW n, NEW size, NEW l, Wins(w, es, size, l),
         Alike(w, x), IsWindow(w), RoleReaches(w, v), Numbered(w, v, es, n),
         w.sent # <<>>, x.sent = Tail(w.sent), Head(w.sent).op \in Asking,
         NEW c \in Event, c.type = "configure", ~c.own,
         IF Head(w.sent).op = "role" THEN c.role = Head(w.sent).id ELSE c.role = v.role,
         Head(w.sent).op = "unfull" => ~c.full,
         Head(w.sent).op = "role" =>
            /\ c.full = Head(w.sent).full /\ c.max = Head(w.sent).max
            /\ ~c.full /\ ~c.max => c.width = 0
  PROVE  Wins(x, Append(es, c), size, l)
<1> DEFINE s == w.sent
           r == Head(s)
           fs == Append(es, c)
<1>1. /\ s \in Seq(Request) /\ r = s[1] /\ r \in Request /\ 1 \in DOMAIN s
      /\ Len(s) \in Nat \ {0} /\ DOMAIN s = 1 .. Len(s) /\ DOMAIN Tail(s) = 1 .. (Len(s) - 1)
      /\ \A i \in 1 .. (Len(s) - 1) : Tail(s)[i] = s[i + 1]
  BY TailFacts DEF IsWindow
<1>2. /\ Len(es) \in Nat /\ DOMAIN es = 1 .. Len(es) /\ DOMAIN fs = 1 .. (Len(es) + 1)
      /\ fs[Len(es) + 1] = c /\ \A i \in 1 .. Len(es) : fs[i] = es[i]
  BY AppendFacts
<1>3. c \notin Dones(x.sync) /\ c.role # 0
  BY DEF Dones, Event
<1>4. w.role = 0 => ~Live(s, 1)
  BY <1>1 DEF Numbered, AllDead
<1>5. x.restore # 0 => x.restore = size
  BY DEF Wins, Alike
<1>6. CASE ~Live(s, 1)
  <2>1. Wins(x, es, size, l)
    BY <1>1, <1>6, TailWins
  <2>2. c.role # w.role
    <3>1. CASE w.role = 0
      BY <1>3, <3>1
    <3>2. CASE w.role # 0
      BY <1>6, <3>2, DeadIsForAnother
    <3> QED BY <3>1, <3>2
  <2>3. c \notin Replies(x.role)
    BY <2>2 DEF Replies, Configures, Alike
  <2> QED BY <1>3, <2>1, <2>3, EventWins
<1>7. CASE Live(s, 1)
  <2> HIDE DEF fs
  <2>1. w.role # 0
    BY <1>4, <1>7
  <2>2. ASSUME Right(w, size, l), RoleAnswers(w, es), RoleAsks(w, s) PROVE Wins(x, fs, size, l)
    <3>1. RoleIsAsked(w, r)
      BY <1>1, <1>7, <2>2 DEF RoleAsks
    <3>2. c.max \in BOOLEAN
      BY DEF Event
    <3>3. RoleAnswer(w, c)
      BY <3>1, <3>2 DEF RoleIsAsked, RoleAnswer
    <3>4. RoleAnswers(w, fs)
      BY <1>2, <2>2, <3>3 DEF RoleAnswers
    <3>5. RoleAsks(w, x.sent)
      BY <1>1, <2>2, AsksTail
    <3> QED BY <1>5, <2>2, <3>4, <3>5
         DEF Wins, Alike, RoleAnswers, RoleAsks, Right, RoleAnswer, RoleIsAsked
  <2>3. ~ExitAnswered(w, es)
    BY <1>1, <1>7 DEF ExitAnswered, AllDead
  <2>4. ASSUME w.restore # 0, w.sync # 0, ExitAsked(w, es) PROVE Wins(x, fs, size, l)
    <3>1. PICK i \in DOMAIN s :
            /\ s[i].op = "unfull" /\ Live(s, i)
            /\ \A k \in DOMAIN s : /\ k > i => s[k].op \notin Asking
                                   /\ k < i => s[k] \notin Syncs(w.sync)
      BY <2>4 DEF ExitAsked
    <3>2. \A k \in DOMAIN es : es[k] \notin Dones(w.sync)
      BY <2>4 DEF ExitAsked
    <3>3. CASE i # 1
      <4>1. /\ i - 1 \in DOMAIN x.sent /\ x.sent[i - 1].op = "unfull" /\ Live(x.sent, i - 1)
            /\ \A k \in DOMAIN x.sent : /\ k > i - 1 => x.sent[k].op \notin Asking
                                        /\ k < i - 1 => x.sent[k] \notin Syncs(w.sync)
        <5>1. s \in Seq(Request) /\ s # <<>> /\ x.sent = Tail(s)
          BY <1>1
        <5> HIDE DEF s
        <5> QED BY <3>1, <3>3, <5>1, ExitShift
      <4>2. \A k \in DOMAIN fs : fs[k] \notin Dones(w.sync)
        BY <1>2, <1>3, <3>2 DEF Alike
      <4>3. ExitAsked(x, fs)
        BY <4>1, <4>2 DEF ExitAsked, Alike
      <4> QED BY <1>5, <2>4, <4>3 DEF Wins, Exiting, Alike
    <3>4. CASE i = 1
      <4>1. \A k \in DOMAIN s : s[k].op \notin {"role", "destroyRole"}
        <5> SUFFICES ASSUME NEW k \in DOMAIN s PROVE s[k].op \notin {"role", "destroyRole"}
          OBVIOUS
        <5>1. CASE k = 1
          BY <3>1, <3>4, <5>1
        <5>2. CASE k # 1
          <6>1. k > 1
            BY <1>1, <5>2
          <6> QED BY <1>7, <3>1, <3>4, <6>1 DEF Live, Asking
        <5> QED BY <5>1, <5>2
      <4>2. v.role = w.role
        <5>1. \A k \in DOMAIN s : s[k] \notin RoleRequest(w.role)
          BY <4>1 DEF RoleRequest
        <5> QED BY <2>1, <5>1 DEF RoleReaches, Ends
      <4>3. c \in Replies(w.role) /\ ~c.full
        BY <1>1, <3>1, <3>4, <4>2 DEF Replies, Configures
      <4>4. AllDead(x.sent)
        <5>1. \A k \in DOMAIN Tail(s) : k + 1 \in DOMAIN s /\ k + 1 > 1 /\ Tail(s)[k] = s[k + 1]
          BY <1>1
        <5>2. \A k \in DOMAIN s : k > 1 => s[k].op \notin Asking
          BY <3>1, <3>4
        <5> QED BY <5>1, <5>2 DEF AllDead
      <4>5. ExitAnswered(x, fs)
        <5>1. Len(es) + 1 \in DOMAIN fs
          BY <1>2
        <5>2. ASSUME NEW k \in DOMAIN fs
              PROVE  (k > Len(es) + 1 => fs[k] \notin Replies(w.role))
                     /\ (k < Len(es) + 1 => fs[k] \notin Dones(w.sync))
          BY <1>2, <3>2
        <5> QED BY <1>2, <4>3, <4>4, <5>1, <5>2 DEF ExitAnswered, Alike
      <4> QED BY <1>5, <2>4, <4>5 DEF Wins, Exiting, Alike
    <3> QED BY <3>3, <3>4
  <2> QED BY <2>2, <2>3, <2>4 DEF Wins, Exiting, fs
<1> QED BY <1>6, <1>7

(* What the calls of the application add to the line.                      *)
Adding(w, x, ops) ==
  x.sent = w.sent \/ \E r \in Request : r.op \in ops /\ x.sent = Append(w.sent, r)

LEMMA CommitAdds ==
  ASSUME NEW w, NEW x, IsWindow(x), x.sent = w.sent
  PROVE  Adding(w, Commit(x), {"commit"}) /\ Adding(w, BareCommit(x), {"commit"})
<1>1. CommitRequest(x) \in Request /\ CommitRequest(x).op = "commit"
      /\ Commit(x).sent = Append(w.sent, CommitRequest(x))
  BY CommitIsRequest, Commits DEF CommitRequest
<1>2. Adding(w, Commit(x), {"commit"})
  BY <1>1 DEF Adding
<1>3. BareCommit(x) = x \/ BareCommit(x) = Commit(x)
  BY DEF BareCommit
<1> QED BY <1>2, <1>3 DEF Adding

LEMMA DecorateAdds ==
  ASSUME NEW w, IsWindow(w), NEW enabled \in BOOLEAN
  PROVE  Adding(w, SetWindowDecorated(w, enabled), {"mode", "commit"})
<1> DEFINE x == SetWindowDecorated(w, enabled)
           a == [w EXCEPT !.decorated = enabled]
           b == IF enabled THEN CreateFallbackDecorations(a) ELSE DestroyFallbackDecorations(a)
           r == [op |-> "mode", ssd |-> enabled]
<1>0. DOMAIN w = Fields
  BY DEF IsWindow
<1>1. x = a \/ x = Send(a, r) \/ x = BareCommit(b)
  BY DEF SetWindowDecorated
<1>2. r \in Request /\ r.op = "mode"
  BY DEF Request
<1>3. a.sent = w.sent /\ DOMAIN a = Fields /\ Only(w, a, {"decorated"}) /\ a.decorated = enabled
  BY <1>0 DEF Fields, Only
<1> HIDE DEF x, a, r
<1>4. b.sent = w.sent /\ Only(a, b, {"fallback"}) /\ DOMAIN b = Fields
  BY <1>3 DEF Fields, Only, CreateFallbackDecorations, DestroyFallbackDecorations
<1> HIDE DEF b
<1>5. IsWindow(b)
  BY <1>3, <1>4 DEF IsWindow, Only, Fields
<1> DEFINE A == Adding(w, x, {"mode", "commit"})
<1>6. ASSUME x = a PROVE A
  BY <1>3, <1>6 DEF Adding
<1>7. ASSUME x = Send(a, r) PROVE A
  <2>1. x.sent = Append(w.sent, r)
    BY <1>3, <1>7, Sends
  <2> QED BY <1>2, <2>1 DEF Adding
<1>8. ASSUME x = BareCommit(b) PROVE A
  <2>1. Adding(w, BareCommit(b), {"commit"})
    BY <1>4, <1>5, CommitAdds
  <2> QED BY <1>8, <2>1 DEF Adding
<1>9. A
  BY <1>1, <1>6, <1>7, <1>8
<1> QED BY <1>9 DEF x

LEMMA ShadowAdds ==
  ASSUME NEW w, IsWindow(w)
  PROVE  Adding(w, SetWindowShadow(w), {"commit"})
<1> DEFINE x == SetWindowShadow(w)
           a == [w EXCEPT !.requested = TRUE]
           b == UpdateWindowShadow(a)
<1>0. DOMAIN w = Fields
  BY DEF IsWindow
<1>1. x = BareCommit(b) \/ x = b
  BY DEF SetWindowShadow
<1>2. a.sent = w.sent /\ DOMAIN a = Fields /\ Only(w, a, {"requested"}) /\ a.requested = TRUE
  BY <1>0 DEF Fields, Only
<1> HIDE DEF x, a
<1>3. IsWindow(a)
  BY <1>2 DEF IsWindow, Only, Fields
<1>4. b.sent = w.sent /\ Only(a, b, {"shadow"}) /\ b.shadow = ShadowFor(a)
  BY <1>2, <1>3, Shadows DEF Only, Fields
<1> HIDE DEF b
<1>5. b.shadow \in BOOLEAN
  BY <1>3, <1>4 DEF ShadowFor, IsWindow
<1>6. IsWindow(b)
  BY <1>3, <1>4, <1>5 DEF IsWindow, Only, Fields
<1>7. Adding(w, BareCommit(b), {"commit"})
  BY <1>4, <1>6, CommitAdds
<1> QED BY <1>1, <1>4, <1>7 DEF Adding, x

LEMMA PaintAdds ==
  ASSUME NEW w, IsWindow(w)
  PROVE  Adding(w, [SwapBuffers(MakeContextCurrent(w)) EXCEPT !.dirty = FALSE], {"commit"})
<1> DEFINE y == MakeContextCurrent(w)
           z == [y EXCEPT !.buffer = y.eglWidth]
           s == SwapBuffers(y)
           x == [s EXCEPT !.dirty = FALSE]
<1>1. y.sent = w.sent /\ Only(w, y, {"eglWidth", "resizePending"}) /\ y.eglWidth \in {w.width, w.eglWidth}
  BY DEF MakeContextCurrent, IsWindow, Only, Fields
<1>2. s = y \/ s = [Commit(z) EXCEPT !.sizeCommitPending = FALSE]
  BY DEF SwapBuffers
<1> HIDE DEF y
<1>3. z.sent = w.sent /\ Only(y, z, {"buffer"}) /\ z.buffer = y.eglWidth
  BY <1>1 DEF Only, Fields
<1> HIDE DEF z, s
<1>4. IsWindow(z)
  <2>1. z.buffer \in Nat
    BY <1>1, <1>3 DEF IsWindow, Lengths
  <2>2. Only(w, z, {"eglWidth", "resizePending", "buffer"})
    BY <1>1, <1>3, OnlyThen
  <2>3. z.eglWidth \in Lengths
    BY <1>1, <1>3 DEF IsWindow, Only, Fields
  <2> QED BY <2>1, <2>2, <2>3, <1>3 DEF IsWindow, Only, Fields
<1>5. Adding(w, Commit(z), {"commit"}) /\ DOMAIN Commit(z) = Fields
  BY <1>3, <1>4, CommitAdds, Commits DEF Only
<1>6. DOMAIN s = Fields /\ Adding(w, s, {"commit"})
  <2>1. CASE s = y
    BY <1>1, <2>1 DEF Only, Adding
  <2>2. CASE s = [Commit(z) EXCEPT !.sizeCommitPending = FALSE]
    <3>1. DOMAIN s = Fields /\ s.sent = Commit(z).sent
      BY <1>5, <2>2 DEF Fields
    <3> QED BY <1>5, <3>1 DEF Adding
  <2> QED BY <1>2, <2>1, <2>2
<1>7. x.sent = s.sent
  BY <1>6 DEF Fields
<1> HIDE DEF x
<1>8. Adding(w, x, {"commit"})
  BY <1>6, <1>7 DEF Adding
<1> QED BY <1>8 DEF x, s, y

LEMMA EnterAdds ==
  ASSUME NEW w, IsWindow(w)
  PROVE  LET x == EnterFullscreen(w)
         IN  x.sent = w.sent \/ (w.role # 0 /\ x.sent = Append(w.sent, [op |-> "full"]))
<1> DEFINE a == [w EXCEPT !.monitor = TRUE]
           b == IF a.role = 0 THEN a ELSE Send(a, [op |-> "full"])
           x == EnterFullscreen(w)
<1>1. x = w \/ x = b \/ x = DestroyFallbackDecorations(b)
  BY DEF EnterFullscreen, AcquireMonitor
<1>2. DOMAIN a = Fields /\ a.sent = w.sent /\ a.role = w.role
  BY DEF IsWindow, Fields
<1> HIDE DEF a
<1>3. DOMAIN b = Fields
      /\ (b.sent = w.sent \/ (w.role # 0 /\ b.sent = Append(w.sent, [op |-> "full"])))
  BY <1>2, Sends DEF Only
<1> HIDE DEF b, x
<1>4. DestroyFallbackDecorations(b).sent = b.sent
  BY <1>3 DEF DestroyFallbackDecorations, Fields
<1> QED BY <1>1, <1>3, <1>4 DEF x

LEMMA MaximizeAdds ==
  ASSUME NEW w, IsWindow(w), NEW x \in {MaximizeWindow(w), RestoreWindow(w)}
  PROVE  x.sent = w.sent \/ (w.role # 0 /\ Adding(w, x, {"max", "unmax"}))
<1>1. \/ x = w
      \/ w.role # 0 /\ (x = Send(w, [op |-> "max"]) \/ x = Send(w, [op |-> "unmax"]))
      \/ x = [w EXCEPT !.maximized = TRUE] \/ x = [w EXCEPT !.maximized = FALSE]
  BY DEF MaximizeWindow, RestoreWindow
<1>2. ASSUME NEW r \in {[op |-> "max"], [op |-> "unmax"]}, w.role # 0, x = Send(w, r)
      PROVE  Adding(w, x, {"max", "unmax"})
  <2>1. r \in Request /\ r.op \in {"max", "unmax"}
    BY <1>2 DEF Request, Configuring
  <2>2. x.sent = Append(w.sent, r)
    BY <1>2, Sends DEF IsWindow
  <2> QED BY <2>1, <2>2 DEF Adding
<1>3. ASSUME NEW b \in BOOLEAN, x = [w EXCEPT !.maximized = b] PROVE x.sent = w.sent
  BY <1>3 DEF IsWindow, Fields
<1> QED BY <1>1, <1>2, <1>3

LEMMA ResizesTo ==
  ASSUME NEW w, DOMAIN w = Fields, NEW size \in Nat \ {0}
  PROVE  LET x == ResizeWindow(w, size) IN Only(w, x, Resizing) /\ x.width = size
<1> DEFINE z == [w EXCEPT !.width = size]
           y == ResizeFramebuffer(z)
           x == ResizeWindow(w, size)
           u == UpdateWindowShadow(y)
<1>0. Larger(size, 1) = size
  BY DEF Larger
<1>1. (x = w /\ w.width = size) \/ x = u
  BY <1>0 DEF ResizeWindow
<1>2. Only(w, z, {"width"}) /\ z.width = size
  BY DEF Only, Fields
<1> HIDE DEF z
<1>3. Only(z, y, {"resizePending", "sizeCommitPending", "dirty"}) /\ y.width = size
  BY <1>2 DEF Only, Fields, ResizeFramebuffer
<1> HIDE DEF y
<1>4. Only(y, u, {"shadow"})
  BY <1>3 DEF Only, Fields, UpdateWindowShadow, HideRefyneShadowSurfaces, CreateRefyneWindowShadow
<1> HIDE DEF u, x
<1>5. Only(w, u, Resizing) /\ u.width = size
  <2>1. Only(w, y, {"width", "resizePending", "sizeCommitPending", "dirty"})
    BY <1>2, <1>3, OnlyThen
  <2>2. Only(w, u, Resizing)
    BY <2>1, <1>4, OnlyThen DEF Resizing
  <2> QED BY <1>3, <1>4, <2>2 DEF Only, Fields
<1> QED BY <1>1, <1>5, OnlySelf DEF x

(* A size is applied, but for a window that waits for the exit's configure. *)
Waits(w) == w.role # 0 /\ w.restore # 0
LEMMA SizeTo ==
  ASSUME NEW w, IsWindow(w), ~w.monitor, NEW size \in Sizes
  PROVE  LET x == SetWindowSize(w, size)
         IN  /\ Only(w, x, Sizing) /\ x.sent = w.sent
             /\ x.restore = IF w.restore # 0 THEN size ELSE 0
             /\ x.width = IF Waits(w) THEN w.width ELSE size
<1> DEFINE x == SetWindowSize(w, size)
           y == IF w.restore > 0 THEN [w EXCEPT !.restore = size] ELSE w
           z == ResizeWindow(y, size)
           u == IF ~kind.resizable /\ z.role # 0 THEN UpdateXdgSizeLimits(z) ELSE z
           d == IF u.visible THEN Damage(u) ELSE u
<1>0. DOMAIN w = Fields /\ w.restore \in Nat /\ size \in Nat \ {0}
  <2>1. w.restore \in Sizes \cup {0}
    BY DEF IsWindow
  <2> QED BY <2>1, SizesAreLengths DEF IsWindow
<1>1. \/ x = y /\ (Waits(w) \/ z.width = w.width)
      \/ x = d /\ ~Waits(w)
  BY <1>0 DEF SetWindowSize, Waits
<1>2. /\ Only(w, y, {"restore"}) /\ y.restore = (IF w.restore # 0 THEN size ELSE 0)
      /\ y.width = w.width /\ y.sent = w.sent
  BY <1>0 DEF Only, Fields
<1> HIDE DEF x, y
<1>3. Only(y, z, Resizing) /\ z.width = size
  BY <1>0, <1>2, ResizesTo DEF Only
<1> HIDE DEF z
<1>4. Only(z, u, {"limits"})
  BY <1>3 DEF Only, Fields, UpdateXdgSizeLimits
<1> HIDE DEF u
<1>5. Only(u, d, {"dirty"})
  BY <1>4 DEF Only, Fields, Damage
<1> HIDE DEF d
<1>6. Only(w, y, Sizing) /\ Only(w, d, Sizing)
  <2>1. Only(w, z, Sizing)
    BY <1>2, <1>3, OnlyThen DEF Sizing, Resizing
  <2>2. Only(w, u, Sizing)
    BY <1>4, <2>1, OnlyThen DEF Sizing, Resizing
  <2>3. Only(w, d, Sizing)
    BY <1>5, <2>2, OnlyThen DEF Sizing, Resizing
  <2>4. Only(w, y, Sizing)
    BY <1>2 DEF Only, Sizing
  <2> QED BY <2>3, <2>4
<1>7. d.restore = y.restore /\ d.width = size /\ d.sent = w.sent
  BY <1>2, <1>3, <1>4, <1>5 DEF Only, Fields, Resizing
<1>8. ~Waits(w) /\ x = y => w.width = size
  BY <1>1, <1>2, <1>3, <1>7
<1> QED BY <1>1, <1>2, <1>3, <1>6, <1>7 DEF x

LEMMA WindowedSizeTo ==
  ASSUME NEW w, IsWindow(w), ~w.monitor, NEW size \in Sizes
  PROVE  LET x == SetWindowedSize(w, size)
         IN  /\ Only(w, x, Sizing \cup {"told"}) /\ x.sent = w.sent
             /\ x.restore = IF w.restore # 0 THEN size ELSE 0
             /\ x.width = IF Waits(w) THEN w.width ELSE size
<1> DEFINE y == SetWindowSize(w, size)
           x == SetWindowedSize(w, size)
<1>1. x = y \/ x = TellSize(y)
  BY DEF SetWindowedSize
<1>2. /\ Only(w, y, Sizing) /\ y.sent = w.sent
      /\ y.restore = IF w.restore # 0 THEN size ELSE 0
      /\ y.width = IF Waits(w) THEN w.width ELSE size
  BY SizeTo
<1> HIDE DEF x, y
<1>3. Only(y, TellSize(y), {"told"})
  BY <1>2 DEF TellSize, Only, Fields
<1>4. Only(w, y, Sizing \cup {"told"}) /\ Only(w, TellSize(y), Sizing \cup {"told"})
  <2>1. Only(w, TellSize(y), Sizing \cup {"told"})
    BY <1>2, <1>3, OnlyThen
  <2>2. Only(w, y, Sizing \cup {"told"})
    BY <1>2 DEF Only
  <2> QED BY <2>1, <2>2
<1> QED BY <1>1, <1>2, <1>3, <1>4 DEF Only, Fields, x

(* An exit asks for it, and for the sync that ends the wait.               *)
LEMMA LeavesTo ==
  ASSUME NEW w, IsWindow(w), NEW size \in Sizes, NEW id
  PROVE  LET x == LeaveFullscreen(w, size, id)
             y == IF w.monitor THEN x ELSE TellSize(x)
         IN  /\ y.role = w.role /\ y.fullscreen = w.fullscreen /\ y.maximized = w.maximized
             /\ w.monitor /\ w.role # 0 =>
                  /\ y.restore = size /\ y.sync = id /\ y.width = w.width
                  /\ y.sent = Append(Append(w.sent, [op |-> "unfull"]), [op |-> "sync", id |-> id])
             /\ ~(w.monitor /\ w.role # 0) =>
                  /\ y.sync = w.sync /\ y.sent = w.sent
                  /\ y.restore = IF w.restore # 0 THEN size ELSE 0
                  /\ y.width = IF ~w.monitor /\ w.restore # 0 THEN w.width ELSE size
<1> DEFINE x == LeaveFullscreen(w, size, id)
           y == IF w.monitor THEN x ELSE TellSize(x)
           u == [ReleaseMonitor(w) EXCEPT !.monitor = FALSE]
           Kept(z) == /\ z.role = w.role /\ z.fullscreen = w.fullscreen /\ z.maximized = w.maximized
           Sized(z) == /\ Kept(z) /\ z.sync = w.sync /\ z.sent = w.sent
                       /\ z.restore = IF w.restore # 0 THEN size ELSE 0
                       /\ z.width = IF ~w.monitor /\ w.restore # 0 THEN w.width ELSE size
           Out(z) == /\ Kept(z) /\ z.restore = size /\ z.sync = id /\ z.width = w.width
                     /\ z.sent = Append(Append(w.sent, [op |-> "unfull"]), [op |-> "sync", id |-> id])
<1>0. DOMAIN w = Fields /\ w.restore \in Nat
  <2>1. w.restore \in Sizes \cup {0}
    BY DEF IsWindow
  <2> QED BY <2>1, SizesAreLengths DEF IsWindow
<1>1. /\ Only(w, u, {"monitor", "fallback", "sent"}) /\ u.monitor = FALSE
      /\ u.sent = IF w.role = 0 THEN w.sent ELSE Append(w.sent, [op |-> "unfull"])
  <2> DEFINE b == IF w.role = 0 THEN w ELSE Send(w, [op |-> "unfull"])
             c == IF b.mode # "server" /\ b.decorated THEN CreateFallbackDecorations(b) ELSE b
  <2>1. u = [c EXCEPT !.monitor = FALSE]
    BY DEF ReleaseMonitor
  <2> HIDE DEF u
  <2>2. Only(w, b, {"sent"}) /\ b.sent = IF w.role = 0 THEN w.sent ELSE Append(w.sent, [op |-> "unfull"])
    BY <1>0, OnlySelf, Sends
  <2> HIDE DEF b
  <2>3. Only(b, c, {"fallback"})
    BY <2>2 DEF Only, Fields, CreateFallbackDecorations
  <2> HIDE DEF c
  <2>4. Only(c, u, {"monitor"}) /\ u.monitor = FALSE
    BY <2>1, <2>3 DEF Only, Fields
  <2>5. Only(w, c, {"sent", "fallback"})
    BY <2>2, <2>3, OnlyThen
  <2>6. Only(w, u, {"monitor", "fallback", "sent"})
    BY <2>4, <2>5, OnlyThen
  <2>7. u.sent = b.sent
    BY <2>3, <2>4 DEF Only, Fields
  <2> QED BY <2>2, <2>4, <2>6, <2>7
<1>2. ASSUME ~w.monitor, DOMAIN x = Fields, Sized(x) PROVE Sized(y)
  <2>1. y = TellSize(x)
    BY <1>2
  <2> HIDE DEF x, y
  <2>2. Only(x, y, {"told"})
    BY <1>2, <2>1 DEF TellSize, Only, Fields
  <2> QED BY <1>2, <2>2 DEF Only, Fields
<1>3. CASE ~w.monitor /\ w.restore > 0
  <2>1. x = [w EXCEPT !.restore = size] /\ w.restore # 0
    BY <1>0, <1>3 DEF LeaveFullscreen
  <2>2. DOMAIN x = Fields /\ Sized(x)
    <3> HIDE DEF x
    <3> QED BY <1>0, <1>3, <2>1 DEF Fields
  <2> HIDE DEF x
  <2>3. Sized(y)
    BY <1>2, <1>3, <2>2
  <2> HIDE DEF y
  <2> QED BY <1>3, <2>3 DEF x, y
<1>4. CASE ~w.monitor /\ ~(w.restore > 0)
  <2>1. x = SetWindowedSize(w, size) /\ w.restore = 0
    BY <1>0, <1>4 DEF LeaveFullscreen
  <2> HIDE DEF x
  <2>2. /\ Only(w, x, Sizing \cup {"told"}) /\ x.sent = w.sent
        /\ x.restore = 0 /\ x.width = size
    BY <1>4, <2>1, WindowedSizeTo DEF Waits
  <2>3. DOMAIN x = Fields /\ Sized(x)
    BY <1>4, <2>1, <2>2 DEF Only, Fields, Sizing, Resizing
  <2>4. Sized(y)
    BY <1>2, <1>4, <2>3
  <2> HIDE DEF y
  <2> QED BY <1>4, <2>4 DEF x, y
<1>5. CASE w.monitor /\ w.role = 0
  <2> HIDE DEF u
  <2>0. u.role = 0 /\ u.sent = w.sent /\ u.restore = w.restore /\ u.sync = w.sync /\ Kept(u)
        /\ ~u.monitor
    BY <1>1, <1>5 DEF Only, Fields
  <2>1. y = SetWindowedSize(u, size)
    BY <1>5, <2>0 DEF LeaveFullscreen, u
  <2>2. IsWindow(u)
    BY <1>1, <1>5 DEF IsWindow, Only, Fields
  <2>3. LET z == SetWindowedSize(u, size)
        IN  /\ Only(u, z, Sizing \cup {"told"}) /\ z.sent = u.sent
            /\ z.restore = IF u.restore # 0 THEN size ELSE 0
            /\ z.width = IF Waits(u) THEN u.width ELSE size
    BY <2>0, <2>2, WindowedSizeTo
  <2> HIDE DEF y
  <2>4. /\ Only(u, y, Sizing \cup {"told"}) /\ y.sent = u.sent
        /\ y.restore = (IF u.restore # 0 THEN size ELSE 0) /\ y.width = size
    BY <2>0, <2>1, <2>3 DEF Waits
  <2>5. Sized(y)
    BY <1>5, <2>0, <2>4 DEF Only, Fields, Sizing, Resizing
  <2> QED BY <1>5, <2>5 DEF x, y
<1>6. CASE w.monitor /\ w.role # 0
  <2> HIDE DEF u
  <2> DEFINE z == [u EXCEPT !.restore = size, !.sync = id]
  <2>0. u.role # 0 /\ u.width = w.width /\ Kept(u) /\ DOMAIN u = Fields
        /\ u.sent = Append(w.sent, [op |-> "unfull"])
    BY <1>1, <1>6 DEF Only, Fields
  <2>1. y = Send(z, [op |-> "sync", id |-> id])
    BY <1>6, <2>0 DEF LeaveFullscreen, u
  <2>2. Only(u, z, {"restore", "sync"}) /\ z.restore = size /\ z.sync = id /\ z.sent = u.sent
    BY <2>0 DEF Only, Fields
  <2> HIDE DEF z, y
  <2>3. Only(z, y, {"sent"}) /\ y.sent = Append(z.sent, [op |-> "sync", id |-> id])
    BY <2>1, <2>2, Sends DEF Only
  <2>4. Out(y)
    BY <2>0, <2>2, <2>3 DEF Only, Fields
  <2> QED BY <1>6, <2>4 DEF x, y
<1> QED BY <1>3, <1>4, <1>5, <1>6

(* A call or a handler that commits at most adds nothing that counts.      *)
LEMMA AddingWins ==
  ASSUME NEW w, NEW x, NEW es, NEW size, NEW l, Wins(w, es, size, l), Alike(w, x),
         w.sent \in Seq(Request), NEW ops, Adding(w, x, ops),
         ops \cap (Asking \cup {"destroyRole"}) = {}
  PROVE  Wins(x, es, size, l)
<1>1. CASE x.sent = w.sent
  BY <1>1, StillWins
<1>2. ASSUME NEW r \in Request, r.op \in ops, x.sent = Append(w.sent, r)
      PROVE  Wins(x, es, size, l)
  BY <1>2, SendWins
<1> QED BY <1>1, <1>2 DEF Adding

LEMMA AddingIsNumbered ==
  ASSUME NEW w, NEW x, NEW v, NEW es \in Seq(Event), NEW n \in Nat, NEW m \in Nat, n <= m,
         Numbered(w, v, es, n), x.role = w.role, w.sent \in Seq(Request), NEW ops,
         Adding(w, x, ops), ops \cap {"role", "destroyRole", "sync"} = {},
         w.role # 0 \/ ops \cap Configuring = {}
  PROVE  Numbered(x, v, es, m)
<1>1. Numbered(w, v, es, m)
  BY StillNumbered
<1>2. CASE x.sent = w.sent
  BY <1>2, StillNumbered
<1>3. ASSUME NEW r \in Request, r.op \in ops, x.sent = Append(w.sent, r)
      PROVE  Numbered(x, v, es, m)
  <2>1. r.op \notin {"role", "destroyRole"} /\ r.op # "sync"
    BY <1>3
  <2>2. r.op \in Configuring => w.role # 0
    BY <1>3
  <2> QED BY <1>1, <1>3, <2>1, <2>2, SendIsNumbered
<1> QED BY <1>2, <1>3 DEF Adding

(* A configure restores the size of an exit, or leaves the size as it is.  *)
LEMMA ConfiguresTo ==
  ASSUME NEW w, IsWindow(w), NEW e, e.full \in BOOLEAN, e.max \in BOOLEAN, e.width \in Nat
  PROVE  LET x == XdgSurfaceHandleConfigure(XdgToplevelHandleConfigure(w, e))
         IN  /\ DOMAIN x = Fields /\ x.role = w.role /\ x.sync = w.sync
             /\ x.fullscreen = e.full /\ x.maximized = e.max
             /\ Adding(w, x, {"commit"})
             /\ x.restore = IF ~e.full /\ w.sync = 0 THEN 0 ELSE w.restore
             /\ ~e.full /\ ~e.max /\ w.restore # 0 => x.width = w.restore
             /\ w.restore = 0 /\ e.width = 0 => x.width = w.width
<1> DEFINE a == XdgToplevelHandleConfigure(w, e)
           restoring == ~a.pending.full /\ ~a.pending.max /\ a.restore > 0
           b == [a EXCEPT !.maximized = a.pending.max, !.fullscreen = a.pending.full,
                          !.restore = IF ~a.pending.full /\ a.sync = 0 THEN 0 ELSE @]
           c == ResizeWindow(b, a.pending.width)
           d == IF restoring /\ ~kind.resizable THEN UpdateXdgSizeLimits(c) ELSE c
           f == UpdateWindowShadow(d)
           h == IF a.visible THEN Damage(d) ELSE d
           told == IF c.width # a.width THEN TellSize(h)
                   ELSE IF ShadowChanges(d) THEN BareCommit(f) ELSE f
           x == XdgSurfaceHandleConfigure(a)
           Sized(z) == /\ ~e.full /\ ~e.max /\ w.restore # 0 => z.width = w.restore
                       /\ w.restore = 0 /\ e.width = 0 => z.width = w.width
           Kept(z) == /\ z.role = w.role /\ z.sync = w.sync /\ z.width = c.width
                      /\ z.fullscreen = e.full /\ z.maximized = e.max
                      /\ z.restore = IF ~e.full /\ w.sync = 0 THEN 0 ELSE w.restore
<1>0. DOMAIN w = Fields /\ w.restore \in Nat /\ w.width \in Nat \ {0}
  <2>1. w.restore \in Sizes \cup {0}
    BY DEF IsWindow
  <2> QED BY <2>1, SizesAreLengths DEF IsWindow, Lengths
<1>1. x = IF ~told.visible /\ (kind.manager = "none" \/ told.mode # "unset")
          THEN Damage([told EXCEPT !.visible = TRUE]) ELSE told
  BY DEF XdgSurfaceHandleConfigure
<1>2. /\ Only(w, a, {"pending"}) /\ a.pending.full = e.full /\ a.pending.max = e.max
      /\ a.pending.width = PendingSize(w, e)
  BY <1>0 DEF XdgToplevelHandleConfigure, Only, Fields
<1>3. PendingSize(w, e) \in Nat
  <2>1. Border \in Nat
    BY SizeAssumption DEF SizeAssumption
  <2>2. Less(e.width, Border) \in Nat
    BY <2>1 DEF Less
  <2> QED BY <1>0, <2>2 DEF PendingSize
<1>4. /\ ~e.full /\ ~e.max /\ w.restore # 0 => PendingSize(w, e) = w.restore
      /\ w.restore = 0 /\ e.width = 0 => PendingSize(w, e) = w.width
  BY <1>0 DEF PendingSize
<1> HIDE DEF a, x
<1>5. a.restore = w.restore /\ a.sync = w.sync /\ a.width = w.width /\ a.sent = w.sent
      /\ DOMAIN a = Fields /\ a.role = w.role
  BY <1>2 DEF Only, Fields
<1>6. /\ Only(a, b, {"maximized", "fullscreen", "restore"})
      /\ b.fullscreen = e.full /\ b.maximized = e.max
      /\ b.restore = IF ~e.full /\ w.sync = 0 THEN 0 ELSE w.restore
  BY <1>2, <1>5 DEF Only, Fields
<1> HIDE DEF b
<1>7. IsWindow(b)
  <2>1. b.restore \in Sizes \cup {0} /\ b.fullscreen \in BOOLEAN /\ b.maximized \in BOOLEAN
    BY <1>6 DEF IsWindow
  <2>2. Only(w, b, {"pending", "maximized", "fullscreen", "restore"})
    BY <1>2, <1>6, OnlyThen
  <2> QED BY <2>1, <2>2 DEF IsWindow, Only, Fields
<1>8. Only(b, c, Resizing) /\ c.width = Larger(PendingSize(w, e), 1)
  <2>1. DOMAIN b = Fields /\ b.width = w.width
    BY <1>5, <1>6 DEF Only, Fields
  <2>2. CASE PendingSize(w, e) # 0
    <3>1. Larger(PendingSize(w, e), 1) = PendingSize(w, e)
      BY <1>3, <2>2 DEF Larger
    <3> QED BY <1>2, <1>3, <2>1, <2>2, <3>1, ResizesTo
  <2>3. CASE PendingSize(w, e) = 0
    <3>1. Larger(PendingSize(w, e), 1) = 1 /\ Larger(1, 1) = 1
      BY <2>3 DEF Larger
    <3>2. ResizeWindow(b, a.pending.width) = ResizeWindow(b, 1)
      BY <1>2, <2>3, <3>1 DEF ResizeWindow
    <3> QED BY <2>1, <3>1, <3>2, ResizesTo
  <2> QED BY <2>2, <2>3
<1>9. Sized(c)
  BY <1>0, <1>3, <1>4, <1>8 DEF Larger
<1> HIDE DEF c
<1>10. IsWindow(c) /\ c.sent = w.sent /\ Kept(c)
  <2>1. c.width \in Lengths
    BY <1>3, <1>8 DEF Larger, Lengths
  <2>2. c.shadow \in BOOLEAN
    BY <1>7 DEF c, ResizeWindow, IsWindow, Only, Fields, UpdateWindowShadow,
       HideRefyneShadowSurfaces, CreateRefyneWindowShadow, ResizeFramebuffer
  <2>3. IsWindow(c)
    BY <1>7, <1>8, <2>1, <2>2 DEF IsWindow, Only, Fields, Resizing
  <2>4. c.sent = w.sent /\ Kept(c)
    BY <1>5, <1>6, <1>8 DEF Only, Fields, Resizing
  <2> QED BY <2>3, <2>4
<1>11. Only(c, d, {"limits"}) /\ d.limits \in Nat
  BY <1>10 DEF UpdateXdgSizeLimits, Only, Fields, IsWindow, Lengths
<1> HIDE DEF d
<1>12. IsWindow(d) /\ d.sent = w.sent /\ Kept(d)
  <2>1. IsWindow(d)
    BY <1>10, <1>11 DEF IsWindow, Only, Fields
  <2>2. d.sent = w.sent /\ Kept(d)
    BY <1>10, <1>11 DEF Only, Fields
  <2> QED BY <2>1, <2>2
<1> DEFINE P(z) == DOMAIN z = Fields /\ Kept(z) /\ Adding(w, z, {"commit"})
<1>13. P(TellSize(h))
  <2>1. Only(d, h, {"dirty"})
    BY <1>12 DEF Only, Fields, Damage, IsWindow
  <2> HIDE DEF h
  <2>2. Only(h, TellSize(h), {"told"})
    BY <2>1 DEF Only, Fields, TellSize
  <2>3. Only(d, TellSize(h), {"dirty", "told"})
    BY <2>1, <2>2, OnlyThen
  <2> DEFINE y == TellSize(h)
  <2> HIDE DEF y
  <2>4. Only(d, y, {"dirty", "told"})
    BY <2>3 DEF y
  <2>5. DOMAIN y = Fields /\ Kept(y) /\ y.sent = w.sent
    BY <1>12, <2>4 DEF Only, Fields
  <2> QED BY <2>5 DEF Adding, y
<1>14. P(f) /\ P(BareCommit(f))
  <2>1. Only(d, f, {"shadow"}) /\ f.shadow = ShadowFor(d)
    BY <1>12, Shadows
  <2> HIDE DEF f
  <2>2. ShadowFor(d) \in BOOLEAN
    BY <1>12 DEF ShadowFor, IsWindow
  <2>3. IsWindow(f)
    BY <1>12, <2>1, <2>2 DEF IsWindow, Only, Fields
  <2>4. Kept(f) /\ f.sent = w.sent /\ DOMAIN f = Fields
    BY <1>12, <2>1 DEF Only, Fields
  <2>5. Adding(w, f, {"commit"})
    BY <2>4 DEF Adding
  <2>6. Adding(w, BareCommit(f), {"commit"})
    BY <2>3, <2>4, CommitAdds
  <2>7. Only(f, BareCommit(f), {"latched", "sent"})
    BY <2>3, <2>4, Commits, OnlySelf DEF BareCommit
  <2> DEFINE y == BareCommit(f)
  <2> HIDE DEF y
  <2>8. Only(f, y, {"latched", "sent"})
    BY <2>7 DEF y
  <2>9. DOMAIN y = Fields /\ Kept(y)
    BY <2>4, <2>8 DEF Only, Fields
  <2> QED BY <2>4, <2>5, <2>6, <2>9 DEF y
<1> HIDE DEF Kept
<1>15. P(told)
  BY <1>13, <1>14
<1> HIDE DEF told
<1>16. P(x)
  <2>1. CASE x = told
    BY <1>15, <2>1
  <2>2. CASE x = Damage([told EXCEPT !.visible = TRUE])
    <3>1. Only(told, x, {"visible", "dirty"})
      BY <1>15, <2>2 DEF Damage, Only, Fields
    <3>2. DOMAIN x = Fields /\ x.sent = told.sent
      BY <3>1 DEF Only, Fields
    <3>3. Kept(x)
      BY <1>15, <3>1 DEF Only, Fields, Kept
    <3> QED BY <1>15, <3>2, <3>3 DEF Adding
  <2> QED BY <1>1, <2>1, <2>2
<1>17. Sized(x)
  <2>1. x.width = c.width
    BY <1>16 DEF Kept
  <2> QED BY <1>9, <2>1
<1>18. DOMAIN x = Fields /\ Adding(w, x, {"commit"}) /\ Kept(x) /\ Sized(x)
  BY <1>16, <1>17
<1> HIDE DEF Sized
<1> QED BY <1>18 DEF x, a, Kept, Sized

(* A new role is asked for once, and nothing else of it is.                *)
LEMMA RoleIsOnce ==
  ASSUME NEW w, NEW y, NEW v, NEW es \in Seq(Event), NEW n \in Nat, NEW m, m = n + 1,
         Numbered(w, v, es, n), v.role \in Nat, v.role <= n,
         \A q \in Elems(w.sent) : q.op = "role" => q.id <= n,
         w.role = 0, w.sent \in Seq(Request), NEW r \in Request, r.op = "role", r.id = m,
         y.role = m, y.sent = Append(w.sent, r)
  PROVE  Numbered(y, v, es, m)
<1> DEFINE s == w.sent
           t == Append(s, r)
           R == RoleRequest(m)
<1>1. /\ Len(s) \in Nat /\ DOMAIN s = 1 .. Len(s) /\ DOMAIN t = 1 .. (Len(s) + 1)
      /\ t[Len(s) + 1] = r /\ \A i \in 1 .. Len(s) : t[i] = s[i]
      /\ Live(t, Len(s) + 1)
  BY AppendFacts, LiveAppend
<1> HIDE DEF t
<1>2. EventsUpTo(es, m) /\ SyncsUpTo(s, m)
  <2>1. m \in Nat /\ n <= m
    OBVIOUS
  <2>2. Numbered(w, v, es, m)
    BY <2>1, StillNumbered
  <2> QED BY <2>2 DEF Numbered
<1>3. SyncsUpTo(t, m)
  BY <1>1, <1>2 DEF SyncsUpTo
<1>4. r \in R
  BY DEF RoleRequest
<1>5. \A i \in DOMAIN s : s[i] \notin R
  <2> SUFFICES ASSUME NEW i \in DOMAIN s, s[i].op = "role", s[i].id = m PROVE FALSE
    BY DEF RoleRequest
  <2>1. s[i].id <= n
    BY DEF Elems
  <2> QED BY <2>1
<1> HIDE DEF R
<1>6. \A i \in DOMAIN t : t[i] \in R => i = Len(s) + 1
  <2> SUFFICES ASSUME NEW i \in DOMAIN t, i # Len(s) + 1 PROVE t[i] \notin R
    OBVIOUS
  <2>1. i \in DOMAIN s /\ t[i] = s[i]
    BY <1>1
  <2> QED BY <1>5, <2>1
<1>7. Once(t, v.role, m)
  <2>1. v.role # m
    OBVIOUS
  <2>2. \A i \in DOMAIN t : t[i] \in R =>
           v.role # m /\ Live(t, i) /\ \A k \in DOMAIN t : t[k] \in R => k = i
    BY <1>1, <1>6, <2>1
  <2> QED BY <2>2 DEF Once, R
<1>8. y.sent = t /\ y.role # 0
  BY DEF t
<1> QED BY <1>2, <1>3, <1>7, <1>8 DEF Numbered

LEMMA RoleWins ==
  ASSUME NEW w, NEW y, NEW v, NEW es \in Seq(Event), NEW n \in Nat, NEW size, NEW l,
         Wins(w, es, size, l), Numbered(w, v, es, n), w.role = 0, w.sent \in Seq(Request),
         NEW r \in Request, RoleIsAsked(y, r), y.role = n + 1, y.sent = Append(w.sent, r),
         y.width = w.width, y.restore = w.restore, y.fullscreen = w.fullscreen,
         y.maximized = w.maximized
  PROVE  Wins(y, es, size, l)
<1> DEFINE s == w.sent
           t == Append(s, r)
<1>1. /\ Len(s) \in Nat /\ DOMAIN s = 1 .. Len(s) /\ DOMAIN t = 1 .. (Len(s) + 1)
      /\ t[Len(s) + 1] = r /\ \A i \in 1 .. Len(s) : t[i] = s[i]
      /\ r.op # "destroyRole" => \A i \in DOMAIN s : Live(t, i) <=> Live(s, i)
  BY AppendFacts, LiveAppend
<1>2. y.sent = t
  OBVIOUS
<1> HIDE DEF t
<1>3. AllDead(s)
  BY DEF Numbered
<1>4. ~Exiting(w, es)
  <2>1. \A i \in DOMAIN es : es[i] \notin Replies(w.role)
    BY DEF Replies, Configures, Event
  <2>2. ~ExitAnswered(w, es)
    BY <2>1 DEF ExitAnswered
  <2>3. ~ExitAsked(w, es)
    BY <1>3 DEF ExitAsked, AllDead, Asking, Configuring
  <2> QED BY <2>2, <2>3 DEF Exiting
<1>5. RoleAsks(y, t)
  <2>1. r.op # "destroyRole"
    BY DEF RoleIsAsked
  <2> SUFFICES ASSUME NEW i \in DOMAIN t, t[i].op \in Asking, Live(t, i) PROVE RoleIsAsked(y, t[i])
    BY DEF RoleAsks
  <2>2. CASE i = Len(s) + 1
    BY <1>1, <2>2
  <2>3. CASE i \in DOMAIN s
    BY <1>1, <1>3, <2>1, <2>3 DEF AllDead
  <2> QED BY <1>1, <2>2, <2>3
<1>6. RoleAnswers(y, es)
  <2> SUFFICES ASSUME NEW i \in DOMAIN es, es[i].type = "configure", es[i].role = n + 1 PROVE FALSE
    BY DEF RoleAnswers, Replies, Configures
  <2>1. es[i].role <= n
    BY DEF Numbered, EventsUpTo
  <2> QED BY <2>1
<1> QED BY <1>2, <1>4, <1>5, <1>6 DEF Wins, Right

LEMMA ShowKeepsSize == SizeInv /\ Show => SizeInv'
<1> SUFFICES ASSUME SizeInv, Show PROVE SizeInv'
  OBVIOUS
<1> DEFINE n == calls + 1
           r == RoleOf(win, n)
           s == win.sent
<1>1. /\ win.role = 0 /\ win' = CreateXdgShellObjects(win, n) /\ calls' = n
      /\ UNCHANGED <<events, srv, kind, asked, late>>
      /\ calls \in Nat /\ MaxCalls \in Nat /\ calls < MaxCalls /\ Fine(win, srv)
      /\ WindowInv /\ Numbered(win, srv, events, calls) /\ (kind.prompt => ~srv.owes)
      /\ s \in Seq(Request) /\ IsWindow(win) /\ events \in Seq(Event)
      /\ srv.role \in Nat /\ Fresh(s, srv, calls)
  BY SizeAssumption DEF Show, Call, SizeInv, WindowInv, SizeAssumption, Fine, Good, IsWindow,
     ViewOK, IsView, Ids
<1>2. n \in Ids \ {0} /\ n \in Nat
  BY <1>1 DEF Ids
<1>3. WindowInv'
  BY <1>1, ShowKeeps
<1>4. calls' = n /\ n = calls + 1
  BY <1>1
<1> HIDE DEF n
<1>5. Only(win, win', Showing) /\ win'.role = n /\ RoleLine(s, r, win'.sent)
  BY <1>1, <1>2, CreatesRole
<1>6. PICK m \in Request : /\ m.op = "commit"
                           /\ win'.sent = Append(Append(Append(s, r), m), [op |-> "roundtrip"])
  BY <1>5 DEF RoleLine
<1> DEFINE q == [op |-> "roundtrip"]
           t == Append(s, r)
           u == Append(t, m)
           y == [win' EXCEPT !.sent = t]
           z == [win' EXCEPT !.sent = u]
<1>7. r \in Request /\ r.op = "role" /\ r.id = n /\ q \in Request /\ q.op = "roundtrip"
  <2>1. win.monitor \in BOOLEAN /\ win.maximized \in BOOLEAN /\ win.decorated \in BOOLEAN
    BY <1>1 DEF IsWindow
  <2> QED BY <1>2, <2>1 DEF Request, RoleOf
<1>8. ~win.monitor => RoleIsAsked(y, r)
  <2>1. r.full = win.monitor /\ r.max = (win.maximized /\ ~win.monitor)
    BY DEF RoleOf
  <2>2. y.maximized = win.maximized
    BY <1>5 DEF Only, Fields, Showing
  <2> HIDE DEF y, r
  <2>3. win.maximized \in BOOLEAN
    BY <1>1 DEF IsWindow
  <2> QED BY <1>7, <2>1, <2>2, <2>3 DEF RoleIsAsked
<1> HIDE DEF r, q
<1>9. t \in Seq(Request) /\ u \in Seq(Request) /\ win'.sent = Append(u, q)
  BY <1>1, <1>6, <1>7, AppendFacts DEF q
<1> HIDE DEF t, u
<1>10. /\ Only(win', y, {"sent"}) /\ y.sent = t /\ Only(win', z, {"sent"}) /\ z.sent = u
  BY <1>5 DEF Only, Fields
<1> HIDE DEF y, z
<1>11. /\ y.role = n /\ z.role = n /\ Alike(y, z) /\ Alike(z, win')
       /\ y.width = win.width /\ y.restore = win.restore /\ y.fullscreen = win.fullscreen
       /\ y.maximized = win.maximized /\ win'.monitor = win.monitor
  BY <1>5, <1>10 DEF Only, Fields, Showing, Alike
<1>12. Numbered(y, srv, events, n)
  BY <1>1, <1>2, <1>4, <1>7, <1>10, <1>11, RoleIsOnce DEF t, Fresh
<1>13. Numbered(z, srv, events, n)
  BY <1>1, <1>2, <1>6, <1>9, <1>10, <1>11, <1>12, SendIsNumbered DEF u, Configuring
<1>14. Numbered(win', srv, events, n)
  BY <1>1, <1>2, <1>7, <1>9, <1>10, <1>11, <1>13, SendIsNumbered, <1>5 DEF Configuring
<1>15. ASSUME Counts' PROVE Wins(win', events, asked, late)
  <2>1. Wins(win, events, asked, late) /\ ~win.monitor
    BY <1>1, <1>11, <1>15 DEF SizeInv, Counts
  <2>2. Wins(y, events, asked, late)
    BY <1>1, <1>4, <1>7, <1>8, <1>10, <1>11, <2>1, RoleWins DEF t
  <2>3. Wins(z, events, asked, late)
    BY <1>6, <1>9, <1>10, <1>11, <2>2, SendWins DEF u, Asking, Configuring
  <2> QED BY <1>7, <1>9, <1>10, <1>11, <2>3, SendWins DEF Asking, Configuring
<1> QED BY <1>1, <1>3, <1>14, <1>15 DEF SizeInv

(* What a step of the application starts from.                             *)
LEMMA SizeHas ==
  ASSUME SizeInv
  PROVE  /\ WindowInv /\ Numbered(win, srv, events, calls) /\ (kind.prompt => ~srv.owes)
         /\ calls \in Nat /\ Fine(win, srv) /\ IsWindow(win) /\ win.sent \in Seq(Request)
         /\ events \in Seq(Event) /\ win.monitor \in BOOLEAN /\ win.fullscreen \in BOOLEAN
         /\ RoleReaches(win, srv) /\ srv.role \in Ids /\ win.role \in Ids
BY SizeAssumption DEF SizeInv, WindowInv, SizeAssumption, Fine, Good, IsWindow, ViewOK, IsView,
   SentOK

LEMMA CallSteps == ASSUME calls \in Nat, NEW w, Call(w) PROVE
  win' = w /\ UNCHANGED <<events, srv, kind>> /\ calls' = calls + 1 /\ calls' \in Nat /\ calls <= calls'
BY DEF Call

(* A window without a role asks for nothing any more.                      *)
LEMMA HideIsNumbered ==
  ASSUME NEW w, NEW x, NEW v, NEW es \in Seq(Event), NEW n \in Nat, Numbered(w, v, es, n),
         w.sent \in Seq(Request), x.role = 0, HideLine(w.sent, x.sent)
  PROVE  Numbered(x, v, es, n) /\ AllDead(x.sent)
<1>1. PICK p \in Request, q \in Request, m \in Request :
         /\ p.op = "destroyRole" /\ q.op = "destroyShadow" /\ m.op = "commit"
         /\ x.sent = Append(Append(Append(w.sent, p), q), m)
  BY DEF HideLine
<1> DEFINE s == w.sent
           t == Append(s, p)
           u == Append(t, q)
           y == [role |-> 0, sent |-> t]
           z == [role |-> 0, sent |-> u]
<1>2. /\ Len(s) \in Nat /\ DOMAIN s = 1 .. Len(s) /\ DOMAIN t = 1 .. (Len(s) + 1)
      /\ t[Len(s) + 1] = p /\ \A i \in 1 .. Len(s) : t[i] = s[i]
      /\ \A i \in DOMAIN s : ~Live(t, i)
  BY <1>1, AppendFacts, LiveAppend
<1>3. t \in Seq(Request) /\ u \in Seq(Request) /\ x.sent = Append(u, m)
  BY <1>1, AppendFacts
<1> HIDE DEF t, u
<1>4. AllDead(t)
  BY <1>1, <1>2 DEF AllDead, Asking, Configuring
<1>5. SyncsUpTo(t, n)
  <2>1. SyncsUpTo(s, n) /\ p.op # "sync"
    BY <1>1 DEF Numbered
  <2> SUFFICES ASSUME NEW i \in DOMAIN t, t[i].op = "sync" PROVE t[i].id <= n
    BY DEF SyncsUpTo
  <2>2. i \in DOMAIN s /\ t[i] = s[i]
    BY <1>2, <2>1
  <2> QED BY <2>1, <2>2 DEF SyncsUpTo
<1>6. y.role = 0 /\ y.sent = t /\ z.role = 0 /\ z.sent = u
  OBVIOUS
<1> HIDE DEF y, z
<1>7. Numbered(y, v, es, n)
  BY <1>4, <1>5, <1>6 DEF Numbered
<1>8. Numbered(z, v, es, n)
  BY <1>1, <1>3, <1>6, <1>7, SendIsNumbered DEF u, Configuring
<1>9. Numbered(x, v, es, n)
  BY <1>1, <1>3, <1>6, <1>8, SendIsNumbered DEF Configuring
<1> QED BY <1>9 DEF Numbered

LEMMA HideKeepsSize == SizeInv /\ Hide => SizeInv'
<1> SUFFICES ASSUME SizeInv, Hide PROVE SizeInv'
  OBVIOUS
<1> DEFINE x == HideWindow(win)
<1>1. Call(x) /\ win.visible /\ asked' = asked /\ late' = (late \/ Applied)
  BY DEF Hide
<1>2. win' = x /\ UNCHANGED <<events, srv, kind>> /\ calls' \in Nat /\ calls <= calls'
  BY <1>1, SizeHas, CallSteps
<1>3. WindowInv'
  BY SizeHas, HideKeeps
<1>4. Keeps(win, x, Hiding) /\ x.role = 0 /\ HideLine(win.sent, x.sent)
  BY <1>1, SizeHas, HidesWindow
<1> HIDE DEF x
<1>5. Numbered(x, srv, events, calls) /\ AllDead(x.sent)
  BY <1>4, SizeHas, HideIsNumbered
<1>6. Numbered(x, srv, events, calls')
  <2>1. x.sent \in Seq(Request)
    BY <1>2, <1>3 DEF WindowInv, Fine, Good, IsWindow
  <2> QED BY <1>2, <1>5, <2>1, SizeHas, StillNumbered
<1>7. /\ x.width = win.width /\ x.maximized = win.maximized /\ x.fullscreen = win.fullscreen
      /\ x.restore = win.restore /\ x.monitor = win.monitor
  BY <1>4 DEF Keeps, Only, Fields, Hiding
<1>8. ASSUME Counts' PROVE Wins(x, events, asked, late')
  <2>1. Wins(win, events, asked, late) /\ ~win.monitor
    BY <1>1, <1>2, <1>7, <1>8 DEF SizeInv, Counts
  <2>2. RoleAnswers(x, events)
    BY <1>4 DEF RoleAnswers, Replies, Configures, Event
  <2>3. RoleAsks(x, x.sent)
    BY <1>5 DEF RoleAsks, AllDead
  <2>4. Right(x, asked, late')
    <3>1. CASE Right(win, asked, late)
      BY <1>1, <1>7, <3>1 DEF Right
    <3>2. CASE win.restore # 0
      <4>1. win.restore > 0
        BY <3>2, SizeHas, SizesAreLengths DEF IsWindow
      <4>2. win.fullscreen \/ late'
        BY <1>1, <2>1, <4>1 DEF Applied
      <4> QED BY <1>7, <3>2, <4>2 DEF Right
    <3> QED BY <2>1, <3>1, <3>2 DEF Wins, Exiting
  <2> QED BY <1>7, <2>1, <2>2, <2>3, <2>4 DEF Wins
<1> QED BY <1>1, <1>2, <1>3, <1>6, <1>8, SizeHas DEF SizeInv

(* A fullscreen window's size is not that which was asked for.             *)
LEMMA EnterKeepsSize == SizeInv /\ Enter => SizeInv'
<1> SUFFICES ASSUME SizeInv, Enter PROVE SizeInv'
  OBVIOUS
<1> DEFINE x == EnterFullscreen(win)
           r == [op |-> "full"]
<1>1. Call(x) /\ ~win.monitor
  BY DEF Enter
<1>2. win' = x /\ UNCHANGED <<events, srv, kind>> /\ calls' \in Nat /\ calls <= calls'
  BY <1>1, SizeHas, CallSteps
<1>3. WindowInv'
  BY SizeHas, EnterKeeps
<1>4. x.sent = win.sent \/ (win.role # 0 /\ x.sent = Append(win.sent, r))
  BY SizeHas, EnterAdds
<1>5. Keeps(win, x, {"monitor", "fallback", "sent"})
  BY <1>1, SizeHas, EntersFullscreen
<1>6. r \in Request /\ r.op = "full"
  BY DEF Request, Configuring
<1>7. x.monitor = TRUE
  <2> DEFINE a == [win EXCEPT !.monitor = TRUE]
             b == IF a.role = 0 THEN a ELSE Send(a, r)
  <2>1. x = b \/ x = DestroyFallbackDecorations(b)
    BY <1>1 DEF EnterFullscreen, AcquireMonitor
  <2>2. DOMAIN a = Fields /\ a.monitor = TRUE
    BY SizeHas DEF IsWindow, Fields
  <2> HIDE DEF a, x, r
  <2>3. DOMAIN b = Fields /\ b.monitor = TRUE
    BY <2>2, Sends, OnlySelf DEF Only, Fields
  <2> HIDE DEF b
  <2> QED BY <2>1, <2>3 DEF DestroyFallbackDecorations, Fields
<1> HIDE DEF x, r
<1>8. Numbered(x, srv, events, calls')
  <2>1. x.role = win.role
    BY <1>5 DEF Keeps, Only, Fields
  <2>2. Adding(win, x, {"full"})
    BY <1>4, <1>6 DEF Adding
  <2>3. CASE x.sent = win.sent
    BY <1>2, <2>1, <2>3, SizeHas, StillNumbered
  <2>4. CASE win.role # 0
    <3>1. {"full"} \cap {"role", "destroyRole", "sync"} = {}
      OBVIOUS
    <3> QED BY <1>2, <2>1, <2>2, <2>4, <3>1, SizeHas, AddingIsNumbered
  <2> QED BY <1>4, <2>3, <2>4
<1>9. ~Counts'
  BY <1>2, <1>7 DEF Counts
<1> QED BY <1>2, <1>3, <1>8, <1>9, SizeHas DEF SizeInv

(* What is asked for after maximizing or restoring counts again.           *)
LEMMA MaximizeKeepsSize == SizeInv /\ (Maximize \/ Restore) => SizeInv'
<1> SUFFICES ASSUME SizeInv, Maximize \/ Restore PROVE SizeInv'
  OBVIOUS
<1>1. PICK x \in {MaximizeWindow(win), RestoreWindow(win)} : Call(x) /\ asked' = 0
  BY DEF Maximize, Restore
<1>2. win' = x /\ UNCHANGED <<events, srv, kind>> /\ calls' \in Nat /\ calls <= calls'
  BY <1>1, SizeHas, CallSteps
<1>3. WindowInv'
  BY SizeHas, MaximizeKeeps
<1>4. x.sent = win.sent \/ (win.role # 0 /\ Adding(win, x, {"max", "unmax"}))
  BY SizeHas, MaximizeAdds
<1>5. x.role = win.role
  <2>1. Keeps(win, x, {"maximized", "sent"})
    BY SizeHas, Maximizes
  <2> QED BY <2>1 DEF Keeps, Only, Fields
<1>6. Numbered(x, srv, events, calls')
  <2>1. CASE x.sent = win.sent
    BY <1>2, <1>5, <2>1, SizeHas, StillNumbered
  <2>2. CASE win.role # 0 /\ Adding(win, x, {"max", "unmax"})
    <3>1. {"max", "unmax"} \cap {"role", "destroyRole", "sync"} = {}
      OBVIOUS
    <3> QED BY <1>2, <1>5, <2>2, <3>1, SizeHas, AddingIsNumbered
  <2> QED BY <1>4, <2>1, <2>2
<1>7. ~Counts'
  BY <1>1 DEF Counts
<1> QED BY <1>2, <1>3, <1>6, <1>7, SizeHas DEF SizeInv

(* A step that leaves the size alone, and at most commits.                 *)
LEMMA PlainKeepsSize ==
  ASSUME SizeInv, WindowInv', UNCHANGED <<events, srv, kind, asked, late>>, calls' \in Nat,
         calls <= calls', NEW F, Keeps(win, win', F), Adding(win, win', {"mode", "commit"}),
         F \cap {"role", "monitor", "width", "restore", "sync", "fullscreen", "maximized"} = {}
  PROVE  SizeInv'
<1> DEFINE ops == {"mode", "commit"}
<1>1. Alike(win, win') /\ win'.monitor = win.monitor
  BY DEF Keeps, Only, Fields, Alike
<1>2. /\ ops \cap (Asking \cup {"destroyRole"}) = {} /\ ops \cap Configuring = {}
      /\ ops \cap {"role", "destroyRole", "sync"} = {}
  BY DEF Asking, Configuring
<1> HIDE DEF ops
<1>3. Numbered(win', srv, events, calls')
  <2>1. win'.role = win.role /\ Adding(win, win', ops)
    BY <1>1 DEF Alike, ops
  <2> QED BY <1>2, <2>1, SizeHas, AddingIsNumbered
<1>4. ASSUME Counts' PROVE Wins(win', events, asked, late)
  <2>1. Wins(win, events, asked, late)
    BY <1>1, <1>4 DEF SizeInv, Counts
  <2> QED BY <1>1, <1>2, <2>1, SizeHas, AddingWins DEF ops
<1> QED BY <1>3, <1>4, SizeHas DEF SizeInv

LEMMA DecorateKeepsSize == SizeInv /\ (\E b \in BOOLEAN : Decorate(b)) => SizeInv'
<1> SUFFICES ASSUME SizeInv, NEW b \in BOOLEAN, Decorate(b) PROVE SizeInv'
  OBVIOUS
<1> DEFINE F == {"decorated", "fallback", "latched", "sent"}
           x == SetWindowDecorated(win, b)
<1>1. Call(x) /\ UNCHANGED <<asked, late>>
  BY DEF Decorate
<1>2. Keeps(win, x, F) /\ Adding(win, x, {"mode", "commit"})
  BY SizeHas, Decorates, DecorateAdds
<1>3. F \cap {"role", "monitor", "width", "restore", "sync", "fullscreen", "maximized"} = {}
  OBVIOUS
<1> HIDE DEF F, x
<1>4. win' = x /\ UNCHANGED <<events, srv, kind>> /\ calls' \in Nat /\ calls <= calls'
  BY <1>1, SizeHas, CallSteps
<1>5. WindowInv'
  BY SizeHas, DecorateKeeps
<1> QED BY <1>1, <1>2, <1>3, <1>4, <1>5, PlainKeepsSize

LEMMA ShadowKeepsSize == SizeInv /\ Shadow => SizeInv'
<1> SUFFICES ASSUME SizeInv, Shadow PROVE SizeInv'
  OBVIOUS
<1> DEFINE F == {"requested", "shadow", "latched", "sent"}
           x == SetWindowShadow(win)
<1>1. Call(x) /\ UNCHANGED <<asked, late>>
  BY DEF Shadow
<1>2. Keeps(win, x, F) /\ Adding(win, x, {"commit"})
  BY SizeHas, AddsShadow, ShadowAdds
<1>3. F \cap {"role", "monitor", "width", "restore", "sync", "fullscreen", "maximized"} = {}
  OBVIOUS
<1> HIDE DEF F, x
<1>4. win' = x /\ UNCHANGED <<events, srv, kind>> /\ calls' \in Nat /\ calls <= calls'
  BY <1>1, SizeHas, CallSteps
<1>5. WindowInv' /\ Adding(win, x, {"mode", "commit"})
  BY <1>2, SizeHas, ShadowKeeps DEF Adding
<1> QED BY <1>1, <1>2, <1>3, <1>4, <1>5, PlainKeepsSize

LEMMA PaintKeepsSize == SizeInv /\ Paint => SizeInv'
<1> SUFFICES ASSUME SizeInv, Paint PROVE SizeInv'
  OBVIOUS
<1> DEFINE x == [SwapBuffers(MakeContextCurrent(win)) EXCEPT !.dirty = FALSE]
<1>1. win' = x /\ UNCHANGED <<events, srv, kind, calls, asked, late>>
  BY DEF Paint
<1>2. Keeps(win, x, Painting) /\ Adding(win, x, {"commit"})
  BY SizeHas, Paints, PaintAdds
<1>3. Painting \cap {"role", "monitor", "width", "restore", "sync", "fullscreen", "maximized"} = {}
  BY DEF Painting
<1> HIDE DEF x
<1>4. WindowInv' /\ Adding(win, x, {"mode", "commit"}) /\ calls' \in Nat /\ calls <= calls'
  BY <1>1, <1>2, SizeHas, PaintKeeps DEF Adding
<1> QED BY <1>1, <1>2, <1>3, <1>4, PlainKeepsSize

(* A size that is asked for while no exit is under way is set, and wins if *)
(* nothing else is; while one is, it will be restored.                     *)
LEMMA ResizeWins ==
  ASSUME SizeInv, NEW s \in Sizes, Asks(s), ~win.monitor, kind.prompt, asked' # 0, NEW x,
         x.role = win.role, x.sync = win.sync, x.sent = win.sent,
         x.fullscreen = win.fullscreen, x.maximized = win.maximized,
         x.restore = IF win.restore # 0 THEN s ELSE 0, win.restore = 0 => x.width = s
  PROVE  Wins(x, events, asked', late')
<1>1. s # 0 /\ win.restore \in Nat
  <2>1. win.restore \in Sizes \cup {0}
    BY SizeHas DEF IsWindow
  <2> QED BY <2>1, SizesAreLengths
<1>2. asked' = s /\ (Quiet \/ (win.restore # 0 /\ asked # 0))
  BY <1>1 DEF Asks
<1>3. x.restore # 0 => x.restore = s
  OBVIOUS
<1>4. Right(x, s, late')
  <2>1. CASE win.restore = 0
    BY <2>1 DEF Right
  <2>2. CASE win.restore # 0
    <3>1. win.restore > 0
      BY <1>1, <2>2
    <3>2. win.fullscreen \/ late'
      BY <3>1 DEF Asks, Applied
    <3> QED BY <1>1, <2>2, <3>2 DEF Right
  <2> QED BY <2>1, <2>2
<1>5. CASE Quiet
  <2>1. win.sent = <<>> /\ \A i \in DOMAIN events : events[i].type # "configure"
    BY <1>5 DEF Quiet, Answers
  <2>2. RoleAnswers(x, events)
    BY <2>1 DEF RoleAnswers, Replies, Configures
  <2>3. RoleAsks(x, x.sent)
    BY <2>1 DEF RoleAsks
  <2> QED BY <1>2, <1>3, <1>4, <2>2, <2>3 DEF Wins
<1>6. CASE win.restore # 0 /\ asked # 0
  <2>1. Wins(win, events, asked, late)
    BY <1>6 DEF SizeInv, Counts
  <2>2. RoleAnswers(win, events) => RoleAnswers(x, events)
    BY DEF RoleAnswers, RoleAnswer
  <2>3. RoleAsks(win, win.sent) => RoleAsks(x, x.sent)
    BY DEF RoleAsks, RoleIsAsked
  <2>4. Exiting(win, events) => Exiting(x, events)
    BY <1>1, <1>6 DEF Exiting, ExitAnswered, ExitAsked
  <2> QED BY <1>2, <1>3, <1>4, <2>1, <2>2, <2>3, <2>4 DEF Wins
<1> QED BY <1>2, <1>5, <1>6

LEMMA ResizeKeepsSize == SizeInv /\ (\E s \in Sizes : Resize(s)) => SizeInv'
<1> SUFFICES ASSUME SizeInv, NEW s \in Sizes, Resize(s) PROVE SizeInv'
  OBVIOUS
<1> DEFINE y == SetWindowSize(win, s)
           x == TellSize(y)
<1>1. Call(x) /\ ~win.monitor /\ Asks(s)
  BY DEF Resize
<1>2. win' = x /\ UNCHANGED <<events, srv, kind>> /\ calls' \in Nat /\ calls <= calls'
  BY <1>1, SizeHas, CallSteps
<1>3. WindowInv'
  BY SizeHas, ResizeKeeps
<1>4. /\ Only(win, y, Sizing) /\ y.sent = win.sent
      /\ y.restore = IF win.restore # 0 THEN s ELSE 0
      /\ y.width = IF Waits(win) THEN win.width ELSE s
  BY <1>1, SizeHas, SizeTo
<1> HIDE DEF y
<1>5. Only(y, x, {"told"})
  BY <1>4 DEF Only, Fields, TellSize
<1> HIDE DEF x
<1>6. /\ x.role = win.role /\ x.sync = win.sync /\ x.fullscreen = win.fullscreen
      /\ x.maximized = win.maximized /\ x.sent = win.sent /\ x.monitor = win.monitor
      /\ x.restore = y.restore /\ x.width = y.width
  BY <1>4, <1>5 DEF Only, Fields, Sizing, Resizing
<1>7. Numbered(x, srv, events, calls')
  BY <1>2, <1>6, SizeHas, StillNumbered
<1>8. ASSUME Counts' PROVE Wins(x, events, asked', late')
  <2>1. kind.prompt /\ asked' # 0
    BY <1>2, <1>8 DEF Counts
  <2>2. x.restore = (IF win.restore # 0 THEN s ELSE 0) /\ (win.restore = 0 => x.width = s)
    BY <1>4, <1>6 DEF Waits
  <2> QED BY <1>1, <1>6, <2>1, <2>2, ResizeWins
<1> QED BY <1>2, <1>3, <1>7, <1>8, SizeHas DEF SizeInv

LEMMA ExitIsAsked ==
  ASSUME NEW w, NEW x, NEW v, NEW es \in Seq(Event), NEW n \in Nat, Numbered(w, v, es, n),
         w.sent \in Seq(Request), x.sync = n + 1,
         x.sent = Append(Append(w.sent, [op |-> "unfull"]), [op |-> "sync", id |-> n + 1]),
         n + 1 \in Ids
  PROVE  ExitAsked(x, es)
<1> DEFINE p == [op |-> "unfull"]
           q == [op |-> "sync", id |-> n + 1]
           s == w.sent
           t == Append(s, p)
           u == Append(t, q)
           i == Len(s) + 1
<1>0. p \in Request /\ p.op = "unfull" /\ q \in Request /\ q.op = "sync" /\ q.id = n + 1
  BY DEF Request, Configuring
<1>1. x.sent = u
  OBVIOUS
<1> HIDE DEF p, q
<1>2. /\ Len(s) \in Nat /\ DOMAIN s = 1 .. Len(s) /\ DOMAIN t = 1 .. (Len(s) + 1)
      /\ t[Len(s) + 1] = p /\ \A k \in 1 .. Len(s) : t[k] = s[k] /\ t \in Seq(Request)
      /\ Live(t, i)
  BY <1>0, AppendFacts, LiveAppend
<1>3. t \in Seq(Request)
  BY <1>0, AppendFacts
<1> HIDE DEF t
<1>4. /\ Len(t) \in Nat /\ DOMAIN t = 1 .. Len(t) /\ DOMAIN u = 1 .. (Len(t) + 1)
      /\ u[Len(t) + 1] = q /\ \A k \in 1 .. Len(t) : u[k] = t[k]
      /\ \A k \in DOMAIN t : Live(u, k) <=> Live(t, k)
  <2>1. /\ Len(t) \in Nat /\ DOMAIN t = 1 .. Len(t) /\ DOMAIN u = 1 .. (Len(t) + 1)
        /\ u[Len(t) + 1] = q /\ \A k \in 1 .. Len(t) : u[k] = t[k]
    BY <1>0, <1>3, AppendFacts
  <2>2. \A k \in DOMAIN t : Live(u, k) <=> Live(t, k)
    BY <1>0, <1>3, LiveAppend
  <2> QED BY <2>1, <2>2
<1> HIDE DEF u
<1>5. Len(t) = i
  BY <1>2, <1>4
<1>6. i \in DOMAIN u /\ u[i] = p /\ Live(u, i)
  BY <1>2, <1>4, <1>5
<1>7. ASSUME NEW k \in DOMAIN u
      PROVE  (k > i => u[k].op \notin Asking) /\ (k < i => u[k] \notin Syncs(x.sync))
  <2>1. CASE k > i
    <3>1. u[k] = q
      BY <1>4, <1>5, <1>7, <2>1
    <3> QED BY <1>0, <2>1, <3>1, <1>2, <1>4 DEF Asking, Configuring
  <2>2. CASE k < i
    <3>1. k \in DOMAIN s /\ u[k] = s[k]
      BY <1>2, <1>4, <1>5, <1>7, <2>2
    <3>2. s[k].op = "sync" => s[k].id <= n
      BY <3>1 DEF Numbered, SyncsUpTo
    <3>3. u[k] \notin Syncs(x.sync)
      BY <3>1, <3>2 DEF Syncs
    <3> QED BY <1>2, <1>4, <2>2, <3>3
  <2>3. CASE ~(k > i) /\ ~(k < i)
    BY <2>3
  <2> QED BY <2>1, <2>2, <2>3
<1>8. \A k \in DOMAIN es : es[k] \notin Dones(x.sync)
  BY DEF Dones, Numbered, EventsUpTo
<1> QED BY <1>0, <1>1, <1>6, <1>7, <1>8 DEF ExitAsked

LEMMA LeaveKeepsSize == SizeInv /\ (\E s \in Sizes : Leave(s)) => SizeInv'
<1> SUFFICES ASSUME SizeInv, NEW s \in Sizes, Leave(s) PROVE SizeInv'
  OBVIOUS
<1> DEFINE n == calls + 1
           z == LeaveFullscreen(win, s, n)
           x == IF win.monitor THEN z ELSE TellSize(z)
           p == [op |-> "unfull"]
           q == [op |-> "sync", id |-> n]
<1>1. Call(x) /\ Asks(s)
  BY DEF Leave
<1>2. win' = x /\ UNCHANGED <<events, srv, kind>> /\ calls' = n /\ n \in Nat /\ calls <= n
      /\ n \in Ids \ {0} /\ calls' \in Nat
  <2> HIDE DEF x
  <2> QED BY <1>1, SizeHas, CallSteps, CallsGrow DEF WindowInv
<1>3. WindowInv'
  BY SizeHas, LeaveKeeps
<1>4. /\ x.role = win.role /\ x.fullscreen = win.fullscreen /\ x.maximized = win.maximized
      /\ win.monitor /\ win.role # 0 =>
           /\ x.restore = s /\ x.sync = n /\ x.width = win.width
           /\ x.sent = Append(Append(win.sent, p), q)
      /\ ~(win.monitor /\ win.role # 0) =>
           /\ x.sync = win.sync /\ x.sent = win.sent
           /\ x.restore = IF win.restore # 0 THEN s ELSE 0
           /\ x.width = IF ~win.monitor /\ win.restore # 0 THEN win.width ELSE s
  BY SizeHas, LeavesTo
<1> HIDE DEF x
<1>5. s # 0 /\ n = calls + 1
  BY SizesAreLengths
<1>6. CASE win.monitor /\ win.role # 0
  <2>1. p \in Request /\ p.op = "unfull" /\ q \in Request /\ q.op = "sync" /\ q.id = n
    BY <1>2 DEF Request, Configuring
  <2>2. ExitAsked(x, events)
    <3>1. x.sync = calls + 1 /\ calls + 1 \in Ids
      BY <1>2, <1>4, <1>6
    <3> QED BY <1>4, <1>6, <3>1, SizeHas, ExitIsAsked
  <2>3. Wins(x, events, asked', late')
    <3>1. asked' = s
      BY <1>1, <1>6 DEF Asks
    <3> QED BY <1>2, <1>4, <1>5, <1>6, <2>2, <3>1 DEF Wins, Exiting
  <2>4. Numbered(x, srv, events, calls')
    <3> DEFINE y == [role |-> win.role, sent |-> Append(win.sent, p)]
    <3>1. y.role = win.role /\ y.sent = Append(win.sent, p)
      OBVIOUS
    <3>2. y.sent \in Seq(Request) /\ x.sent = Append(y.sent, q)
      BY <1>4, <1>6, <2>1, <3>1, SizeHas, AppendFacts
    <3> HIDE DEF y, p, q, n
    <3>3. Numbered(win, srv, events, n)
      BY <1>2, SizeHas, StillNumbered
    <3>4. Numbered(y, srv, events, n)
      BY <1>2, <1>6, <2>1, <3>1, <3>3, SizeHas, SendIsNumbered DEF Configuring
    <3>5. n <= n
      BY <1>2
    <3>6. Numbered(x, srv, events, n)
      BY <1>2, <1>4, <2>1, <3>1, <3>2, <3>4, <3>5, SizeHas, SendIsNumbered DEF Configuring
    <3> QED BY <1>2, <3>6
  <2> QED BY <1>2, <1>3, <2>3, <2>4, SizeHas DEF SizeInv
<1>7. CASE ~(win.monitor /\ win.role # 0)
  <2>1. Numbered(x, srv, events, calls')
    BY <1>2, <1>4, <1>7, SizeHas, StillNumbered
  <2>2. ASSUME Counts' PROVE Wins(x, events, asked', late')
    <3>1. CASE win.monitor
      <4>1. asked' = s /\ x.width = s /\ (x.restore # 0 => x.restore = s) /\ x.role = 0
        BY <1>1, <1>4, <1>7, <3>1 DEF Asks
      <4>2. RoleAnswers(x, events)
        BY <4>1 DEF RoleAnswers, Replies, Configures, Event
      <4>3. RoleAsks(x, x.sent)
        <5>1. AllDead(x.sent)
          BY <1>4, <1>7, <4>1, SizeHas DEF Numbered
        <5> QED BY <5>1 DEF RoleAsks, AllDead
      <4>4. Right(x, s, late')
        BY <4>1 DEF Right
      <4> QED BY <4>1, <4>2, <4>3, <4>4 DEF Wins
    <3>2. CASE ~win.monitor
      <4>1. kind.prompt /\ asked' # 0
        BY <1>2, <2>2 DEF Counts
      <4> QED BY <1>1, <1>4, <1>7, <3>2, <4>1, ResizeWins
    <3> QED BY <3>1, <3>2
  <2> QED BY <1>2, <1>3, <2>1, <2>2, SizeHas DEF SizeInv
<1> QED BY <1>6, <1>7

(* The window handles the event at the head of the queue.                  *)
LEMMA EventTailIsNumbered ==
  ASSUME NEW w, NEW v, NEW es \in Seq(Event), es # <<>>, NEW n, Numbered(w, v, es, n)
  PROVE  Numbered(w, v, Tail(es), n)
<1>1. \A i \in DOMAIN Tail(es) : i + 1 \in DOMAIN es /\ Tail(es)[i] = es[i + 1]
  BY TailFacts
<1>2. EventsUpTo(Tail(es), n)
  BY <1>1 DEF Numbered, EventsUpTo
<1> QED BY <1>2 DEF Numbered

LEMMA AnswersShift ==
  ASSUME NEW es \in Seq(Event), es # <<>>, NEW R, NEW D, NEW i \in DOMAIN es, i # 1, es[i] \in R,
         \A k \in DOMAIN es : (k > i => es[k] \notin R) /\ (k < i => es[k] \notin D)
  PROVE  /\ i - 1 \in DOMAIN Tail(es) /\ Tail(es)[i - 1] = es[i] /\ Head(es) \notin D
         /\ \A k \in DOMAIN Tail(es) : /\ k > i - 1 => Tail(es)[k] \notin R
                                       /\ k < i - 1 => Tail(es)[k] \notin D
<1> DEFINE t == Tail(es)
<1>1. /\ Len(es) \in Nat \ {0} /\ DOMAIN es = 1 .. Len(es) /\ DOMAIN t = 1 .. (Len(es) - 1)
      /\ \A k \in 1 .. (Len(es) - 1) : t[k] = es[k + 1]
      /\ Head(es) = es[1]
  BY TailFacts
<1> HIDE DEF t
<1>2. i - 1 \in DOMAIN t /\ t[i - 1] = es[i] /\ 1 \in DOMAIN es /\ 1 < i
  BY <1>1
<1>3. Head(es) \notin D
  BY <1>1, <1>2
<1>4. ASSUME NEW k \in DOMAIN t PROVE (k > i - 1 => t[k] \notin R) /\ (k < i - 1 => t[k] \notin D)
  <2>1. k + 1 \in DOMAIN es /\ t[k] = es[k + 1] /\ (k > i - 1 => k + 1 > i) /\ (k < i - 1 => k + 1 < i)
    BY <1>1
  <2> QED BY <2>1
<1> QED BY <1>2, <1>3, <1>4 DEF t

(* What is no reply and no end of the wait changes nothing.                *)
LEMMA ExitAnsweredTail ==
  ASSUME NEW w, NEW x, NEW es \in Seq(Event), es # <<>>, ExitAnswered(w, es),
         x.role = w.role, x.sync = w.sync, x.sent = w.sent,
         \/ Head(es) \notin Replies(w.role)
         \/ \E i \in DOMAIN es : i # 1 /\ es[i] \in Replies(w.role)
  PROVE  ExitAnswered(x, Tail(es)) /\ Head(es) \notin Dones(w.sync)
<1> DEFINE R == Replies(w.role)
           D == Dones(w.sync)
<1>1. PICK i \in DOMAIN es : /\ es[i] \in R /\ ~es[i].full
                             /\ \A k \in DOMAIN es : (k > i => es[k] \notin R) /\ (k < i => es[k] \notin D)
  BY DEF ExitAnswered
<1> HIDE DEF R, D
<1>2. Head(es) = es[1] /\ DOMAIN es = 1 .. Len(es)
  BY TailFacts
<1>3. i # 1
  <2>1. CASE Head(es) \notin R
    BY <1>1, <1>2, <2>1
  <2>2. ASSUME NEW j \in DOMAIN es, j # 1, es[j] \in R PROVE i # 1
    <3>1. ~(j > i)
      BY <1>1, <2>2
    <3> QED BY <1>2, <2>2, <3>1
  <2> QED BY <2>1, <2>2 DEF R
<1>4. /\ i - 1 \in DOMAIN Tail(es) /\ Tail(es)[i - 1] = es[i] /\ Head(es) \notin D
      /\ \A k \in DOMAIN Tail(es) : /\ k > i - 1 => Tail(es)[k] \notin R
                                    /\ k < i - 1 => Tail(es)[k] \notin D
  BY <1>1, <1>3, AnswersShift
<1>5. AllDead(x.sent)
  BY DEF ExitAnswered
<1> QED BY <1>1, <1>4, <1>5 DEF ExitAnswered, R, D

LEMMA ExitAskedLater ==
  ASSUME NEW w, NEW x, NEW es \in Seq(Event), es # <<>>, ExitAsked(w, es),
         x.role = w.role, x.sync = w.sync, x.sent = w.sent
  PROVE  ExitAsked(x, Tail(es)) /\ Head(es) \notin Dones(w.sync)
<1>1. /\ \A k \in DOMAIN Tail(es) : k + 1 \in DOMAIN es /\ Tail(es)[k] = es[k + 1]
      /\ Head(es) = es[1] /\ 1 \in DOMAIN es
  BY TailFacts
<1> QED BY <1>1 DEF ExitAsked

LEMMA AnswersLater ==
  ASSUME NEW w, NEW x, NEW es \in Seq(Event), es # <<>>, RoleAnswers(w, es),
         x.role = w.role, x.maximized = w.maximized
  PROVE  RoleAnswers(x, Tail(es))
<1>1. \A k \in DOMAIN Tail(es) : k + 1 \in DOMAIN es /\ Tail(es)[k] = es[k + 1]
  BY TailFacts
<1> QED BY <1>1 DEF RoleAnswers, RoleAnswer

LEMMA OtherWins ==
  ASSUME NEW w, NEW x, NEW es \in Seq(Event), es # <<>>, NEW size, NEW l, Wins(w, es, size, l),
         Alike(w, x), x.sent = w.sent, Head(es) \notin Replies(w.role)
  PROVE  Wins(x, Tail(es), size, l)
<1>1. ASSUME Right(w, size, l), RoleAnswers(w, es), RoleAsks(w, w.sent)
      PROVE  Wins(x, Tail(es), size, l)
  <2>1. RoleAnswers(x, Tail(es))
    BY <1>1, AnswersLater DEF Alike
  <2> QED BY <1>1, <2>1 DEF Wins, Alike, Right, RoleAsks, RoleIsAsked
<1>2. ASSUME w.restore # 0, w.sync # 0, ExitAnswered(w, es) PROVE Wins(x, Tail(es), size, l)
  BY <1>2, ExitAnsweredTail DEF Wins, Exiting, Alike
<1>3. ASSUME w.restore # 0, w.sync # 0, ExitAsked(w, es) PROVE Wins(x, Tail(es), size, l)
  BY <1>3, ExitAskedLater DEF Wins, Exiting, Alike
<1> QED BY <1>1, <1>2, <1>3 DEF Wins, Exiting

(* The end of the wait comes after the answer to the exit.                 *)
LEMMA DoneWins ==
  ASSUME NEW w, NEW x, NEW es \in Seq(Event), es # <<>>, NEW size, NEW l, Wins(w, es, size, l),
         Head(es) \in Dones(w.sync), x.role = w.role, x.width = w.width, x.sent = w.sent,
         x.fullscreen = w.fullscreen, x.maximized = w.maximized,
         x.restore = IF w.fullscreen THEN w.restore ELSE 0
  PROVE  Wins(x, Tail(es), size, l)
<1>1. Head(es) \notin Replies(w.role)
  BY DEF Dones, Replies, Configures
<1>2. ~Exiting(w, es)
  BY <1>1, ExitAnsweredTail, ExitAskedLater DEF Exiting
<1>3. Right(w, size, l) /\ RoleAnswers(w, es) /\ RoleAsks(w, w.sent)
  BY <1>2 DEF Wins
<1>4. RoleAnswers(x, Tail(es))
  BY <1>3, AnswersLater
<1>5. RoleAsks(x, x.sent)
  BY <1>3 DEF RoleAsks, RoleIsAsked
<1>6. Right(x, size, l)
  BY <1>3 DEF Right
<1>7. x.restore # 0 => x.restore = size
  BY DEF Wins
<1> QED BY <1>4, <1>5, <1>6, <1>7 DEF Wins

(* A reply to the role leaves the size; that to the exit restores it.      *)
LEMMA ReplyWins ==
  ASSUME NEW w, NEW y, NEW es \in Seq(Event), es # <<>>, NEW size, NEW l, Wins(w, es, size, l),
         NEW e, e = Head(es), e \in Replies(w.role),
         y.role = w.role, y.sync = w.sync, y.sent = w.sent,
         y.fullscreen = e.full, y.maximized = e.max,
         y.restore = IF ~e.full /\ w.sync = 0 THEN 0 ELSE w.restore,
         ~e.full /\ ~e.max /\ w.restore # 0 => y.width = w.restore,
         w.restore = 0 /\ e.width = 0 => y.width = w.width, w.fullscreen \in BOOLEAN
  PROVE  Wins(y, Tail(es), size, l)
<1>1. /\ e = es[1] /\ 1 \in DOMAIN es /\ e \in Event /\ e.full \in BOOLEAN /\ e.max \in BOOLEAN
      /\ DOMAIN es = 1 .. Len(es) /\ Len(es) \in Nat
      /\ \A k \in DOMAIN Tail(es) : k \in Nat \ {0} /\ k + 1 \in DOMAIN es /\ Tail(es)[k] = es[k + 1]
  <2>1. /\ e = es[1] /\ 1 \in DOMAIN es /\ e \in Event
        /\ DOMAIN es = 1 .. Len(es) /\ Len(es) \in Nat
        /\ \A k \in DOMAIN Tail(es) : k \in Nat \ {0} /\ k + 1 \in DOMAIN es /\ Tail(es)[k] = es[k + 1]
    BY TailFacts
  <2>2. e.full \in BOOLEAN /\ e.max \in BOOLEAN
    BY <2>1 DEF Replies, Configures, Event
  <2> QED BY <2>1, <2>2
<1>2. y.restore # 0 => y.restore = size
  BY DEF Wins
<1>3. ASSUME Right(w, size, l), RoleAnswers(w, es), RoleAsks(w, w.sent)
      PROVE  Wins(y, Tail(es), size, l)
  <2>1. RoleAnswer(w, e)
    BY <1>1, <1>3 DEF RoleAnswers
  <2>2. ~e.full /\ y.maximized = w.maximized /\ (e.max \/ e.width = 0) /\ e.max = w.maximized
    BY <2>1 DEF RoleAnswer
  <2>3. RoleAnswers(y, Tail(es))
    BY <1>3, <2>2, AnswersLater
  <2>4. RoleAsks(y, y.sent)
    BY <1>3, <2>2 DEF RoleAsks, RoleIsAsked
  <2>5. Right(y, size, l)
    <3>1. CASE e.max
      BY <2>2, <3>1 DEF Right
    <3>2. CASE ~e.max /\ w.restore # 0
      BY <2>2, <3>2 DEF Right, Wins
    <3>3. CASE ~e.max /\ w.restore = 0
      BY <1>3, <2>2, <3>3 DEF Right
    <3> QED BY <3>1, <3>2, <3>3
  <2> QED BY <1>2, <2>3, <2>4, <2>5 DEF Wins
<1>4. ASSUME w.restore # 0, w.sync # 0, ExitAsked(w, es) PROVE Wins(y, Tail(es), size, l)
  BY <1>2, <1>4, ExitAskedLater DEF Wins, Exiting
<1>5. ASSUME w.restore # 0, w.sync # 0, ExitAnswered(w, es) PROVE Wins(y, Tail(es), size, l)
  <2>1. CASE \E i \in DOMAIN es : i # 1 /\ es[i] \in Replies(w.role)
    BY <1>2, <1>5, <2>1, ExitAnsweredTail DEF Wins, Exiting
  <2>2. CASE ~\E i \in DOMAIN es : i # 1 /\ es[i] \in Replies(w.role)
    <3>1. ~e.full
      <4>1. PICK i \in DOMAIN es : es[i] \in Replies(w.role) /\ ~es[i].full
        BY <1>5 DEF ExitAnswered
      <4> QED BY <1>1, <2>2, <4>1
    <3>2. RoleAnswers(y, Tail(es))
      <4>1. \A k \in DOMAIN Tail(es) : Tail(es)[k] \notin Replies(w.role)
        BY <1>1, <2>2
      <4> QED BY <4>1 DEF RoleAnswers
    <3>3. RoleAsks(y, y.sent)
      BY <1>5 DEF ExitAnswered, RoleAsks, AllDead
    <3>4. Right(y, size, l)
      BY <1>1, <1>5, <3>1 DEF Right, Wins
    <3> QED BY <1>2, <3>2, <3>3, <3>4 DEF Wins
  <2> QED BY <2>1, <2>2
<1> QED BY <1>3, <1>4, <1>5 DEF Wins, Exiting

LEMMA DispatchKeepsSize == SizeInv /\ Dispatch => SizeInv'
<1> SUFFICES ASSUME SizeInv, Dispatch PROVE SizeInv'
  OBVIOUS
<1> DEFINE e == Head(events)
           es == Tail(events)
           configured == e.type = "configure" /\ e.role = win.role
           decorated == e.type = "decoration" /\ e.role = win.role
           done == e.type = "done" /\ e.id = win.sync
           unblocked == e.type = "roundtrip"
<1>1. /\ events # <<>> /\ e \in Event /\ events' = es /\ es \in Seq(Event)
      /\ UNCHANGED <<srv, kind, calls, late>> /\ win' = Handle(win, e)
      /\ asked' = IF e.type = "configure" /\ e.own THEN 0 ELSE asked
  BY SizeHas, TailFacts DEF Dispatch
<1>2. WindowInv'
  BY SizeHas, DispatchKeeps
<1>3. Numbered(win, srv, es, calls)
  BY <1>1, SizeHas, EventTailIsNumbered
<1>4. Fine(win, srv) /\ Told(win) /\ IsWindow(win) /\ win.sent \in Seq(Request) /\ events \in Seq(Event)
      /\ DOMAIN win = Fields /\ calls \in Nat
  BY SizeHas DEF WindowInv, IsWindow
<1> HIDE DEF es
<1> DEFINE Q == /\ Numbered(win', srv, es, calls)
                /\ Counts' => Wins(win', es, asked', late)
<1>5. e = Head(events) /\ es = Tail(events)
  BY DEF es
<1> HIDE DEF e
<1>6. ASSUME NEW F, Keeps(win, win', F), "sent" \notin F,
             F \cap {"role", "monitor", "width", "restore", "sync", "fullscreen", "maximized"} = {},
             ~configured \/ e.own
      PROVE  Q
  <2>1. Alike(win, win') /\ win'.monitor = win.monitor /\ win'.sent = win.sent
    BY <1>6 DEF Keeps, Only, Fields, Alike
  <2>2. Numbered(win', srv, es, calls)
    <3>1. win'.role = win.role /\ win'.sent = win.sent /\ calls <= calls
      BY <1>4, <2>1 DEF Alike
    <3> QED BY <1>1, <1>3, <1>4, <3>1, StillNumbered
  <2>3. e \notin Replies(win.role)
    BY <1>6 DEF Replies, Configures
  <2>4. ASSUME Counts' PROVE Wins(win', es, asked', late)
    <3>1. asked' = asked /\ Counts
      BY <1>1, <2>1, <2>4 DEF Counts
    <3>2. Wins(win, events, asked, late)
      BY <3>1 DEF SizeInv
    <3> QED BY <1>1, <1>4, <1>5, <2>1, <2>3, <3>1, <3>2, OtherWins
  <2> QED BY <2>2, <2>4
<1>7. ASSUME configured PROVE Q
  <2> DEFINE x == XdgSurfaceHandleConfigure(XdgToplevelHandleConfigure(win, e))
  <2>1. win' = x
    BY <1>1, <1>7 DEF Handle
  <2>2. e.full \in BOOLEAN /\ e.max \in BOOLEAN /\ e.width \in Nat /\ e.role # 0
    BY <1>1, <1>7 DEF Event
  <2>3. Keeps(win, x, Configuration)
    BY <1>4, <1>7, <2>2, HandlesConfigure
  <2>4. /\ DOMAIN x = Fields /\ x.role = win.role /\ x.sync = win.sync
        /\ x.fullscreen = e.full /\ x.maximized = e.max
        /\ Adding(win, x, {"commit"})
        /\ x.restore = IF ~e.full /\ win.sync = 0 THEN 0 ELSE win.restore
        /\ ~e.full /\ ~e.max /\ win.restore # 0 => x.width = win.restore
        /\ win.restore = 0 /\ e.width = 0 => x.width = win.width
    BY <1>4, <2>2, ConfiguresTo
  <2> HIDE DEF x
  <2>5. x.monitor = win.monitor
    BY <2>3 DEF Keeps, Only, Fields, Configuration, Sizing, Resizing
  <2>6. Numbered(x, srv, es, calls)
    <3>1. {"commit"} \cap {"role", "destroyRole", "sync"} = {} /\ {"commit"} \cap Configuring = {}
      BY DEF Configuring
    <3>2. calls <= calls
      BY <1>4
    <3> QED BY <1>1, <1>3, <1>4, <2>4, <3>1, <3>2, AddingIsNumbered
  <2>7. ASSUME Counts' PROVE Wins(x, es, asked', late)
    <3>1. asked' = asked /\ Counts /\ ~e.own
      BY <1>1, <1>7, <2>1, <2>5, <2>7 DEF Counts
    <3>2. Wins(win, events, asked, late)
      BY <3>1 DEF SizeInv
    <3>3. e \in Replies(win.role)
      BY <1>1, <1>7, <3>1 DEF Replies, Configures
    <3> DEFINE y == [x EXCEPT !.sent = win.sent]
    <3>4. Only(x, y, {"sent"}) /\ y.sent = win.sent
      BY <2>4 DEF Only, Fields
    <3> HIDE DEF y
    <3>5. /\ y.role = win.role /\ y.sync = win.sync /\ y.fullscreen = e.full /\ y.maximized = e.max
          /\ y.restore = x.restore /\ y.width = x.width /\ Alike(y, x)
      BY <2>4, <3>4 DEF Only, Fields, Alike
    <3>6. /\ y.restore = IF ~e.full /\ win.sync = 0 THEN 0 ELSE win.restore
          /\ ~e.full /\ ~e.max /\ win.restore # 0 => y.width = win.restore
          /\ win.restore = 0 /\ e.width = 0 => y.width = win.width
      BY <2>4, <3>5
    <3>7. Wins(y, Tail(events), asked, late)
      BY <1>1, <1>4, <1>5, <3>2, <3>3, <3>4, <3>5, <3>6, SizeHas, ReplyWins
    <3>8. {"commit"} \cap (Asking \cup {"destroyRole"}) = {}
      BY DEF Asking, Configuring
    <3>9. Adding(y, x, {"commit"}) /\ y.sent \in Seq(Request)
      BY <1>4, <2>4, <3>4 DEF Adding
    <3> QED BY <1>5, <3>1, <3>5, <3>7, <3>8, <3>9, AddingWins
  <2> QED BY <2>1, <2>6, <2>7
<1>8. ASSUME decorated PROVE Q
  <2>1. win' = XdgDecorationHandleConfigure(win, e.mode) /\ ~configured
    BY <1>1, <1>8 DEF Handle
  <2>2. Keeps(win, win', {"mode", "fallback"})
    BY <1>4, <2>1, HandlesDecoration
  <2> QED BY <1>6, <2>1, <2>2
<1>9. ASSUME done PROVE Q
  <2>1. win' = RestoreSyncHandleDone(win) /\ ~configured
    BY <1>1, <1>9 DEF Handle
  <2>2. /\ win'.role = win.role /\ win'.width = win.width /\ win'.sent = win.sent
        /\ win'.fullscreen = win.fullscreen /\ win'.maximized = win.maximized
        /\ win'.monitor = win.monitor
        /\ win'.restore = IF win.fullscreen THEN win.restore ELSE 0
    BY <1>4, <2>1 DEF RestoreSyncHandleDone, Fields
  <2>3. Numbered(win', srv, es, calls)
    <3>1. calls <= calls
      BY <1>4
    <3> QED BY <1>1, <1>3, <1>4, <2>2, <3>1, StillNumbered
  <2>4. ASSUME Counts' PROVE Wins(win', es, asked', late)
    <3>1. asked' = asked /\ Counts
      BY <1>1, <1>9, <2>2, <2>4 DEF Counts
    <3>2. Wins(win, events, asked, late)
      BY <3>1 DEF SizeInv
    <3>3. e \in Dones(win.sync)
      BY <1>1, <1>9 DEF Dones
    <3> QED BY <1>1, <1>4, <1>5, <2>2, <3>1, <3>2, <3>3, DoneWins
  <2> QED BY <2>3, <2>4
<1>10. ASSUME unblocked PROVE Q
  <2>1. win' = [win EXCEPT !.blocked = FALSE] /\ ~configured
    BY <1>1, <1>10 DEF Handle
  <2>2. Keeps(win, win', {"blocked"})
    BY <1>4, <2>1, HandlesRoundtrip
  <2> QED BY <1>6, <2>1, <2>2
<1>11. ASSUME ~configured /\ ~decorated /\ ~done /\ ~unblocked PROVE Q
  <2>1. win' = win
    BY <1>1, <1>11 DEF Handle
  <2>2. Keeps(win, win', {})
    BY <1>4, <2>1, SameIsKept DEF Fine
  <2> QED BY <1>6, <1>11, <2>2
<1>12. Q
  BY <1>7, <1>8, <1>9, <1>10, <1>11
<1> HIDE DEF configured, decorated, done, unblocked
<1> QED BY <1>1, <1>2, <1>12, SizeHas DEF SizeInv

LEMMA SendOwedKeepsSize == SizeInv /\ SendOwed => SizeInv'
<1> SUFFICES ASSUME SizeInv, SendOwed PROVE SizeInv'
  OBVIOUS
<1> DEFINE c == Configure(srv, FALSE)
<1>1. /\ srv.owes /\ events' = Append(events, c) /\ srv' = [srv EXCEPT !.owes = FALSE]
      /\ UNCHANGED <<win, kind, calls, asked, late>> /\ ViewOK(srv)
  BY SizeHas DEF SendOwed, WindowInv
<1>2. ~kind.prompt
  BY <1>1, SizeHas
<1>3. c \in Event /\ c.type = "configure" /\ c.role = srv.role
  BY <1>1, ConfigureIsEvent DEF ViewOK
<1> HIDE DEF c
<1>4. srv'.role = srv.role /\ srv.role <= calls
  BY <1>1, SizeHas DEF ViewOK, IsView, Views, WindowInv, Fresh
<1>5. Numbered(win, srv', events', calls)
  <2>1. Numbered(win, srv, events', calls)
    BY <1>1, <1>3, <1>4, SizeHas, EventIsNumbered
  <2> QED BY <1>4, <2>1 DEF Numbered
<1>6. WindowInv'
  BY SizeHas, SendOwedKeeps
<1> QED BY <1>1, <1>2, <1>5, <1>6 DEF SizeInv, Counts

(* A size of the compositor's own ends what was asked for when it arrives. *)
LEMMA ConfigureUnaskedKeepsSize == SizeInv /\ ConfigureUnasked => SizeInv'
<1> SUFFICES ASSUME SizeInv, ConfigureUnasked PROVE SizeInv'
  OBVIOUS
<1> DEFINE c == Configure(srv', TRUE)
<1>0. ViewOK(srv) /\ WindowInv
  BY SizeHas DEF WindowInv
<1>1. PICK s \in {srv.float} \cup Sizes :
         srv' = [srv EXCEPT !.float = s] /\ events' = Append(events, c)
  BY DEF ConfigureUnasked
<1>2. srv.role # 0 /\ ~srv.owes /\ UNCHANGED <<win, kind, calls, asked, late>>
  BY DEF ConfigureUnasked
<1>3. s \in Nat
  BY <1>0, SizesAreLengths DEF ViewOK, IsView
<1>4. ViewOK(srv') /\ srv'.role = srv.role /\ srv'.owes = srv.owes /\ srv.role <= calls
  BY <1>0, <1>1, <1>3 DEF ViewOK, IsView, Views, WindowInv, Fresh
<1>5. c \in Event /\ c.type = "configure" /\ c.role = srv.role /\ c.own = TRUE
  <2>1. c \in Event /\ c.type = "configure" /\ c.role = srv'.role
    BY <1>2, <1>4, ConfigureIsEvent DEF ViewOK
  <2>2. c.own = TRUE
    BY DEF Configure
  <2> QED BY <1>4, <2>1, <2>2
<1> HIDE DEF c
<1>6. Numbered(win, srv', events', calls)
  <2>1. Numbered(win, srv, events', calls)
    BY <1>1, <1>4, <1>5, SizeHas, EventIsNumbered
  <2> QED BY <1>4, <2>1 DEF Numbered
<1>7. ASSUME Counts PROVE Wins(win, events', asked, late)
  <2>1. Wins(win, events, asked, late)
    BY <1>7 DEF SizeInv
  <2>2. c \notin Replies(win.role) /\ c \notin Dones(win.sync)
    BY <1>5 DEF Replies, Dones
  <2> QED BY <1>1, <1>5, <2>1, <2>2, SizeHas, EventWins
<1>8. WindowInv'
  BY <1>0, ConfigureUnaskedKeeps
<1> QED BY <1>2, <1>4, <1>6, <1>7, <1>8, SizeHas DEF SizeInv, Counts

(* What serving a request sends: a decoration perhaps, and its answer.     *)
Answer(r, v, f, g) ==
  \/ r.op \notin Asking \cup {"sync", "roundtrip"} /\ g = f
  \/ r.op = "roundtrip" /\ \E e \in Event : e.type = "roundtrip" /\ g = Append(f, e)
  \/ r.op = "sync" /\ \E e \in Event : e.type = "done" /\ e.id = r.id /\ g = Append(f, e)
  \/ r.op \in Asking /\ g = f /\ ~kind.prompt
  \/ /\ r.op \in Asking
     /\ \E c \in Event :
          /\ g = Append(f, c) /\ c.type = "configure" /\ ~c.own /\ c.role = v.role
          /\ r.op = "unfull" => ~c.full
          /\ r.op = "role" => /\ c.full = r.full /\ c.max = r.max
                              /\ ~c.full /\ ~c.max => c.width = 0
MayDecorate(es, f) ==
  f \in Seq(Event) /\ (f = es \/ \E d \in Event : d.type = "decoration" /\ f = Append(es, d))

LEMMA OneAnswers ==
  ASSUME NEW r, NEW v, NEW f, NEW g, NEW e \in Event, g = Append(f, e),
         \/ r.op = "roundtrip" /\ e.type = "roundtrip"
         \/ r.op = "sync" /\ e.type = "done" /\ e.id = r.id
         \/ /\ r.op \in Asking /\ e.type = "configure" /\ ~e.own /\ e.role = v.role
            /\ r.op = "unfull" => ~e.full
            /\ r.op = "role" => /\ e.full = r.full /\ e.max = r.max
                                /\ ~e.full /\ ~e.max => e.width = 0
  PROVE  Answer(r, v, f, g)
BY DEF Answer

LEMMA ConfigureReplies ==
  ASSUME NEW v, IsView(v), NEW r \in Request, r.op \in Asking,
         Received(v, r).role # 0
  PROVE  LET c == Configure(Received(v, r), FALSE)
         IN  /\ c \in Event /\ c.type = "configure" /\ ~c.own /\ c.role = Received(v, r).role
             /\ r.op = "unfull" => ~c.full
             /\ r.op = "role" => /\ c.full = r.full /\ c.max = r.max
                                 /\ ~c.full /\ ~c.max => c.width = 0
<1> DEFINE x == Received(v, r)
           c == Configure(x, FALSE)
<1>1. Receipt(v, r, x)
  BY Receives
<1>2. r.op = "role" => x.max = r.max /\ x.float = 0
  BY DEF Received, IsView, Views
<1> HIDE DEF x
<1>3. c \in Event /\ c.type = "configure" /\ c.role = x.role /\ c.full = x.full
  BY <1>1, ConfigureIsEvent DEF Receipt, x
<1>4. c.own = FALSE /\ c.max = x.max /\ c.width = Suggestion(x)
  BY DEF Configure
<1>5. ~x.full /\ ~x.max /\ x.float = 0 => Suggestion(x) = 0
  BY DEF Suggestion
<1> HIDE DEF c
<1>6. r.op = "unfull" => ~c.full
  BY <1>1, <1>3 DEF Receipt
<1>7. r.op = "role" => c.full = r.full /\ c.max = r.max /\ (~c.full /\ ~c.max => c.width = 0)
  BY <1>1, <1>2, <1>3, <1>4, <1>5 DEF Receipt
<1> QED BY <1>3, <1>4, <1>6, <1>7 DEF c, x

LEMMA ServeAnswers ==
  ASSUME WindowInv, Serve
  PROVE  LET r == Head(win.sent)
         IN  /\ win.sent # <<>> /\ win.sent \in Seq(Request) /\ r \in Request
             /\ Only(win, win', {"sent"}) /\ win'.sent = Tail(win.sent)
             /\ UNCHANGED <<kind, calls, asked, late>>
             /\ Receipt(srv, r, Received(srv, r)) /\ srv'.role = Received(srv, r).role
             /\ kind.prompt /\ ~srv.owes => ~srv'.owes
             /\ \E f : MayDecorate(events, f) /\ Answer(r, Received(srv, r), f, events')
<1> DEFINE r == Head(win.sent)
           v == Received(srv, r)
           configures == r.op \in {"role", "full", "unfull", "max", "unmax"}
           deco == IF kind.manager # "none" /\ r.op \in {"role", "mode"}
                   THEN <<Decoration(v, r.ssd)>> ELSE <<>>
           reply == CASE r.op = "sync" -> <<[type |-> "done", id |-> r.id]>>
                      [] r.op = "roundtrip" -> <<[type |-> "roundtrip"]>>
                      [] OTHER -> <<>>
           c == Configure(v, FALSE)
           f == events \o deco
<1>1. /\ win.sent # <<>> /\ win.sent \in Seq(Request) /\ r \in Request /\ r = Head(win.sent)
      /\ Fine(win, srv) /\ ViewOK(srv) /\ IsView(srv) /\ events \in Seq(Event)
      /\ DOMAIN win = Fields
  BY TailFacts DEF WindowInv, Serve, Fine, Good, IsWindow, ViewOK
<1>2. /\ win' = [win EXCEPT !.sent = Tail(@)] /\ UNCHANGED <<kind, calls, asked, late>>
      /\ \/ srv' = [v EXCEPT !.owes = @ /\ ~configures]
            /\ events' = (f \o reply) \o (IF configures THEN <<c>> ELSE <<>>)
         \/ ~kind.prompt /\ configures /\ srv' = [v EXCEPT !.owes = TRUE] /\ events' = f \o reply
  BY DEF Serve
<1>3. Only(win, win', {"sent"}) /\ win'.sent = Tail(win.sent)
  BY <1>1, <1>2 DEF Only, Fields
<1>4. Receipt(srv, r, v)
  <2> HIDE DEF r
  <2> QED BY <1>1, Receives
<1>5. configures <=> r.op \in Asking
  BY DEF Asking, Configuring
<1>6. configures => v.role # 0
  <2>1. r.op \in Configuring => srv.role # 0
    <3>1. 1 \in DOMAIN win.sent /\ r = win.sent[1]
      BY <1>1, TailFacts DEF r
    <3>2. LivesAt(win.sent, srv.role, 1) \/ r.op \notin Configuring
      BY <1>1, <3>1 DEF Fine, SentOK, Ordered, OnlyWhileLive
    <3> QED BY <3>2 DEF LivesAt
  <2>2. r.op = "role" => r.id # 0
    BY <1>1 DEF Request, Configuring
  <2> QED BY <1>4, <1>5, <2>1, <2>2 DEF Receipt, Asking, Configuring
<1>7. configures => /\ c \in Event /\ c.type = "configure" /\ ~c.own /\ c.role = v.role
                    /\ r.op = "unfull" => ~c.full
                    /\ r.op = "role" => /\ c.full = r.full /\ c.max = r.max
                                        /\ ~c.full /\ ~c.max => c.width = 0
  <2> HIDE DEF r
  <2> QED BY <1>1, <1>5, <1>6, ConfigureReplies
<1> HIDE DEF r, v, c
<1>8. MayDecorate(events, f)
  <2> DEFINE d == Decoration(v, r.ssd)
  <2>1. d \in Event /\ d.type = "decoration"
    BY <1>4 DEF Decoration, Event, Receipt, IsView
  <2>2. CASE deco = <<>>
    <3> HIDE DEF deco
    <3>1. f = events
      BY <1>1, <2>2
    <3> QED BY <1>1, <3>1 DEF MayDecorate
  <2>3. CASE deco = <<d>>
    <3> HIDE DEF deco, d
    <3>1. f = Append(events, d)
      BY <1>1, <2>1, <2>3, AppendOne
    <3>2. Append(events, d) \in Seq(Event)
      BY <1>1, <2>1, AppendFacts
    <3> QED BY <2>1, <3>1, <3>2 DEF MayDecorate
  <2> QED BY <2>2, <2>3
<1>9. f \in Seq(Event)
  BY <1>8 DEF MayDecorate
<1> HIDE DEF f, deco
<1>10. DOMAIN v = Views
  BY <1>4 DEF Receipt, IsView
<1>11. srv'.role = v.role /\ (kind.prompt /\ ~srv.owes => ~srv'.owes)
  <2> HIDE DEF configures
  <2>1. ~srv.owes => ~v.owes
    BY <1>4 DEF Receipt
  <2>2. ASSUME srv' = [v EXCEPT !.owes = @ /\ ~configures]
        PROVE  srv'.role = v.role /\ (~srv.owes => ~srv'.owes)
    BY <1>10, <2>1, <2>2 DEF Views
  <2>3. ASSUME ~kind.prompt, srv' = [v EXCEPT !.owes = TRUE]
        PROVE  srv'.role = v.role
    BY <1>10, <2>3 DEF Views
  <2> QED BY <1>2, <2>2, <2>3
<1>12. \/ events' = (f \o reply) \o (IF configures THEN <<c>> ELSE <<>>)
       \/ ~kind.prompt /\ configures /\ events' = f \o reply
  BY <1>2
<1>13. ASSUME configures PROVE Answer(r, v, f, events')
  <2>1. reply = <<>> /\ r.op \in Asking
    BY <1>5, <1>13
  <2>2. \/ events' = (f \o <<>>) \o <<c>>
        \/ ~kind.prompt /\ events' = f \o <<>>
    BY <1>12, <1>13, <2>1
  <2> HIDE DEF reply
  <2>3. f \o <<>> = f /\ f \o <<c>> = Append(f, c)
    BY <1>7, <1>9, <1>13, AppendOne
  <2>4. events' = Append(f, c) \/ (~kind.prompt /\ events' = f)
    BY <2>2, <2>3
  <2>5. CASE ~kind.prompt /\ events' = f
    BY <2>1, <2>5 DEF Answer
  <2>6. CASE events' = Append(f, c)
    BY <1>7, <1>13, <2>1, <2>6, OneAnswers
  <2> QED BY <2>4, <2>5, <2>6
<1>14. ASSUME ~configures PROVE Answer(r, v, f, events')
  <2>1. r.op \notin Asking /\ events' = (f \o reply) \o <<>>
    BY <1>5, <1>12, <1>14
  <2>2. ASSUME NEW e \in Event, reply = <<e>> PROVE events' = Append(f, e)
    <3> HIDE DEF reply
    <3>1. f \o reply = Append(f, e) /\ Append(f, e) \in Seq(Event)
      BY <1>9, <2>2, AppendOne, AppendFacts
    <3> QED BY <2>1, <3>1, AppendOne
  <2>3. CASE r.op = "sync"
    <3> DEFINE e == [type |-> "done", id |-> r.id]
    <3>1. e \in Event /\ e.type = "done" /\ e.id = r.id
      BY <1>1, <2>3 DEF Event, Request, Configuring
    <3>2. reply = <<e>>
      BY <2>3
    <3> HIDE DEF e, reply
    <3>3. events' = Append(f, e)
      BY <2>2, <3>1, <3>2
    <3> QED BY <2>3, <3>1, <3>3, OneAnswers
  <2>4. CASE r.op = "roundtrip"
    <3> DEFINE e == [type |-> "roundtrip"]
    <3>1. e \in Event /\ e.type = "roundtrip"
      BY DEF Event
    <3>2. reply = <<e>>
      BY <2>4
    <3> HIDE DEF e, reply
    <3>3. events' = Append(f, e)
      BY <2>2, <3>1, <3>2
    <3> QED BY <2>4, <3>1, <3>3, OneAnswers
  <2>5. CASE r.op \notin {"sync", "roundtrip"}
    <3>1. reply = <<>>
      BY <2>5
    <3> HIDE DEF reply
    <3>2. f \o reply = f /\ events' = f \o <<>>
      BY <1>9, <2>1, <3>1, AppendOne
    <3>3. events' = f
      BY <1>9, <3>2, AppendOne
    <3> QED BY <2>1, <2>5, <3>3 DEF Answer
  <2> QED BY <2>3, <2>4, <2>5
<1>15. Answer(r, v, f, events')
  BY <1>13, <1>14
<1> HIDE DEF configures, reply
<1> QED BY <1>1, <1>2, <1>3, <1>4, <1>8, <1>11, <1>15 DEF r, v

LEMMA ServeKeepsSize == SizeInv /\ Serve => SizeInv'
<1> SUFFICES ASSUME SizeInv, Serve PROVE SizeInv'
  OBVIOUS
<1> DEFINE r == Head(win.sent)
           v == Received(srv, r)
<1>0. WindowInv
  BY SizeHas
<1>1. /\ win.sent # <<>> /\ win.sent \in Seq(Request) /\ r \in Request /\ r = Head(win.sent)
      /\ Only(win, win', {"sent"}) /\ win'.sent = Tail(win.sent)
      /\ UNCHANGED <<kind, calls, asked, late>>
      /\ Receipt(srv, r, v) /\ srv'.role = v.role
      /\ kind.prompt /\ ~srv.owes => ~srv'.owes
      /\ \E f : MayDecorate(events, f) /\ Answer(r, v, f, events')
  BY <1>0, ServeAnswers
<1> HIDE DEF r, v
<1>2. PICK f : MayDecorate(events, f) /\ Answer(r, v, f, events')
  BY <1>1
<1>3. Alike(win, win') /\ win'.monitor = win.monitor
  BY <1>1 DEF Only, Fields, Alike
<1>4. /\ f \in Seq(Event) /\ Numbered(win, srv, f, calls)
      /\ Counts => Wins(win, f, asked, late)
  <2>1. CASE f = events
    BY <2>1, SizeHas DEF SizeInv
  <2>2. ASSUME NEW d \in Event, d.type = "decoration", f = Append(events, d)
        PROVE  Numbered(win, srv, f, calls) /\ (Counts => Wins(win, f, asked, late))
    <3>1. d \notin Replies(win.role) /\ d \notin Dones(win.sync)
      BY <2>2 DEF Replies, Configures, Dones
    <3>2. Numbered(win, srv, f, calls)
      BY <2>2, SizeHas, EventIsNumbered
    <3>3. ASSUME Counts PROVE Wins(win, f, asked, late)
      <4>1. Wins(win, events, asked, late)
        BY <3>3 DEF SizeInv
      <4> QED BY <2>2, <3>1, <4>1, SizeHas, EventWins
    <3> QED BY <3>2, <3>3
  <2> QED BY <1>2, <2>1, <2>2 DEF MayDecorate
<1>5. srv'.role \in {srv.role, 0} \/ (r.op = "role" /\ srv'.role = r.id)
  BY <1>1 DEF Receipt
<1>6. srv.role <= calls /\ (r.op = "role" => r.id <= calls) /\ (r.op = "sync" => r.id <= calls)
  <2>1. r \in Elems(win.sent) /\ 1 \in DOMAIN win.sent /\ r = win.sent[1]
    BY <1>1, TailFacts DEF r, Elems
  <2> QED BY <1>0, <2>1, SizeHas DEF WindowInv, Fresh, Numbered, SyncsUpTo
<1>7. srv'.role <= calls
  BY <1>5, <1>6, SizeHas
<1>8. Numbered(win', srv', f, calls)
  BY <1>1, <1>3, <1>4, <1>5, SizeHas, TailIsNumbered DEF r, Alike
<1> DEFINE Q == /\ Numbered(win', srv', events', calls)
                /\ Counts => Wins(win', events', asked, late)
<1>9. ASSUME events' = f, r.op \notin Asking \/ ~kind.prompt PROVE Q
  <2>1. ASSUME Counts PROVE Wins(win', f, asked, late)
    <3>1. r.op # "unfull"
      BY <1>9, <2>1 DEF Counts, Asking, Configuring
    <3> QED BY <1>1, <1>3, <1>4, <2>1, <3>1, TailWins DEF r
  <2> QED BY <1>8, <1>9, <2>1
<1>10. ASSUME NEW e \in Event, e.type = "roundtrip", r.op = "roundtrip", events' = Append(f, e)
       PROVE  Q
  <2>1. Numbered(win', srv', events', calls)
    BY <1>4, <1>8, <1>10, EventIsNumbered
  <2>2. ASSUME Counts PROVE Wins(win', events', asked, late)
    <3>1. Wins(win', f, asked, late)
      BY <1>1, <1>3, <1>4, <1>10, <2>2, TailWins DEF r
    <3>2. e \notin Replies(win'.role) /\ e \notin Dones(win'.sync)
      BY <1>10 DEF Replies, Configures, Dones
    <3> QED BY <1>4, <1>10, <3>1, <3>2, EventWins
  <2> QED BY <2>1, <2>2
<1>11. ASSUME NEW e \in Event, e.type = "done", e.id = r.id, r.op = "sync", events' = Append(f, e)
       PROVE  Q
  <2>1. Numbered(win', srv', events', calls)
    BY <1>4, <1>6, <1>8, <1>11, EventIsNumbered
  <2>2. ASSUME Counts PROVE Wins(win', events', asked, late)
    BY <1>1, <1>3, <1>4, <1>11, <2>2, SyncWins DEF r
  <2> QED BY <2>1, <2>2
<1>12. ASSUME NEW c \in Event, r.op \in Asking, events' = Append(f, c), c.type = "configure",
              ~c.own, c.role = v.role, r.op = "unfull" => ~c.full,
              r.op = "role" => /\ c.full = r.full /\ c.max = r.max
                               /\ ~c.full /\ ~c.max => c.width = 0
       PROVE  Q
  <2>1. Numbered(win', srv', events', calls)
    BY <1>1, <1>4, <1>7, <1>8, <1>12, EventIsNumbered
  <2>2. IF r.op = "role" THEN c.role = r.id ELSE c.role = srv.role
    BY <1>1, <1>12 DEF Receipt, Asking, Configuring
  <2>3. ASSUME Counts PROVE Wins(win', Append(f, c), asked, late)
    BY <1>1, <1>3, <1>4, <1>12, <2>2, <2>3, SizeHas, AskWins DEF r
  <2> QED BY <1>12, <2>1, <2>3
<1>13. Q
  BY <1>2, <1>9, <1>10, <1>11, <1>12 DEF Answer
<1>14. WindowInv'
  BY <1>0, ServeKeeps
<1> QED BY <1>1, <1>3, <1>13, <1>14, SizeHas DEF SizeInv, Counts

LEMMA InitSizeInv == Init => SizeInv
<1> SUFFICES ASSUME Init PROVE SizeInv
  OBVIOUS
<1>1. win.role = 0 /\ win.sent = <<>> /\ events = <<>> /\ asked = 0 /\ srv.owes = FALSE
  BY DEF Init, NewWindow
<1>2. DOMAIN win.sent = {} /\ DOMAIN events = {}
  BY <1>1
<1>3. Numbered(win, srv, events, calls)
  BY <1>1, <1>2 DEF Numbered, EventsUpTo, SyncsUpTo, AllDead
<1> QED BY <1>1, <1>3, InitWindowInv DEF SizeInv, Counts

LEMMA SizeInvStep == SizeInv /\ [Next]_vars => SizeInv'
<1> SUFFICES ASSUME SizeInv, [Next]_vars PROVE SizeInv'
  OBVIOUS
<1>1. CASE Show
  BY <1>1, ShowKeepsSize
<1>2. CASE Hide
  BY <1>2, HideKeepsSize
<1>3. CASE Enter
  BY <1>3, EnterKeepsSize
<1>4. CASE Shadow
  BY <1>4, ShadowKeepsSize
<1>5. CASE Maximize \/ Restore
  BY <1>5, MaximizeKeepsSize
<1>6. CASE \E s \in Sizes : Leave(s) \/ Resize(s)
  BY <1>6, LeaveKeepsSize, ResizeKeepsSize
<1>7. CASE \E b \in BOOLEAN : Decorate(b)
  BY <1>7, DecorateKeepsSize
<1>8. CASE Paint
  BY <1>8, PaintKeepsSize
<1>9. CASE Dispatch
  BY <1>9, DispatchKeepsSize
<1>10. CASE Serve
  BY <1>10, ServeKeepsSize
<1>11. CASE SendOwed
  BY <1>11, SendOwedKeepsSize
<1>12. CASE ConfigureUnasked
  BY <1>12, ConfigureUnaskedKeepsSize
<1>13. CASE UNCHANGED vars
  <2>1. /\ win' = win /\ events' = events /\ srv' = srv /\ kind' = kind
        /\ calls' = calls /\ asked' = asked /\ late' = late
    BY <1>13 DEF vars
  <2>2. WindowInv'
    BY SizeHas, WindowInvStep
  <2> QED BY <2>1, <2>2, SizeHas DEF SizeInv, Counts
<1> QED BY <1>1, <1>2, <1>3, <1>4, <1>5, <1>6, <1>7, <1>8, <1>9, <1>10, <1>11, <1>12, <1>13
     DEF Next

LEMMA SizeIsInv == Spec => []SizeInv
BY InitSizeInv, SizeInvStep, PTL DEF Spec

(* Whatever the compositor suggests, and for whatever request: once it has *)
(* answered everything at once, a floating window has the size that was    *)
(* asked for last, if it was asked for in time (restoreWidth and           *)
(* restoreSync of wl_window.c).                                            *)
THEOREM TimelySizeAlwaysWins == Spec => []TimelySizeWins
<1>1. ASSUME SizeInv, ~late, Settled, kind.prompt, asked # 0, ~win.fullscreen, ~win.maximized
      PROVE  win.width = asked
  <2>1. /\ win.sent = <<>> /\ ~srv.owes /\ win.role # 0 /\ win.sync = 0
        /\ \A i \in DOMAIN events : events[i].type # "configure"
    BY <1>1 DEF Settled, Quiet, Answers
  <2>2. Fine(win, srv) /\ Answered(win, srv, events) /\ events \in Seq(Event)
    BY <1>1 DEF SizeInv, WindowInv
  <2>3. ~win.monitor
    BY <1>1, <2>1, <2>2, AllReached
  <2>4. Wins(win, events, asked, late)
    BY <1>1, <2>3 DEF SizeInv, Counts
  <2>5. Right(win, asked, late)
    BY <2>1, <2>4 DEF Wins, Exiting
  <2> QED BY <1>1, <2>5 DEF Right
<1>2. SizeInv => TimelySizeWins
  BY <1>1 DEF TimelySizeWins, RequestedSizeWins
<1> QED BY <1>2, SizeIsInv, PTL

=============================================================================
