-------------------------- MODULE AnimationProofs ---------------------------
(***************************************************************************)
(* That the animation runner plays every animation in full, and forgets    *)
(* none but those started while it stops.                                  *)
(***************************************************************************)
EXTENDS AnimationRunner, SequenceTheorems, WellFoundedInduction, TLAPS

(* That each animation is played in full, whoever starts and stops them:   *)
(* an instance is in one place of one list that is yet to be ticked, and   *)
(* its counters say how far it has been played.                            *)

(* The instances that a frame has yet to tick or that the next one will:   *)
(* during a frame the list of the running animations is out of date.       *)
Turn == IF rpc \in {"frame", "tick"} THEN oldList ELSE animations
Waits(i) == i \in Members(Turn) \/ i \in Members(nextFrameAnimations)
            \/ i \in Members(pendingAnimations)

Once(s) == \A j, k \in DOMAIN s : s[j] = s[k] => j = k
Apart(s, t) == Members(s) \cap Members(t) = {}

(* How far an instance x with the ends e has been played. *)
UnderWay(x, e) ==
  LET count == RepeatCount[x.a] IN
  /\ x.reverse => x.a \in AutoReverse
  /\ count = -1 => x.repeatsLeft = -1
  /\ count # -1 =>
       /\ x.repeatsLeft \in 0 .. count
       /\ e.to = count - x.repeatsLeft + (IF x.reverse THEN 1 ELSE 0)
       /\ e.fro = IF x.a \in AutoReverse THEN count - x.repeatsLeft ELSE 0

ListsInv ==
  /\ anim \in Seq(AnimSet) /\ ends \in Seq([to : Nat, fro : Nat]) /\ Len(ends) = Len(anim)
  /\ \A s \in {animations, pendingAnimations, nextFrameAnimations, oldList} :
        s \in Seq(DOMAIN anim)
  /\ rpc \in {"idle", "frame", "tick", "clear"}
  /\ rpc # "idle" => runnerStarted
  /\ rpc \in {"idle", "clear"} => oldList = <<>> /\ nextFrameAnimations = <<>>
  /\ rpc = "tick" => oldList # <<>>

OnceInv ==
  /\ Once(Turn) /\ Once(nextFrameAnimations) /\ Once(pendingAnimations)
  /\ Apart(Turn, nextFrameAnimations) /\ Apart(Turn, pendingAnimations)
  /\ Apart(nextFrameAnimations, pendingAnimations)

PlayInv ==
  \A i \in DOMAIN anim :
     /\ anim[i].stopped \/ Waits(i) \/ Complete(i)
     /\ Waits(i) => UnderWay(anim[i], ends[i])
     /\ RepeatCount[anim[i].a] >= 0 => ends[i].to <= RepeatCount[anim[i].a] + 1

FullInv == ListsInv /\ OnceInv /\ PlayInv

(* Induction for sets: an operator as its parameter would be out of reach  *)
(* of the provers.                                                         *)
Smaller == {p \in Nat \X Nat : p[1] < p[2]}

LEMMA SetInduction ==
  ASSUME NEW T, 0 \in T, \A n \in Nat : n \in T => n + 1 \in T
  PROVE  Nat \subseteq T
<1> SUFFICES ASSUME Nat \ T # {} PROVE FALSE
  OBVIOUS
<1>1. IsWellFoundedOn(Smaller, Nat)
  <2>1. Smaller = OpToRel(<, Nat)
    BY DEF Smaller, OpToRel
  <2> QED BY <2>1, NatLessThanWellFounded
<1>2. Nat \ T \subseteq Nat /\ Nat \ T # {}
  OBVIOUS
<1>3. PICK n \in Nat \ T : \A m \in Nat \ T : ~ (<<m, n>> \in Smaller)
  <2> DEFINE U == Nat \ T
  <2>1. U \subseteq Nat /\ U # {}
    OBVIOUS
  <2> HIDE DEF U
  <2>2. \E n \in U : \A m \in U : ~ (<<m, n>> \in Smaller)
    BY <1>1, <2>1, WFMin
  <2> QED BY <2>2 DEF U
<1>4. n # 0 /\ n - 1 \in Nat /\ n - 1 \in T
  <2>1. n # 0 /\ n - 1 \in Nat /\ n - 1 < n
    OBVIOUS
  <2>2. <<n - 1, n>> \in Smaller
    BY <2>1 DEF Smaller
  <2> QED BY <1>3, <2>1, <2>2
<1> QED BY <1>4

-----------------------------------------------------------------------------
(* Lists without an animation. *)
LEMMA NotOfIs ==
  ASSUME NEW a, NEW s, Len(s) \in Nat
  PROVE  \E g : /\ NotOf(a, s) = g[Len(s)]
                /\ g[0] = <<>>
                /\ \A n \in 1 .. Len(s) :
                     g[n] = IF anim[s[n]].a # a THEN Append(g[n - 1], s[n]) ELSE g[n - 1]
<1> DEFINE More(t, n) == IF anim[s[n]].a # a THEN Append(t, s[n]) ELSE t
           Is(g, m) == g = [n \in 0 .. m |-> IF n = 0 THEN <<>> ELSE More(g[n - 1], n)]
           T == {m \in Nat : \E g : Is(g, m)}
<1>1. 0 \in T
  <2>1. Is([n \in 0 .. 0 |-> <<>>], 0)
    OBVIOUS
  <2> QED BY <2>1
<1> HIDE DEF More
<1>2. ASSUME NEW m \in Nat, m \in T PROVE m + 1 \in T
  <2>1. PICK g : Is(g, m)
    BY <1>2
  <2> DEFINE h == [n \in 0 .. m + 1 |-> IF n <= m THEN g[n] ELSE More(g[m], m + 1)]
  <2>2. \A n \in 0 .. m + 1 : h[n] = IF n = 0 THEN <<>> ELSE More(h[n - 1], n)
    BY <2>1
  <2>3. h = [n \in 0 .. m + 1 |-> h[n]]
    OBVIOUS
  <2> HIDE DEF h
  <2>4. Is(h, m + 1)
    BY <2>2, <2>3
  <2> QED BY <2>4
<1>3. Len(s) \in T
  <2> HIDE DEF T
  <2>1. \A n \in Nat : n \in T => n + 1 \in T
    BY <1>2
  <2> QED BY <1>1, <2>1, SetInduction
<1>4. \E g : Is(g, Len(s))
  BY <1>3
<1>5. \E g : NotOf(a, s) = g[Len(s)] /\ Is(g, Len(s))
  BY <1>4, Zenon DEF NotOf, More
<1>6. PICK g : NotOf(a, s) = g[Len(s)] /\ Is(g, Len(s))
  BY <1>5
<1>7. \A n \in 0 .. Len(s) : g[n] = IF n = 0 THEN <<>> ELSE More(g[n - 1], n)
  BY <1>6
<1>8. g[0] = <<>> /\ \A n \in 1 .. Len(s) : g[n] = More(g[n - 1], n)
  BY <1>7
<1> QED BY <1>6, <1>8 DEF More

(* What a list holds when it grows or loses its head. *)
LEMMA AppendHolds ==
  ASSUME NEW S, NEW s \in Seq(S), NEW x \in S
  PROVE  /\ Append(s, x) \in Seq(S)
         /\ \A y : y \in Members(Append(s, x)) <=> y \in Members(s) \/ y = x
         /\ Once(s) /\ x \notin Members(s) => Once(Append(s, x))
<1>1. /\ Append(s, x) \in Seq(S) /\ Len(s) \in Nat
      /\ DOMAIN Append(s, x) = 1 .. Len(s) + 1 /\ DOMAIN s = 1 .. Len(s)
      /\ \A k \in 1 .. Len(s) : Append(s, x)[k] = s[k]
      /\ Append(s, x)[Len(s) + 1] = x
  OBVIOUS
<1> DEFINE t == Append(s, x)
<1> HIDE DEF t
<1>2. \A y : y \in Members(t) <=> y \in Members(s) \/ y = x
  <2>1. ASSUME NEW y \in Members(t) PROVE y \in Members(s) \/ y = x
    <3>1. PICK k \in DOMAIN t : t[k] = y
      BY <2>1 DEF Members
    <3>2. k \in 1 .. Len(s) \/ k = Len(s) + 1
      BY <1>1, <3>1 DEF t
    <3> QED BY <1>1, <3>1, <3>2 DEF Members, t
  <2>2. ASSUME NEW y \in Members(s) PROVE y \in Members(t)
    <3>1. PICK k \in DOMAIN s : s[k] = y
      BY <2>2 DEF Members
    <3>2. k \in DOMAIN t /\ t[k] = y
      BY <1>1, <3>1 DEF t
    <3> QED BY <3>2 DEF Members
  <2>3. x \in Members(t)
    <3>1. Len(s) + 1 \in DOMAIN t /\ t[Len(s) + 1] = x
      BY <1>1 DEF t
    <3> QED BY <3>1 DEF Members
  <2> QED BY <2>1, <2>2, <2>3
<1>3. ASSUME Once(s), x \notin Members(s) PROVE Once(t)
  <2>1. \A k \in 1 .. Len(s) : s[k] # x
    BY <1>1, <1>3 DEF Members
  <2>2. \A k \in DOMAIN t : k \in 1 .. Len(s) \/ k = Len(s) + 1
    BY <1>1 DEF t
  <2> QED BY <1>1, <1>3, <2>1, <2>2 DEF Once, t
<1> QED BY <1>1, <1>2, <1>3 DEF t

LEMMA TailHolds ==
  ASSUME NEW S, NEW s \in Seq(S), s # <<>>
  PROVE  /\ Tail(s) \in Seq(S) /\ Head(s) \in S
         /\ \A y : y \in Members(s) <=> y \in Members(Tail(s)) \/ y = Head(s)
         /\ Once(s) => Once(Tail(s)) /\ Head(s) \notin Members(Tail(s))
<1> DEFINE t == Tail(s)
<1>1. /\ t \in Seq(S) /\ Len(s) \in Nat /\ Len(s) # 0 /\ Head(s) = s[1] /\ s[1] \in S
      /\ DOMAIN t = 1 .. Len(s) - 1 /\ DOMAIN s = 1 .. Len(s)
      /\ \A k \in 1 .. Len(s) - 1 : t[k] = s[k + 1]
  BY HeadTailProperties
<1> HIDE DEF t
<1>2. ASSUME NEW y \in Members(s) PROVE y \in Members(t) \/ y = Head(s)
  <2>1. PICK k \in DOMAIN s : s[k] = y
    BY <1>2 DEF Members
  <2>2. CASE k # 1
    <3>1. k - 1 \in DOMAIN t /\ t[k - 1] = y
      BY <1>1, <2>1, <2>2
    <3> QED BY <3>1 DEF Members
  <2> QED BY <1>1, <2>1, <2>2
<1>3. ASSUME NEW y \in Members(t) PROVE \E k \in DOMAIN s : k # 1 /\ s[k] = y
  <2>1. PICK k \in DOMAIN t : t[k] = y
    BY <1>3 DEF Members
  <2>2. k + 1 \in DOMAIN s /\ s[k + 1] = y /\ k + 1 # 1
    BY <1>1, <2>1
  <2> QED BY <2>2
<1>4. 1 \in DOMAIN s
  BY <1>1
<1>5. ASSUME Once(s) PROVE Once(t) /\ Head(s) \notin Members(t)
  <2>1. Once(t)
    <3> SUFFICES ASSUME NEW j \in DOMAIN t, NEW k \in DOMAIN t, t[j] = t[k] PROVE j = k
      BY DEF Once
    <3>1. j + 1 \in DOMAIN s /\ k + 1 \in DOMAIN s /\ s[j + 1] = s[k + 1] /\ j \in Nat /\ k \in Nat
      BY <1>1
    <3>2. j + 1 = k + 1
      BY <1>5, <3>1 DEF Once
    <3> QED BY <3>1, <3>2
  <2>2. Head(s) \notin Members(t)
    BY <1>1, <1>3, <1>4, <1>5 DEF Once
  <2> QED BY <2>1, <2>2
<1>6. Head(s) \in Members(s)
  BY <1>1, <1>4 DEF Members
<1>7. \A y : y \in Members(t) => y \in Members(s)
  BY <1>3 DEF Members
<1> QED BY <1>1, <1>2, <1>5, <1>6, <1>7 DEF t

LEMMA ConcatHolds ==
  ASSUME NEW S, NEW s \in Seq(S), NEW t \in Seq(S)
  PROVE  /\ s \o t \in Seq(S)
         /\ \A y : y \in Members(s \o t) <=> y \in Members(s) \/ y \in Members(t)
         /\ Once(s) /\ Once(t) /\ Apart(s, t) => Once(s \o t)
<1> DEFINE u == s \o t
<1>1. /\ u \in Seq(S) /\ Len(s) \in Nat /\ Len(t) \in Nat
      /\ DOMAIN u = 1 .. Len(s) + Len(t) /\ DOMAIN s = 1 .. Len(s) /\ DOMAIN t = 1 .. Len(t)
      /\ \A k \in 1 .. Len(s) : u[k] = s[k]
      /\ \A k \in 1 .. Len(t) : u[Len(s) + k] = t[k]
  OBVIOUS
<1> HIDE DEF u
<1>2. \A k \in DOMAIN u : \/ k \in DOMAIN s /\ u[k] = s[k]
                          \/ /\ k > Len(s) /\ k - Len(s) \in DOMAIN t /\ u[k] = t[k - Len(s)]
  <2> SUFFICES ASSUME NEW k \in DOMAIN u, k > Len(s)
               PROVE  k - Len(s) \in DOMAIN t /\ u[k] = t[k - Len(s)]
    BY <1>1
  <2>1. k - Len(s) \in 1 .. Len(t) /\ Len(s) + (k - Len(s)) = k
    BY <1>1
  <2> QED BY <1>1, <2>1
<1>3. \A k \in DOMAIN s : k \in DOMAIN u /\ u[k] = s[k]
  BY <1>1
<1>4. \A k \in DOMAIN t : Len(s) + k \in DOMAIN u /\ u[Len(s) + k] = t[k]
  BY <1>1
<1>5. \A y : y \in Members(u) <=> y \in Members(s) \/ y \in Members(t)
  <2>1. \A y \in Members(u) : y \in Members(s) \/ y \in Members(t)
    BY <1>2 DEF Members
  <2>2. \A y \in Members(s) : y \in Members(u)
    BY <1>3 DEF Members
  <2>3. \A y \in Members(t) : y \in Members(u)
    BY <1>4 DEF Members
  <2> QED BY <2>1, <2>2, <2>3
<1>6. ASSUME Once(s), Once(t), Apart(s, t) PROVE Once(u)
  <2> SUFFICES ASSUME NEW j \in DOMAIN u, NEW k \in DOMAIN u, u[j] = u[k] PROVE j = k
    BY DEF Once
  <2>1. \A x \in DOMAIN s, y \in DOMAIN t : s[x] # t[y]
    BY <1>6 DEF Apart, Members
  <2>2. CASE j \in DOMAIN s /\ u[j] = s[j]
    <3>1. k \in DOMAIN s /\ u[k] = s[k]
      BY <1>2, <2>1, <2>2
    <3> QED BY <1>6, <2>2, <3>1 DEF Once
  <2>3. CASE j > Len(s) /\ j - Len(s) \in DOMAIN t /\ u[j] = t[j - Len(s)]
    <3>1. k > Len(s) /\ k - Len(s) \in DOMAIN t /\ u[k] = t[k - Len(s)]
      BY <1>2, <2>1, <2>3
    <3>2. j - Len(s) = k - Len(s)
      BY <1>6, <2>3, <3>1 DEF Once
    <3>3. j \in Int /\ k \in Int /\ Len(s) \in Int
      BY <1>1
    <3> QED BY <3>2, <3>3
  <2> QED BY <1>2, <2>2, <2>3
<1> QED BY <1>1, <1>5, <1>6 DEF u

(* An animation is taken out: the others stay, each where it was once. *)
LEMMA NotOfHolds ==
  ASSUME NEW a, NEW S, NEW s \in Seq(S)
  PROVE  /\ NotOf(a, s) \in Seq(S)
         /\ \A y : y \in Members(NotOf(a, s)) <=> y \in Members(s) /\ anim[y].a # a
         /\ Once(s) => Once(NotOf(a, s))
<1>1. Len(s) \in Nat /\ DOMAIN s = 1 .. Len(s) /\ \A n \in 1 .. Len(s) : s[n] \in S
  OBVIOUS
<1>2. PICK g : /\ NotOf(a, s) = g[Len(s)]
               /\ g[0] = <<>>
               /\ \A n \in 1 .. Len(s) :
                    g[n] = IF anim[s[n]].a # a THEN Append(g[n - 1], s[n]) ELSE g[n - 1]
  BY <1>1, NotOfIs
<1>3. /\ g[0] = <<>>
      /\ \A n \in 1 .. Len(s) :
            g[n] = IF anim[s[n]].a # a THEN Append(g[n - 1], s[n]) ELSE g[n - 1]
  BY <1>2
<1> DEFINE Kept(n) == /\ g[n] \in Seq(S)
                      /\ \A y : y \in Members(g[n]) <=>
                                  \E k \in 1 .. n : s[k] = y /\ anim[y].a # a
                      /\ Once(s) => Once(g[n])
           T == {n \in Nat : n <= Len(s) => Kept(n)}
<1>4. Kept(0)
  <2>1. g[0] \in Seq(S) /\ Members(<<>>) = {} /\ Once(<<>>)
    BY <1>3 DEF Members, Once
  <2> QED BY <1>3, <2>1
<1>5. ASSUME NEW n \in Nat, n + 1 <= Len(s), Kept(n) PROVE Kept(n + 1)
  <2>1. /\ n + 1 \in 1 .. Len(s) /\ (n + 1) - 1 = n
        /\ s[n + 1] \in S
        /\ \A k : k \in 1 .. n + 1 <=> k \in 1 .. n \/ k = n + 1
    BY <1>1, <1>5
  <2>2. g[n + 1] = IF anim[s[n + 1]].a # a THEN Append(g[n], s[n + 1]) ELSE g[n]
    BY <1>3, <2>1
  <2>3. CASE anim[s[n + 1]].a = a
    BY <1>5, <2>1, <2>2, <2>3
  <2>4. CASE anim[s[n + 1]].a # a
    <3> DEFINE x == s[n + 1]
               t == g[n]
    <3>1. /\ Append(t, x) \in Seq(S)
          /\ \A y : y \in Members(Append(t, x)) <=> y \in Members(t) \/ y = x
          /\ Once(t) /\ x \notin Members(t) => Once(Append(t, x))
      BY <1>5, <2>1, AppendHolds
    <3>2. ASSUME Once(s) PROVE x \notin Members(t)
      <4>1. \A k \in 1 .. n : k \in DOMAIN s /\ k # n + 1 /\ n + 1 \in DOMAIN s
        BY <1>1, <2>1
      <4>2. \A k \in 1 .. n : s[k] # x
        BY <3>2, <4>1 DEF Once
      <4> QED BY <1>5, <4>2
    <3>3. g[n + 1] = Append(t, x)
      BY <2>2, <2>4
    <3> QED BY <1>5, <2>1, <2>4, <3>1, <3>2, <3>3
  <2> QED BY <2>3, <2>4
<1> HIDE DEF Kept
<1>6. 0 \in T
  BY <1>4
<1>7. \A n \in Nat : n \in T => n + 1 \in T
  <2> SUFFICES ASSUME NEW n \in Nat, n <= Len(s) => Kept(n), n + 1 <= Len(s) PROVE Kept(n + 1)
    OBVIOUS
  <2> QED BY <1>1, <1>5
<1>8. Len(s) \in T
  <2> HIDE DEF T
  <2> QED BY <1>1, <1>6, <1>7, SetInduction
<1>9. Kept(Len(s))
  BY <1>1, <1>8
<1>10. \A y : y \in Members(s) <=> \E k \in 1 .. Len(s) : s[k] = y
  BY <1>1 DEF Members
<1>11. NotOf(a, s) = g[Len(s)]
  BY <1>2
<1> HIDE DEF T
<1> QED BY <1>9, <1>10, <1>11 DEF Kept

-----------------------------------------------------------------------------
(* The steps. *)
LEMMA ListTypes ==
  ASSUME ListsInv
  PROVE  /\ anim \in Seq(AnimSet) /\ ends \in Seq([to : Nat, fro : Nat])
         /\ DOMAIN ends = DOMAIN anim /\ DOMAIN anim = 1 .. Len(anim) /\ Len(anim) \in Nat
         /\ animations \in Seq(DOMAIN anim) /\ pendingAnimations \in Seq(DOMAIN anim)
         /\ nextFrameAnimations \in Seq(DOMAIN anim) /\ oldList \in Seq(DOMAIN anim)
         /\ Turn \in Seq(DOMAIN anim)
         /\ \A i : Waits(i) => i \in DOMAIN anim
<1>1. /\ anim \in Seq(AnimSet) /\ ends \in Seq([to : Nat, fro : Nat])
      /\ DOMAIN ends = DOMAIN anim /\ DOMAIN anim = 1 .. Len(anim) /\ Len(anim) \in Nat
  BY DEF ListsInv
<1>2. /\ animations \in Seq(DOMAIN anim) /\ pendingAnimations \in Seq(DOMAIN anim)
      /\ nextFrameAnimations \in Seq(DOMAIN anim) /\ oldList \in Seq(DOMAIN anim)
  BY DEF ListsInv
<1>3. Turn \in Seq(DOMAIN anim)
  BY <1>2 DEF Turn
<1>4. \A s \in Seq(DOMAIN anim) : \A i \in Members(s) : i \in DOMAIN anim
  BY DEF Members
<1> QED BY <1>1, <1>2, <1>3, <1>4 DEF Waits

LEMMA StartPlays ==
  ASSUME FullInv, NEW a \in Anims, Start(a)
  PROVE  FullInv'
<1> DEFINE n == Len(anim) + 1
           S == 1 .. n
<1>1. /\ anim \in Seq(AnimSet) /\ ends \in Seq([to : Nat, fro : Nat])
      /\ DOMAIN ends = DOMAIN anim /\ DOMAIN anim = 1 .. Len(anim) /\ Len(anim) \in Nat
      /\ animations \in Seq(DOMAIN anim) /\ pendingAnimations \in Seq(DOMAIN anim)
      /\ nextFrameAnimations \in Seq(DOMAIN anim) /\ oldList \in Seq(DOMAIN anim)
      /\ Len(ends) = Len(anim)
  BY ListTypes DEF FullInv, ListsInv
<1>2. /\ anim' = Append(anim, NewAnim(a)) /\ ends' = Append(ends, [to |-> 0, fro |-> 0])
      /\ UNCHANGED <<nextFrameAnimations, oldList, rpc>>
      /\ Register(n)
  BY DEF Start
<1>3. NewAnim(a) \in AnimSet /\ NewAnim(a).a = a
  BY AnimationAssumption DEF NewAnim, AnimSet, AnimationAssumption
<1>4. /\ anim' \in Seq(AnimSet) /\ ends' \in Seq([to : Nat, fro : Nat])
      /\ Len(anim') = n /\ Len(ends') = n /\ DOMAIN anim' = S
      /\ \A i \in DOMAIN anim : i \in S /\ i # n /\ anim'[i] = anim[i] /\ ends'[i] = ends[i]
      /\ \A i \in S : i \in DOMAIN anim \/ i = n
      /\ anim'[n] = NewAnim(a) /\ ends'[n] = [to |-> 0, fro |-> 0] /\ n \in S
  <2>1. /\ anim' \in Seq(AnimSet) /\ Len(anim') = Len(anim) + 1
        /\ \A i \in 1 .. Len(anim) : anim'[i] = anim[i]
        /\ anim'[Len(anim) + 1] = NewAnim(a)
    BY <1>1, <1>2, <1>3, AppendProperties
  <2>2. /\ ends' \in Seq([to : Nat, fro : Nat]) /\ Len(ends') = Len(ends) + 1
        /\ \A i \in 1 .. Len(ends) : ends'[i] = ends[i]
        /\ ends'[Len(ends) + 1] = [to |-> 0, fro |-> 0]
    <3>1. [to |-> 0, fro |-> 0] \in [to : Nat, fro : Nat]
      OBVIOUS
    <3>2. ends \in Seq([to : Nat, fro : Nat]) /\ ends' = Append(ends, [to |-> 0, fro |-> 0])
      BY <1>1, <1>2
    <3> QED BY <3>1, <3>2, AppendProperties
  <2>3. Len(anim') = n /\ Len(ends') = n /\ DOMAIN anim' = S
    BY <1>1, <2>1, <2>2
  <2>4. /\ \A i \in DOMAIN anim : i \in S /\ i # n
        /\ \A i \in S : i \in DOMAIN anim \/ i = n
        /\ n \in S
    <3>1. DOMAIN anim = 1 .. Len(anim) /\ Len(anim) \in Nat
      BY <1>1
    <3> QED BY <3>1
  <2>5. \A i \in DOMAIN anim : i \in 1 .. Len(anim) /\ i \in 1 .. Len(ends)
    BY <1>1
  <2>6. anim'[n] = NewAnim(a) /\ ends'[n] = [to |-> 0, fro |-> 0]
    BY <1>1, <2>1, <2>2
  <2> HIDE DEF n, S
  <2> QED BY <2>1, <2>2, <2>3, <2>4, <2>5, <2>6
<1>5. /\ animations \in Seq(S) /\ pendingAnimations \in Seq(S)
      /\ nextFrameAnimations \in Seq(S) /\ oldList \in Seq(S)
  <2>1. DOMAIN anim \subseteq S
    BY <1>1
  <2>2. Seq(DOMAIN anim) \subseteq Seq(S)
    BY <2>1, SeqMonotonic
  <2> QED BY <1>1, <2>2
<1>6. /\ n \notin Members(animations) /\ n \notin Members(pendingAnimations)
      /\ n \notin Members(nextFrameAnimations) /\ n \notin Members(oldList)
  <2>1. n \notin DOMAIN anim
    BY <1>1
  <2> QED BY <1>1, <2>1 DEF Members
<1> HIDE DEF n, S
<1>7. /\ \A s \in {animations, pendingAnimations} :
           /\ Append(s, n) \in Seq(S)
           /\ \A y : y \in Members(Append(s, n)) <=> y \in Members(s) \/ y = n
           /\ Once(s) => Once(Append(s, n))
  BY <1>4, <1>5, <1>6, AppendHolds
<1>8. /\ animations' \in Seq(S) /\ pendingAnimations' \in Seq(S) /\ runnerStarted'
      /\ \/ pendingAnimations' = Append(pendingAnimations, n) /\ Turn' = Turn
         \/ /\ pendingAnimations' = pendingAnimations
            /\ Turn = animations /\ Turn' = Append(animations, n)
  BY <1>2, <1>5, <1>7 DEF Register, FullInv, ListsInv, Turn
<1>9. ListsInv'
  BY <1>2, <1>4, <1>5, <1>8 DEF FullInv, ListsInv
<1>10. n \notin Members(Turn)
  BY <1>6 DEF Turn
<1>11. OnceInv /\ PlayInv
  BY DEF FullInv
<1>12. OnceInv'
  <2>1. CASE pendingAnimations' = Append(pendingAnimations, n) /\ Turn' = Turn
    BY <1>2, <1>6, <1>7, <1>10, <1>11, <2>1 DEF OnceInv, Apart
  <2>2. CASE pendingAnimations' = pendingAnimations /\ Turn = animations
             /\ Turn' = Append(animations, n)
    BY <1>2, <1>6, <1>7, <1>11, <2>2 DEF OnceInv, Apart
  <2> QED BY <1>8, <2>1, <2>2
<1>13. \A i : Waits(i)' <=> Waits(i) \/ i = n
  BY <1>2, <1>7, <1>8 DEF Waits
<1>14. UnderWay(NewAnim(a), [to |-> 0, fro |-> 0])
  <2>1. RepeatCount[a] \in {-1} \cup Nat
    BY AnimationAssumption DEF AnimationAssumption
  <2> QED BY <2>1 DEF UnderWay, NewAnim
<1>15. PlayInv'
  <2> SUFFICES ASSUME NEW i \in S
               PROVE  /\ anim'[i].stopped \/ Waits(i)' \/ Complete(i)'
                      /\ Waits(i)' => UnderWay(anim'[i], ends'[i])
                      /\ RepeatCount[anim'[i].a] >= 0 => ends'[i].to <= RepeatCount[anim'[i].a] + 1
    BY <1>4 DEF PlayInv
  <2>1. CASE i = n
    <3>1. RepeatCount[a] >= 0 => 0 <= RepeatCount[a] + 1
      BY AnimationAssumption DEF AnimationAssumption
    <3> QED BY <1>3, <1>4, <1>13, <1>14, <2>1, <3>1
  <2>2. CASE i # n
    BY <1>4, <1>11, <1>13, <2>2 DEF PlayInv, Complete
  <2> QED BY <2>1, <2>2
<1> QED BY <1>9, <1>12, <1>15 DEF FullInv

(* What is taken out of a list has been stopped. *)
LEMMA StopPlays ==
  ASSUME FullInv, NEW a \in Anims, Stop(a)
  PROVE  FullInv'
<1> DEFINE D == DOMAIN anim
<1>1. /\ anim \in Seq(AnimSet) /\ ends \in Seq([to : Nat, fro : Nat])
      /\ DOMAIN ends = D /\ D = 1 .. Len(anim) /\ Len(anim) \in Nat
      /\ animations \in Seq(D) /\ pendingAnimations \in Seq(D)
      /\ nextFrameAnimations \in Seq(D) /\ oldList \in Seq(D)
      /\ Len(ends) = Len(anim)
  BY ListTypes DEF FullInv, ListsInv
<1>2. PICK l \in {animations, pendingAnimations} :
        /\ anim' = SetStopped(Of(a) \cap Members(l))
        /\ \/ l = animations /\ animations' = NotOf(a, l) /\ UNCHANGED pendingAnimations
           \/ l = pendingAnimations /\ pendingAnimations' = NotOf(a, l) /\ UNCHANGED animations
        /\ UNCHANGED <<nextFrameAnimations, oldList, runnerStarted, rpc, ends>>
  BY DEF Stop
<1> DEFINE gone == Of(a) \cap Members(l)
<1>3. /\ anim' \in Seq(AnimSet) /\ Len(anim') = Len(anim) /\ DOMAIN anim' = D
      /\ \A i \in D : /\ anim'[i].a = anim[i].a
                      /\ i \in gone => anim'[i].stopped
                      /\ i \notin gone => anim'[i] = anim[i]
                      /\ anim'[i].reverse = anim[i].reverse
                      /\ anim'[i].repeatsLeft = anim[i].repeatsLeft
                      /\ anim[i].stopped => anim'[i].stopped
  <2> DEFINE x(i) == [anim[i] EXCEPT !.stopped = TRUE]
  <2>1. \A i \in D : anim[i] \in AnimSet
    BY <1>1
  <2>2. \A i \in D : /\ x(i) \in AnimSet /\ x(i).stopped /\ x(i).a = anim[i].a
                     /\ x(i).reverse = anim[i].reverse /\ x(i).repeatsLeft = anim[i].repeatsLeft
    BY <2>1 DEF AnimSet
  <2> HIDE DEF x, gone
  <2>3. anim' = [i \in D |-> IF i \in gone THEN x(i) ELSE anim[i]]
    BY <1>2 DEF SetStopped, gone, x
  <2>4. \A i \in D : anim'[i] = IF i \in gone THEN x(i) ELSE anim[i]
    BY <2>3
  <2>5. anim' \in Seq(AnimSet) /\ Len(anim') = Len(anim) /\ DOMAIN anim' = D
    <3>1. \A i \in D : (IF i \in gone THEN x(i) ELSE anim[i]) \in AnimSet
      BY <2>1, <2>2
    <3> QED BY <1>1, <2>3, <3>1
  <2> QED BY <2>2, <2>4, <2>5
<1>4. /\ NotOf(a, l) \in Seq(D)
      /\ \A y : y \in Members(NotOf(a, l)) <=> y \in Members(l) /\ anim[y].a # a
      /\ Once(l) => Once(NotOf(a, l))
  BY <1>1, NotOfHolds
<1>5. \A y \in Members(l) : y \in D
  <2>1. l \in Seq(D)
    BY <1>1
  <2>2. \A k \in DOMAIN l : l[k] \in D
    <3> HIDE DEF D
    <3> QED BY <2>1
  <2> QED BY <2>2 DEF Members
<1>6. \A y : y \in Members(NotOf(a, l)) <=> y \in Members(l) /\ y \notin gone
  BY <1>4, <1>5 DEF Of
<1> HIDE DEF gone, D
<1>7. ListsInv'
  BY <1>1, <1>2, <1>3, <1>4 DEF FullInv, ListsInv, D
<1>8. \/ l = pendingAnimations /\ pendingAnimations' = NotOf(a, l) /\ Turn' = Turn
      \/ l = Turn /\ Turn' = NotOf(a, l) /\ UNCHANGED pendingAnimations
      \/ Turn' = Turn /\ UNCHANGED pendingAnimations
  BY <1>2 DEF Turn
<1>9. OnceInv /\ PlayInv
  BY DEF FullInv
<1>10. OnceInv'
  BY <1>2, <1>4, <1>6, <1>8, <1>9 DEF OnceInv, Apart
<1>11. \A i : /\ Waits(i)' => Waits(i)
              /\ Waits(i) => Waits(i)' \/ i \in gone
  BY <1>2, <1>6, <1>8 DEF Waits
<1>12. PlayInv'
  <2> SUFFICES ASSUME NEW i \in D
               PROVE  /\ anim'[i].stopped \/ Waits(i)' \/ Complete(i)'
                      /\ Waits(i)' => UnderWay(anim'[i], ends'[i])
                      /\ RepeatCount[anim'[i].a] >= 0 => ends'[i].to <= RepeatCount[anim'[i].a] + 1
    BY <1>3 DEF PlayInv
  <2>1. /\ anim[i].stopped \/ Waits(i) \/ Complete(i)
        /\ Waits(i) => UnderWay(anim[i], ends[i])
        /\ RepeatCount[anim[i].a] >= 0 => ends[i].to <= RepeatCount[anim[i].a] + 1
    BY <1>9 DEF PlayInv, D
  <2>2. /\ anim'[i].a = anim[i].a /\ ends' = ends
        /\ i \in gone => anim'[i].stopped
        /\ anim[i].stopped => anim'[i].stopped
        /\ anim'[i].reverse = anim[i].reverse
        /\ anim'[i].repeatsLeft = anim[i].repeatsLeft
    BY <1>2, <1>3
  <2>3. Complete(i) => Complete(i)'
    BY <2>2 DEF Complete
  <2>4. UnderWay(anim[i], ends[i]) => UnderWay(anim'[i], ends'[i])
    BY <2>2 DEF UnderWay
  <2> QED BY <1>11, <2>1, <2>2, <2>3, <2>4
<1> QED BY <1>7, <1>10, <1>12 DEF FullInv

(* A tick past the end of a play: the counters go on with it. *)
LEMMA EndPlayCounts ==
  ASSUME NEW x \in AnimSet, NEW e \in [to : Nat, fro : Nat], UnderWay(x, e)
  PROVE  /\ CountEnd(x, e) \in [to : Nat, fro : Nat]
         /\ GoesOn(x) => /\ EndPlay(x) \in AnimSet /\ EndPlay(x).a = x.a
                         /\ UnderWay(EndPlay(x), CountEnd(x, e))
         /\ ~GoesOn(x) => /\ RepeatCount[x.a] >= 0
                          /\ CountEnd(x, e).to = RepeatCount[x.a] + 1
                          /\ CountEnd(x, e).fro =
                               IF x.a \in AutoReverse THEN RepeatCount[x.a] + 1 ELSE 0
         /\ RepeatCount[x.a] >= 0 => CountEnd(x, e).to <= RepeatCount[x.a] + 1
<1> DEFINE c == RepeatCount[x.a]
           turned == ~x.reverse /\ x.a \in AutoReverse
           y == EndPlay(x)
           f == CountEnd(x, e)
<1>1. /\ c \in {-1} \cup Nat /\ x.a \in Anims /\ x.reverse \in BOOLEAN
      /\ x.repeatsLeft \in {-1} \cup Nat /\ e.to \in Nat /\ e.fro \in Nat
  BY AnimationAssumption DEF AnimationAssumption, AnimSet
<1>2. /\ y \in AnimSet /\ y.a = x.a /\ y.reverse = turned
      /\ y.repeatsLeft = IF turned \/ x.repeatsLeft <= 0 THEN x.repeatsLeft ELSE x.repeatsLeft - 1
  <2> DEFINE r == IF turned \/ x.repeatsLeft <= 0 THEN x.repeatsLeft ELSE x.repeatsLeft - 1
  <2>1. r \in {-1} \cup Nat
    BY <1>1
  <2>2. y = [x EXCEPT !.reverse = turned, !.repeatsLeft = r]
    BY DEF EndPlay
  <2>3. turned \in BOOLEAN
    OBVIOUS
  <2> HIDE DEF r, turned, y
  <2>4. y \in AnimSet /\ y.a = x.a /\ y.reverse = turned /\ y.repeatsLeft = r
    BY <2>1, <2>2, <2>3 DEF AnimSet
  <2> QED BY <2>4 DEF r
<1>3. /\ f \in [to : Nat, fro : Nat]
      /\ c # -1 => /\ f.to = IF x.reverse THEN e.to ELSE e.to + 1
                   /\ f.fro = IF x.reverse THEN e.fro + 1 ELSE e.fro
  BY <1>1 DEF CountEnd
<1>4. /\ x.reverse => x.a \in AutoReverse
      /\ c = -1 => x.repeatsLeft = -1
      /\ c # -1 =>
           /\ x.repeatsLeft \in 0 .. c
           /\ e.to = c - x.repeatsLeft + (IF x.reverse THEN 1 ELSE 0)
           /\ e.fro = IF x.a \in AutoReverse THEN c - x.repeatsLeft ELSE 0
  BY DEF UnderWay
<1>5. GoesOn(x) <=> x.repeatsLeft # 0 \/ turned
  BY DEF GoesOn
<1> HIDE DEF y, f, c
<1>6. ASSUME GoesOn(x) PROVE UnderWay(y, f)
  <2> SUFFICES /\ y.reverse => y.a \in AutoReverse
               /\ c = -1 => y.repeatsLeft = -1
               /\ c # -1 =>
                    /\ y.repeatsLeft \in 0 .. c
                    /\ f.to = c - y.repeatsLeft + (IF y.reverse THEN 1 ELSE 0)
                    /\ f.fro = IF y.a \in AutoReverse THEN c - y.repeatsLeft ELSE 0
    BY <1>2 DEF UnderWay, c
  <2>0. y.reverse => y.a \in AutoReverse
    BY <1>2
  <2>1. CASE turned
    <3>1. y.reverse /\ ~x.reverse /\ y.repeatsLeft = x.repeatsLeft /\ x.a \in AutoReverse
      BY <1>2, <2>1
    <3> HIDE DEF turned
    <3> QED BY <1>1, <1>2, <1>3, <1>4, <2>0, <3>1
  <2>2. CASE ~turned
    <3>1. x.repeatsLeft # 0 /\ ~y.reverse /\ (x.reverse <=> x.a \in AutoReverse)
      BY <1>1, <1>2, <1>4, <1>5, <1>6, <2>2
    <3>2. CASE c = -1
      BY <1>1, <1>2, <1>4, <2>0, <2>2, <3>2
    <3>3. CASE c # -1
      <4>1. y.repeatsLeft = x.repeatsLeft - 1 /\ x.repeatsLeft \in 1 .. c
        BY <1>1, <1>2, <1>4, <2>2, <3>1, <3>3
      <4>2. CASE x.reverse
        BY <1>1, <1>2, <1>3, <1>4, <2>0, <3>1, <3>3, <4>1, <4>2
      <4>3. CASE ~x.reverse
        BY <1>1, <1>2, <1>3, <1>4, <2>0, <3>1, <3>3, <4>1, <4>3
      <4> QED BY <4>2, <4>3
    <3> QED BY <3>2, <3>3
  <2> QED BY <2>1, <2>2
<1>7. ASSUME ~GoesOn(x) PROVE c >= 0 /\ f.to = c + 1 /\ f.fro = IF x.a \in AutoReverse THEN c + 1 ELSE 0
  BY <1>1, <1>3, <1>4, <1>5, <1>7
<1>8. c >= 0 => f.to <= c + 1
  BY <1>1, <1>3, <1>4
<1> QED BY <1>2, <1>3, <1>6, <1>7, <1>8 DEF y, f, c

LEMMA TickReturnsPlays ==
  ASSUME FullInv, TickReturns
  PROVE  FullInv'
<1> DEFINE D == DOMAIN anim
           next == nextFrameAnimations
<1>1. /\ anim \in Seq(AnimSet) /\ ends \in Seq([to : Nat, fro : Nat])
      /\ DOMAIN ends = D /\ D = 1 .. Len(anim) /\ Len(anim) \in Nat
      /\ animations \in Seq(D) /\ pendingAnimations \in Seq(D)
      /\ next \in Seq(D) /\ oldList \in Seq(D)
      /\ Len(ends) = Len(anim)
  BY ListTypes DEF FullInv, ListsInv
<1>2. /\ rpc = "tick" /\ rpc' = "frame" /\ oldList # <<>> /\ oldList' = Tail(oldList)
      /\ UNCHANGED <<animations, pendingAnimations, runnerStarted>>
      /\ runnerStarted
  BY DEF TickReturns, FullInv, ListsInv
<1>3. Turn = oldList /\ Turn' = Tail(oldList)
  BY <1>2 DEF Turn
<1>4. OnceInv /\ PlayInv
  BY DEF FullInv
<1>0. Head(oldList) \in D
  BY <1>1, <1>2, TailHolds
<1> PICK h \in D : h = Head(oldList)
  BY <1>0
<1> DEFINE x == anim[h]
           e == ends[h]
<1>5. /\ Tail(oldList) \in Seq(D)
      /\ \A y : y \in Members(oldList) <=> y \in Members(Tail(oldList)) \/ y = h
      /\ Once(Tail(oldList)) /\ h \notin Members(Tail(oldList))
  BY <1>1, <1>2, <1>3, <1>4, TailHolds DEF OnceInv
<1>6. /\ h \notin Members(next) /\ h \notin Members(pendingAnimations)
      /\ Once(next) /\ Waits(h)
  BY <1>3, <1>4, <1>5 DEF OnceInv, Apart, Waits
<1>7. /\ Append(next, h) \in Seq(D)
      /\ \A y : y \in Members(Append(next, h)) <=> y \in Members(next) \/ y = h
      /\ Once(Append(next, h))
  BY <1>1, <1>5, <1>6, AppendHolds
<1>8. /\ x \in AnimSet /\ e \in [to : Nat, fro : Nat]
      /\ UnderWay(x, e)
      /\ RepeatCount[x.a] >= 0 => e.to <= RepeatCount[x.a] + 1
  <2>1. x \in AnimSet /\ e \in [to : Nat, fro : Nat]
    <3>1. h \in 1 .. Len(anim) /\ h \in 1 .. Len(ends)
      BY <1>1
    <3> HIDE DEF D
    <3> QED BY <1>1, <3>1, ElementOfSeq
  <2> QED BY <1>4, <1>6, <2>1 DEF PlayInv
<1>9. \/ /\ next' = Append(next, h) /\ UNCHANGED <<anim, ends>>
      \/ /\ GoesOn(x) /\ next' = Append(next, h)
         /\ ends' = [ends EXCEPT ![h] = CountEnd(x, e)] /\ anim' = [anim EXCEPT ![h] = EndPlay(x)]
      \/ /\ ~GoesOn(x) /\ UNCHANGED <<anim, next>>
         /\ ends' = [ends EXCEPT ![h] = CountEnd(x, e)]
  BY DEF TickReturns
<1>10. /\ CountEnd(x, e) \in [to : Nat, fro : Nat]
       /\ GoesOn(x) => /\ EndPlay(x) \in AnimSet /\ EndPlay(x).a = x.a
                       /\ UnderWay(EndPlay(x), CountEnd(x, e))
       /\ ~GoesOn(x) => /\ RepeatCount[x.a] >= 0
                        /\ CountEnd(x, e).to = RepeatCount[x.a] + 1
                        /\ CountEnd(x, e).fro =
                             IF x.a \in AutoReverse THEN RepeatCount[x.a] + 1 ELSE 0
       /\ RepeatCount[x.a] >= 0 => CountEnd(x, e).to <= RepeatCount[x.a] + 1
  BY <1>8, EndPlayCounts
<1>11. /\ \A i \in D : i # h => anim'[i] = anim[i] /\ ends'[i] = ends[i]
       /\ anim'[h].a = x.a
       /\ \/ anim'[h] = x /\ ends'[h] = e /\ next' = Append(next, h)
          \/ /\ GoesOn(x) /\ next' = Append(next, h)
             /\ anim'[h] = EndPlay(x) /\ ends'[h] = CountEnd(x, e)
          \/ /\ ~GoesOn(x) /\ next' = next
             /\ anim'[h] = x /\ ends'[h] = CountEnd(x, e)
       /\ anim' \in Seq(AnimSet) /\ ends' \in Seq([to : Nat, fro : Nat])
       /\ DOMAIN anim' = D /\ Len(ends') = Len(anim')
  <2> HIDE DEF x, e
  <2>1. CASE UNCHANGED <<anim, ends>> /\ next' = Append(next, h)
    BY <1>1, <2>1 DEF x, e
  <2>2. CASE /\ GoesOn(x) /\ next' = Append(next, h)
             /\ ends' = [ends EXCEPT ![h] = CountEnd(x, e)] /\ anim' = [anim EXCEPT ![h] = EndPlay(x)]
    <3>1. /\ \A i \in D : /\ anim'[i] = IF i = h THEN EndPlay(x) ELSE anim[i]
                         /\ ends'[i] = IF i = h THEN CountEnd(x, e) ELSE ends[i]
      BY <1>1, <2>2
    <3>2. anim' \in Seq(AnimSet) /\ Len(anim') = Len(anim) /\ DOMAIN anim' = D
      BY <1>1, <1>10, <2>2, ExceptSeq
    <3>3. ends' \in Seq([to : Nat, fro : Nat]) /\ Len(ends') = Len(ends)
      BY <1>1, <1>10, <2>2, ExceptSeq
    <3> QED BY <1>1, <1>10, <2>2, <3>1, <3>2, <3>3
  <2>3. CASE /\ ~GoesOn(x) /\ UNCHANGED <<anim, next>>
             /\ ends' = [ends EXCEPT ![h] = CountEnd(x, e)]
    <3>1. anim'[h] = x
      BY <2>3 DEF x
    <3> QED BY <1>1, <1>5, <1>10, <2>3, <3>1
  <2> QED BY <1>9, <2>1, <2>2, <2>3
<1> HIDE DEF x, e, next
<1>12. /\ next' \in Seq(D) /\ Once(next')
       /\ \A y : y \in Members(next') => y \in Members(next) \/ y = h
       /\ \A y : y \in Members(next) => y \in Members(next')
       /\ next' = Append(next, h) => h \in Members(next')
       /\ next' = next => h \notin Members(next')
  BY <1>1, <1>6, <1>7, <1>11
<1>13. ListsInv'
  BY <1>1, <1>2, <1>5, <1>11, <1>12 DEF FullInv, ListsInv, D, next
<1>14. OnceInv'
  <2>1. /\ Once(Turn') /\ Once(next') /\ Once(pendingAnimations')
    BY <1>2, <1>3, <1>4, <1>5, <1>12 DEF OnceInv
  <2>2. /\ Apart(oldList, next) /\ Apart(oldList, pendingAnimations) /\ Apart(next, pendingAnimations)
    BY <1>3, <1>4 DEF OnceInv, next
  <2>3. /\ Apart(Tail(oldList), next') /\ Apart(Tail(oldList), pendingAnimations)
        /\ Apart(next', pendingAnimations)
    BY <1>5, <1>6, <1>12, <2>2 DEF Apart
  <2> QED BY <1>2, <1>3, <2>1, <2>3 DEF OnceInv, next
<1>15. \A i : i # h => (Waits(i)' <=> Waits(i))
  BY <1>2, <1>3, <1>5, <1>12 DEF Waits, next
<1>16. PlayInv'
  <2> SUFFICES ASSUME NEW i \in D
               PROVE  /\ anim'[i].stopped \/ Waits(i)' \/ Complete(i)'
                      /\ Waits(i)' => UnderWay(anim'[i], ends'[i])
                      /\ RepeatCount[anim'[i].a] >= 0 => ends'[i].to <= RepeatCount[anim'[i].a] + 1
    BY <1>11 DEF PlayInv
  <2>1. CASE i # h
    BY <1>4, <1>11, <1>15, <2>1 DEF PlayInv, Complete, D
  <2>2. CASE i = h /\ next' = Append(next, h)
    <3>1. Waits(h)'
      BY <1>12, <2>2 DEF Waits, next
    <3>2. UnderWay(anim'[h], ends'[h])
      BY <1>8, <1>10, <1>11, <1>12, <2>2
    <3>3. RepeatCount[x.a] >= 0 => ends'[h].to <= RepeatCount[x.a] + 1
      BY <1>8, <1>10, <1>11
    <3> QED BY <1>11, <2>2, <3>1, <3>2, <3>3
  <2>3. CASE i = h /\ ~GoesOn(x) /\ next' = next
             /\ anim'[h] = x /\ ends'[h] = CountEnd(x, e)
    <3>1. ~Waits(h)'
      BY <1>2, <1>3, <1>5, <1>6, <1>12, <2>3 DEF Waits, next
    <3>2. Complete(h)'
      BY <1>10, <2>3 DEF Complete
    <3> QED BY <1>10, <1>11, <2>3, <3>1, <3>2
  <2> QED BY <1>11, <2>1, <2>2, <2>3
<1> QED BY <1>13, <1>14, <1>16 DEF FullInv

(* The rest of a frame moves the lists only. *)
LEMMA FramePlays ==
  ASSUME FullInv, UNCHANGED <<anim, ends>>, ListsInv', OnceInv',
         \A i : /\ Waits(i)' => Waits(i)
                /\ Waits(i) => Waits(i)' \/ anim[i].stopped
  PROVE  FullInv'
<1>1. PlayInv
  BY DEF FullInv
<1>2. PlayInv'
  BY <1>1 DEF PlayInv, Complete
<1> QED BY <1>2 DEF FullInv

LEMMA TickPlays ==
  ASSUME FullInv, Tick
  PROVE  FullInv'
<1> DEFINE D == DOMAIN anim
<1>1. /\ animations \in Seq(D) /\ pendingAnimations \in Seq(D)
      /\ nextFrameAnimations \in Seq(D) /\ oldList \in Seq(D)
  BY ListTypes DEF FullInv
<1>2. ListsInv /\ OnceInv
  BY DEF FullInv
<1> HIDE DEF D
<1>3. CASE TakeList
  <2>1. /\ Turn' = Turn /\ UNCHANGED <<anim, ends, pendingAnimations, nextFrameAnimations>>
    BY <1>3 DEF TakeList, Turn, lists
  <2>2. ListsInv'
    BY <1>3, <1>2 DEF TakeList, ListsInv, lists
  <2>3. OnceInv'
    BY <1>2, <2>1 DEF OnceInv
  <2>4. \A i : Waits(i)' <=> Waits(i)
    BY <2>1 DEF Waits
  <2> QED BY <2>1, <2>2, <2>3, <2>4, FramePlays
<1>4. CASE SkipStopped
  <2>1. /\ Turn = oldList /\ Turn' = Tail(oldList) /\ oldList # <<>>
        /\ anim[Head(oldList)].stopped
        /\ UNCHANGED <<anim, ends, pendingAnimations, nextFrameAnimations>>
    BY <1>4 DEF SkipStopped, Turn, lists
  <2>2. /\ Tail(oldList) \in Seq(D)
        /\ \A y : y \in Members(oldList) <=> y \in Members(Tail(oldList)) \/ y = Head(oldList)
        /\ Once(oldList) => Once(Tail(oldList))
    BY <1>1, <2>1, TailHolds
  <2>3. ListsInv'
    BY <1>4, <1>2, <2>2 DEF SkipStopped, ListsInv, lists, D
  <2>4. OnceInv'
    BY <1>2, <2>1, <2>2 DEF OnceInv, Apart
  <2>5. \A i : /\ Waits(i)' => Waits(i)
               /\ Waits(i) => Waits(i)' \/ anim[i].stopped
    BY <2>1, <2>2 DEF Waits
  <2> QED BY <2>1, <2>3, <2>4, <2>5, FramePlays
<1>5. CASE CallTick
  <2>1. Turn' = Turn /\ UNCHANGED <<anim, ends, lists, oldList>>
    BY <1>5 DEF CallTick, Turn, lists
  <2>2. ListsInv'
    BY <1>5, <1>2 DEF CallTick, ListsInv, lists
  <2>3. OnceInv'
    BY <1>2, <2>1 DEF OnceInv, lists
  <2>4. \A i : Waits(i)' <=> Waits(i)
    BY <2>1 DEF Waits, lists
  <2> QED BY <2>1, <2>2, <2>3, <2>4, FramePlays
<1>6. CASE TickReturns
  BY <1>6, TickReturnsPlays
<1>7. CASE EndFrame
  <2>1. /\ oldList = <<>> /\ Turn = oldList /\ Turn' = nextFrameAnimations \o pendingAnimations
        /\ animations' = Turn' /\ nextFrameAnimations' = <<>> /\ pendingAnimations' = <<>>
        /\ rpc = "frame" /\ rpc' \in {"idle", "clear"} /\ UNCHANGED <<anim, ends, oldList, runnerStarted>>
    BY <1>7 DEF EndFrame, SwapLists, AfterFrame, Turn
  <2>2. /\ Turn' \in Seq(D)
        /\ \A y : y \in Members(Turn') <=>
                    y \in Members(nextFrameAnimations) \/ y \in Members(pendingAnimations)
        /\ Once(Turn')
    BY <1>1, <1>2, <2>1, ConcatHolds DEF OnceInv
  <2>3. Members(<<>>) = {} /\ Once(<<>>)
    BY DEF Members, Once
  <2>4. ListsInv'
    BY <1>2, <2>1, <2>2 DEF ListsInv, D
  <2>5. OnceInv'
    BY <2>1, <2>2, <2>3 DEF OnceInv, Apart
  <2>6. \A i : Waits(i)' <=> Waits(i)
    BY <2>1, <2>2, <2>3 DEF Waits
  <2> QED BY <2>1, <2>4, <2>5, <2>6, FramePlays
<1>8. CASE ClearStarted
  <2>1. Turn' = Turn /\ UNCHANGED <<anim, ends, lists, oldList>>
    BY <1>8 DEF ClearStarted, Turn, lists
  <2>2. ListsInv'
    BY <1>8, <1>2 DEF ClearStarted, ListsInv, lists
  <2>3. OnceInv'
    BY <1>2, <2>1 DEF OnceInv, lists
  <2>4. \A i : Waits(i)' <=> Waits(i)
    BY <2>1 DEF Waits, lists
  <2> QED BY <2>1, <2>2, <2>3, <2>4, FramePlays
<1> QED BY <1>3, <1>4, <1>5, <1>6, <1>7, <1>8 DEF Tick

LEMMA InitPlays == Init => FullInv
<1> SUFFICES ASSUME Init PROVE FullInv
  OBVIOUS
<1>1. ListsInv
  BY DEF Init, ListsInv
<1>2. OnceInv
  BY DEF Init, OnceInv, Once, Apart, Turn, Members
<1>3. PlayInv
  BY DEF Init, PlayInv
<1> QED BY <1>1, <1>2, <1>3 DEF FullInv

LEMMA NextPlays ==
  ASSUME FullInv, [Next]_vars
  PROVE  FullInv'
<1>1. CASE UNCHANGED vars
  <2>1. Turn' = Turn /\ UNCHANGED vars
    BY <1>1 DEF Turn, vars, lists
  <2>2. ListsInv' /\ OnceInv'
    BY <2>1 DEF FullInv, ListsInv, OnceInv, vars, lists
  <2>3. \A i : Waits(i)' <=> Waits(i)
    BY <2>1 DEF Waits, vars, lists
  <2> QED BY <2>1, <2>2, <2>3, FramePlays DEF vars
<1> QED BY <1>1, StartPlays, StopPlays, TickPlays DEF Next

(* PlayedInFull: whoever starts and stops animations, and whenever, an      *)
(* animation that is not stopped stays with the runner until it has been   *)
(* played RepeatCount + 1 times, and no longer.                            *)
THEOREM AnimationsPlayInFull == Spec => []PlayedInFull
<1>1. ASSUME FullInv PROVE PlayedInFull
  <2>1. \A i : Waits(i) => i \in Held
    BY DEF Waits, Turn, Held
  <2> QED BY <1>1, <2>1 DEF FullInv, PlayInv, PlayedInFull
<1> QED BY <1>1, InitPlays, NextPlays, PTL DEF Spec

-----------------------------------------------------------------------------
(* What the runner can leave behind when it stops. *)

(* A runner that is not started, or is about to be no longer, holds nothing *)
(* but late instances: ClearStarted acts on what EndFrame saw, and only a   *)
(* Start between the two can have added something.                          *)
OnlyLate == animations = <<>> /\ Members(pendingAnimations) \subseteq late

RunnerInv ==
  /\ pendingAnimations \in Seq(Nat)
  /\ ~runnerStarted \/ rpc = "clear" => OnlyLate
  /\ rpc # "idle" => runnerStarted

(* A Start while the runner stops leaves its instance to the late ones. *)
LEMMA StartKeeps ==
  ASSUME RunnerInv, NEW a \in Anims, Start(a), Len(anim) \in Nat
  PROVE  RunnerInv'
<1> DEFINE i == Len(anim) + 1
<1>1. i \in Nat /\ Register(i) /\ rpc' = rpc
      /\ late' = IF rpc = "clear" THEN late \cup {i} ELSE late
  BY DEF Start
<1>2. runnerStarted'
  BY <1>1 DEF Register
<1> HIDE DEF i
<1>3. CASE runnerStarted
  <2>1. animations' = animations /\ pendingAnimations' = Append(pendingAnimations, i)
    BY <1>1, <1>3 DEF Register
  <2>2. /\ pendingAnimations' \in Seq(Nat)
        /\ \A y : y \in Members(pendingAnimations') => y \in Members(pendingAnimations) \/ y = i
    BY <1>1, <2>1, AppendHolds DEF RunnerInv
  <2>3. CASE rpc = "clear"
    BY <1>1, <1>2, <2>1, <2>2, <2>3 DEF RunnerInv, OnlyLate
  <2> QED BY <1>1, <1>2, <2>2, <2>3 DEF RunnerInv
<1>4. CASE ~runnerStarted
  BY <1>1, <1>2, <1>4 DEF RunnerInv, Register
<1> QED BY <1>3, <1>4

(* A Stop takes instances away. *)
LEMMA StopKeeps ==
  ASSUME RunnerInv, NEW a \in Anims, Stop(a)
  PROVE  RunnerInv'
<1>1. UNCHANGED <<rpc, runnerStarted, late>>
  BY DEF Stop
<1>2. /\ pendingAnimations' \in Seq(Nat)
      /\ Members(pendingAnimations') \subseteq Members(pendingAnimations)
  BY NotOfHolds DEF Stop, RunnerInv
<1>3. animations = <<>> => animations' = <<>>
  BY DEF Stop, Members
<1> QED BY <1>1, <1>2, <1>3 DEF RunnerInv, OnlyLate

LEMMA TickKeeps ==
  ASSUME RunnerInv, Tick
  PROVE  RunnerInv'
<1> USE DEF RunnerInv, OnlyLate, lists
<1>1. CASE TakeList
  BY <1>1 DEF TakeList
<1>2. CASE SkipStopped
  BY <1>2 DEF SkipStopped
<1>3. CASE CallTick
  BY <1>3 DEF CallTick
<1>4. CASE TickReturns
  BY <1>4 DEF TickReturns
<1>5. CASE EndFrame
  BY <1>5 DEF EndFrame, SwapLists, AfterFrame, Members
<1>6. CASE ClearStarted
  BY <1>6 DEF ClearStarted
<1> QED BY <1>1, <1>2, <1>3, <1>4, <1>5, <1>6 DEF Tick

(* OnlyLateStranded: whoever starts and stops animations, and whenever, a   *)
(* runner that is not ticked has left behind only animations that were      *)
(* started between the end of its last frame and ClearStarted.              *)
THEOREM OnlyLateStartsStrand == Spec => []OnlyLateStranded
<1>1. Init => RunnerInv /\ FullInv
  <2>1. Init => RunnerInv
    BY DEF Init, RunnerInv, OnlyLate, Members
  <2> QED BY <2>1, InitPlays
<1>2. RunnerInv /\ FullInv /\ [Next]_vars => RunnerInv' /\ FullInv'
  <2> SUFFICES ASSUME RunnerInv, FullInv, [Next]_vars PROVE RunnerInv'
    BY NextPlays
  <2>1. CASE UNCHANGED vars
    BY <2>1 DEF vars, lists, RunnerInv, OnlyLate
  <2>2. Len(anim) \in Nat
    BY DEF FullInv, ListsInv
  <2> QED BY <2>1, <2>2, StartKeeps, StopKeeps, TickKeeps DEF Next
<1>3. RunnerInv => OnlyLateStranded
  BY DEF RunnerInv, OnlyLate, OnlyLateStranded
<1> QED BY <1>1, <1>2, <1>3, PTL DEF Spec
=============================================================================
