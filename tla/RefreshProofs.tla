---------------------------- MODULE RefreshProofs ---------------------------
(***************************************************************************)
(* That the refresh queue omits no object but by a late entry in its       *)
(* deduplication map, for any number of goroutines, objects and refreshes. *)
(***************************************************************************)
EXTENDS RefreshQueue, FiniteSetTheorems, SequenceTheorems, TLAPS

InHand == {"uncount", "delete", "free"}
Counting == {g \in Threads : pc[g] = "count"}

(* Somebody who refreshes or frees has an object; a drain goes on with an  *)
(* item counted.                                                           *)
PlaceInv ==
  /\ \A g \in Threads : pc[g] # "idle" => obj[g] \in Objects
  /\ mpc \in InHand => out \in Objects
  /\ mpc \in {"pop", "uncount"} => len > 0

(* What is linked has been counted, or its thread is about to count it.    *)
CountInv ==
  Len(queue) + (IF mpc = "uncount" THEN 1 ELSE 0)
    = len + Cardinality(Counting)

(* What is queued will be drained. *)
Refreshing == \E g \in Threads : pc[g] \in {"count", "store", "dirty"}
DrainInv ==
  queue # <<>> => \/ dirty \/ Refreshing
                  \/ mpc \in {"layout", "len", "pop"} \cup InHand

(* A texture is missing only within a frame that will paint. *)
TextureInv ==
  mpc \in {"idle", "layout"} => \A o \in Objects : texture[o] # None

(* An entry that was not late stands for an object yet to be freed, or     *)
(* whose texture has yet to be painted.                                    *)
Waiting(o) == o \in Members(queue) \/ (mpc \in InHand /\ out = o)
DedupInv ==
  \A o \in dedup \ late :
     Waiting(o) \/ (texture[o] = None /\ mpc # "paint")

(* A texture that is old will be freed. *)
Asking(o) == \E g \in Threads : pc[g] \in {"load", "link"} /\ obj[g] = o
StaleInv ==
  \A o \in Stale \ late : texture[o] = None \/ Waiting(o) \/ Asking(o)

RefreshInv == /\ TypeOK /\ PlaceInv /\ CountInv /\ DrainInv
              /\ TextureInv /\ DedupInv /\ StaleInv

-----------------------------------------------------------------------------
(* The items of a queue when one is linked or popped. *)
LEMMA MembersOfAppend ==
  ASSUME NEW s \in Seq(Objects), NEW e \in Objects
  PROVE  Members(Append(s, e)) = Members(s) \cup {e}
<1> DEFINE t == Append(s, e)
<1>1. /\ DOMAIN s = 1 .. Len(s) /\ DOMAIN t = 1 .. Len(s) + 1 /\ Len(s) \in Nat
      /\ \A k \in 1 .. Len(s) : t[k] = s[k]
      /\ t[Len(s) + 1] = e
  OBVIOUS
<1>2. Members(t) \subseteq Members(s) \cup {e}
  BY <1>1 DEF Members
<1>3. Members(s) \cup {e} \subseteq Members(t)
  BY <1>1 DEF Members
<1> QED BY <1>2, <1>3

LEMMA MembersOfTail ==
  ASSUME NEW s \in Seq(Objects), s # <<>>
  PROVE  /\ Members(s) \subseteq {Head(s)} \cup Members(Tail(s))
         /\ Head(s) \in Objects /\ Tail(s) \in Seq(Objects)
         /\ Len(Tail(s)) = Len(s) - 1
<1> DEFINE t == Tail(s)
<1>1. /\ DOMAIN s = 1 .. Len(s) /\ Len(s) \in Nat /\ Len(s) > 0
      /\ t \in Seq(Objects) /\ Len(t) = Len(s) - 1 /\ DOMAIN t = 1 .. Len(s) - 1
      /\ \A k \in 1 .. Len(s) - 1 : t[k] = s[k + 1]
      /\ Head(s) = s[1] /\ s[1] \in Objects
  OBVIOUS
<1>2. ASSUME NEW k \in 1 .. Len(s)  PROVE s[k] \in {Head(s)} \cup Members(t)
  <2>1. CASE k = 1
    BY <2>1, <1>1
  <2>2. CASE k # 1
    <3>1. k - 1 \in DOMAIN t /\ t[k - 1] = s[k]
      BY <2>2, <1>1, <1>2
    <3> QED BY <3>1 DEF Members
  <2> QED BY <2>1, <2>2
<1>3. Members(s) \subseteq {Head(s)} \cup Members(t)
  BY <1>1, <1>2 DEF Members
<1> QED BY <1>1, <1>3

(* How many threads are between linking and counting. *)
LEMMA CountingIsFinite ==
  IsFiniteSet(Threads) /\ IsFiniteSet(Counting) /\ Cardinality(Counting) \in Nat
<1>1. IsFiniteSet(Threads)
  BY RefreshAssumption, FS_AddElement DEF Threads
<1>2. IsFiniteSet(Counting)
  BY <1>1, FS_Subset DEF Counting
<1> QED BY <1>1, <1>2, FS_CardinalityType
-----------------------------------------------------------------------------
(* One conjunct of the invariant at a time: each action keeps it. *)

(* What an action leaves has its type. *)
LEMMA TypeKept ==
  ASSUME TypeOK, PlaceInv, [Next]_vars
  PROVE  TypeOK'
<1> USE DEF TypeOK, PlaceInv, InHand, CallPlaces, FramePlaces
<1>1. ASSUME NEW g \in Threads, NEW o \in Objects, Change(g, o)
      PROVE  TypeOK'
  BY <1>1, RefreshAssumption DEF Change, frameVars
<1>2. ASSUME NEW g \in Threads, LoadDedup(g)
      PROVE  TypeOK'
  BY <1>2 DEF LoadDedup, Goto, frameVars, Follows
<1>3. ASSUME NEW g \in Threads, Link(g)
      PROVE  TypeOK'
  BY <1>3 DEF Link, Goto, frameVars, Follows
<1>4. ASSUME NEW g \in Threads, Count(g)
      PROVE  TypeOK'
  BY <1>4 DEF Count, Goto, frameVars, Follows
<1>5. ASSUME NEW g \in Threads, StoreDedup(g)
      PROVE  TypeOK'
  BY <1>5 DEF StoreDedup, Goto, frameVars, Follows
<1>6. ASSUME NEW g \in Threads, MarkDirty(g)
      PROVE  TypeOK'
  BY <1>6 DEF MarkDirty, Goto, frameVars
<1>7. CASE Pop
  BY <1>7, MembersOfTail DEF Pop, callState, callVars
<1>8. CASE Uncount
  BY <1>8 DEF Uncount, callState, callVars
<1>9. CASE FreeObject
  BY <1>9 DEF FreeObject, callState, callVars, AfterFree
<1>10. CASE Paint
  BY <1>10 DEF Paint, callState, callVars
<1>11. CASE StartFrame \/ LaidOut \/ CheckLen \/ ClearDedup \/ DeleteOut
  BY <1>11 DEF StartFrame, LaidOut, CheckLen, ClearDedup, DeleteOut,
     LenSaysEmpty, Cleared, callState, callVars
<1>12. CASE UNCHANGED vars
  BY <1>12 DEF vars, callVars, frameVars
<1> QED BY <1>1, <1>2, <1>3, <1>4, <1>5, <1>6, <1>7, <1>8, <1>9, <1>10, <1>11,
           <1>12
       DEF Next, Frame, RefreshStep

(* Who acts has an object in hand, or an item counted. *)
LEMMA PlaceKept ==
  ASSUME TypeOK, PlaceInv, CountInv, [Next]_vars
  PROVE  PlaceInv'
<1> USE DEF TypeOK, PlaceInv, InHand, CallPlaces, FramePlaces
<1>1. ASSUME NEW g \in Threads, NEW o \in Objects, Change(g, o)
      PROVE  PlaceInv'
  BY <1>1 DEF Change, frameVars
<1>2. CASE CheckLen
  BY <1>2 DEF CheckLen, callState, callVars, LenSaysEmpty
<1>3. CASE Pop
  <2>1. queue # <<>>
    BY <1>3, CountingIsFinite DEF CountInv, Pop
  <2> QED BY <1>3, <2>1, MembersOfTail DEF Pop, callState, callVars
<1>4. CASE Uncount
  BY <1>4 DEF Uncount, callState, callVars
<1>5. ASSUME NEW g \in Threads,
             LoadDedup(g) \/ Link(g) \/ Count(g) \/ StoreDedup(g)
             \/ MarkDirty(g)
      PROVE  PlaceInv'
  BY <1>5 DEF LoadDedup, Link, Count, StoreDedup, MarkDirty, Goto, frameVars,
     Follows
<1>6. CASE StartFrame \/ LaidOut \/ ClearDedup \/ DeleteOut \/
          FreeObject \/ Paint
  BY <1>6 DEF StartFrame, LaidOut, ClearDedup, DeleteOut, FreeObject, Paint,
     Cleared, AfterFree, callState, callVars
<1>7. CASE UNCHANGED vars
  BY <1>7 DEF vars, callVars, frameVars
<1> QED BY <1>1, <1>2, <1>3, <1>4, <1>5, <1>6, <1>7
       DEF Next, Frame, RefreshStep

(* Items linked and items counted stay in step. *)
LEMMA CountKept ==
  ASSUME TypeOK, PlaceInv, CountInv, [Next]_vars
  PROVE  CountInv'
<1> USE DEF TypeOK, PlaceInv, CountInv
<1>1. ASSUME NEW g \in Threads, Link(g)
      PROVE  CountInv'
  <2>1. Counting' = Counting \cup {g} /\ g \notin Counting
    BY <1>1 DEF Link, Goto, Follows, Counting
  <2>2. Cardinality(Counting') = Cardinality(Counting) + 1
    BY <2>1, CountingIsFinite, FS_AddElement
  <2>3. Len(queue') = Len(queue) + 1
    BY <1>1 DEF Link
  <2> QED BY <1>1, <2>2, <2>3, CountingIsFinite DEF Link, Goto, frameVars
<1>2. ASSUME NEW g \in Threads, Count(g)
      PROVE  CountInv'
  <2>1. Counting' = Counting \ {g} /\ g \in Counting
    BY <1>2 DEF Count, Goto, Follows, Counting
  <2>2. Cardinality(Counting') = Cardinality(Counting) - 1
    BY <2>1, CountingIsFinite, FS_RemoveElement
  <2> QED BY <1>2, <2>2, CountingIsFinite DEF Count, Goto, frameVars
<1>3. ASSUME NEW g \in Threads,
             \/ \E o \in Objects : Change(g, o)
             \/ LoadDedup(g) \/ StoreDedup(g) \/ MarkDirty(g)
      PROVE  CountInv'
  <2>1. Counting' = Counting
    BY <1>3 DEF Change, LoadDedup, StoreDedup, MarkDirty, Goto, Follows,
       Counting
  <2>2. UNCHANGED <<queue, len, mpc>>
    BY <1>3 DEF Change, LoadDedup, StoreDedup, MarkDirty, Goto, frameVars
  <2> QED BY <2>1, <2>2
<1>4. CASE Frame
  <2> USE DEF callState, callVars
  <2>1. Counting' = Counting
    BY <1>4 DEF Frame, StartFrame, LaidOut, CheckLen, ClearDedup, Pop,
       Uncount, DeleteOut, FreeObject, Paint, Counting
  <2>2. CASE Pop
    <3>1. queue # <<>>
      BY <2>2, CountingIsFinite DEF Pop
    <3>2. Len(queue') = Len(queue) - 1 /\ mpc' = "uncount" /\ len' = len
      BY <2>2, <3>1, MembersOfTail DEF Pop
    <3> QED BY <2>1, <2>2, <3>2, CountingIsFinite DEF Pop
  <2>3. CASE Uncount
    BY <2>1, <2>3, CountingIsFinite DEF Uncount
  <2>4. CASE StartFrame \/ LaidOut \/ CheckLen \/ ClearDedup \/ DeleteOut
               \/ FreeObject \/ Paint
    BY <2>1, <2>4 DEF StartFrame, LaidOut, CheckLen, ClearDedup, DeleteOut,
       FreeObject, Paint, AfterFree
  <2> QED BY <1>4, <2>2, <2>3, <2>4 DEF Frame
<1>5. CASE UNCHANGED vars
  <2>1. Counting' = Counting
    BY <1>5 DEF vars, callVars, Counting
  <2> QED BY <1>5, <2>1 DEF vars, frameVars
<1> QED BY <1>1, <1>2, <1>3, <1>4, <1>5 DEF Next, RefreshStep

(* What is queued will be drained. *)
LEMMA DrainKept ==
  ASSUME TypeOK, PlaceInv, CountInv, DrainInv, [Next]_vars
  PROVE  DrainInv'
<1> USE DEF TypeOK, DrainInv, Refreshing, InHand, FramePlaces, CallPlaces
<1>1. ASSUME NEW g \in Threads, Link(g)
      PROVE  DrainInv'
  BY <1>1 DEF Link, Goto, frameVars, Follows
<1>2. ASSUME NEW g \in Threads, MarkDirty(g)
      PROVE  DrainInv'
  BY <1>2 DEF MarkDirty, Goto, frameVars
<1>3. CASE StartFrame
  BY <1>3 DEF StartFrame, callState, callVars
<1>4. CASE CheckLen
  <2>1. ASSUME len = 0, queue # <<>>  PROVE Refreshing
    <3>1. Cardinality(Counting) # 0
      BY <1>4, <2>1, CountingIsFinite DEF CheckLen, CountInv
    <3>2. PICK g \in Threads : pc[g] = "count"
      BY <3>1, FS_EmptySet DEF Counting
    <3> QED BY <3>2
  <2>2. UNCHANGED <<queue, pc, dirty>>
    BY <1>4 DEF CheckLen, callState, callVars
  <2> QED BY <1>4, <2>1, <2>2 DEF CheckLen, LenSaysEmpty
<1>5. CASE Pop
  <2>1. queue # <<>>
    BY <1>5, CountingIsFinite DEF PlaceInv, CountInv, Pop
  <2> QED BY <1>5, <2>1 DEF Pop
<1>6. CASE Uncount
  BY <1>6 DEF Uncount, callState, callVars
<1>7. ASSUME NEW g \in Threads,
             \/ \E o \in Objects : Change(g, o)
             \/ LoadDedup(g) \/ Count(g) \/ StoreDedup(g)
      PROVE  DrainInv'
  BY <1>7 DEF Change, LoadDedup, Count, StoreDedup, Goto, frameVars, Follows
<1>8. CASE LaidOut \/ ClearDedup \/ DeleteOut \/ FreeObject \/ Paint
  BY <1>8 DEF LaidOut, ClearDedup, DeleteOut, FreeObject, Paint, Cleared,
     AfterFree, callState, callVars
<1>9. CASE UNCHANGED vars
  BY <1>9 DEF vars, callVars, frameVars
<1> QED BY <1>1, <1>2, <1>3, <1>4, <1>5, <1>6, <1>7, <1>8, <1>9
       DEF Next, Frame, RefreshStep

(* A frame that frees a texture paints before it ends. *)
LEMMA TextureKept ==
  ASSUME TypeOK, TextureInv, [Next]_vars
  PROVE  TextureInv'
<1> USE DEF TypeOK, TextureInv
<1>1. CASE FreeObject
  BY <1>1 DEF FreeObject, callState, callVars, AfterFree
<1>2. CASE Paint
  BY <1>2, RefreshAssumption DEF Paint, callState, callVars
<1>3. ASSUME NEW g \in Threads,
             \/ \E o \in Objects : Change(g, o)
             \/ LoadDedup(g) \/ Link(g) \/ Count(g) \/ StoreDedup(g)
             \/ MarkDirty(g)
      PROVE  TextureInv'
  BY <1>3 DEF Change, LoadDedup, Link, Count, StoreDedup, MarkDirty, Goto,
     frameVars, Follows
<1>4. CASE StartFrame \/ LaidOut \/ CheckLen \/ ClearDedup \/ Pop \/
          Uncount \/ DeleteOut
  BY <1>4 DEF StartFrame, LaidOut, CheckLen, ClearDedup, Pop, Uncount,
     DeleteOut, LenSaysEmpty, Cleared, callState, callVars
<1>5. CASE UNCHANGED vars
  BY <1>5 DEF vars, callVars, frameVars
<1> QED BY <1>1, <1>2, <1>3, <1>4, <1>5
       DEF Next, Frame, RefreshStep

(* An entry stands for an object yet to be freed or painted. *)
LEMMA DedupKept ==
  ASSUME TypeOK, PlaceInv, CountInv, DedupInv, [Next]_vars
  PROVE  DedupInv'
<1> USE DEF TypeOK, DedupInv, Waiting, InHand
<1>1. ASSUME NEW g \in Threads, Link(g)
      PROVE  DedupInv'
  <2>1. Members(queue') = Members(queue) \cup {obj[g]}
    BY <1>1, MembersOfAppend DEF PlaceInv, Link
  <2> QED BY <1>1, <2>1 DEF Link, Goto, Follows, frameVars
<1>2. ASSUME NEW g \in Threads, StoreDedup(g)
      PROVE  DedupInv'
  BY <1>2 DEF StoreDedup, Goto, frameVars, Follows
<1>3. CASE ClearDedup
  BY <1>3 DEF ClearDedup, callState, callVars, Cleared
<1>4. CASE Pop
  <2>1. queue # <<>>
    BY <1>4, CountingIsFinite DEF PlaceInv, CountInv, Pop
  <2>2. Members(queue) \subseteq {out'} \cup Members(queue')
    BY <1>4, <2>1, MembersOfTail DEF Pop
  <2>3. /\ mpc = "pop" /\ mpc' = "uncount"
        /\ UNCHANGED <<dedup, texture, callState>>
    BY <1>4, <2>1 DEF Pop
  <2> QED BY <2>2, <2>3 DEF callState, callVars
<1>5. CASE Uncount
  BY <1>5 DEF Uncount, callState, callVars
<1>6. CASE DeleteOut
  BY <1>6 DEF DeleteOut, callState, callVars
<1>7. CASE FreeObject
  BY <1>7 DEF FreeObject, callState, callVars, AfterFree
<1>8. CASE Paint
  BY <1>8 DEF Paint, callState, callVars
<1>9. ASSUME NEW g \in Threads,
             \/ \E o \in Objects : Change(g, o)
             \/ LoadDedup(g) \/ Count(g) \/ MarkDirty(g)
      PROVE  DedupInv'
  BY <1>9 DEF Change, LoadDedup, Count, MarkDirty, Goto, frameVars, Follows
<1>10. CASE StartFrame \/ LaidOut \/ CheckLen
  BY <1>10 DEF StartFrame, LaidOut, CheckLen, LenSaysEmpty, callState,
     callVars
<1>11. CASE UNCHANGED vars
  BY <1>11 DEF vars, callVars, frameVars
<1> QED BY <1>1, <1>2, <1>3, <1>4, <1>5, <1>6, <1>7, <1>8, <1>9, <1>10, <1>11
       DEF Next, Frame, RefreshStep

(* A texture that is old will be freed. *)
LEMMA StaleKept ==
  ASSUME TypeOK, PlaceInv, CountInv, DedupInv,
         StaleInv, [Next]_vars
  PROVE  StaleInv'
<1> USE DEF TypeOK, StaleInv, Stale, Waiting, Asking, InHand
<1>1. ASSUME NEW g \in Threads, NEW o \in Objects, Change(g, o)
      PROVE  StaleInv'
  BY <1>1 DEF Change, frameVars
<1>2. ASSUME NEW g \in Threads, LoadDedup(g)
      PROVE  StaleInv'
  BY <1>2 DEF DedupInv, LoadDedup, Goto, frameVars, Follows
<1>3. ASSUME NEW g \in Threads, Link(g)
      PROVE  StaleInv'
  <2>1. Members(queue') = Members(queue) \cup {obj[g]}
    BY <1>3, MembersOfAppend DEF PlaceInv, Link
  <2> QED BY <1>3, <2>1 DEF Link, Goto, Follows, frameVars
<1>4. ASSUME NEW g \in Threads, Count(g)
      PROVE  StaleInv'
  BY <1>4 DEF Count, Goto, frameVars, Follows
<1>5. ASSUME NEW g \in Threads, StoreDedup(g)
      PROVE  StaleInv'
  BY <1>5 DEF StoreDedup, Goto, frameVars, Follows
<1>6. ASSUME NEW g \in Threads, MarkDirty(g)
      PROVE  StaleInv'
  BY <1>6 DEF MarkDirty, Goto, frameVars
<1>7. CASE Pop
  <2>1. queue # <<>>
    BY <1>7, CountingIsFinite DEF PlaceInv, CountInv, Pop
  <2>2. Members(queue) \subseteq {out'} \cup Members(queue')
    BY <1>7, <2>1, MembersOfTail DEF Pop
  <2>3. /\ mpc = "pop" /\ mpc' = "uncount"
        /\ UNCHANGED <<dedup, texture, callState>>
    BY <1>7, <2>1 DEF Pop
  <2> QED BY <2>2, <2>3 DEF callState, callVars
<1>8. CASE Uncount
  BY <1>8 DEF Uncount, callState, callVars
<1>9. CASE DeleteOut
  BY <1>9 DEF DeleteOut, callState, callVars
<1>10. CASE FreeObject
  BY <1>10 DEF FreeObject, callState, callVars, AfterFree
<1>11. CASE Paint
  BY <1>11 DEF Paint, callState, callVars
<1>12. CASE StartFrame \/ LaidOut \/ CheckLen \/ ClearDedup
  BY <1>12 DEF StartFrame, LaidOut, CheckLen, ClearDedup, LenSaysEmpty,
     Cleared, callState, callVars
<1>13. CASE UNCHANGED vars
  BY <1>13 DEF vars, callVars, frameVars
<1> QED BY <1>1, <1>2, <1>3, <1>4, <1>5, <1>6, <1>7, <1>8, <1>9, <1>10, <1>11,
           <1>12, <1>13
       DEF Next, Frame, RefreshStep

-----------------------------------------------------------------------------
(* The invariant holds to begin with, and every step keeps it. *)
LEMMA InitInv == Init => RefreshInv
<1> SUFFICES ASSUME Init PROVE RefreshInv
  OBVIOUS
<1>1. Counting = {} /\ Members(queue) = {} /\ Stale = {}
  BY DEF Init, Counting, Members, Stale
<1>2. TypeOK
  <2>1. queue \in Seq(Objects)
    BY DEF Init
  <2>2. calls \in [Threads -> 0 .. MaxRefreshes]
    BY RefreshAssumption DEF Init
  <2> QED BY <2>1, <2>2 DEF Init, TypeOK, CallPlaces, FramePlaces
<1>3. PlaceInv /\ DrainInv /\ DedupInv
  BY DEF Init, PlaceInv, InHand, DrainInv, DedupInv
<1>4. CountInv
  BY <1>1, FS_EmptySet DEF Init, CountInv
<1>5. TextureInv
  BY RefreshAssumption DEF Init, TextureInv
<1>6. StaleInv
  BY <1>1 DEF StaleInv
<1> QED BY <1>2, <1>3, <1>4, <1>5, <1>6 DEF RefreshInv

LEMMA StepInv == RefreshInv /\ [Next]_vars => RefreshInv'
BY TypeKept, PlaceKept, CountKept, DrainKept, TextureKept, DedupKept, StaleKept
   DEF RefreshInv

LEMMA InvHolds == Spec => []RefreshInv
BY InitInv, StepInv, PTL DEF Spec

(* TypeOK: the queue and the textures keep their types; the counter, which *)
(* the code lets go up after the link and down after the pop, is never     *)
(* below zero.                                                             *)
THEOREM TypeCorrect == Spec => []TypeOK
BY InvHolds, PTL DEF RefreshInv

(* DrainedToTheEnd: Out tests the counter and then pops; whatever refreshes *)
(* fall between the two, there is an item to pop.                          *)
THEOREM PopFindsAnItem == Spec => []DrainedToTheEnd
<1>1. RefreshInv => DrainedToTheEnd
  <2> SUFFICES ASSUME RefreshInv, mpc = "pop" PROVE queue # <<>>
    BY DEF DrainedToTheEnd
  <2>1. len > 0 /\ len \in Nat /\ Len(queue) = len + Cardinality(Counting)
    BY DEF RefreshInv, TypeOK, PlaceInv, CountInv
  <2> QED BY <2>1, CountingIsFinite
<1> QED BY <1>1, InvHolds, PTL

(* OnlyLateOmitted: once all is drawn, a texture that does not show its    *)
(* object belongs to an object that was entered into the deduplication map *)
(* after it had been taken from the queue; for any number of goroutines,   *)
(* objects and refreshes, and whether or not entries are deleted one by    *)
(* one (Migrated).                                                         *)
THEOREM OnlyLateAreOmitted == Spec => []OnlyLateOmitted
<1>1. RefreshInv => OnlyLateOmitted
  <2> SUFFICES ASSUME RefreshInv, AtRest, NEW o \in Stale \ late
               PROVE  FALSE
    BY DEF OnlyLateOmitted
  <2>1. texture[o] # None
    BY DEF RefreshInv, TextureInv, AtRest, Stale
  <2>2. ~Asking(o)
    BY DEF AtRest, Asking
  <2>3. o \in Members(queue)
    BY <2>1, <2>2 DEF RefreshInv, StaleInv, Waiting, AtRest, InHand
  <2>4. queue # <<>>
    BY <2>3 DEF Members
  <2> QED BY <2>4 DEF RefreshInv, DrainInv, Refreshing, AtRest, InHand
<1> QED BY <1>1, InvHolds, PTL
=============================================================================
