---------------------------- MODULE RefreshQueue ----------------------------
(***************************************************************************)
(* internal/driver/common: the refresh queue of a canvas.  Canvas.Refresh  *)
(* queues an object, unless it is queued already, and marks the canvas     *)
(* dirty; a frame empties the queue, frees the textures of what was on it, *)
(* and paints, which makes the missing textures anew.                      *)
(*                                                                         *)
(* The queue itself is internal/async's CanvasObjectQueue: its lock-free   *)
(* loops take effect at their compare-and-swap, its length is counted      *)
(* apart.  Only main takes from it.                                        *)
(***************************************************************************)
EXTENDS Naturals, Sequences, FiniteSets

CONSTANTS Refreshers,   \* goroutines that call Refresh
          Main,         \* the main thread, which calls Refresh as well
          Objects,
          MaxRefreshes, \* bound: of each thread
          Migrated,     \* does build.MigratedToFyneDo hold?
          None          \* no texture, no object

ASSUME RefreshAssumption ==
          /\ IsFiniteSet(Refreshers) /\ Main \notin Refreshers
          /\ None \notin Nat \cup Objects
          /\ MaxRefreshes \in Nat /\ Migrated \in BOOLEAN

Threads == Refreshers \cup {Main}

VARIABLES
  queue, len,  \* CanvasObjectQueue, and its counter
  dedup,       \* keys of the deduplication map
  dirty,       \* of the canvas
  look,        \* of each object: how often it has changed
  texture,     \* the look its texture shows
  pc, obj,     \* of each thread: where in Refresh it is, and of what
  calls,       \* of each thread: refreshes so far
  mpc, out,    \* main's frame: where, and the object in its hands
  late         \* history: objects entered into dedup after they were taken

callVars == <<pc, obj, calls>>
frameVars == <<mpc, out>>
vars == <<queue, len, dedup, dirty, look, texture, callVars, frameVars, late>>

Members(s) == {s[k] : k \in DOMAIN s}
CallPlaces == {"idle", "load", "link", "count", "store", "dirty"}
FramePlaces == {"idle", "layout", "len", "clear", "pop", "uncount",
                "delete", "free", "paint"}

TypeOK ==
  /\ queue \in Seq(Objects) /\ len \in Nat
  /\ dedup \subseteq Objects /\ late \subseteq Objects
  /\ dirty \in BOOLEAN
  /\ look \in [Objects -> Nat] /\ texture \in [Objects -> Nat \cup {None}]
  /\ pc \in [Threads -> CallPlaces] /\ obj \in [Threads -> Objects \cup {None}]
  /\ calls \in [Threads -> 0 .. MaxRefreshes]
  /\ mpc \in FramePlaces /\ out \in Objects \cup {None}

Init ==
  /\ queue = <<>> /\ len = 0 /\ dedup = {} /\ dirty = FALSE
  /\ look = [o \in Objects |-> 0] /\ texture = [o \in Objects |-> 0]
  /\ pc = [g \in Threads |-> "idle"] /\ obj = [g \in Threads |-> None]
  /\ calls = [g \in Threads |-> 0]
  /\ mpc = "idle" /\ out = None /\ late = {}

-----------------------------------------------------------------------------
(* Canvas.Refresh, by thread g. *)

(* Main changes objects between frames and in the layout of one. *)
Change(g, o) ==
  /\ pc[g] = "idle" /\ calls[g] < MaxRefreshes
  /\ g = Main => mpc \in {"idle", "layout"}
  /\ look' = [look EXCEPT ![o] = @ + 1]
  /\ pc' = [pc EXCEPT ![g] = "load"]
  /\ obj' = [obj EXCEPT ![g] = o]
  /\ calls' = [calls EXCEPT ![g] = @ + 1]
  /\ UNCHANGED <<queue, len, dedup, dirty, texture, frameVars, late>>

Goto(g, place) == /\ pc' = [pc EXCEPT ![g] = place]
                  /\ UNCHANGED <<obj, calls, look, texture, frameVars>>

(* deduplicatedObjectQueue.In, and CanvasObjectQueue.In, which links the    *)
(* item before it counts it.                                               *)
Follows_counted ==                 \* mutant: counts before it links
  [load |-> "count", count |-> "link", link |-> "store", store |-> "dirty"]
Follows ==
  [load |-> "link", link |-> "count", count |-> "store", store |-> "dirty"]

LoadDedup(g) ==
  /\ pc[g] = "load"
  /\ Goto(g, IF obj[g] \in dedup THEN "dirty" ELSE Follows.load)
  /\ UNCHANGED <<queue, len, dedup, dirty, late>>

Link(g) ==
  /\ pc[g] = "link"
  /\ queue' = Append(queue, obj[g])
  /\ Goto(g, Follows.link)
  /\ UNCHANGED <<len, dedup, dirty, late>>

Count(g) ==
  /\ pc[g] = "count"
  /\ len' = len + 1
  /\ Goto(g, Follows.count)
  /\ UNCHANGED <<queue, dedup, dirty, late>>

StoreDedup(g) ==
  /\ pc[g] = "store"
  /\ dedup' = dedup \cup {obj[g]}
  /\ late' = IF obj[g] \in Members(queue) THEN late ELSE late \cup {obj[g]}
  /\ Goto(g, Follows.store)
  /\ UNCHANGED <<queue, len, dirty>>

(* EnsureMain runs SetDirty on main, between frames, unless it may run here. *)
MarkDirty(g) ==
  /\ pc[g] = "dirty"
  /\ Migrated \/ g = Main \/ (mpc = "idle" /\ pc[Main] = "idle")
  /\ dirty' = TRUE
  /\ Goto(g, "idle")
  /\ UNCHANGED <<queue, len, dedup, late>>

RefreshStep(g) == LoadDedup(g) \/ Link(g) \/ Count(g) \/ StoreDedup(g)
                    \/ MarkDirty(g)

-----------------------------------------------------------------------------
(* A frame, on main: repaintWindow, with FreeDirtyTextures. *)

callState == <<dirty, look, callVars, late>>

(* CheckDirtyAndClear *)
StartFrame ==
  /\ mpc = "idle" /\ pc[Main] = "idle"
  /\ dirty /\ dirty' = FALSE
  /\ mpc' = "layout"
  /\ UNCHANGED <<queue, len, dedup, look, texture, callVars, out, late>>

(* EnsureMinSize is over, and what it refreshed is queued. *)
LaidOut ==
  /\ mpc = "layout" /\ pc[Main] = "idle"
  /\ mpc' = "len"
  /\ UNCHANGED <<queue, len, dedup, texture, callState, out>>

LenSaysEmpty == len = 0

CheckLen ==
  /\ mpc = "len"
  /\ mpc' = IF LenSaysEmpty THEN "clear" ELSE "pop"
  /\ UNCHANGED <<queue, len, dedup, texture, callState, out>>

(* The end of the drain: Out returns nil. *)
Cleared_not == dedup               \* mutant: the map is not cleared
Cleared == {}

ClearDedup ==
  /\ mpc = "clear"
  /\ dedup' = Cleared
  /\ mpc' = "paint"
  /\ UNCHANGED <<queue, len, texture, callState, out>>

(* Out swings the head of the queue; an empty queue gives nil. *)
Pop ==
  /\ mpc = "pop"
  /\ IF queue # <<>>
     THEN out' = Head(queue) /\ queue' = Tail(queue) /\ mpc' = "uncount"
     ELSE UNCHANGED <<out, queue>> /\ mpc' = "paint"
  /\ UNCHANGED <<len, dedup, texture, callState>>

Uncount ==
  /\ mpc = "uncount"
  /\ len' = len - 1
  /\ mpc' = IF Migrated THEN "free" ELSE "delete"
  /\ UNCHANGED <<queue, dedup, texture, callState, out>>

DeleteOut ==
  /\ mpc = "delete"
  /\ dedup' = dedup \ {out}
  /\ mpc' = "free"
  /\ UNCHANGED <<queue, len, texture, callState, out>>

AfterFree_one == "paint"           \* mutant: one object for each frame
AfterFree == "len"

FreeObject ==
  /\ mpc = "free"
  /\ texture' = [texture EXCEPT ![out] = None]
  /\ out' = None
  /\ mpc' = AfterFree
  /\ UNCHANGED <<queue, len, dedup, callState>>

(* What has no texture gets one. *)
Paint ==
  /\ mpc = "paint"
  /\ texture' = [o \in Objects |->
                   IF texture[o] = None THEN look[o] ELSE texture[o]]
  /\ mpc' = "idle"
  /\ UNCHANGED <<queue, len, dedup, callState, out>>

Frame == StartFrame \/ LaidOut \/ CheckLen \/ ClearDedup \/ Pop \/ Uncount
           \/ DeleteOut \/ FreeObject \/ Paint

Next == Frame \/ \E g \in Threads : RefreshStep(g) \/ \E o \in Objects : Change(g, o)

Spec == Init /\ [][Next]_vars

(* Main draws frames as long as the canvas is dirty; goroutines go on.     *)
FairSpec == /\ Spec
            /\ WF_vars(Frame)
            /\ \A g \in Threads : WF_vars(RefreshStep(g))
-----------------------------------------------------------------------------
(* Properties. *)

AtRest == mpc = "idle" /\ ~dirty /\ \A g \in Threads : pc[g] = "idle"
Stale == {o \in Objects : texture[o] # look[o]}

(* "Any object that requests to enter to the refresh queue should not be   *)
(* omitted": once all is drawn, every texture shows its object's look.     *)
NoneOmitted == AtRest => Stale = {}

(* The queue itself loses nothing, whatever falls between linking and      *)
(* counting, popping and uncounting: an object is omitted only if the      *)
(* deduplication map held an entry made after the object had been taken.   *)
OnlyLateOmitted == AtRest => Stale \subseteq late

(* Out never ends a drain early: what is counted is in the queue.          *)
DrainedToTheEnd == mpc = "pop" => queue # <<>>

(* No entry stays in the map: an omitted object is not omitted for ever.   *)
EntriesGo == \A o \in Objects : o \in dedup ~> o \notin dedup
=============================================================================
