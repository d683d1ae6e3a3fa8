-------------------------- MODULE AnimationRunner ---------------------------
(***************************************************************************)
(* internal/animation: the runner that ticks the running animations once   *)
(* per frame.  Start and Stop are critical sections of animationMutex; a   *)
(* frame takes the list under the mutex, ticks it without, and puts the    *)
(* survivors back under it.  Any goroutine starts and stops animations at  *)
(* any time, main between frames and from the callbacks of a tick.         *)
(*                                                                         *)
(* Instances (of type anim) are numbered as created.  The clock is         *)
(* abstracted to whether a tick finds its instance past its end.           *)
(***************************************************************************)
EXTENDS Integers, Sequences

CONSTANTS Anims,        \* the application's animations
          RepeatCount,  \* of each; AnimationRepeatForever is -1
          AutoReverse,  \* the animations that play back as well
          MaxStarts     \* bound: instances

ASSUME AnimationAssumption ==
          /\ RepeatCount \in [Anims -> {-1} \cup Nat]
          /\ AutoReverse \subseteq Anims
          /\ MaxStarts \in Nat

VARIABLES
  anim,                          \* the instances, in order of creation
  animations, pendingAnimations, \* lists of instances, under the mutex
  nextFrameAnimations,
  oldList,                       \* what runOneFrame has yet to tick
  runnerStarted,
  rpc,                           \* where TickAnimations is
  ends,                          \* per instance: ends reached, to and fro
  late                           \* instances started as the runner stopped

lists == <<animations, pendingAnimations, nextFrameAnimations>>
vars == <<anim, lists, oldList, runnerStarted, rpc, ends, late>>

Instances == 1 .. MaxStarts
AnimSet == [a : Anims, repeatsLeft : {-1} \cup Nat, reverse : BOOLEAN,
            stopped : BOOLEAN]

TypeOK ==
  /\ anim \in Seq(AnimSet) /\ Len(anim) <= MaxStarts
  /\ animations \in Seq(Instances) /\ pendingAnimations \in Seq(Instances)
  /\ nextFrameAnimations \in Seq(Instances) /\ oldList \in Seq(Instances)
  /\ runnerStarted \in BOOLEAN
  /\ rpc \in {"idle", "frame", "tick", "clear"}
  /\ ends \in Seq([to : Nat, fro : Nat]) /\ Len(ends) = Len(anim)
  /\ late \subseteq Instances

Init ==
  /\ anim = <<>> /\ animations = <<>> /\ pendingAnimations = <<>>
  /\ nextFrameAnimations = <<>> /\ oldList = <<>>
  /\ runnerStarted = FALSE /\ rpc = "idle" /\ ends = <<>>
  /\ late = {}

-----------------------------------------------------------------------------
Members(s) == {s[k] : k \in DOMAIN s}

(* The instances the runner still holds. *)
Held == Members(animations) \cup Members(pendingAnimations)
          \cup Members(nextFrameAnimations) \cup Members(oldList)

Of(a) == {i \in DOMAIN anim : anim[i].a = a}
Playing(a) == {i \in Of(a) \cap Held : ~anim[i].stopped}

Running == animations # <<>> \/ pendingAnimations # <<>>

NewAnim(a) == [a |-> a, repeatsLeft |-> RepeatCount[a], reverse |-> FALSE,
               stopped |-> FALSE]

(* A runner that has been started picks new animations up after a frame. *)
Register(i) ==
  IF runnerStarted
  THEN /\ pendingAnimations' = Append(pendingAnimations, i)
       /\ UNCHANGED <<animations, runnerStarted>>
  ELSE /\ animations' = Append(animations, i)
       /\ runnerStarted' = TRUE
       /\ UNCHANGED pendingAnimations

Start(a) ==
  /\ Len(anim) < MaxStarts
  /\ anim' = Append(anim, NewAnim(a))
  /\ ends' = Append(ends, [to |-> 0, fro |-> 0])
  /\ Register(Len(anim) + 1)
  /\ late' = IF rpc = "clear" THEN late \cup {Len(anim) + 1} ELSE late
  /\ UNCHANGED <<nextFrameAnimations, oldList, rpc>>

(* A list without the instances of a, in the order it had. *)
NotOf(a, s) ==
  LET kept[n \in 0 .. Len(s)] ==
        IF n = 0 THEN <<>>
        ELSE IF anim[s[n]].a # a THEN Append(kept[n - 1], s[n]) ELSE kept[n - 1]
  IN  kept[Len(s)]
SetStopped(s) == [i \in DOMAIN anim |->
                    IF i \in s THEN [anim[i] EXCEPT !.stopped = TRUE]
                               ELSE anim[i]]

(* Pending instances are looked at only if no current one was stopped. *)
Stop(a) ==
  LET current == Of(a) \cap Members(animations)
      pending == Of(a) \cap Members(pendingAnimations) IN
  /\ \/ /\ current # {}
        /\ anim' = SetStopped(current)
        /\ animations' = NotOf(a, animations)
        /\ UNCHANGED pendingAnimations
     \/ /\ current = {} /\ pending # {}
        /\ anim' = SetStopped(pending)
        /\ pendingAnimations' = NotOf(a, pendingAnimations)
        /\ UNCHANGED animations
  /\ UNCHANGED <<nextFrameAnimations, oldList, runnerStarted, rpc, ends, late>>

-----------------------------------------------------------------------------
(* TickAnimations, which does nothing for a runner not started. *)

TakeList ==
  /\ rpc = "idle" /\ runnerStarted
  /\ oldList' = animations
  /\ rpc' = "frame"
  /\ UNCHANGED <<anim, lists, runnerStarted, ends, late>>

SkipStopped ==
  /\ rpc = "frame" /\ oldList # <<>>
  /\ anim[Head(oldList)].stopped
  /\ oldList' = Tail(oldList)
  /\ UNCHANGED <<anim, lists, runnerStarted, rpc, ends, late>>

CallTick ==
  /\ rpc = "frame" /\ oldList # <<>>
  /\ ~anim[Head(oldList)].stopped
  /\ rpc' = "tick"
  /\ UNCHANGED <<anim, lists, oldList, runnerStarted, ends, late>>

(* tickAnimation past the end of a play: does the instance go on, and what *)
(* becomes of its direction and its repeats?                               *)
GoesOn_short(x) ==                 \* mutant: no play back on the last round
  x.repeatsLeft # 0
GoesOn(x) ==
  x.repeatsLeft # 0 \/ (~x.reverse /\ x.a \in AutoReverse)

EndPlay(x) ==
  LET turned == ~x.reverse /\ x.a \in AutoReverse IN
  [x EXCEPT !.reverse = turned,
            !.repeatsLeft = IF turned \/ @ <= 0 THEN @ ELSE @ - 1]

(* Ends are counted for the animations that have a last one. *)
CountEnd(x, e) ==
  IF RepeatCount[x.a] = -1 THEN e
  ELSE IF x.reverse THEN [e EXCEPT !.fro = @ + 1] ELSE [e EXCEPT !.to = @ + 1]

(* The callback has returned; a tick before the end only goes on. *)
TickReturns ==
  LET i == Head(oldList) x == anim[i] IN
  /\ rpc = "tick"
  /\ \/ /\ nextFrameAnimations' = Append(nextFrameAnimations, i)
        /\ UNCHANGED <<anim, ends>>
     \/ /\ ends' = [ends EXCEPT ![i] = CountEnd(x, @)]
        /\ IF GoesOn(x)
           THEN /\ anim' = [anim EXCEPT ![i] = EndPlay(x)]
                /\ nextFrameAnimations' = Append(nextFrameAnimations, i)
           ELSE UNCHANGED <<anim, nextFrameAnimations>>
  /\ oldList' = Tail(oldList)
  /\ rpc' = "frame"
  /\ UNCHANGED <<animations, pendingAnimations, runnerStarted, late>>

(* The end of a frame: what goes on, then what was started meanwhile. *)
SwapLists ==
  /\ animations' = nextFrameAnimations \o pendingAnimations
  /\ nextFrameAnimations' = <<>> /\ pendingAnimations' = <<>>

AfterFrame_done == "clear"         \* mutant: the runner always stops
AfterFrame == IF animations' = <<>> THEN "clear" ELSE "idle"

EndFrame ==
  /\ rpc = "frame" /\ oldList = <<>>
  /\ SwapLists
  /\ rpc' = AfterFrame
  /\ UNCHANGED <<anim, oldList, runnerStarted, ends, late>>

(* runnerStarted is cleared in a critical section of its own. *)
ClearStarted ==
  /\ rpc = "clear" /\ rpc' = "idle"
  /\ runnerStarted' = FALSE
  /\ UNCHANGED <<anim, lists, oldList, ends, late>>

Tick == TakeList \/ SkipStopped \/ CallTick \/ TickReturns \/ EndFrame
          \/ ClearStarted

Next == Tick \/ \E a \in Anims : Start(a) \/ Stop(a)

Spec == Init /\ [][Next]_vars
-----------------------------------------------------------------------------
(* Properties. *)

Complete(i) ==
  LET a == anim[i].a IN
  /\ RepeatCount[a] >= 0
  /\ ends[i].to = RepeatCount[a] + 1
  /\ ends[i].fro = IF a \in AutoReverse THEN RepeatCount[a] + 1 ELSE 0

(* No animation is lost or cut short by the hand-over between the lists:   *)
(* one the runner no longer holds was stopped, or has been played exactly  *)
(* RepeatCount + 1 times, and as often backwards if it reverses; and none  *)
(* is played more often than that.                                         *)
PlayedInFull ==
  \A i \in DOMAIN anim :
     /\ anim[i].stopped \/ i \in Held \/ Complete(i)
     /\ RepeatCount[anim[i].a] >= 0 =>
          ends[i].to <= RepeatCount[anim[i].a] + 1

(* Stop: "end this animation and remove it from the run-loop": when Stop   *)
(* returns no instance of the animation is left to play.                   *)
StopEndsAnimation == [][\A a \in Anims : Stop(a) => Playing(a)' = {}]_vars

(* No started animation is forgotten: between frames a runner that is not  *)
(* ticked holds nothing but what a goroutine started after the last frame  *)
(* had found no more to do and before ClearStarted, and that joins the     *)
(* next start; whatever main starts is ticked.                             *)
OnlyLateStranded ==
  rpc = "idle" /\ ~runnerStarted =>
    animations = <<>> /\ Members(pendingAnimations) \subseteq late

(* Start: "initiate its ticking": between frames, animations that are      *)
(* running belong to a runner that ticks them.                             *)
StartInitiatesTicking == rpc = "idle" /\ Running => runnerStarted
=============================================================================
