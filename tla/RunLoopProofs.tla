--------------------------- MODULE RunLoopProofs ----------------------------
(***************************************************************************)
(* That the main loop is well typed, never sleeps through work, implements *)
(* the executor and flushes its lifecycle events, for any number of        *)
(* goroutines and windows and any bounds.                                  *)
(***************************************************************************)
EXTENDS RunLoop, SequenceTheorems, TLAPS

(* Main only takes the head of a batch that has one. *)
BatchOK == mpc \in {"run", "finish"} => batch # <<>>

(* While the loop serves, wake-ups are posted and the queue is not shut.   *)
FlagsOK == /\ mpc \in LoopPlaces => ready
           /\ mpc \in {"setup", "init"} \cup LoopPlaces => ~drained
           /\ mpc \in {"sddrain", "finish", "release"} => drained

LoopInv == TypeOK /\ BatchOK /\ FlagsOK

(* From the places where main has last looked for work of a kind up to the *)
(* event wait, work of that kind is announced, or about to be.             *)
Announced == posted \/ WakeComing
WakeInv ==
  /\ mpc \in {"decide", "sleep"} /\ pending # <<>> => Announced
  /\ mpc \in {"drain", "decide", "sleep"} /\ done => Announced
  /\ mpc = "sleep" /\ NeedsFrameTick => Announced

-----------------------------------------------------------------------------
LEMMA CallIsCall ==
  ASSUME NEW g \in Threads \cup {Main},
         NEW n \in 0 .. (MaxCalls + MaxMainCalls + 2), NEW w \in BOOLEAN
  PROVE  Call(g, n, w) \in CallSet
BY DEF Call, CallSet

(* A nonempty queue of calls has a call at its head and calls after it. *)
LEMMA HeadOfCalls ==
  ASSUME NEW s \in Seq(CallSet), s # <<>>
  PROVE  Head(s) \in CallSet /\ Tail(s) \in Seq(CallSet)
BY HeadTailProperties

LEMMA InitLoopInv == Init => LoopInv
<1> SUFFICES ASSUME Init PROVE LoopInv OBVIOUS
<1> USE ConstantsAssumption DEF Init, ConstantsAssumption
<1>1. \A g \in Threads \cup {Main} : NoCall(g) \in CallSet
  BY DEF NoCall, Call, CallSet
<1>2. TypeOK
  <2>1. pc \in [Threads -> GoroutinePlaces] /\ cur \in [Threads -> CallSet]
    BY <1>1 DEF GoroutinePlaces
  <2>2. calls \in [Threads \cup {Main} -> 0 .. (MaxCalls + MaxMainCalls)]
    OBVIOUS
  <2>3. pending \in Seq(CallSet) /\ batch \in Seq(CallSet)
        /\ events \in Seq({Stopped, Flush})
    OBVIOUS
  <2>4. serving \in CallSet
    BY <1>1
  <2> QED BY <2>1, <2>2, <2>3, <2>4 DEF TypeOK, GoTypes, PlaceTypes, DataTypes, Places
<1>3. BatchOK /\ FlagsOK
  BY DEF BatchOK, FlagsOK, LoopPlaces
<1> QED BY <1>2, <1>3 DEF LoopInv

(* Beginning an operation keeps the goroutines' part of the type. *)
LEMMA BeginTypes ==
  ASSUME GoTypes, NEW g \in Workers, NEW c \in CallSet,
         NEW place \in GoroutinePlaces, Begin(g, c, place)
  PROVE  GoTypes'
<1>1. g \in Threads
  BY DEF Threads
<1>2. calls[g] + 1 \in 0 .. (MaxCalls + MaxMainCalls)
  BY <1>1, ConstantsAssumption DEF GoTypes, Begin, ConstantsAssumption
<1> QED
  BY <1>1, <1>2 DEF GoTypes, Begin, GoTo

(* What the application's functions do keeps the types of what they touch. *)
UserTypes ==
  /\ running \in BOOLEAN /\ done \in BOOLEAN /\ posted \in BOOLEAN
  /\ playing \in BOOLEAN /\ joining \in BOOLEAN /\ started \in BOOLEAN
  /\ pending \in Seq(CallSet)
  /\ calls \in [Threads \cup {Main} -> 0 .. (MaxCalls + MaxMainCalls)]
  /\ closing \subseteq Windows /\ dirty \subseteq Windows
  /\ visible \subseteq open /\ awaited \subseteq open
  /\ gated \subseteq awaited /\ presented \subseteq awaited
  /\ executed \subseteq CallSet

LEMMA UserCodeTypes ==
  ASSUME UserTypes, ready \in BOOLEAN, open \subseteq Windows, open' = open,
         UserCode
  PROVE  UserTypes'
<1> USE DEF UserTypes, toldVars, handedVars, viewVars, gateVars, runnerVars
<1>0. MainCalls => calls' \in [Threads \cup {Main} -> 0 .. (MaxCalls + MaxMainCalls)]
  <2> SUFFICES ASSUME MainCalls
               PROVE  calls' \in [Threads \cup {Main} -> 0 .. (MaxCalls + MaxMainCalls)]
    OBVIOUS
  <2>1. calls[Main] + 1 \in 0 .. (MaxCalls + MaxMainCalls)
    BY ConstantsAssumption DEF MainCalls, ConstantsAssumption
  <2> QED BY <2>1 DEF MainCalls
<1>1. CASE UNCHANGED userVars
  BY <1>1 DEF userVars
<1>2. CASE UserQuit
  BY <1>2 DEF UserQuit, QuitOnMain, MainWake
<1>3. CASE UserDo
  <2>1. calls[Main] + 1 \in 0 .. (MaxCalls + MaxMainCalls)
    BY <1>3, ConstantsAssumption DEF UserDo, MainCalls, ConstantsAssumption
  <2>2. Call(Main, calls[Main] + 1, FALSE) \in CallSet
    BY <2>1, ConstantsAssumption DEF Call, CallSet, ConstantsAssumption
  <2>3. posted' \in BOOLEAN
    BY <1>3 DEF UserDo, MainWake
  <2>4. pending' \in Seq(CallSet) /\ executed' \subseteq CallSet
    <3> DEFINE c == Call(Main, calls[Main] + 1, FALSE)
    <3>1. c \in CallSet
      BY <2>2
    <3>2. \/ pending' = Append(pending, c) /\ executed' = executed
          \/ pending' = pending /\ executed' = executed \cup {c}
      BY <1>3 DEF UserDo
    <3> HIDE DEF c
    <3> QED BY <3>1, <3>2
  <2>5. calls' \in [Threads \cup {Main} -> 0 .. (MaxCalls + MaxMainCalls)]
    BY <1>3, <1>0 DEF UserDo
  <2> QED BY <1>3, <2>3, <2>4, <2>5 DEF UserDo
<1>4. CASE UserAnimate
  BY <1>4 DEF UserAnimate, RunnerStart, RunnerStop, MainWake
<1>5. CASE \E w \in Windows : UserRefresh(w) \/ UserClose(w)
  BY <1>5 DEF UserRefresh, MarkDirty, UserClose, MainWake
<1>6. ASSUME NEW w \in Windows, UserHide(w) PROVE UserTypes'
  BY <1>0, <1>6 DEF UserHide
<1>7. ASSUME NEW w \in Windows, UserShow(w) PROVE UserTypes'
  BY <1>0, <1>7 DEF UserShow, Gate, Armed
<1> QED BY <1>1, <1>2, <1>3, <1>4, <1>5, <1>6, <1>7 DEF UserCode

LEMMA RunUserCodeTypes ==
  ASSUME GoTypes, DataTypes, NEW from, NEW to, RunUserCode(from, to)
  PROVE  GoTypes' /\ DataTypes'
<1>1. UserTypes'
  <2>1. /\ UserTypes /\ ready \in BOOLEAN /\ open \subseteq Windows
        /\ open' = open /\ UserCode
    BY DEF GoTypes, DataTypes, UserTypes, RunUserCode
  <2> QED BY <2>1, UserCodeTypes
<1> QED
  BY <1>1 DEF UserTypes, GoTypes, DataTypes, RunUserCode, lifeVars, locals

LEMMA RunCallbacksTypes ==
  ASSUME GoTypes, DataTypes, NEW from, NEW to, RunCallbacks(from, to)
  PROVE  GoTypes' /\ DataTypes'
<1>1. CASE RunUserCode(from, to)
  BY <1>1, RunUserCodeTypes
<1>2. ASSUME NEW w \in Windows, MarkReady(w),
             UNCHANGED <<pc, cur, locals, batch, serving, drained, ready,
                         terminated, open, lifeVars, dropped, returned>>
      PROVE  GoTypes' /\ DataTypes'
  BY <1>2 DEF GoTypes, DataTypes, MarkReady, MarkDirty, MainWake, handedVars,
     runnerVars, lifeVars, locals
<1> QED BY <1>1, <1>2 DEF RunCallbacks

(* Every step keeps the data well typed: one case per action. *)
LEMMA DataStep == LoopInv /\ [Next]_vars => GoTypes' /\ DataTypes'
<1> SUFFICES ASSUME GoTypes, PlaceTypes, DataTypes, BatchOK, [Next]_vars
             PROVE  GoTypes' /\ DataTypes'
  BY DEF LoopInv, TypeOK
<1>a. Workers \subseteq Threads /\ Pump \in Threads
  BY DEF Threads
<1>b. \A g \in Threads : NoCall(g) \in CallSet
  BY ConstantsAssumption DEF NoCall, Call, CallSet, ConstantsAssumption
<1>w. ASSUME ProcessWindowEvents
      PROVE  /\ running' \in BOOLEAN /\ done' \in BOOLEAN /\ posted' \in BOOLEAN
             /\ open' \subseteq Windows /\ visible' \subseteq open'
             /\ gated' \subseteq awaited' /\ awaited' \subseteq open'
             /\ presented' \subseteq awaited' /\ UNCHANGED <<closing, dirty>>
  <2>1. running' \in BOOLEAN /\ done' \in BOOLEAN /\ posted' \in BOOLEAN
    BY <1>w DEF ProcessWindowEvents, QuitOnMain, MainWake, toldVars, DataTypes
  <2>2. /\ open' \subseteq Windows /\ visible' \subseteq open'
        /\ gated' \subseteq awaited' /\ awaited' \subseteq open'
        /\ presented' \subseteq awaited' /\ UNCHANGED <<closing, dirty>>
    BY <1>w DEF ProcessWindowEvents, FreeCallbacks, DataTypes
  <2> QED BY <2>1, <2>2
<1> USE DEF GoTypes, DataTypes, GoroutinePlaces,
        goVars, locals, loopVars, funcVars, flagVars, glfwVars, windowVars,
        viewVars, gateVars, runnerVars, uiVars, lifeVars, callVars, recordVars, allButGo, allButPlace, vars
<1>1. ASSUME NEW g \in Threads, CheckDrained(g) PROVE GoTypes' /\ DataTypes'
  BY <1>1 DEF CheckDrained, GoTo
<1>2. ASSUME NEW g \in Threads, Push(g) PROVE GoTypes' /\ DataTypes'
  BY <1>2 DEF Push, GoTo, AfterPush, Resume
<1>3. ASSUME NEW g \in Threads, LoadReady(g) PROVE GoTypes' /\ DataTypes'
  BY <1>3 DEF LoadReady, GoTo, Resume
<1>4. ASSUME NEW g \in Threads, PostEmptyEvent(g) PROVE GoTypes' /\ DataTypes'
  BY <1>4 DEF PostEmptyEvent, GoTo, Resume
<1>5. ASSUME NEW g \in Threads, RunInline(g) PROVE GoTypes' /\ DataTypes'
  BY <1>5 DEF RunInline, GoTo
<1>6. ASSUME NEW g \in Threads, QuitClose(g) PROVE GoTypes' /\ DataTypes'
  BY <1>6 DEF QuitClose, GoTo, AfterClose
<1>7. ASSUME NEW g \in Workers, DoFromGoroutine(g) PROVE GoTypes' /\ DataTypes'
  <2>1. PICK wait \in BOOLEAN : Begin(g, Call(g, calls[g] + 1, wait), "check")
    BY <1>7 DEF DoFromGoroutine
  <2>2. Call(g, calls[g] + 1, wait) \in CallSet
    BY <2>1, <1>a, ConstantsAssumption
       DEF Begin, Call, CallSet, ConstantsAssumption
  <2>3. GoTypes'
    BY <2>1, <2>2, BeginTypes
  <2> QED BY <1>7, <2>3 DEF DoFromGoroutine
<1>8. ASSUME NEW g \in Workers, StartAnimation(g) PROVE GoTypes' /\ DataTypes'
  <2>1. GoTypes'
    BY <1>8, <1>a, <1>b, BeginTypes DEF StartAnimation
  <2>2. /\ playing' \in BOOLEAN /\ joining' \in BOOLEAN
        /\ started' \in BOOLEAN
    BY <1>8 DEF StartAnimation, RunnerStart
  <2>3. DataTypes'
    BY <1>8, <2>2 DEF StartAnimation
  <2> QED BY <2>1, <2>3
<1>8s. ASSUME NEW g \in Workers, StopAnimation(g) PROVE GoTypes' /\ DataTypes'
  <2>1. GoTypes'
    BY <1>8s, <1>a, <1>b, BeginTypes DEF StopAnimation
  <2>2. /\ playing' \in BOOLEAN /\ joining' \in BOOLEAN
        /\ started' \in BOOLEAN
    BY <1>8s DEF StopAnimation, RunnerStop
  <2>3. DataTypes'
    BY <1>8s, <2>2 DEF StopAnimation
  <2> QED BY <2>1, <2>3
<1>9. ASSUME NEW g \in Workers, QuitSwap(g) PROVE GoTypes' /\ DataTypes'
  <2>1. GoTypes'
    BY <1>9, <1>a, <1>b, BeginTypes DEF QuitSwap
  <2> QED BY <1>9, <2>1 DEF QuitSwap
<1>10. ASSUME NEW g \in Workers, NEW w \in Windows, SetDirty(g, w) PROVE GoTypes' /\ DataTypes'
  <2>1. GoTypes'
    BY <1>10, <1>a, <1>b, BeginTypes DEF SetDirty, AfterSetDirty
  <2> QED BY <1>10, <2>1 DEF SetDirty, AfterSetDirty
<1>11. ASSUME PumpTake PROVE GoTypes' /\ DataTypes'
  <2>1. Head(events) \in {Stopped, Flush} /\ events' \in Seq({Stopped, Flush})
    BY <1>11, HeadTailProperties DEF PumpTake
  <2>2. Call(Pump, Head(events), TRUE) \in CallSet
    BY <2>1, <1>a, ConstantsAssumption
       DEF Call, CallSet, Stopped, Flush, ConstantsAssumption
  <2>3. GoTypes'
    BY <1>11, <2>2, <1>a DEF PumpTake, GoTo
  <2>4. DataTypes'
    BY <1>11, <2>1 DEF PumpTake
  <2> QED BY <2>3, <2>4
<1>12. ASSUME PumpEnd PROVE GoTypes' /\ DataTypes'
  BY <1>12 DEF PumpEnd, GoTo
<1>13. ASSUME StartRun PROVE GoTypes' /\ DataTypes'
  BY <1>13 DEF StartRun
<1>14. ASSUME InitDriver PROVE GoTypes' /\ DataTypes'
  BY <1>14 DEF InitDriver
<1>15. ASSUME OnStarted PROVE GoTypes' /\ DataTypes'
  BY <1>15, RunUserCodeTypes DEF OnStarted
<1>16. ASSUME CheckDone PROVE GoTypes' /\ DataTypes'
  BY <1>16 DEF CheckDone
<1>17. ASSUME Drain PROVE GoTypes' /\ DataTypes'
  BY <1>17 DEF Drain
<1>18. ASSUME RunFunc PROVE GoTypes' /\ DataTypes'
  <2>1. Head(batch) \in CallSet /\ Tail(batch) \in Seq(CallSet)
    BY <1>18, HeadOfCalls DEF RunFunc, BatchOK
  <2> QED BY <1>18, <2>1 DEF RunFunc
<1>19. ASSUME FuncBody PROVE GoTypes' /\ DataTypes'
  BY <1>19, RunUserCodeTypes DEF FuncBody
<1>20. ASSUME Signal PROVE GoTypes' /\ DataTypes'
  BY <1>20 DEF Signal, GoTo, Receives
<1>21. ASSUME DecideSleep PROVE GoTypes' /\ DataTypes'
  BY <1>21 DEF DecideSleep
<1>22. ASSUME DecideWait PROVE GoTypes' /\ DataTypes'
  BY <1>22 DEF DecideWait
<1>23. ASSUME DecideFrame PROVE GoTypes' /\ DataTypes'
  BY <1>23 DEF DecideFrame
<1>24. ASSUME WaitEventsTimeout PROVE GoTypes' /\ DataTypes'
  BY <1>24 DEF WaitEventsTimeout, LeaveWait, TakeEvents, Gate
<1>25. ASSUME PollEvents PROVE GoTypes' /\ DataTypes'
  BY <1>25 DEF PollEvents, LeaveWait, TakeEvents, Gate
<1>26. ASSUME WaitEvents PROVE GoTypes' /\ DataTypes'
  BY <1>26 DEF WaitEvents, LeaveWait, TakeEvents, Gate
<1>27. ASSUME EventCallbacks PROVE GoTypes' /\ DataTypes'
  BY <1>27, RunCallbacksTypes DEF EventCallbacks
<1>28. ASSUME WindowEventsTimeout PROVE GoTypes' /\ DataTypes'
  <2>1. ProcessWindowEvents
    BY <1>28 DEF WindowEventsTimeout
  <2>2. GoTypes'
    BY <1>28 DEF WindowEventsTimeout
  <2>3. DataTypes'
    BY <1>28, <2>1, <1>w DEF WindowEventsTimeout
  <2> QED BY <2>2, <2>3
<1>29. ASSUME WindowEventsWait PROVE GoTypes' /\ DataTypes'
  <2>1. ProcessWindowEvents
    BY <1>29 DEF WindowEventsWait
  <2>2. GoTypes'
    BY <1>29 DEF WindowEventsWait
  <2>3. DataTypes'
    BY <1>29, <2>1, <1>w DEF WindowEventsWait
  <2> QED BY <2>2, <2>3
<1>30. ASSUME Redecide PROVE GoTypes' /\ DataTypes'
  BY <1>30 DEF Redecide
<1>31. ASSUME FrameWindowEvents PROVE GoTypes' /\ DataTypes'
  <2>1. ProcessWindowEvents
    BY <1>31 DEF FrameWindowEvents
  <2>2. GoTypes'
    BY <1>31 DEF FrameWindowEvents
  <2>3. DataTypes'
    BY <1>31, <2>1, <1>w DEF FrameWindowEvents
  <2> QED BY <2>2, <2>3
<1>32. ASSUME TickAnimations PROVE GoTypes' /\ DataTypes'
  BY <1>32 DEF TickAnimations
<1>33. ASSUME TickCallbacks PROVE GoTypes' /\ DataTypes'
  BY <1>33, RunUserCodeTypes DEF TickCallbacks
<1>33e. ASSUME EndFrame PROVE GoTypes' /\ DataTypes'
  BY <1>33e DEF EndFrame
<1>33c. ASSUME ClearStarted PROVE GoTypes' /\ DataTypes'
  BY <1>33c DEF ClearStarted
<1>34. ASSUME PollGated PROVE GoTypes' /\ DataTypes'
  <2>1. GoTypes'
    BY <1>34 DEF PollGated
  <2>2. /\ posted' \in BOOLEAN /\ gated' \subseteq awaited'
        /\ awaited' \subseteq open /\ presented' \subseteq awaited'
    BY <1>34 DEF PollGated, TakeEvents, Gate
  <2>3. DataTypes'
    BY <1>34, <2>2 DEF PollGated
  <2> QED BY <2>1, <2>3
<1>35. ASSUME PolledCallbacks PROVE GoTypes' /\ DataTypes'
  BY <1>35, RunCallbacksTypes DEF PolledCallbacks
<1>36. ASSUME DrawSingleFrame PROVE GoTypes' /\ DataTypes'
  BY <1>36 DEF DrawSingleFrame, ReadyDirty, Shown, Gate, Armed
<1>37. ASSUME StopWaking PROVE GoTypes' /\ DataTypes'
  BY <1>37 DEF StopWaking
<1>38. ASSUME Terminate PROVE GoTypes' /\ DataTypes'
  BY <1>38 DEF Terminate
<1>39. ASSUME QueueStopped PROVE GoTypes' /\ DataTypes'
  BY <1>39 DEF QueueStopped, QueueEvent
<1>40. ASSUME SetDrained PROVE GoTypes' /\ DataTypes'
  BY <1>40 DEF SetDrained
<1>41. ASSUME FinalDrain PROVE GoTypes' /\ DataTypes'
  BY <1>41 DEF FinalDrain
<1>42. ASSUME FinishFunc PROVE GoTypes' /\ DataTypes'
  <2>1. Head(batch) \in CallSet /\ Tail(batch) \in Seq(CallSet)
    BY <1>42, HeadOfCalls DEF FinishFunc, BatchOK
  <2> QED BY <1>42, <2>1 DEF FinishFunc
<1>43. ASSUME QueueFlush PROVE GoTypes' /\ DataTypes'
  BY <1>43 DEF QueueFlush, QueueEvent
<1>44. ASSUME Flushed PROVE GoTypes' /\ DataTypes'
  <2>1. GoTypes'
    BY <1>44, <1>a DEF Flushed, GoTo
  <2>2. cur[Pump] \in CallSet
    BY <1>a
  <2>3. executed' = executed \cup {cur[Pump]}
    BY <1>44 DEF Flushed
  <2>4. executed' \subseteq CallSet
    BY <2>2, <2>3
  <2>5. UNCHANGED <<locals, funcVars, flagVars, glfwVars, uiVars, lifeVars,
                    dropped, returned>>
    BY <1>44 DEF Flushed
  <2>6. DataTypes'
    BY <2>4, <2>5
  <2> QED BY <2>1, <2>6
<1>45. ASSUME DestroyEventQueue PROVE GoTypes' /\ DataTypes'
  BY <1>45 DEF DestroyEventQueue
<1>46. ASSUME WaitInput PROVE GoTypes' /\ DataTypes'
  BY <1>46 DEF WaitInput, LeaveWait, TakeEvents, Gate
<1>47. ASSUME FrameDue PROVE GoTypes' /\ DataTypes'
  BY <1>47 DEF FrameDue
<1>48. ASSUME NEW w \in Windows, Present(w) PROVE GoTypes' /\ DataTypes'
  BY <1>48 DEF Present
<1>49. ASSUME UNCHANGED vars PROVE GoTypes' /\ DataTypes'
  BY <1>49
<1> QED
  BY <1>1, <1>2, <1>3, <1>4, <1>5, <1>6, <1>7, <1>8, <1>8s, <1>9, <1>10, <1>11,
     <1>12, <1>13, <1>14, <1>15, <1>16, <1>17, <1>18, <1>19, <1>20, <1>21,
     <1>22, <1>23, <1>24, <1>25, <1>26, <1>27, <1>28, <1>29, <1>30, <1>31,
     <1>32, <1>33, <1>33e, <1>33c, <1>34, <1>35, <1>36, <1>37, <1>38, <1>39, <1>40, <1>41,
     <1>42, <1>43, <1>44, <1>45, <1>46, <1>47, <1>48, <1>49 DEF Next,
     MainStep, World, Proceed, Operate

(* Every step keeps main's place, its batch and the flags in accord. *)
PlaceInv == PlaceTypes /\ BatchOK /\ FlagsOK

LEMMA PlaceStep == LoopInv /\ [Next]_vars => PlaceInv'
<1> SUFFICES ASSUME PlaceInv, DataTypes, [Next]_vars PROVE PlaceInv'
  BY DEF LoopInv, TypeOK, PlaceInv
<1> USE DEF PlaceInv, PlaceTypes, BatchOK, FlagsOK, Places, LoopPlaces,
        ShutdownPlaces, AfterLoop,
        goVars, locals, loopVars, funcVars, flagVars, glfwVars, windowVars,
        viewVars, gateVars, runnerVars, uiVars, lifeVars, callVars, recordVars, allButGo, allButPlace, vars
<1>1. ASSUME NEW g \in Threads, CheckDrained(g) PROVE PlaceInv'
  BY <1>1 DEF CheckDrained
<1>2. ASSUME NEW g \in Threads, Push(g) PROVE PlaceInv'
  BY <1>2 DEF Push
<1>3. ASSUME NEW g \in Threads, LoadReady(g) PROVE PlaceInv'
  BY <1>3 DEF LoadReady
<1>4. ASSUME NEW g \in Threads, PostEmptyEvent(g) PROVE PlaceInv'
  BY <1>4 DEF PostEmptyEvent
<1>5. ASSUME NEW g \in Threads, RunInline(g) PROVE PlaceInv'
  BY <1>5 DEF RunInline
<1>6. ASSUME NEW g \in Threads, QuitClose(g) PROVE PlaceInv'
  BY <1>6 DEF QuitClose
<1>7. ASSUME NEW g \in Workers, DoFromGoroutine(g) PROVE PlaceInv'
  BY <1>7 DEF DoFromGoroutine
<1>8. ASSUME NEW g \in Workers, StartAnimation(g) PROVE PlaceInv'
  BY <1>8 DEF StartAnimation
<1>8s. ASSUME NEW g \in Workers, StopAnimation(g) PROVE PlaceInv'
  BY <1>8s DEF StopAnimation
<1>9. ASSUME NEW g \in Workers, QuitSwap(g) PROVE PlaceInv'
  BY <1>9 DEF QuitSwap
<1>10. ASSUME NEW g \in Workers, NEW w \in Windows, SetDirty(g, w)
      PROVE  PlaceInv'
  BY <1>10 DEF SetDirty, AfterSetDirty
<1>11. ASSUME PumpTake PROVE PlaceInv'
  BY <1>11 DEF PumpTake
<1>12. ASSUME PumpEnd PROVE PlaceInv'
  BY <1>12 DEF PumpEnd
<1>13. ASSUME StartRun PROVE PlaceInv'
  BY <1>13 DEF StartRun
<1>14. ASSUME InitDriver PROVE PlaceInv'
  BY <1>14 DEF InitDriver
<1>15. ASSUME OnStarted PROVE PlaceInv'
  BY <1>15 DEF OnStarted, RunUserCode
<1>16. ASSUME CheckDone PROVE PlaceInv'
  BY <1>16 DEF CheckDone
<1>17. ASSUME Drain PROVE PlaceInv'
  BY <1>17 DEF Drain, AfterDrain
<1>18. ASSUME RunFunc PROVE PlaceInv'
  BY <1>18 DEF RunFunc
<1>19. ASSUME FuncBody PROVE PlaceInv'
  BY <1>19 DEF FuncBody, RunUserCode, AfterFunc, NextFunc
<1>20. ASSUME Signal PROVE PlaceInv'
  BY <1>20 DEF Signal, NextFunc
<1>21. ASSUME DecideSleep PROVE PlaceInv'
  BY <1>21 DEF DecideSleep
<1>22. ASSUME DecideWait PROVE PlaceInv'
  BY <1>22 DEF DecideWait
<1>23. ASSUME DecideFrame PROVE PlaceInv'
  BY <1>23 DEF DecideFrame
<1>24. ASSUME WaitEventsTimeout PROVE PlaceInv'
  BY <1>24 DEF WaitEventsTimeout, LeaveWait
<1>25. ASSUME PollEvents PROVE PlaceInv'
  BY <1>25 DEF PollEvents, LeaveWait
<1>26. ASSUME WaitEvents PROVE PlaceInv'
  BY <1>26 DEF WaitEvents, LeaveWait
<1>27. ASSUME EventCallbacks PROVE PlaceInv'
  BY <1>27 DEF EventCallbacks, RunCallbacks, RunUserCode
<1>28. ASSUME WindowEventsTimeout PROVE PlaceInv'
  BY <1>28 DEF WindowEventsTimeout
<1>29. ASSUME WindowEventsWait PROVE PlaceInv'
  BY <1>29 DEF WindowEventsWait
<1>30. ASSUME Redecide PROVE PlaceInv'
  BY <1>30 DEF Redecide
<1>31. ASSUME FrameWindowEvents PROVE PlaceInv'
  BY <1>31 DEF FrameWindowEvents
<1>32. ASSUME TickAnimations PROVE PlaceInv'
  BY <1>32 DEF TickAnimations
<1>33. ASSUME TickCallbacks PROVE PlaceInv'
  BY <1>33 DEF TickCallbacks, RunUserCode
<1>33e. ASSUME EndFrame PROVE PlaceInv'
  BY <1>33e DEF EndFrame
<1>33c. ASSUME ClearStarted PROVE PlaceInv'
  BY <1>33c DEF ClearStarted
<1>34. ASSUME PollGated PROVE PlaceInv'
  BY <1>34 DEF PollGated
<1>35. ASSUME PolledCallbacks PROVE PlaceInv'
  BY <1>35 DEF PolledCallbacks, RunCallbacks, RunUserCode
<1>36. ASSUME DrawSingleFrame PROVE PlaceInv'
  BY <1>36 DEF DrawSingleFrame
<1>37. ASSUME StopWaking PROVE PlaceInv'
  BY <1>37 DEF StopWaking
<1>38. ASSUME Terminate PROVE PlaceInv'
  BY <1>38 DEF Terminate
<1>39. ASSUME QueueStopped PROVE PlaceInv'
  BY <1>39 DEF QueueStopped
<1>40. ASSUME SetDrained PROVE PlaceInv'
  BY <1>40 DEF SetDrained
<1>41. ASSUME FinalDrain PROVE PlaceInv'
  BY <1>41 DEF FinalDrain
<1>42. ASSUME FinishFunc PROVE PlaceInv'
  BY <1>42 DEF FinishFunc, AfterFinish
<1>43. ASSUME QueueFlush PROVE PlaceInv'
  BY <1>43 DEF QueueFlush
<1>44. ASSUME Flushed PROVE PlaceInv'
  BY <1>44 DEF Flushed
<1>45. ASSUME DestroyEventQueue PROVE PlaceInv'
  BY <1>45 DEF DestroyEventQueue
<1>46. ASSUME WaitInput PROVE PlaceInv'
  BY <1>46 DEF WaitInput, LeaveWait
<1>47. ASSUME FrameDue PROVE PlaceInv'
  BY <1>47 DEF FrameDue
<1>48. ASSUME NEW w \in Windows, Present(w) PROVE PlaceInv'
  BY <1>48 DEF Present
<1>49. ASSUME UNCHANGED vars PROVE PlaceInv'
  BY <1>49
<1> QED
  BY <1>1, <1>2, <1>3, <1>4, <1>5, <1>6, <1>7, <1>8, <1>8s, <1>9, <1>10, <1>11,
     <1>12, <1>13, <1>14, <1>15, <1>16, <1>17, <1>18, <1>19, <1>20, <1>21,
     <1>22, <1>23, <1>24, <1>25, <1>26, <1>27, <1>28, <1>29, <1>30, <1>31,
     <1>32, <1>33, <1>33e, <1>33c, <1>34, <1>35, <1>36, <1>37, <1>38, <1>39, <1>40, <1>41,
     <1>42, <1>43, <1>44, <1>45, <1>46, <1>47, <1>48, <1>49 DEF Next,
     MainStep, World, Proceed, Operate

LEMMA LoopInvStep == LoopInv /\ [Next]_vars => LoopInv'
BY DataStep, PlaceStep DEF LoopInv, TypeOK, PlaceInv

(* The loop's state is well typed in every behaviour; in particular no     *)
(* frame callback outlives its window, and main takes no func from an      *)
(* empty batch.                                                            *)
THEOREM TypeCorrect == Spec => []TypeOK
<1>1. LoopInv => TypeOK
  BY DEF LoopInv
<1> QED BY <1>1, InitLoopInv, LoopInvStep, PTL DEF Spec

-----------------------------------------------------------------------------
(* No lost wake-up. *)

(* A wake-up that is coming stays so while another goroutine moves ... *)
LEMMA OthersLetWake ==
  ASSUME GoTypes, NEW g \in Threads, NEW place, GoTo(g, place),
         pc[g] \notin {"wake", "post"}, ready' = ready, WakeComing
  PROVE  WakeComing'
<1>1. PICK h \in Threads : pc[h] = "post" \/ (pc[h] = "wake" /\ ready)
  BY DEF WakeComing
<1>2. h # g /\ pc'[h] = pc[h]
  BY <1>1 DEF GoTo, GoTypes
<1> QED BY <1>1, <1>2 DEF WakeComing

(* ... and begins when a goroutine enters wakeEventLoop. *)
LEMMA EnteringWakes ==
  ASSUME GoTypes, NEW g \in Threads, ready', GoTo(g, "wake")
  PROVE  WakeComing'
BY DEF GoTypes, GoTo, WakeComing

(* A step of a goroutine that is not in wakeEventLoop, which either brings *)
(* no work or wakes the loop for it.                                       *)
LEMMA GoroutineKeepsWake ==
  ASSUME GoTypes, FlagsOK, WakeInv, NEW g \in Threads, NEW place,
         GoTo(g, place), pc[g] \notin {"wake", "post"},
         mpc' = mpc, ready' = ready, posted' = posted,
         UNCHANGED <<visible, closing, gated>>,
         \/ place = "wake"
         \/ UNCHANGED <<done, playing, joining, dirty>>
            /\ (pending' # <<>> => pending # <<>>)
  PROVE  WakeInv'
<1>1. WakeComing => WakeComing'
  BY OthersLetWake
<1>2. Announced => Announced'
  BY <1>1 DEF Announced
<1>3. CASE place = "wake"
  <2>1. mpc' \in {"drain", "decide", "sleep"} => ready'
    BY DEF FlagsOK, LoopPlaces
  <2>2. mpc' \in {"drain", "decide", "sleep"} => Announced'
    BY <1>3, <2>1, EnteringWakes DEF Announced
  <2> QED BY <2>2 DEF WakeInv
<1>4. CASE /\ UNCHANGED <<done, playing, joining, dirty>>
           /\ pending' # <<>> => pending # <<>>
  <2>1. NeedsFrameTick' = NeedsFrameTick
    BY <1>4 DEF NeedsFrameTick, Running, ReadyDirty, Shown
  <2> QED BY <1>2, <1>4, <2>1 DEF WakeInv
<1> QED BY <1>3, <1>4

(* Every step keeps the announcement of work: one case per action. *)
LEMMA WakeStep == LoopInv /\ WakeInv /\ [Next]_vars => WakeInv'
<1> SUFFICES ASSUME GoTypes, PlaceTypes, FlagsOK, WakeInv, [Next]_vars
             PROVE  WakeInv'
  BY DEF LoopInv, TypeOK
<1>a. Workers \subseteq Threads /\ Pump \in Threads
  BY DEF Threads
<1> USE DEF goVars, locals, loopVars, funcVars, flagVars, glfwVars, windowVars,
        viewVars, gateVars, runnerVars, uiVars, lifeVars, callVars, recordVars, allButGo, allButPlace, vars
<1>1. ASSUME NEW g \in Threads, CheckDrained(g) PROVE WakeInv'
  BY <1>1, GoroutineKeepsWake DEF CheckDrained
<1>2. ASSUME NEW g \in Threads, Push(g) PROVE WakeInv'
  <2>1. GoTo(g, AfterPush(g)) /\ pc[g] \notin {"wake", "post"}
    BY <1>2 DEF Push
  <2>2. UNCHANGED <<mpc, ready, posted, visible, closing, gated, done,
                    playing, joining, dirty>>
    BY <1>2 DEF Push
  <2>3. AfterPush(g) = "wake" \/ pending # <<>>
    BY DEF AfterPush
  <2> QED BY <2>1, <2>2, <2>3, GoroutineKeepsWake
<1>3. ASSUME NEW g \in Threads, LoadReady(g) PROVE WakeInv'
  <2>1. pc[g] = "wake" /\ GoTo(g, IF ready THEN "post" ELSE Resume(g))
        /\ UNCHANGED allButGo
    BY <1>3 DEF LoadReady
  <2>2. CASE ready
    <3>1. pc'[g] = "post"
      BY <2>1, <2>2 DEF GoTo, GoTypes
    <3> QED BY <2>1, <3>1 DEF WakeInv, Announced, WakeComing
  <2>3. CASE ~ready
    <3>1. mpc' \notin {"drain", "decide", "sleep"}
      BY <2>1, <2>3 DEF FlagsOK, LoopPlaces
    <3> QED BY <3>1 DEF WakeInv
  <2> QED BY <2>2, <2>3
<1>4. ASSUME NEW g \in Threads, PostEmptyEvent(g) PROVE WakeInv'
  BY <1>4 DEF PostEmptyEvent, WakeInv, Announced
<1>5. ASSUME NEW g \in Threads, RunInline(g) PROVE WakeInv'
  BY <1>5, GoroutineKeepsWake DEF RunInline
<1>6. ASSUME NEW g \in Threads, QuitClose(g) PROVE WakeInv'
  BY <1>6, GoroutineKeepsWake DEF QuitClose, AfterClose
<1>7. ASSUME NEW g \in Workers, DoFromGoroutine(g) PROVE WakeInv'
  BY <1>7, <1>a, GoroutineKeepsWake DEF DoFromGoroutine, Begin
<1>8. ASSUME NEW g \in Workers, StartAnimation(g) PROVE WakeInv'
  BY <1>8, <1>a, GoroutineKeepsWake DEF StartAnimation, Begin
<1>8s. ASSUME NEW g \in Workers, StopAnimation(g) PROVE WakeInv'
  BY <1>8s, <1>a, GoroutineKeepsWake DEF StopAnimation, Begin
<1>9. ASSUME NEW g \in Workers, QuitSwap(g) PROVE WakeInv'
  BY <1>9, <1>a, GoroutineKeepsWake DEF QuitSwap, Begin
<1>10. ASSUME NEW g \in Workers, NEW w \in Windows, SetDirty(g, w)
      PROVE  WakeInv'
  <2> DEFINE place == IF w \in dirty THEN "idle" ELSE "wake"
  <2>1. GoTo(g, place) /\ pc[g] \notin {"wake", "post"} /\ g \in Threads
    BY <1>10, <1>a DEF SetDirty, AfterSetDirty, Begin
  <2>2. UNCHANGED <<mpc, ready, posted, visible, closing, gated, done,
                    playing, joining, pending>>
    BY <1>10 DEF SetDirty, AfterSetDirty
  <2>3. place = "wake" \/ dirty' = dirty
    BY <1>10 DEF SetDirty, AfterSetDirty
  <2> HIDE DEF place
  <2> QED BY <2>1, <2>2, <2>3, GoroutineKeepsWake
<1>11. ASSUME PumpTake PROVE WakeInv'
  BY <1>11, <1>a, GoroutineKeepsWake DEF PumpTake
<1>12. ASSUME PumpEnd PROVE WakeInv'
  BY <1>12, <1>a, GoroutineKeepsWake DEF PumpEnd
<1>13. ASSUME StartRun PROVE WakeInv'
  BY <1>13 DEF StartRun, WakeInv
<1>14. ASSUME InitDriver PROVE WakeInv'
  BY <1>14 DEF InitDriver, WakeInv
<1>15. ASSUME OnStarted PROVE WakeInv'
  BY <1>15 DEF OnStarted, RunUserCode, WakeInv
<1>16. ASSUME CheckDone PROVE WakeInv'
  BY <1>16 DEF CheckDone, WakeInv
<1>17. ASSUME Drain PROVE WakeInv'
  <2>1. pending' = <<>> /\ mpc = "drain" /\ mpc' # "sleep"
    BY <1>17 DEF Drain, AfterDrain, PlaceTypes
  <2>2. done => Announced
    BY <2>1 DEF WakeInv
  <2>3. Announced' = Announced /\ done' = done
    BY <1>17 DEF Drain, Announced, WakeComing
  <2> QED BY <2>1, <2>2, <2>3 DEF WakeInv
<1>18. ASSUME RunFunc PROVE WakeInv'
  BY <1>18 DEF RunFunc, WakeInv
<1>19. ASSUME FuncBody PROVE WakeInv'
  BY <1>19 DEF FuncBody, RunUserCode, AfterFunc, NextFunc, WakeInv
<1>20. ASSUME Signal PROVE WakeInv'
  BY <1>20 DEF Signal, NextFunc, WakeInv
<1>21. ASSUME DecideSleep PROVE WakeInv'
  <2>1. ~NeedsFrameTick' /\ mpc = "decide"
    BY <1>21 DEF DecideSleep, NeedsFrameTick, Running, ReadyDirty, Shown
  <2>2. Announced' = Announced /\ UNCHANGED <<done, pending>>
    BY <1>21 DEF DecideSleep, Announced, WakeComing
  <2> QED BY <2>1, <2>2 DEF WakeInv
<1>22. ASSUME DecideWait PROVE WakeInv'
  BY <1>22 DEF DecideWait, WakeInv
<1>23. ASSUME DecideFrame PROVE WakeInv'
  BY <1>23 DEF DecideFrame, WakeInv
<1>24. ASSUME WaitEventsTimeout PROVE WakeInv'
  BY <1>24 DEF WaitEventsTimeout, LeaveWait, WakeInv
<1>25. ASSUME PollEvents PROVE WakeInv'
  BY <1>25 DEF PollEvents, LeaveWait, WakeInv
<1>26. ASSUME WaitEvents PROVE WakeInv'
  BY <1>26 DEF WaitEvents, LeaveWait, WakeInv
<1>27. ASSUME EventCallbacks PROVE WakeInv'
  BY <1>27 DEF EventCallbacks, RunCallbacks, RunUserCode, WakeInv
<1>28. ASSUME WindowEventsTimeout PROVE WakeInv'
  BY <1>28 DEF WindowEventsTimeout, WakeInv
<1>29. ASSUME WindowEventsWait PROVE WakeInv'
  BY <1>29 DEF WindowEventsWait, WakeInv
<1>30. ASSUME Redecide PROVE WakeInv'
  BY <1>30 DEF Redecide, WakeInv
<1>31. ASSUME FrameWindowEvents PROVE WakeInv'
  BY <1>31 DEF FrameWindowEvents, WakeInv
<1>32. ASSUME TickAnimations PROVE WakeInv'
  BY <1>32 DEF TickAnimations, WakeInv
<1>33. ASSUME TickCallbacks PROVE WakeInv'
  BY <1>33 DEF TickCallbacks, RunUserCode, WakeInv
<1>33e. ASSUME EndFrame PROVE WakeInv'
  BY <1>33e DEF EndFrame, WakeInv
<1>33c. ASSUME ClearStarted PROVE WakeInv'
  BY <1>33c DEF ClearStarted, WakeInv
<1>34. ASSUME PollGated PROVE WakeInv'
  BY <1>34 DEF PollGated, WakeInv
<1>35. ASSUME PolledCallbacks PROVE WakeInv'
  BY <1>35 DEF PolledCallbacks, RunCallbacks, RunUserCode, WakeInv
<1>36. ASSUME DrawSingleFrame PROVE WakeInv'
  BY <1>36 DEF DrawSingleFrame, WakeInv
<1>37. ASSUME StopWaking PROVE WakeInv'
  BY <1>37 DEF StopWaking, WakeInv
<1>38. ASSUME Terminate PROVE WakeInv'
  BY <1>38 DEF Terminate, WakeInv
<1>39. ASSUME QueueStopped PROVE WakeInv'
  BY <1>39 DEF QueueStopped, WakeInv
<1>40. ASSUME SetDrained PROVE WakeInv'
  BY <1>40 DEF SetDrained, WakeInv
<1>41. ASSUME FinalDrain PROVE WakeInv'
  BY <1>41 DEF FinalDrain, WakeInv
<1>42. ASSUME FinishFunc PROVE WakeInv'
  BY <1>42 DEF FinishFunc, AfterFinish, WakeInv
<1>43. ASSUME QueueFlush PROVE WakeInv'
  BY <1>43 DEF QueueFlush, WakeInv
<1>44. ASSUME Flushed PROVE WakeInv'
  BY <1>44 DEF Flushed, WakeInv
<1>45. ASSUME DestroyEventQueue PROVE WakeInv'
  BY <1>45 DEF DestroyEventQueue, WakeInv
<1>46. ASSUME WaitInput PROVE WakeInv'
  BY <1>46 DEF WaitInput, LeaveWait, WakeInv
<1>47. ASSUME FrameDue PROVE WakeInv'
  BY <1>47 DEF FrameDue, WakeInv, Announced, WakeComing, NeedsFrameTick,
     Running, ReadyDirty, Shown
<1>48. ASSUME NEW w \in Windows, Present(w) PROVE WakeInv'
  BY <1>48 DEF Present, WakeInv, Announced, WakeComing, NeedsFrameTick,
     Running, ReadyDirty, Shown
<1>49. ASSUME UNCHANGED vars PROVE WakeInv'
  BY <1>49 DEF WakeInv, Announced, WakeComing, NeedsFrameTick, Running, ReadyDirty, Shown
<1> QED
  BY <1>1, <1>2, <1>3, <1>4, <1>5, <1>6, <1>7, <1>8, <1>8s, <1>9, <1>10, <1>11,
     <1>12, <1>13, <1>14, <1>15, <1>16, <1>17, <1>18, <1>19, <1>20, <1>21,
     <1>22, <1>23, <1>24, <1>25, <1>26, <1>27, <1>28, <1>29, <1>30, <1>31,
     <1>32, <1>33, <1>33e, <1>33c, <1>34, <1>35, <1>36, <1>37, <1>38, <1>39, <1>40, <1>41,
     <1>42, <1>43, <1>44, <1>45, <1>46, <1>47, <1>48, <1>49 DEF Next,
     MainStep, World, Proceed, Operate

(* NoLostWakeup: while main sleeps in the event wait with no wake-up posted *)
(* or coming, there is nothing it should do: no func queued, no quit asked  *)
(* for, no animation running, no presentable window dirty.                  *)
THEOREM NoSleepThroughWork == Spec => []NoLostWakeup
<1>1. Init => WakeInv
  BY DEF Init, WakeInv
<1>2. WakeInv => NoLostWakeup
  BY DEF WakeInv, Announced, NoLostWakeup
<1> QED BY <1>1, <1>2, InitLoopInv, LoopInvStep, WakeStep, PTL DEF Spec

-----------------------------------------------------------------------------
(* The queue of calls: that the loop implements the executor.  Quitting is *)
(* followed by a shutdown in stages, so the invariant says at each of      *)
(* main's places what may be in line, who waits for it, and how far the    *)
(* two lifecycle events are.                                               *)

PumpCall(e) == Call(Pump, e, TRUE)

(* The calls in line: those main has drained, then those that are pending. *)
Line == batch \o pending
Held == InSeq(Line)
Made == Held \cup executed \cup dropped

(* The call main is at, until its waiter is released. *)
InHand == IF mpc \in {"func", "signal", "release"} THEN {serving} ELSE {}

Distinct(s) == \A i, j \in DOMAIN s : s[i] = s[j] => i = j

(* Main has no batch in hand, and has not yet queued the stopped event. *)
Resting == {"init", "hook", "check", "drain", "decide", "timeout", "poll", "sleep",
            "callback", "winevents", "redecide", "frame", "tick", "ticked",
            "swap", "join", "clear", "gate", "polled", "draw", "sdready", "sdterm", "sdstopped"}
Stopping == {"sdready", "sdterm", "sdstopped"}

(* The loop quits but once, and the queue is shut after that. *)
QuitInv ==
  /\ done => ~running /\ mpc # "setup"
  /\ \A g \in Threads : pc[g] = "close" => ~running /\ mpc # "setup"
  /\ mpc = "setup" => ~running
  /\ mpc \in Stopping \cup ShutdownPlaces \cup AfterLoop => done
  /\ drained => done
  /\ \A g \in Threads : pc[g] = "inline" => drained
  /\ mpc \in {"sddrain", "finish", "release"} \cup AfterLoop => drained

(* A call is new until it is queued or run: calls are numbered. *)
NewInv ==
  /\ \A g \in Threads : pc[g] \in {"check", "push", "inline"} =>
        cur[g].by = g /\ cur[g] \notin Made /\ (g # Pump => cur[g].n <= calls[g])
  /\ \A c \in Made : c.by # Pump => c.n <= calls[c.by]

(* It is in line at most once, and out of it once it was run or dropped.   *)
LineInv ==
  /\ Distinct(Line)
  /\ Held \cap (executed \cup dropped) = {}
  /\ returned \subseteq executed \cup dropped
  /\ mpc \in {"setup", "sddrained", "sddrain"} \cup Resting \cup AfterLoop => batch = <<>>

(* A caller that waits does so for the one call of its own that is in line *)
(* or in main's hands, and main never releases a caller twice.             *)
WaitInv ==
  /\ mpc \in {"func", "signal"} => serving \in executed
  /\ mpc = "release" => serving \in dropped
  /\ mpc \in {"signal", "release"} => serving.wait
  /\ \A c \in Held \cup InHand : c.wait =>
        c.by \in Threads /\ pc[c.by] \in {"wake", "post", "wait"} /\ cur[c.by] = c
  /\ InHand \cap returned = {}

CallInv == NewInv /\ LineInv /\ WaitInv

(* The two lifecycle events come in their order, each once: the pump is    *)
(* idle, or busy with one of them, and the flush event meets main at rest  *)
(* in WaitForEvents.                                                       *)
Busy(e) == pc[Pump] \notin {"idle", "ended"} /\ cur[Pump] = PumpCall(e)
First == events = <<Stopped>> \/ events = <<Stopped, Flush>>
Last == events = <<Flush>> \/ events = <<Stopped, Flush>>
Later == {"sddrained", "sddrain", "finish", "release"} \cup AfterLoop

PumpInv ==
  /\ pc[Pump] \in {"idle", "ended"} \/ Busy(Stopped) \/ Busy(Flush)
  /\ pc[Pump] # "close"
  /\ events = <<>> \/ First \/ Last
  /\ First => pc[Pump] = "idle" /\ PumpCall(Stopped) \notin Made
  /\ Last \/ Busy(Flush) => mpc \in {"flushwait", "crashed"}
  /\ Busy(Flush) => events = <<>> /\ pc[Pump] \in {"check", "inline"}
  /\ PumpCall(Flush) \in Made => mpc \in {"destroy", "exited", "crashed"}
  /\ PumpCall(Flush) \notin Held
  /\ mpc \in {"setup", "run", "func", "signal"} \cup Resting =>
       events = <<>> /\ pc[Pump] = "idle" /\ PumpCall(Stopped) \notin Made
  /\ mpc \in Later /\ ~First /\ ~Busy(Stopped) => PumpCall(Stopped) \in executed \cup dropped
  /\ mpc \in {"destroy", "exited"} => events = <<>> /\ pc[Pump] \in {"idle", "ended"}
  /\ pc[Pump] = "ended" => queueClosed
  /\ queueClosed => mpc \in {"exited", "crashed"}

(* A step that is of no matter to the calls: main goes on in the loop, and *)
(* may quit, or count a show or hide.                                      *)
Still == UNCHANGED <<pc, cur, batch, serving, drained, events, queueClosed, dropped, returned>>
MayQuitNow == UNCHANGED <<running, done>> \/ (running /\ ~running' /\ done')
MayCount == UNCHANGED calls \/ calls' = [calls EXCEPT ![Main] = @ + 1]
Calmly == UNCHANGED <<pending, executed>> /\ MayCount /\ MayQuitNow
MovesOn == /\ mpc \in Resting /\ mpc' \in Resting
           /\ mpc' \in Stopping => done \/ mpc \in Stopping
Calm ==
  /\ Still
  /\ \/ Calmly /\ MovesOn
     \/ Calmly /\ mpc = "func" /\ mpc' = AfterFunc
     \/ UNCHANGED <<calls, pending, executed, running, done, mpc>>

(* A call that a function on main makes. *)
DoesMore == /\ Still /\ UserDo
            /\ \/ mpc \in Resting /\ mpc' \in Resting \ Stopping
               \/ mpc = "func" /\ mpc' = AfterFunc

(* An operation of a goroutine that hands nothing to main begins. *)
BeginsOther(g) ==
  /\ \E place \in {"wake", "close", "idle"} :
       /\ Begin(g, NoCall(g), place)
       /\ place = "close" => running /\ ~running' /\ mpc # "setup"
  /\ UNCHANGED done /\ running' \in {running, FALSE}
  /\ UNCHANGED <<mpc, batch, serving, drained, events, queueClosed, dropped, returned, pending, executed>>

GoroutineStep(g) ==
  \/ CheckDrained(g) \/ Push(g) \/ LoadReady(g) \/ PostEmptyEvent(g) \/ RunInline(g)
  \/ QuitClose(g)

LEMMA UserCodeKinds ==
  ASSUME UserCode
  PROVE  Calmly \/ UserDo
<1> USE DEF toldVars, handedVars, Calmly, MayCount, MayQuitNow
<1>1. CASE UNCHANGED userVars
  BY <1>1 DEF userVars
<1>2. CASE UserQuit
  BY <1>2 DEF UserQuit, QuitOnMain
<1>3. CASE UserAnimate
  BY <1>3 DEF UserAnimate
<1>4. CASE \E w \in Windows : \/ UserRefresh(w) \/ UserClose(w)
                              \/ UserShow(w) \/ UserHide(w)
  BY <1>4 DEF UserRefresh, UserClose, UserShow, UserHide, MainCalls
<1> QED BY <1>1, <1>2, <1>3, <1>4 DEF UserCode

LEMMA WindowEventsAreCalm ==
  ASSUME ProcessWindowEvents, running \in BOOLEAN, UNCHANGED <<calls, pending, executed>>
  PROVE  Calmly
BY DEF ProcessWindowEvents, QuitOnMain, toldVars, Calmly, MayCount, MayQuitNow

(* Every step is calm, or one of those that concern the calls. *)
LEMMA StepKinds ==
  ASSUME LoopInv, mpc = "setup" => ~running, [Next]_vars
  PROVE  \/ Calm \/ DoesMore
         \/ mpc # "crashed" /\ \E g \in Threads : GoroutineStep(g)
         \/ \E g \in Workers : DoFromGoroutine(g) \/ BeginsOther(g)
         \/ PumpTake \/ PumpEnd
         \/ StartRun \/ Drain \/ RunFunc \/ Signal \/ QueueStopped \/ SetDrained \/ FinalDrain
         \/ FinishFunc \/ QueueFlush \/ Flushed \/ DestroyEventQueue
<1> USE DEF goVars, locals, loopVars, funcVars, flagVars, glfwVars, windowVars,
        viewVars, gateVars, runnerVars, uiVars, lifeVars, callVars, recordVars, allButGo, allButPlace, vars
<1>t. running \in BOOLEAN /\ site \in {"top", "timeout", "poll", "wait"}
  BY DEF LoopInv, TypeOK, DataTypes, PlaceTypes
<1>1. ASSUME NEW from, NEW to, from \in Resting, to \in Resting \ Stopping,
             RunCallbacks(from, to)
      PROVE  Calm \/ DoesMore
  <2>1. Still /\ mpc = from /\ mpc' = to
        /\ (UserCode \/ \E w \in Windows : MarkReady(w))
    BY <1>1 DEF RunCallbacks, RunUserCode, Still
  <2>2. (\E w \in Windows : MarkReady(w)) => Calmly
    BY DEF MarkReady, Calmly, MayCount, MayQuitNow, handedVars
  <2> QED BY <1>1, <2>1, <2>2, UserCodeKinds DEF Calm, DoesMore, MovesOn
<1>2. ASSUME FuncBody PROVE Calm \/ DoesMore
  <2>1. Still /\ UserCode /\ mpc = "func" /\ mpc' = AfterFunc
    BY <1>2 DEF FuncBody, RunUserCode, Still
  <2> QED BY <2>1, UserCodeKinds DEF Calm, DoesMore
<1>3. ASSUME OnStarted \/ EventCallbacks \/ TickCallbacks \/ PolledCallbacks
      PROVE  Calm \/ DoesMore
  BY <1>1, <1>3 DEF OnStarted, EventCallbacks, TickCallbacks, PolledCallbacks, RunCallbacks,
     Resting, Stopping
<1>4. ASSUME InitDriver \/ CheckDone \/ DecideSleep \/ DecideWait \/ DecideFrame \/ Redecide
      PROVE  Calm
  BY <1>4 DEF InitDriver, CheckDone, DecideSleep, DecideWait, DecideFrame, Redecide,
     Calm, Still, Calmly, MayCount, MayQuitNow, MovesOn, Resting, Stopping
<1>5. ASSUME WaitEventsTimeout \/ PollEvents \/ WaitEvents \/ WaitInput
      PROVE  Calm
  BY <1>5 DEF WaitEventsTimeout, PollEvents, WaitEvents, WaitInput, LeaveWait,
     Calm, Still, Calmly, MayCount, MayQuitNow, MovesOn, Resting, Stopping
<1>6. ASSUME WindowEventsTimeout \/ WindowEventsWait \/ FrameWindowEvents
      PROVE  Calm
  <2>1. ProcessWindowEvents /\ UNCHANGED <<calls, pending, executed>> /\ Still
    BY <1>6 DEF WindowEventsTimeout, WindowEventsWait, FrameWindowEvents, Still
  <2>2. Calmly
    BY <2>1, <1>t, WindowEventsAreCalm
  <2>3. MovesOn
    BY <1>6 DEF WindowEventsTimeout, WindowEventsWait, FrameWindowEvents, MovesOn, Resting, Stopping
  <2> QED BY <2>1, <2>2, <2>3 DEF Calm
<1>7. ASSUME \/ TickAnimations \/ EndFrame \/ ClearStarted
             \/ PollGated \/ DrawSingleFrame \/ StopWaking \/ Terminate
      PROVE  Calm
  BY <1>7 DEF TickAnimations, EndFrame, ClearStarted, PollGated, DrawSingleFrame, StopWaking, Terminate,
     Calm, Still, Calmly, MayCount, MayQuitNow, MovesOn, Resting, Stopping
<1>8. ASSUME FrameDue \/ (\E w \in Windows : Present(w)) \/ UNCHANGED vars PROVE Calm
  BY <1>8 DEF FrameDue, Present, Calm, Still
<1>9. ASSUME NEW g \in Workers, Operate(g) PROVE DoFromGoroutine(g) \/ BeginsOther(g)
  <2>1. CASE StartAnimation(g) \/ StopAnimation(g)
    BY <2>1, <1>t DEF StartAnimation, StopAnimation, BeginsOther
  <2>2. CASE QuitSwap(g)
    BY <2>2, <1>t DEF QuitSwap, BeginsOther
  <2>3. ASSUME NEW w \in Windows, SetDirty(g, w) PROVE BeginsOther(g)
    BY <2>3, <1>t DEF SetDirty, AfterSetDirty, BeginsOther
  <2> QED BY <1>9, <2>1, <2>2, <2>3 DEF Operate
<1> QED
  BY <1>2, <1>3, <1>4, <1>5, <1>6, <1>7, <1>8, <1>9
     DEF Next, MainStep, World, Proceed, GoroutineStep, Alive

-----------------------------------------------------------------------------
(* The line of calls. *)

LEMMA InSeqAppend ==
  ASSUME NEW S, NEW s \in Seq(S), NEW e \in S
  PROVE  InSeq(Append(s, e)) = InSeq(s) \cup {e}
<1> DEFINE t == Append(s, e)
<1>1. DOMAIN t = 1 .. (Len(s) + 1) /\ DOMAIN s = 1 .. Len(s) /\ Len(s) \in Nat
  OBVIOUS
<1>2. t[Len(s) + 1] = e /\ \A i \in 1 .. Len(s) : t[i] = s[i]
  OBVIOUS
<1> HIDE DEF t
<1>3. \A i \in DOMAIN t : t[i] \in InSeq(s) \cup {e}
  BY <1>1, <1>2 DEF InSeq
<1>4. \A x \in InSeq(s) \cup {e} : \E i \in DOMAIN t : t[i] = x
  BY <1>1, <1>2 DEF InSeq
<1> QED BY <1>3, <1>4 DEF InSeq

LEMMA InSeqTail ==
  ASSUME NEW S, NEW s \in Seq(S), s # <<>>
  PROVE  InSeq(s) = {Head(s)} \cup InSeq(Tail(s))
<1> DEFINE t == Tail(s)
<1>1. /\ DOMAIN s = 1 .. Len(s) /\ Len(s) \in Nat \ {0} /\ Head(s) = s[1]
      /\ DOMAIN t = 1 .. (Len(s) - 1) /\ \A i \in 1 .. (Len(s) - 1) : t[i] = s[i + 1]
  OBVIOUS
<1> HIDE DEF t
<1>2. \A i \in DOMAIN s : i = 1 \/ (i - 1 \in DOMAIN t /\ s[i] = t[i - 1])
  BY <1>1
<1>3. \A i \in DOMAIN t : i + 1 \in DOMAIN s /\ t[i] = s[i + 1]
  BY <1>1
<1>4. InSeq(s) \subseteq {Head(s)} \cup InSeq(t)
  BY <1>1, <1>2 DEF InSeq
<1>5. Head(s) \in InSeq(s)
  BY <1>1 DEF InSeq
<1>6. InSeq(t) \subseteq InSeq(s)
  BY <1>3 DEF InSeq
<1> QED BY <1>4, <1>5, <1>6 DEF t

LEMMA DistinctAppend ==
  ASSUME NEW S, NEW s \in Seq(S), NEW e \in S, Distinct(s), e \notin InSeq(s)
  PROVE  Distinct(Append(s, e))
BY DEF Distinct, InSeq

LEMMA DistinctTail ==
  ASSUME NEW S, NEW s \in Seq(S), s # <<>>, Distinct(s)
  PROVE  Distinct(Tail(s)) /\ Head(s) \notin InSeq(Tail(s))
<1>1. \A i \in DOMAIN Tail(s) : i + 1 \in DOMAIN s /\ i + 1 # 1 /\ Tail(s)[i] = s[i + 1]
  OBVIOUS
<1>2. 1 \in DOMAIN s /\ Head(s) = s[1]
  OBVIOUS
<1>3. DOMAIN Tail(s) \subseteq Int
  OBVIOUS
<1> QED BY <1>1, <1>2, <1>3 DEF Distinct, InSeq

(* A call that is pushed goes to the end of the line ... *)
LEMMA LineGrows ==
  ASSUME pending \in Seq(CallSet), batch \in Seq(CallSet), NEW c \in CallSet,
         pending' = Append(pending, c), batch' = batch
  PROVE  Line' = Append(Line, c)
<1>1. batch \o Append(pending, c) = Append(batch \o pending, c)
  OBVIOUS
<1> QED BY <1>1 DEF Line

(* ... and main takes its head. *)
LEMMA LineShrinks ==
  ASSUME pending \in Seq(CallSet), batch \in Seq(CallSet), batch # <<>>,
         batch' = Tail(batch), pending' = pending
  PROVE  Line # <<>> /\ Line' = Tail(Line) /\ Head(Line) = Head(batch)
<1>1. batch \o pending # <<>> /\ Tail(batch \o pending) = Tail(batch) \o pending
      /\ Head(batch \o pending) = Head(batch)
  OBVIOUS
<1> QED BY <1>1 DEF Line

LEMMA LineDrained ==
  ASSUME pending \in Seq(CallSet), batch = <<>>, batch' = pending, pending' = <<>>
  PROVE  Line' = Line
BY DEF Line

LEMMA LineIsCalls == LoopInv => Line \in Seq(CallSet)
BY DEF LoopInv, TypeOK, DataTypes, Line

-----------------------------------------------------------------------------
(* The steps. *)

LEMMA QuitKept ==
  ASSUME LoopInv, QuitInv, [Next]_vars
  PROVE  QuitInv'
<1> USE DEF QuitInv, Stopping, ShutdownPlaces, AfterLoop
<1>t. /\ pc \in [Threads -> GoroutinePlaces] /\ Pump \in Threads /\ Workers \subseteq Threads
      /\ running \in BOOLEAN /\ done \in BOOLEAN /\ site \in {"top", "timeout", "poll", "wait"}
  BY DEF LoopInv, TypeOK, GoTypes, DataTypes, PlaceTypes, Threads
<1>f. /\ mpc \in LoopPlaces => ~drained
      /\ mpc \in {"sddrain", "finish", "release"} => drained
  BY DEF LoopInv, FlagsOK
<1>1. CASE Calm
  BY <1>1, <1>f DEF Calm, Still, Calmly, MayQuitNow, MovesOn, Resting, LoopPlaces, AfterFunc, NextFunc
<1>2. CASE DoesMore
  BY <1>2, <1>f DEF DoesMore, Still, UserDo, Resting, LoopPlaces, AfterFunc, NextFunc
<1>3. ASSUME NEW g \in Threads, GoroutineStep(g), mpc # "crashed" PROVE QuitInv'
  <2>1. CASE CheckDrained(g)
    BY <2>1, <1>t DEF CheckDrained, GoTo, QueueShut, allButGo, loopVars, flagVars
  <2>2. CASE Push(g)
    BY <2>2, <1>t DEF Push, GoTo, AfterPush, Resume, loopVars, flagVars
  <2>3. CASE LoadReady(g)
    BY <2>3, <1>t DEF LoadReady, GoTo, Resume, allButGo, loopVars, flagVars
  <2>4. CASE PostEmptyEvent(g)
    BY <2>4, <1>t DEF PostEmptyEvent, GoTo, Resume, flagVars
  <2>5. CASE RunInline(g)
    BY <2>5, <1>t DEF RunInline, GoTo, loopVars, flagVars
  <2>6. CASE QuitClose(g)
    BY <2>6, <1>t DEF QuitClose, GoTo, AfterClose, loopVars
  <2> QED BY <1>3, <2>1, <2>2, <2>3, <2>4, <2>5, <2>6 DEF GoroutineStep
<1>4. ASSUME NEW g \in Workers, DoFromGoroutine(g) PROVE QuitInv'
  BY <1>4, <1>t DEF DoFromGoroutine, Begin, GoTo, allButGo, loopVars, flagVars
<1>5. ASSUME NEW g \in Workers, BeginsOther(g) PROVE QuitInv'
  <2>1. PICK place \in {"wake", "close", "idle"} :
           /\ pc' = [pc EXCEPT ![g] = place]
           /\ place = "close" => running /\ ~running' /\ mpc # "setup"
    BY <1>5 DEF BeginsOther, Begin, GoTo
  <2>2. \A h \in Threads : pc'[h] = pc[h] \/ h = g
    BY <2>1, <1>t
  <2>3. pc'[g] = place
    BY <2>1, <1>t
  <2>4. running' => running
    BY <1>5, <1>t DEF BeginsOther
  <2>5. \A h \in Threads : pc'[h] = "close" => ~running' /\ mpc # "setup"
    BY <2>1, <2>2, <2>3, <2>4
  <2>6. \A h \in Threads : pc'[h] = "inline" => drained
    BY <2>1, <2>2, <2>3
  <2> QED BY <1>5, <2>4, <2>5, <2>6 DEF BeginsOther
<1>6. CASE PumpTake
  BY <1>6, <1>t DEF PumpTake, GoTo, loopVars, flagVars
<1>7. CASE PumpEnd
  BY <1>7, <1>t DEF PumpEnd, GoTo, allButGo, loopVars, flagVars
<1>8. CASE StartRun
  BY <1>8 DEF StartRun, goVars
<1>9. CASE Drain
  BY <1>9, <1>t, <1>f DEF Drain, AfterDrain, goVars, flagVars
<1>10. CASE RunFunc
  BY <1>10 DEF RunFunc, goVars, flagVars
<1>11. CASE Signal
  BY <1>11, <1>t, <1>f DEF Signal, GoTo, NextFunc, flagVars, LoopPlaces
<1>12. CASE QueueStopped \/ SetDrained
  BY <1>12 DEF QueueStopped, SetDrained, goVars, flagVars
<1>13. CASE FinalDrain \/ FinishFunc
  BY <1>13 DEF FinalDrain, FinishFunc, AfterFinish, goVars, flagVars
<1>14. CASE QueueFlush \/ DestroyEventQueue
  BY <1>14 DEF QueueFlush, DestroyEventQueue, goVars, flagVars
<1>15. CASE Flushed
  BY <1>15, <1>t DEF Flushed, GoTo, flagVars
<1> QED
  BY <1>1, <1>2, <1>3, <1>4, <1>5, <1>6, <1>7, <1>8, <1>9, <1>10, <1>11, <1>12, <1>13,
     <1>14, <1>15, StepKinds

-----------------------------------------------------------------------------
(* What a step does to the line, to what was run and to what was dropped. *)

MainCall == Call(Main, calls[Main] + 1, FALSE)

LeavesLine == Line' = Line /\ executed' = executed /\ dropped' = dropped
Queues(c) == Line' = Append(Line, c) /\ executed' = executed /\ dropped' = dropped
RunsHead == /\ Line # <<>> /\ Head(Line) = Head(batch)
            /\ Line' = Tail(Line)
            /\ executed' = executed \cup {Head(Line)} /\ dropped' = dropped
DropsHead == /\ Line # <<>> /\ Head(Line) = Head(batch)
             /\ Line' = Tail(Line)
             /\ dropped' = dropped \cup {Head(Line)} /\ executed' = executed
RunsAtOnce(c) == /\ Line' = Line
                 /\ executed' = executed \cup {c} /\ dropped' = dropped

LEMMA Effects ==
  ASSUME LoopInv, LineInv
  PROVE  /\ Calm => LeavesLine
         /\ DoesMore /\ running => Queues(MainCall)
         /\ DoesMore /\ ~running => RunsAtOnce(MainCall)
         /\ \A g \in Threads :
              /\ CheckDrained(g) \/ LoadReady(g) \/ PostEmptyEvent(g) \/ QuitClose(g)
                   => LeavesLine
              /\ Push(g) => Queues(cur[g])
              /\ RunInline(g) => RunsAtOnce(cur[g])
         /\ \A g \in Workers : DoFromGoroutine(g) \/ BeginsOther(g) => LeavesLine
         /\ PumpTake \/ PumpEnd \/ StartRun \/ Drain \/ Signal => LeavesLine
         /\ QueueStopped \/ SetDrained \/ FinalDrain \/ QueueFlush \/ DestroyEventQueue
              => LeavesLine
         /\ RunFunc => RunsHead
         /\ FinishFunc => DropsHead
         /\ Flushed => RunsAtOnce(cur[Pump])
<1> USE DEF goVars, locals, loopVars, funcVars, flagVars, glfwVars, windowVars,
        viewVars, gateVars, runnerVars, uiVars, lifeVars, callVars, recordVars, allButGo, allButPlace
<1>t. /\ pending \in Seq(CallSet) /\ batch \in Seq(CallSet)
      /\ cur \in [Threads -> CallSet]
      /\ mpc \in {"run", "finish"} => batch # <<>>
  BY DEF LoopInv, TypeOK, DataTypes, GoTypes, BatchOK
<1>s. UNCHANGED <<pending, batch>> => Line' = Line
  BY DEF Line
<1>1. Calm => LeavesLine
  BY <1>s DEF Calm, Still, Calmly, LeavesLine
<1>2. ASSUME DoesMore PROVE (running => Queues(MainCall)) /\ (~running => RunsAtOnce(MainCall))
  <2>1. UNCHANGED <<batch, dropped>>
    BY <1>2 DEF DoesMore, Still
  <2>2. MainCall \in CallSet
    <3>1. calls[Main] + 1 \in 0 .. (MaxCalls + MaxMainCalls + 2)
      BY <1>2, ConstantsAssumption
         DEF DoesMore, UserDo, MainCalls, LoopInv, TypeOK, GoTypes, ConstantsAssumption
    <3> QED BY <3>1 DEF MainCall, Call, CallSet
  <2>3. IF running THEN pending' = Append(pending, MainCall) /\ executed' = executed
                   ELSE pending' = pending /\ executed' = executed \cup {MainCall}
    BY <1>2 DEF DoesMore, UserDo, MainCall
  <2>4. running => Line' = Append(Line, MainCall)
    BY <2>1, <2>2, <2>3, <1>t, LineGrows
  <2> QED BY <2>1, <2>3, <2>4, <1>s DEF Queues, RunsAtOnce
<1>3. ASSUME NEW g \in Threads
      PROVE  /\ CheckDrained(g) \/ LoadReady(g) \/ PostEmptyEvent(g) \/ QuitClose(g)
                  => LeavesLine
             /\ Push(g) => Queues(cur[g])
             /\ RunInline(g) => RunsAtOnce(cur[g])
  <2>1. CheckDrained(g) \/ LoadReady(g) \/ PostEmptyEvent(g) \/ QuitClose(g)
          => UNCHANGED <<pending, batch, executed, dropped>>
    BY DEF CheckDrained, LoadReady, PostEmptyEvent, QuitClose
  <2>2. ASSUME Push(g) PROVE Queues(cur[g])
    <3>1. pending' = Append(pending, cur[g]) /\ UNCHANGED <<batch, executed, dropped>>
      BY <2>2 DEF Push
    <3> QED BY <3>1, <1>t, LineGrows DEF Queues
  <2>3. RunInline(g) => RunsAtOnce(cur[g])
    BY <1>s DEF RunInline, RunsAtOnce
  <2> QED BY <2>1, <2>2, <2>3, <1>s DEF LeavesLine
<1>4. \A g \in Workers : DoFromGoroutine(g) \/ BeginsOther(g) => LeavesLine
  BY <1>s DEF DoFromGoroutine, BeginsOther, LeavesLine
<1>5. PumpTake \/ PumpEnd \/ StartRun \/ Signal => LeavesLine
  BY <1>s DEF PumpTake, PumpEnd, StartRun, Signal, LeavesLine
<1>6. QueueStopped \/ SetDrained \/ QueueFlush \/ DestroyEventQueue => LeavesLine
  BY <1>s DEF QueueStopped, SetDrained, QueueFlush, DestroyEventQueue, LeavesLine
<1>7. Drain \/ FinalDrain => LeavesLine
  <2>1. Drain \/ FinalDrain => batch = <<>>
    BY DEF Drain, FinalDrain, LineInv, Resting
  <2>2. Drain \/ FinalDrain =>
          batch' = pending /\ pending' = <<>> /\ UNCHANGED <<executed, dropped>>
    BY DEF Drain, FinalDrain
  <2> QED BY <2>1, <2>2, <1>t, LineDrained DEF LeavesLine
<1>8. RunFunc => RunsHead
  <2> SUFFICES ASSUME RunFunc PROVE RunsHead OBVIOUS
  <2>1. batch # <<>> /\ batch' = Tail(batch) /\ UNCHANGED <<pending, dropped>>
        /\ executed' = executed \cup {Head(batch)}
    BY <1>t DEF RunFunc
  <2>2. Line # <<>> /\ Line' = Tail(Line) /\ Head(Line) = Head(batch)
    BY <2>1, <1>t, LineShrinks
  <2> QED BY <2>1, <2>2 DEF RunsHead
<1>9. FinishFunc => DropsHead
  <2> SUFFICES ASSUME FinishFunc PROVE DropsHead OBVIOUS
  <2>1. batch # <<>> /\ batch' = Tail(batch) /\ UNCHANGED <<pending, executed>>
        /\ dropped' = dropped \cup {Head(batch)}
    BY <1>t DEF FinishFunc
  <2>2. Line # <<>> /\ Line' = Tail(Line) /\ Head(Line) = Head(batch)
    BY <2>1, <1>t, LineShrinks
  <2> QED BY <2>1, <2>2 DEF DropsHead
<1>10. Flushed => RunsAtOnce(cur[Pump])
  BY <1>s DEF Flushed, RunsAtOnce
<1> QED BY <1>1, <1>2, <1>3, <1>4, <1>5, <1>6, <1>7, <1>8, <1>9, <1>10

(* The calls made are those before, and a call that is queued or run at once. *)
LEMMA MadeAfter ==
  ASSUME LoopInv
  PROVE  /\ LeavesLine => Held' = Held /\ Made' = Made
         /\ \A c \in CallSet : Queues(c) => Held' = Held \cup {c} /\ Made' = Made \cup {c}
         /\ RunsHead \/ DropsHead => Held = Held' \cup {Head(Line)} /\ Made' = Made
         /\ \A c : RunsAtOnce(c) => Held' = Held /\ Made' = Made \cup {c}
<1>1. Line \in Seq(CallSet)
  BY LineIsCalls
<1>2. LeavesLine => Held' = Held /\ Made' = Made
  BY DEF LeavesLine, Held, Made, InSeq
<1>3. \A c : RunsAtOnce(c) => Held' = Held /\ Made' = Made \cup {c}
  BY DEF RunsAtOnce, Held, Made, InSeq
<1>4. ASSUME NEW c \in CallSet, Queues(c) PROVE Held' = Held \cup {c} /\ Made' = Made \cup {c}
  <2>1. InSeq(Append(Line, c)) = InSeq(Line) \cup {c}
    BY <1>1, InSeqAppend
  <2>2. Held' = Held \cup {c}
    BY <1>4, <2>1 DEF Queues, Held, InSeq
  <2> QED BY <1>4, <2>2 DEF Queues, Made
<1>5. ASSUME RunsHead \/ DropsHead PROVE Held = Held' \cup {Head(Line)} /\ Made' = Made
  <2>1. Line # <<>> /\ Line' = Tail(Line)
    BY <1>5 DEF RunsHead, DropsHead
  <2>2. InSeq(Line) = {Head(Line)} \cup InSeq(Tail(Line))
    BY <1>1, <2>1, InSeqTail
  <2>3. Held = Held' \cup {Head(Line)}
    BY <2>1, <2>2 DEF Held, InSeq
  <2> QED BY <1>5, <2>3 DEF RunsHead, DropsHead, Made
<1> QED BY <1>2, <1>3, <1>4, <1>5

(* A goroutine's step moves only that goroutine. *)
LEMMA NewKept ==
  ASSUME LoopInv, QuitInv, NewInv, LineInv, PumpInv, [Next]_vars
  PROVE  NewInv'
<1> DEFINE Fresh(g) == /\ cur[g].by = g /\ cur[g] \notin Made
                       /\ g # Pump => cur[g].n <= calls[g]
           Counted == \A c \in Made : c.by # Pump => c.n <= calls[c.by]
           Working == {"check", "push", "inline"}
<1>n. NewInv <=> (\A g \in Threads : pc[g] \in Working => Fresh(g)) /\ Counted
  BY DEF NewInv
<1>n1. NewInv' <=> (\A g \in Threads : pc'[g] \in Working => Fresh(g)') /\ Counted'
  BY DEF NewInv
<1>t. /\ pc \in [Threads -> GoroutinePlaces] /\ cur \in [Threads -> CallSet]
      /\ calls \in [Threads \cup {Main} -> 0 .. (MaxCalls + MaxMainCalls)]
      /\ Pump \in Threads /\ Workers \subseteq Threads /\ Main \notin Threads
      /\ Made \subseteq CallSet
  <2>1. Held \subseteq CallSet
    BY LineIsCalls DEF Held, InSeq
  <2> QED BY <2>1, ConstantsAssumption
          DEF LoopInv, TypeOK, GoTypes, DataTypes, Threads, Made, ConstantsAssumption
<1>c. \A c \in CallSet : c.by \in Threads \cup {Main} /\ c.n \in Nat
  BY DEF CallSet
(* Nothing was made, and no goroutine begins a call. *)
<1>1. ASSUME Made' = Made, UNCHANGED <<cur, calls>>,
             \A g \in Threads : pc'[g] \in Working => pc[g] \in Working
      PROVE  NewInv'
  BY <1>1, <1>n, <1>n1
(* A call was made by a goroutine that goes on. *)
<1>2. ASSUME NEW g \in Threads, pc[g] \in Working, Made' = Made \cup {cur[g]},
             UNCHANGED <<cur, calls>>, pc'[g] \notin Working,
             \A h \in Threads : h # g => pc'[h] = pc[h]
      PROVE  NewInv'
  <2>1. cur[g].by = g /\ (g # Pump => cur[g].n <= calls[g])
    BY <1>2, <1>n
  <2>2. Counted'
    BY <1>2, <2>1, <1>n
  <2>3. \A h \in Threads : pc'[h] \in Working => Fresh(h)'
    BY <1>2, <2>1, <1>n
  <2> QED BY <2>2, <2>3, <1>n1
<1>3. CASE Calm
  <2>1. Made' = Made /\ UNCHANGED <<pc, cur>>
    BY <1>3, Effects, MadeAfter DEF Calm, Still
  <2>2. CASE UNCHANGED calls
    BY <2>1, <2>2, <1>1
  <2>3. CASE calls' = [calls EXCEPT ![Main] = @ + 1]
    <3>1. calls'[Main] = calls[Main] + 1 /\ \A g \in Threads : calls'[g] = calls[g]
      BY <2>3, <1>t
    <3>2. Counted'
      BY <2>1, <3>1, <1>t, <1>c, <1>n
    <3>3. \A g \in Threads : pc'[g] \in Working => Fresh(g)'
      BY <2>1, <3>1, <1>n
    <3> QED BY <3>2, <3>3, <1>n1
  <2> QED BY <1>3, <2>2, <2>3 DEF Calm, Calmly, MayCount
<1>4. CASE DoesMore
  <2> DEFINE c == MainCall
  <2>1. Made' = Made \cup {c}
    <3>1. c \in CallSet
      <4>1. calls[Main] + 1 \in 0 .. (MaxCalls + MaxMainCalls + 2)
        BY <1>4, <1>t, ConstantsAssumption DEF DoesMore, UserDo, MainCalls, ConstantsAssumption
      <4> QED BY <4>1 DEF MainCall, Call, CallSet
    <3>2. running \in BOOLEAN
      BY DEF LoopInv, TypeOK, DataTypes
    <3> QED BY <3>1, <3>2, <1>4, Effects, MadeAfter
  <2>2. c.by = Main /\ c.n = calls[Main] + 1
    BY DEF MainCall, Call
  <2>3. calls' = [calls EXCEPT ![Main] = @ + 1] /\ UNCHANGED <<pc, cur>>
    BY <1>4 DEF DoesMore, Still, UserDo, MainCalls
  <2>4. calls'[Main] = calls[Main] + 1 /\ \A g \in Threads : calls'[g] = calls[g]
    BY <2>3, <1>t
  <2> HIDE DEF c
  <2>5. Counted'
    <3>1. \A x \in Made : x.by # Pump => x.n <= calls'[x.by]
      BY <2>4, <1>t, <1>c, <1>n
    <3>2. c.n <= calls'[Main]
      BY <2>2, <2>4, <1>t
    <3> QED BY <3>1, <3>2, <2>1, <2>2
  <2>6. \A g \in Threads : pc'[g] \in Working => Fresh(g)'
    BY <2>1, <2>2, <2>3, <2>4, <1>n, <1>t
  <2> QED BY <2>5, <2>6, <1>n1
<1>5. ASSUME NEW g \in Threads, GoroutineStep(g) PROVE NewInv'
  <2>1. CASE CheckDrained(g)
    <3>1. \A h \in Threads : pc'[h] \in Working => pc[h] \in Working
      BY <2>1, <1>t DEF CheckDrained, GoTo
    <3> QED BY <2>1, <3>1, <1>1, Effects, MadeAfter DEF CheckDrained
  <2>2. CASE Push(g)
    <3>1. pc[g] = "push" /\ pc'[g] \in {"wake", "wait", "idle"}
          /\ \A h \in Threads : h # g => pc'[h] = pc[h]
      BY <2>2, <1>t DEF Push, GoTo, AfterPush, Resume
    <3>2. Made' = Made \cup {cur[g]}
      BY <2>2, <1>t, Effects, MadeAfter
    <3> QED BY <2>2, <3>1, <3>2, <1>2 DEF Push
  <2>3. CASE LoadReady(g) \/ PostEmptyEvent(g) \/ QuitClose(g)
    <3>1. \A h \in Threads : pc'[h] \in Working => pc[h] \in Working
      BY <2>3, <1>t DEF LoadReady, PostEmptyEvent, QuitClose, GoTo, Resume, AfterClose
    <3>2. UNCHANGED <<cur, calls>>
      BY <2>3 DEF LoadReady, PostEmptyEvent, QuitClose
    <3> QED BY <2>3, <3>1, <3>2, <1>1, Effects, MadeAfter
  <2>4. CASE RunInline(g)
    <3>1. pc[g] = "inline" /\ pc'[g] = "idle"
          /\ \A h \in Threads : h # g => pc'[h] = pc[h]
      BY <2>4, <1>t DEF RunInline, GoTo
    <3>2. Made' = Made \cup {cur[g]}
      BY <2>4, <1>t, Effects, MadeAfter
    <3> QED BY <2>4, <3>1, <3>2, <1>2 DEF RunInline
  <2> QED BY <1>5, <2>1, <2>2, <2>3, <2>4 DEF GoroutineStep
<1>6. ASSUME NEW g \in Workers, DoFromGoroutine(g) \/ BeginsOther(g) PROVE NewInv'
  <2>1. Made' = Made /\ g \in Threads /\ g # Pump
    BY <1>6, <1>t, Effects, MadeAfter, ConstantsAssumption DEF ConstantsAssumption
  <2>2. PICK c, place :
          /\ Begin(g, c, place)
          /\ place \in Working => c.by = g /\ c.n = calls[g] + 1
    <3>1. CASE DoFromGoroutine(g)
      <4>1. PICK wait \in BOOLEAN : Begin(g, Call(g, calls[g] + 1, wait), "check")
        BY <3>1 DEF DoFromGoroutine
      <4>2. Call(g, calls[g] + 1, wait).by = g /\ Call(g, calls[g] + 1, wait).n = calls[g] + 1
        BY DEF Call
      <4> QED BY <4>1, <4>2
    <3>2. CASE BeginsOther(g)
      BY <3>2 DEF BeginsOther
    <3> QED BY <1>6, <3>1, <3>2
  <2>3. /\ calls'[g] = calls[g] + 1 /\ cur'[g] = c /\ pc'[g] = place
        /\ \A h \in (Threads \cup {Main}) \ {g} : calls'[h] = calls[h]
        /\ \A h \in Threads \ {g} : pc'[h] = pc[h] /\ cur'[h] = cur[h]
    BY <2>1, <2>2, <1>t DEF Begin, GoTo
  <2>4. Counted'
    <3>1. \A h \in Threads \cup {Main} : calls[h] <= calls'[h]
      BY <2>3, <1>t
    <3>2. \A h \in Threads \cup {Main} : calls[h] \in Nat /\ calls'[h] \in Nat
      BY <2>1, <2>3, <1>t
    <3>3. ASSUME NEW x \in Made, x.by # Pump PROVE x.n <= calls'[x.by]
      <4>1. x.by \in Threads \cup {Main} /\ x.n \in Nat /\ x.n <= calls[x.by]
        BY <3>3, <1>t, <1>c, <1>n
      <4>2. calls[x.by] <= calls'[x.by] /\ calls[x.by] \in Nat /\ calls'[x.by] \in Nat
        BY <4>1, <3>1, <3>2
      <4> QED BY <4>1, <4>2
    <3> QED BY <3>3, <2>1
  <2>5. place \in Working => c \notin Made
    BY <2>1, <2>2, <1>t, <1>n
  <2>6. place \in Working => Fresh(g)'
    BY <2>1, <2>2, <2>3, <2>5, <1>t
  <2> QED BY <2>1, <2>3, <2>4, <2>6, <1>n, <1>n1
<1>7. ASSUME PumpTake, mpc # "crashed" PROVE NewInv'
  <2>1. Made' = Made /\ UNCHANGED calls
    BY <1>7, Effects, MadeAfter DEF PumpTake
  <2>2. /\ cur'[Pump] = PumpCall(Head(events))
        /\ \A h \in Threads \ {Pump} : pc'[h] = pc[h] /\ cur'[h] = cur[h]
    BY <1>7, <1>t DEF PumpTake, GoTo, PumpCall
  <2>3. PumpCall(Head(events)) \notin Made
    BY <1>7 DEF PumpTake, PumpInv, First, Last
  <2>4. cur'[Pump].by = Pump
    BY <2>2 DEF PumpCall, Call
  <2> QED BY <2>1, <2>2, <2>3, <2>4, <1>n, <1>n1
<1>8. CASE PumpEnd \/ StartRun \/ Drain \/ RunFunc \/ Signal \/ QueueStopped \/ SetDrained
           \/ FinalDrain \/ FinishFunc \/ QueueFlush \/ DestroyEventQueue
  <2>1. Made' = Made
    BY <1>8, Effects, MadeAfter
  <2>2. UNCHANGED <<cur, calls>>
    BY <1>8 DEF PumpEnd, StartRun, Drain, RunFunc, Signal, QueueStopped, SetDrained,
       FinalDrain, FinishFunc, QueueFlush, DestroyEventQueue, goVars
  <2>3. \A h \in Threads : pc'[h] \in Working => pc[h] \in Working
    BY <1>8, <1>t DEF PumpEnd, StartRun, Drain, RunFunc, Signal, QueueStopped, SetDrained,
       FinalDrain, FinishFunc, QueueFlush, DestroyEventQueue, goVars, GoTo
  <2> QED BY <2>1, <2>2, <2>3, <1>1
<1>9. CASE Flushed
  <2>1. pc[Pump] = "inline" /\ pc'[Pump] = "idle" /\ UNCHANGED <<cur, calls>>
        /\ \A h \in Threads : h # Pump => pc'[h] = pc[h]
    BY <1>9, <1>t DEF Flushed, GoTo
  <2>2. Made' = Made \cup {cur[Pump]}
    BY <1>9, Effects, MadeAfter
  <2> QED BY <2>1, <2>2, <1>2, <1>t
<1> QED
  <2>1. mpc = "crashed" => Calm \/ UNCHANGED vars
    BY DEF Next, Alive
  <2>2. UNCHANGED vars => Calm
    BY DEF vars, goVars, allButGo, loopVars, funcVars, flagVars, recordVars, lifeVars, callVars, Calm, Still
  <2>3. mpc = "setup" => ~running
    BY DEF QuitInv
  <2> QED BY <1>3, <1>4, <1>5, <1>6, <1>7, <1>8, <1>9, <2>1, <2>2, <2>3, StepKinds

(* The executor as the loop implements it has been told to quit. *)
Quitting == mpc # "setup" /\ ~running

(* Every step leaves the line alone, queues a new call, runs or drops the  *)
(* first one, or runs a new call at once; the last two only when quitting. *)
LEMMA StepEffects ==
  ASSUME LoopInv, QuitInv, NewInv, LineInv, [Next]_vars
  PROVE  \/ LeavesLine /\ returned' = returned /\ (Quitting => Quitting')
         \/ LeavesLine /\ Signal /\ Quitting' = Quitting
         \/ /\ returned' = returned /\ Quitting' = Quitting
            /\ \/ \E c \in CallSet \ Made : Queues(c) \/ (Quitting /\ RunsAtOnce(c))
               \/ RunsHead
               \/ Quitting /\ DropsHead
<1> USE DEF goVars, locals, loopVars, funcVars, flagVars, glfwVars,
        uiVars, lifeVars, callVars, recordVars, allButGo, allButPlace
<1> DEFINE Leaves == LeavesLine /\ returned' = returned /\ (Quitting => Quitting')
           Else == /\ returned' = returned /\ Quitting' = Quitting
                   /\ \/ \E c \in CallSet \ Made : Queues(c) \/ (Quitting /\ RunsAtOnce(c))
                      \/ RunsHead
                      \/ Quitting /\ DropsHead
<1>t. /\ cur \in [Threads -> CallSet] /\ Pump \in Threads /\ running \in BOOLEAN
      /\ mpc = "setup" => ~running
  BY DEF LoopInv, TypeOK, GoTypes, DataTypes, Threads, QuitInv
<1>i. \A g \in Threads : pc[g] = "inline" => Quitting
  BY DEF QuitInv, Quitting
<1>1. CASE Calm
  <2>1. returned' = returned /\ (Quitting => Quitting')
    BY <1>1 DEF Calm, Still, Calmly, MayQuitNow, MovesOn, Quitting, Resting, AfterFunc, NextFunc
  <2> QED BY <1>1, <2>1, Effects
<1>2. CASE DoesMore
  <2>1. MainCall \in CallSet \ Made
    <3>1. /\ calls[Main] + 1 \in 0 .. (MaxCalls + MaxMainCalls + 2)
          /\ ~(calls[Main] + 1 <= calls[Main]) /\ Main # Pump
      BY <1>2, ConstantsAssumption
         DEF DoesMore, UserDo, MainCalls, LoopInv, TypeOK, GoTypes, ConstantsAssumption
    <3>2. MainCall.by = Main /\ MainCall.n = calls[Main] + 1 /\ MainCall \in CallSet
      BY <3>1 DEF MainCall, Call, CallSet
    <3> QED BY <3>1, <3>2 DEF NewInv
  <2>2. /\ returned' = returned /\ running' = running /\ mpc # "setup" /\ mpc' # "setup"
    BY <1>2 DEF DoesMore, Still, UserDo, Resting, AfterFunc, NextFunc
  <2> QED BY <1>2, <2>1, <2>2, Effects, <1>t DEF Quitting
<1>3. ASSUME NEW g \in Threads, GoroutineStep(g) PROVE Leaves \/ Else
  <2>1. CASE CheckDrained(g) \/ LoadReady(g) \/ QuitClose(g)
    <3>1. returned' = returned /\ UNCHANGED <<running, mpc>>
      BY <2>1 DEF CheckDrained, LoadReady, QuitClose
    <3> QED BY <2>1, <3>1, Effects DEF Quitting
  <2>2. CASE PostEmptyEvent(g)
    <3>1. returned' = returned /\ running' = running /\ mpc' \in {mpc, "crashed"}
      BY <2>2 DEF PostEmptyEvent
    <3> QED BY <2>2, <3>1, Effects DEF Quitting
  <2>3. CASE Push(g) \/ RunInline(g)
    <3>1. returned' = returned /\ UNCHANGED <<running, mpc>> /\ pc[g] \in {"push", "inline"}
      BY <2>3 DEF Push, RunInline
    <3>2. cur[g] \in CallSet \ Made
      BY <3>1, <1>t DEF NewInv
    <3>3. RunInline(g) => Quitting
      BY <1>i DEF RunInline
    <3> QED BY <2>3, <3>1, <3>2, <3>3, Effects DEF Quitting
  <2> QED BY <1>3, <2>1, <2>2, <2>3 DEF GoroutineStep
<1>4. ASSUME NEW g \in Workers, DoFromGoroutine(g) \/ BeginsOther(g) PROVE Leaves
  <2>1. DoFromGoroutine(g) => UNCHANGED <<returned, mpc, running>>
    BY DEF DoFromGoroutine
  <2>2. BeginsOther(g) => UNCHANGED <<returned, mpc>> /\ running' \in {running, FALSE}
    BY DEF BeginsOther
  <2>3. LeavesLine
    BY <1>4, Effects
  <2>4. CASE running' = running
    BY <1>4, <2>1, <2>2, <2>3, <2>4 DEF Quitting
  <2>5. CASE running' = FALSE
    BY <1>4, <2>1, <2>2, <2>3, <2>5 DEF Quitting
  <2> QED BY <1>4, <2>1, <2>2, <2>4, <2>5
<1>5. CASE PumpTake \/ PumpEnd \/ Drain \/ QueueStopped \/ SetDrained \/ FinalDrain
           \/ QueueFlush \/ DestroyEventQueue \/ StartRun
  <2>1. PumpTake \/ PumpEnd => UNCHANGED <<returned, mpc, running>>
    BY DEF PumpTake, PumpEnd
  <2>2. QueueStopped \/ SetDrained \/ FinalDrain \/ QueueFlush \/ DestroyEventQueue
          => UNCHANGED <<returned, running>> /\ mpc # "setup" /\ mpc' # "setup"
    BY DEF QueueStopped, SetDrained, FinalDrain, QueueFlush, DestroyEventQueue
  <2>3. Drain => UNCHANGED <<returned, running>> /\ mpc # "setup" /\ mpc' # "setup"
    BY DEF Drain, AfterDrain, LoopInv, TypeOK, PlaceTypes
  <2>4. StartRun => returned' = returned /\ mpc = "setup"
    BY DEF StartRun
  <2> QED BY <1>5, <2>1, <2>2, <2>3, <2>4, Effects DEF Quitting
<1>6. CASE Signal
  <2>1. Quitting' = Quitting
    BY <1>6 DEF Signal, NextFunc, Quitting
  <2> QED BY <1>6, <2>1, Effects
<1>7. CASE RunFunc
  <2>1. returned' = returned /\ Quitting' = Quitting
    BY <1>7 DEF RunFunc, Quitting
  <2> QED BY <1>7, <2>1, Effects
<1>8. CASE FinishFunc
  <2>1. returned' = returned /\ Quitting' = Quitting /\ Quitting
    BY <1>8 DEF FinishFunc, AfterFinish, Quitting, QuitInv, ShutdownPlaces
  <2> QED BY <1>8, <2>1, Effects
<1>9. CASE Flushed
  <2>1. returned' = returned /\ Quitting' = Quitting /\ pc[Pump] = "inline"
    BY <1>9 DEF Flushed, Quitting
  <2>2. cur[Pump] \in CallSet \ Made /\ Quitting
    BY <2>1, <1>t, <1>i DEF NewInv
  <2> QED BY <1>9, <2>1, <2>2, Effects
<1> HIDE DEF Leaves, Else
<1>10. Leaves \/ (LeavesLine /\ Signal /\ Quitting' = Quitting) \/ Else
  BY <1>1, <1>2, <1>3, <1>4, <1>5, <1>6, <1>7, <1>8, <1>9, <1>t, StepKinds DEF Leaves, Else
<1> QED BY <1>10 DEF Leaves, Else

(* A call in hand was run or dropped; main has a batch only where it runs or *)
(* drops one.                                                                *)
LEMMA LineKept ==
  ASSUME LoopInv, QuitInv, NewInv, LineInv, WaitInv, [Next]_vars
  PROVE  LineInv'
<1> USE DEF goVars, locals, loopVars, funcVars, flagVars, glfwVars,
        uiVars, lifeVars, callVars, recordVars, allButGo, allButPlace
<1>t. Line \in Seq(CallSet) /\ batch \in Seq(CallSet)
  BY LineIsCalls DEF LoopInv, TypeOK, DataTypes
<1> DEFINE Parted == /\ Distinct(Line)
                     /\ Held \cap (executed \cup dropped) = {}
                     /\ returned \subseteq executed \cup dropped
           Empty == mpc \in {"setup", "sddrained", "sddrain"} \cup Resting \cup AfterLoop
                       => batch = <<>>
<1>p. Parted /\ Empty
  BY DEF LineInv
<1>1. ASSUME LeavesLine, returned' = returned \/ Signal PROVE Parted'
  <2>1. Held' = Held /\ Made' = Made
    BY <1>1, MadeAfter
  <2>2. Signal => returned' = returned \cup {serving} /\ serving \in executed \cup dropped
    BY DEF Signal, WaitInv
  <2> QED BY <1>p, <1>1, <2>1, <2>2 DEF LeavesLine, Distinct
<1>2. ASSUME returned' = returned, NEW c \in CallSet \ Made, Queues(c) PROVE Parted'
  <2>1. Held' = Held \cup {c} /\ c \notin Held /\ c \notin executed \cup dropped
    BY <1>2, MadeAfter DEF Made
  <2>2. Distinct(Append(Line, c))
    BY <1>p, <2>1, <1>t, DistinctAppend DEF Held
  <2>3. Distinct(Line)'
    BY <1>2, <2>2 DEF Queues, Distinct
  <2> QED BY <1>p, <1>2, <2>1, <2>3 DEF Queues
<1>3. ASSUME returned' = returned, NEW c \in CallSet \ Made, RunsAtOnce(c) PROVE Parted'
  <2>1. Held' = Held /\ c \notin Held
    BY <1>3, MadeAfter DEF Made
  <2> QED BY <1>p, <1>3, <2>1 DEF RunsAtOnce, Distinct
<1>4. ASSUME returned' = returned, RunsHead \/ DropsHead PROVE Parted'
  <2>1. Line # <<>> /\ Line' = Tail(Line)
    BY <1>4 DEF RunsHead, DropsHead
  <2>2. Distinct(Tail(Line)) /\ Head(Line) \notin InSeq(Tail(Line))
    BY <1>p, <1>t, <2>1, DistinctTail
  <2>3. Distinct(Line)' /\ Head(Line) \notin Held'
    BY <2>1, <2>2 DEF Distinct, Held, InSeq
  <2>4. Held' \subseteq Held
    BY <1>4, MadeAfter
  <2> QED BY <1>p, <1>4, <2>3, <2>4 DEF RunsHead, DropsHead
<1>5. Parted'
  BY <1>1, <1>2, <1>3, <1>4, StepEffects
<1>6. Empty'
  <2> USE <1>p DEF Resting, AfterLoop
  <2>1. CASE Calm
    BY <2>1 DEF Calm, Still, MovesOn, AfterFunc, NextFunc
  <2>2. CASE DoesMore
    BY <2>2 DEF DoesMore, Still, AfterFunc, NextFunc
  <2>3. ASSUME NEW g \in Threads, GoroutineStep(g) PROVE Empty'
    <3>1. batch' = batch /\ mpc' \in {mpc, "crashed"}
      BY <2>3 DEF GoroutineStep, CheckDrained, Push, LoadReady, PostEmptyEvent, RunInline, QuitClose
    <3> QED BY <3>1
  <2>4. ASSUME NEW g \in Workers, DoFromGoroutine(g) \/ BeginsOther(g) PROVE Empty'
    BY <2>4 DEF DoFromGoroutine, BeginsOther
  <2>5. CASE PumpTake \/ PumpEnd \/ StartRun \/ QueueStopped \/ SetDrained \/ QueueFlush
             \/ Flushed \/ DestroyEventQueue
    BY <2>5 DEF PumpTake, PumpEnd, StartRun, QueueStopped, SetDrained, QueueFlush, Flushed,
       DestroyEventQueue
  <2>6. CASE Drain \/ FinalDrain
    BY <2>6 DEF Drain, FinalDrain
  <2>7. CASE RunFunc \/ FinishFunc
    BY <2>7 DEF RunFunc, FinishFunc, AfterFinish
  <2>8. CASE Signal
    BY <2>8 DEF Signal, NextFunc
  <2>9. mpc = "setup" => ~running
    BY DEF QuitInv
  <2> HIDE DEF Empty
  <2> QED BY <2>1, <2>2, <2>3, <2>4, <2>5, <2>6, <2>7, <2>8, <2>9, StepKinds
<1> QED BY <1>5, <1>6 DEF LineInv

(* Whoever waits for a call in line stays inside the push until the call is *)
(* in main's hands and main meets it.                                       *)
LEMMA WaitKept ==
  ASSUME LoopInv, QuitInv, NewInv, LineInv, WaitInv, [Next]_vars
  PROVE  WaitInv'
<1> USE DEF goVars, locals, loopVars, funcVars, flagVars, glfwVars,
        uiVars, lifeVars, callVars, recordVars, allButGo, allButPlace
<1> DEFINE Pushed == {"wake", "post", "wait"}
           AtHand == {"func", "signal", "release"}
           Waits(c) == c.by \in Threads /\ pc[c.by] \in Pushed /\ cur[c.by] = c
           Known == /\ mpc \in {"func", "signal"} => serving \in executed
                    /\ mpc = "release" => serving \in dropped
                    /\ mpc \in {"signal", "release"} => serving.wait
                    /\ InHand \cap returned = {}
           Stays(g) == pc[g] \in Pushed /\ cur[g].wait
                         => pc'[g] \in Pushed /\ cur'[g] = cur[g]
<1>t. /\ pc \in [Threads -> GoroutinePlaces] /\ cur \in [Threads -> CallSet]
      /\ Pump \in Threads /\ Workers \subseteq Threads
      /\ site \in {"top", "timeout", "poll", "wait"}
      /\ mpc \in {"run", "finish"} => batch # <<>>
  BY DEF LoopInv, TypeOK, GoTypes, PlaceTypes, BatchOK, Threads
<1>w. Known /\ \A c \in Held \cup InHand : c.wait => Waits(c)
  BY DEF WaitInv
<1>w1. WaitInv' <=> Known' /\ (\A c \in (Held \cup InHand)' : c.wait => Waits(c)')
  BY DEF WaitInv
<1>k. ASSUME \A g \in Threads : Stays(g),
             Held' \subseteq Held, serving' = serving, returned' = returned,
             mpc' = mpc \/ mpc' \notin AtHand \/ (mpc = "func" /\ mpc' = AfterFunc),
             executed \subseteq executed', dropped \subseteq dropped'
      PROVE  WaitInv'
  <2>1. InHand' \subseteq InHand
    BY <1>k DEF InHand, AfterFunc, NextFunc
  <2>2. Known'
    BY <1>k, <1>w, <2>1 DEF AfterFunc, NextFunc
  <2>3. \A c \in (Held \cup InHand)' : c.wait => Waits(c)'
    BY <1>k, <1>w, <2>1
  <2> QED BY <2>2, <2>3, <1>w1
<1>m. /\ LeavesLine => Held' \subseteq Held /\ executed \subseteq executed' /\ dropped \subseteq dropped'
      /\ \A c : RunsAtOnce(c) => Held' \subseteq Held /\ executed \subseteq executed' /\ dropped \subseteq dropped'
  BY MadeAfter DEF LeavesLine, RunsAtOnce
<1>1. CASE Calm
  <2>1. mpc' = mpc \/ mpc' \notin AtHand \/ (mpc = "func" /\ mpc' = AfterFunc)
    BY <1>1 DEF Calm, MovesOn, Resting
  <2>2. UNCHANGED <<pc, cur, serving, returned>>
    BY <1>1 DEF Calm, Still
  <2> QED BY <1>1, <1>k, <1>m, <2>1, <2>2, Effects
<1>2. CASE DoesMore
  <2>1. mpc' \notin AtHand \/ (mpc = "func" /\ mpc' = AfterFunc)
    BY <1>2 DEF DoesMore, Resting
  <2>2. UNCHANGED <<pc, cur, serving, returned, dropped>> /\ executed \subseteq executed'
    BY <1>2 DEF DoesMore, Still, UserDo
  <2>3. \A c \in Held' : c.wait => c \in Held
    <3>1. MainCall.wait = FALSE /\ MainCall \in CallSet
      <4>1. calls[Main] + 1 \in 0 .. (MaxCalls + MaxMainCalls + 2)
        BY <1>2, ConstantsAssumption
           DEF DoesMore, UserDo, MainCalls, LoopInv, TypeOK, GoTypes, ConstantsAssumption
      <4> QED BY <4>1 DEF MainCall, Call, CallSet
    <3>2. Held' \subseteq Held \cup {MainCall}
      BY <1>2, <3>1, Effects, MadeAfter DEF LoopInv, TypeOK, DataTypes
    <3> QED BY <3>1, <3>2
  <2>4. InHand' \subseteq InHand
    BY <2>1, <2>2 DEF InHand, AfterFunc, NextFunc
  <2>5. Known'
    BY <1>w, <2>1, <2>2, <2>4 DEF AfterFunc, NextFunc
  <2> QED BY <1>w, <1>w1, <2>2, <2>3, <2>4, <2>5
<1>3. ASSUME NEW g \in Threads, GoroutineStep(g) PROVE WaitInv'
  <2>0. serving' = serving /\ returned' = returned /\ (mpc' = mpc \/ mpc' = "crashed")
    BY <1>3 DEF GoroutineStep, CheckDrained, Push, LoadReady, PostEmptyEvent, RunInline, QuitClose
  <2>1. CASE CheckDrained(g) \/ QuitClose(g) \/ RunInline(g)
    <3>1. \A h \in Threads : Stays(h)
      BY <2>1, <1>t DEF CheckDrained, QuitClose, RunInline, GoTo
    <3> QED BY <2>0, <2>1, <3>1, <1>k, <1>m, Effects
  <2>2. CASE LoadReady(g) \/ PostEmptyEvent(g)
    <3>1. \A h \in Threads : Stays(h)
      BY <2>2, <1>t DEF LoadReady, PostEmptyEvent, GoTo, Resume
    <3> QED BY <2>0, <2>2, <3>1, <1>k, <1>m, Effects
  <2>3. CASE Push(g)
    <3>1. /\ pc[g] = "push" /\ pc'[g] \in {"wake", "wait", "idle"} /\ cur' = cur /\ mpc' = mpc
          /\ cur[g].wait => pc'[g] # "idle"
          /\ \A h \in Threads : h # g => pc'[h] = pc[h]
          /\ UNCHANGED <<executed, dropped>>
      BY <2>3, <1>t DEF Push, GoTo, AfterPush, Resume
    <3>2. cur[g].by = g
      BY <3>1 DEF NewInv
    <3>3. Held' = Held \cup {cur[g]}
      BY <2>3, <1>t, Effects, MadeAfter
    <3>4. InHand' = InHand /\ Known'
      BY <2>0, <3>1, <1>w DEF InHand
    <3>5. \A c \in (Held \cup InHand)' : c.wait => Waits(c)'
      BY <3>1, <3>2, <3>3, <3>4, <1>w
    <3> QED BY <3>4, <3>5, <1>w1
  <2> QED BY <1>3, <2>1, <2>2, <2>3 DEF GoroutineStep
<1>4. ASSUME NEW g \in Workers, DoFromGoroutine(g) \/ BeginsOther(g) PROVE WaitInv'
  <2>1. pc[g] = "idle" /\ \A h \in Threads \ {g} : pc'[h] = pc[h] /\ cur'[h] = cur[h]
    BY <1>4, <1>t DEF DoFromGoroutine, BeginsOther, Begin, GoTo
  <2>2. UNCHANGED <<serving, returned, mpc>>
    BY <1>4 DEF DoFromGoroutine, BeginsOther
  <2> QED BY <1>4, <2>1, <2>2, <1>t, <1>k, <1>m, Effects
<1>5. CASE PumpTake \/ PumpEnd
  <2>1. pc[Pump] = "idle" /\ \A h \in Threads \ {Pump} : pc'[h] = pc[h] /\ cur'[h] = cur[h]
    BY <1>5, <1>t DEF PumpTake, PumpEnd, GoTo
  <2>2. UNCHANGED <<serving, returned, mpc>>
    BY <1>5 DEF PumpTake, PumpEnd
  <2> QED BY <1>5, <2>1, <2>2, <1>t, <1>k, <1>m, Effects
<1>6. CASE StartRun \/ QueueStopped \/ SetDrained \/ QueueFlush \/ DestroyEventQueue
  <2>1. mpc' \notin AtHand /\ UNCHANGED <<pc, cur, serving, returned>>
    BY <1>6 DEF StartRun, QueueStopped, SetDrained, QueueFlush, DestroyEventQueue
  <2> QED BY <1>6, <2>1, <1>k, <1>m, Effects
<1>7. CASE Drain \/ FinalDrain
  <2>1. mpc' \notin AtHand /\ UNCHANGED <<pc, cur, serving, returned>>
    BY <1>7, <1>t DEF Drain, FinalDrain, AfterDrain
  <2> QED BY <1>7, <2>1, <1>k, <1>m, Effects
<1>8. CASE Flushed
  <2>1. mpc' \notin AtHand /\ UNCHANGED <<cur, serving, returned>> /\ \A h \in Threads : Stays(h)
    BY <1>8, <1>t DEF Flushed, GoTo
  <2> QED BY <1>8, <2>1, <1>k, <1>m, Effects
<1>9. CASE RunFunc \/ FinishFunc
  <2>1. Head(Line) = Head(batch) /\ Line # <<>>
    BY <1>9, Effects DEF RunsHead, DropsHead
  <2>2. Held = Held' \cup {Head(batch)}
    BY <1>9, <2>1, Effects, MadeAfter
  <2>3. UNCHANGED <<pc, cur, returned>> /\ serving' = Head(batch)
    BY <1>9 DEF RunFunc, FinishFunc
  <2>4. InHand' \subseteq {Head(batch)}
    BY <2>3 DEF InHand
  <2>5. Head(batch) \notin returned
    BY <2>2 DEF LineInv
  <2>6. Known'
    BY <1>9, <2>3, <2>4, <2>5 DEF RunFunc, FinishFunc, AfterFinish
  <2>7. InHand \subseteq {serving} /\ \A c \in (Held \cup InHand)' : c \in Held
    BY <2>2, <2>4 DEF InHand
  <2> QED BY <1>w, <1>w1, <2>3, <2>6, <2>7
<1>10. CASE Signal
  <2>1. mpc' \notin AtHand /\ UNCHANGED <<cur, executed, dropped>>
    BY <1>10 DEF Signal, NextFunc
  <2>2. InHand' = {} /\ Known'
    BY <2>1 DEF InHand
  <2>3. serving \in InHand /\ serving.wait /\ serving \notin Held
    BY <1>10 DEF Signal, InHand, WaitInv, LineInv
  <2>4. \A h \in Threads : h # serving.by => pc'[h] = pc[h]
    BY <1>10, <1>t DEF Signal, Receives, GoTo
  <2>5. \A c \in Held : c.wait => c.by # serving.by
    BY <2>3, <1>w
  <2>6. Held' = Held
    BY <1>10, Effects, MadeAfter
  <2> QED BY <1>w, <1>w1, <2>1, <2>2, <2>4, <2>5, <2>6
<1>11. mpc = "setup" => ~running
  BY DEF QuitInv
<1> HIDE DEF Known, Waits, Stays
<1> QED BY <1>1, <1>2, <1>3, <1>4, <1>5, <1>6, <1>7, <1>8, <1>9, <1>10, <1>11, StepKinds

(* The loop goes on before the stopped event is queued, or shuts down after. *)
Early == {"setup", "run", "func", "signal"} \cup Resting
Ending == {"sddrained", "sddrain", "finish", "release"}
PumpsOn == \/ mpc' = mpc \/ mpc' = "crashed"
           \/ mpc \in Early /\ mpc' \in Early
           \/ mpc \in Ending /\ mpc' \in Ending \cup {"flush"}

(* A step of others, which neither makes nor forgets a call of the pump's. *)
LEMMA PumpLeftAlone ==
  ASSUME PumpInv, pc'[Pump] = pc[Pump], cur'[Pump] = cur[Pump],
         events' = events, queueClosed' = queueClosed, PumpsOn,
         executed \subseteq executed', dropped \subseteq dropped',
         \A c \in Made' : c \in Made \/ c.by # Pump,
         \A c \in Held' : c \in Held \/ c.by # Pump
  PROVE  PumpInv'
<1>1. \A e : PumpCall(e).by = Pump
  BY DEF PumpCall, Call
<1>2. \A e : Busy(e)' <=> Busy(e)
  BY DEF Busy, PumpCall, Call
<1>3. /\ First' <=> First
      /\ Last' <=> Last
  BY DEF First, Last
<1>4. \A e : (PumpCall(e) \in Made' => PumpCall(e) \in Made)
             /\ (PumpCall(e) \in Held' => PumpCall(e) \in Held)
  BY <1>1
<1>5. \A e : PumpCall(e)' = PumpCall(e)
  BY DEF PumpCall, Call
<1> QED
  BY <1>2, <1>3, <1>4, <1>5
     DEF PumpInv, PumpsOn, Early, Ending, Resting, Later, AfterLoop

LEMMA AppendToOne ==
  ASSUME NEW a, NEW b
  PROVE  Append(<<a>>, b) = <<a, b>>
<1>1. <<a>> \in Seq({a, b}) /\ b \in {a, b} /\ Len(<<a>>) = 1 /\ <<a>>[1] = a
  OBVIOUS
<1>2. <<a, b>> \in Seq({a, b}) /\ Len(<<a, b>>) = 2 /\ <<a, b>>[1] = a /\ <<a, b>>[2] = b
  OBVIOUS
<1>3. Append(<<a>>, b) \in Seq({a, b})
  BY <1>1
<1>4. Len(Append(<<a>>, b)) = 2
  BY <1>1
<1>5. Append(<<a>>, b)[1] = a
  BY <1>1
<1>6. Append(<<a>>, b)[2] = b
  BY <1>1
<1>7. \A i \in 1 .. 2 : i = 1 \/ i = 2
  OBVIOUS
<1> QED BY <1>2, <1>3, <1>4, <1>5, <1>6, <1>7, SeqEqual

(* The pump's own steps, and those of main that hand it events. *)
LEMMA PumpKept ==
  ASSUME LoopInv, QuitInv, NewInv, LineInv, WaitInv, PumpInv, [Next]_vars
  PROVE  PumpInv'
<1> USE DEF goVars, locals, loopVars, funcVars, flagVars, glfwVars,
        uiVars, lifeVars, callVars, recordVars, allButGo, allButPlace
<1>t. /\ pc \in [Threads -> GoroutinePlaces] /\ cur \in [Threads -> CallSet]
      /\ Pump \in Threads /\ Workers \subseteq Threads /\ Pump \notin Workers /\ Main # Pump
      /\ site \in {"top", "timeout", "poll", "wait"} /\ running \in BOOLEAN
      /\ mpc \in {"run", "finish"} => batch # <<>>
      /\ mpc \in {"hook", "func", "signal"} => ~drained
      /\ mpc \in {"sddrain", "finish", "release"} => drained
  BY ConstantsAssumption
     DEF LoopInv, TypeOK, GoTypes, PlaceTypes, DataTypes, BatchOK, FlagsOK, LoopPlaces, Threads,
         ConstantsAssumption
<1>c. /\ PumpCall(Stopped) # PumpCall(Flush)
      /\ \A e : PumpCall(e).by = Pump /\ PumpCall(e).wait
  BY DEF PumpCall, Call, Stopped, Flush
<1>e. /\ <<Stopped>> # <<>> /\ <<Flush>> # <<>> /\ <<Stopped, Flush>> # <<>>
      /\ <<Stopped>> # <<Flush>> /\ <<Stopped>> # <<Stopped, Flush>> /\ <<Flush>> # <<Stopped, Flush>>
      /\ Head(<<Stopped>>) = Stopped /\ Tail(<<Stopped>>) = <<>>
      /\ Head(<<Flush>>) = Flush /\ Tail(<<Flush>>) = <<>>
      /\ Head(<<Stopped, Flush>>) = Stopped /\ Tail(<<Stopped, Flush>>) = <<Flush>>
      /\ Append(<<>>, Stopped) = <<Stopped>> /\ Append(<<>>, Flush) = <<Flush>>
      /\ Append(<<Stopped>>, Flush) = <<Stopped, Flush>>
  <2> DEFINE both == <<Stopped, Flush>>
  <2>1. <<Stopped>> # <<>> /\ <<Flush>> # <<>> /\ both # <<>>
    OBVIOUS
  <2>2. <<Stopped>> # <<Flush>>
    BY DEF Stopped, Flush
  <2>3. Len(<<Stopped>>) = 1 /\ Len(<<Flush>>) = 1 /\ Len(both) = 2
    OBVIOUS
  <2>4. Head(<<Stopped>>) = Stopped /\ Head(<<Flush>>) = Flush /\ Head(both) = Stopped
    OBVIOUS
  <2>5. Tail(<<Stopped>>) = <<>> /\ Tail(<<Flush>>) = <<>>
    OBVIOUS
  <2>6. Tail(both) = <<Flush>>
    OBVIOUS
  <2>7. Append(<<>>, Stopped) = <<Stopped>> /\ Append(<<>>, Flush) = <<Flush>>
    OBVIOUS
  <2>8. Append(<<Stopped>>, Flush) = both
    BY AppendToOne
  <2> HIDE DEF both
  <2>9. <<Stopped>> # both /\ <<Flush>> # both
    BY <2>3
  <2> QED BY <2>1, <2>2, <2>4, <2>5, <2>6, <2>7, <2>8, <2>9 DEF both
<1>m. /\ LeavesLine => /\ Made' = Made /\ Held' = Held
                       /\ executed' = executed /\ dropped' = dropped
      /\ RunsHead \/ DropsHead => /\ Made' = Made /\ Held' \subseteq Held
                                  /\ executed \subseteq executed' /\ dropped \subseteq dropped'
  BY MadeAfter DEF LeavesLine, RunsHead, DropsHead
<1>1. CASE Calm
  <2>1. UNCHANGED <<pc, cur, events, queueClosed>>
    BY <1>1 DEF Calm, Still
  <2>2. PumpsOn
    BY <1>1, <1>t DEF Calm, MovesOn, PumpsOn, Early, AfterFunc, NextFunc, Resting
  <2> QED BY <1>1, <1>m, <2>1, <2>2, Effects, PumpLeftAlone
<1>2. CASE DoesMore
  <2>1. UNCHANGED <<pc, cur, events, queueClosed, dropped>> /\ executed \subseteq executed'
    BY <1>2 DEF DoesMore, Still, UserDo
  <2>2. PumpsOn
    BY <1>2, <1>t DEF DoesMore, PumpsOn, Early, AfterFunc, NextFunc, Resting
  <2>3. MainCall.by = Main /\ MainCall \in CallSet
    <3>1. calls[Main] + 1 \in 0 .. (MaxCalls + MaxMainCalls + 2)
      BY <1>2, ConstantsAssumption
         DEF DoesMore, UserDo, MainCalls, LoopInv, TypeOK, GoTypes, ConstantsAssumption
    <3> QED BY <3>1 DEF MainCall, Call, CallSet
  <2>4. Made' \subseteq Made \cup {MainCall} /\ Held' \subseteq Held \cup {MainCall}
    BY <1>2, <1>t, <2>3, Effects, MadeAfter
  <2> QED BY <1>t, <2>1, <2>2, <2>3, <2>4, PumpLeftAlone
<1>3. ASSUME NEW g \in Threads, g # Pump, GoroutineStep(g) PROVE PumpInv'
  <2>1. /\ pc'[Pump] = pc[Pump] /\ cur' = cur /\ UNCHANGED <<events, queueClosed>>
        /\ PumpsOn
    BY <1>3, <1>t
       DEF GoroutineStep, CheckDrained, Push, LoadReady, PostEmptyEvent, RunInline, QuitClose,
           GoTo, PumpsOn
  <2>2. CASE CheckDrained(g) \/ LoadReady(g) \/ PostEmptyEvent(g) \/ QuitClose(g)
    BY <1>m, <2>1, <2>2, Effects, PumpLeftAlone
  <2>3. CASE Push(g) \/ RunInline(g)
    <3>1. cur[g].by = g /\ cur[g] \in CallSet
      BY <2>3, <1>t DEF Push, RunInline, NewInv
    <3>2. /\ Made' \subseteq Made \cup {cur[g]} /\ Held' \subseteq Held \cup {cur[g]}
          /\ executed \subseteq executed' /\ dropped' = dropped
      BY <2>3, <3>1, Effects, MadeAfter DEF Queues, RunsAtOnce
    <3> QED BY <1>3, <2>1, <3>1, <3>2, PumpLeftAlone
  <2> QED BY <1>3, <2>2, <2>3 DEF GoroutineStep
<1>4. ASSUME GoroutineStep(Pump), mpc # "crashed" PROVE PumpInv'
  <2>1. /\ cur' = cur /\ UNCHANGED <<events, queueClosed>> /\ mpc' \in {mpc, "crashed"}
        /\ pc[Pump] \in {"check", "push", "wake", "post", "inline"}
    BY <1>4 DEF GoroutineStep, CheckDrained, Push, LoadReady, PostEmptyEvent, RunInline, QuitClose, PumpInv
  <2>2. /\ ~First /\ mpc \notin Early /\ mpc \notin {"destroy", "exited"}
        /\ Busy(Stopped) \/ Busy(Flush)
    BY <2>1 DEF PumpInv, Early
  <2>3. CASE CheckDrained(Pump)
    <3>1. pc'[Pump] = IF drained THEN "inline" ELSE "push"
      BY <2>3, <1>t DEF CheckDrained, GoTo, QueueShut
    <3>2. Busy(Flush) => drained
      BY <1>4 DEF PumpInv, QuitInv, AfterLoop
    <3>3. \A e : Busy(e)' <=> Busy(e)
      BY <2>1, <3>1 DEF Busy, PumpCall, Call
    <3>4. mpc' = mpc
      BY <2>3 DEF CheckDrained
    <3>5. First' = First /\ Last' = Last
      BY <2>1 DEF First, Last
    <3>6. /\ Made' = Made /\ Held' = Held
          /\ executed' = executed /\ dropped' = dropped
      BY <1>m, <1>t, <2>3, Effects
    <3>7. Busy(Flush)' => pc'[Pump] \in {"check", "inline"}
      BY <3>1, <3>2, <3>3
    <3>8. pc'[Pump] \notin {"idle", "ended", "close"} /\ (Busy(Stopped)' \/ Busy(Flush)')
      BY <2>2, <3>1, <3>3
    <3>9. ~First' /\ (Last' <=> Last)
      BY <2>2, <3>5
    <3> QED BY <2>1, <2>2, <3>3, <3>4, <3>6, <3>7, <3>8, <3>9
            DEF PumpInv, Early, Resting, Later, AfterLoop, PumpCall, Call
  <2>4. CASE Push(Pump) \/ LoadReady(Pump) \/ PostEmptyEvent(Pump)
    <3>1. Busy(Stopped) /\ ~Busy(Flush)
      BY <2>2, <2>4, <1>c DEF PumpInv, Push, LoadReady, PostEmptyEvent, Busy
    <3>2. pc'[Pump] \in {"wake", "post", "wait"}
      BY <2>4, <3>1, <1>t, <1>c
         DEF Push, LoadReady, PostEmptyEvent, GoTo, AfterPush, Resume, Busy
    <3>3. Busy(Stopped)' /\ ~Busy(Flush)'
      BY <2>1, <2>4, <3>1, <3>2, <1>c DEF Busy, PumpCall, Call, Push, LoadReady, PostEmptyEvent
    <3>4. /\ Made' \subseteq Made \cup {PumpCall(Stopped)} /\ Held' \subseteq Held \cup {PumpCall(Stopped)}
          /\ executed' = executed /\ dropped' = dropped
      BY <2>4, <3>1, <1>t, Effects, MadeAfter DEF Busy, LeavesLine, Queues
    <3>5. First' = First /\ Last' = Last
      BY <2>1 DEF First, Last
    <3> QED BY <1>c, <2>1, <2>2, <3>1, <3>2, <3>3, <3>4, <3>5
            DEF PumpInv, Early, Resting, Later, AfterLoop, PumpCall, Call
  <2>5. CASE RunInline(Pump)
    <3>1. Busy(Stopped) /\ ~Busy(Flush)
      BY <2>2, <2>5, <1>c DEF RunInline, PumpCall, Busy
    <3>2. pc'[Pump] = "idle" /\ mpc' = mpc
      BY <2>5, <1>t DEF RunInline, GoTo
    <3>3. /\ Made' = Made \cup {PumpCall(Stopped)} /\ Held' = Held
          /\ PumpCall(Stopped) \in executed'
      BY <2>5, <3>1, <1>t, Effects, MadeAfter DEF Busy, RunsAtOnce
    <3>4. First' = First /\ Last' = Last /\ ~Busy(Stopped)' /\ ~Busy(Flush)'
      BY <2>1, <3>2 DEF First, Last, Busy
    <3> QED BY <1>c, <2>1, <2>2, <3>1, <3>2, <3>3, <3>4
            DEF PumpInv, Early, Resting, Later, AfterLoop, PumpCall, Call
  <2> QED BY <1>4, <2>3, <2>4, <2>5 DEF GoroutineStep, QuitClose, PumpInv
<1>5. ASSUME NEW g \in Workers, DoFromGoroutine(g) \/ BeginsOther(g) PROVE PumpInv'
  <2>1. pc'[Pump] = pc[Pump] /\ cur'[Pump] = cur[Pump]
    BY <1>5, <1>t DEF DoFromGoroutine, BeginsOther, Begin, GoTo
  <2>2. UNCHANGED <<events, queueClosed, mpc>>
    BY <1>5 DEF DoFromGoroutine, BeginsOther
  <2> QED BY <1>5, <1>m, <2>1, <2>2, Effects, PumpLeftAlone DEF PumpsOn
<1>6. CASE PumpTake /\ mpc # "crashed"
  <2>1. /\ pc[Pump] = "idle" /\ pc'[Pump] = "check" /\ cur'[Pump] = PumpCall(Head(events))
        /\ events # <<>> /\ events' = Tail(events) /\ UNCHANGED <<queueClosed, mpc>>
        /\ Made' = Made /\ Held' = Held /\ executed' = executed /\ dropped' = dropped
    BY <1>6, <1>t, <1>m, Effects DEF PumpTake, GoTo, PumpCall
  <2>2. mpc \notin Early /\ mpc \notin {"destroy", "exited"} /\ ~Busy(Stopped) /\ ~Busy(Flush)
    BY <2>1 DEF PumpInv, Early, Busy
  <2>3. CASE First
    <3>1. events' = <<>> \/ events' = <<Flush>>
      BY <2>1, <2>3, <1>e DEF First
    <3>2. Head(events) = Stopped
      BY <2>3, <1>e DEF First
    <3>3. ~First' /\ (Last' => Last)
      BY <3>1, <2>1, <2>3, <1>e DEF First, Last
    <3>4. Busy(Stopped)' /\ ~Busy(Flush)'
      BY <2>1, <3>2, <1>c DEF Busy, PumpCall, Call
    <3> QED BY <1>c, <2>1, <2>2, <3>1, <3>3, <3>4
            DEF PumpInv, Early, Resting, Later, AfterLoop, PumpCall, Call, Last
  <2>4. CASE ~First
    <3>1. events = <<Flush>> /\ Last /\ mpc = "flushwait"
      BY <2>1, <2>4, <1>6 DEF PumpInv, First, Last
    <3>2. events' = <<>> /\ Head(events) = Flush
      BY <2>1, <3>1, <1>e
    <3>3. ~First' /\ ~Last'
      BY <3>2, <1>e DEF First, Last
    <3>4. ~Busy(Stopped)' /\ Busy(Flush)'
      BY <2>1, <3>2, <1>c DEF Busy, PumpCall, Call
    <3> QED BY <1>c, <2>1, <2>2, <2>4, <3>1, <3>2, <3>3, <3>4
            DEF PumpInv, Early, Resting, Later, AfterLoop, PumpCall, Call
  <2> QED BY <2>3, <2>4
<1>7. CASE PumpEnd
  <2>1. /\ pc[Pump] = "idle" /\ pc'[Pump] = "ended" /\ events = <<>> /\ queueClosed
        /\ UNCHANGED <<events, queueClosed, mpc>>
        /\ Made' = Made /\ Held' = Held /\ executed' = executed /\ dropped' = dropped
    BY <1>7, <1>t, <1>m, Effects DEF PumpEnd, GoTo
  <2>2. ~First /\ ~Last /\ ~First' /\ ~Last' /\ mpc \in {"exited", "crashed"}
    BY <2>1, <1>e DEF First, Last, PumpInv
  <2>3. \A e : ~Busy(e) /\ ~Busy(e)'
    BY <2>1 DEF Busy
  <2> QED BY <2>1, <2>2, <2>3 DEF PumpInv, Early, Resting, Later, AfterLoop, PumpCall, Call
<1>8. CASE StartRun \/ Drain \/ RunFunc \/ SetDrained \/ FinalDrain \/ FinishFunc
  <2>1. UNCHANGED <<pc, cur, events, queueClosed>>
    BY <1>8 DEF StartRun, Drain, RunFunc, SetDrained, FinalDrain, FinishFunc
  <2>2. PumpsOn
    <3>1. CASE Drain
      BY <3>1, <1>t DEF Drain, AfterDrain, PumpsOn, Early, Resting
    <3>2. CASE StartRun \/ RunFunc \/ SetDrained
      BY <3>2 DEF StartRun, RunFunc, SetDrained, PumpsOn, Early, Resting, Ending
    <3>3. CASE FinalDrain \/ FinishFunc
      BY <3>3 DEF FinalDrain, FinishFunc, AfterFinish, PumpsOn, Ending
    <3> QED BY <1>8, <3>1, <3>2, <3>3
  <2> QED BY <1>8, <1>m, <2>1, <2>2, Effects, PumpLeftAlone
<1>9. CASE Signal
  <2>1. /\ cur' = cur /\ UNCHANGED <<events, queueClosed>> /\ Made' = Made /\ Held' = Held
        /\ executed' = executed /\ dropped' = dropped
    BY <1>9, <1>m, Effects DEF Signal
  <2>2. PumpsOn
    BY <1>9, <1>t DEF Signal, NextFunc, PumpsOn, Early, Ending, Resting
  <2>3. PICK g \in Threads : pc[g] = "wait" /\ g = serving.by /\ GoTo(g, "idle")
    BY <1>9 DEF Signal, Receives
  <2>4. CASE g # Pump
    <3>1. pc'[Pump] = pc[Pump]
      BY <2>3, <2>4, <1>t DEF GoTo
    <3> QED BY <2>1, <2>2, <3>1, PumpLeftAlone
  <2>5. CASE g = Pump
    <3>1. mpc = "release" /\ serving \in dropped
      BY <1>9, <2>3, <2>5 DEF Signal, PumpInv, WaitInv
    <3>2. Busy(Stopped) /\ ~Busy(Flush)
      BY <2>3, <2>5 DEF PumpInv, Busy
    <3>3. PumpCall(Stopped) \in dropped
      <4>1. serving \in InHand /\ serving.wait
        BY <3>1 DEF InHand, WaitInv
      <4>2. cur[Pump] = serving
        BY <4>1, <2>3, <2>5 DEF WaitInv
      <4> QED BY <3>1, <3>2, <4>2 DEF Busy
    <3>4. ~First /\ ~Last
      BY <2>3, <2>5, <3>1 DEF PumpInv
    <3>5. mpc' \in {"sddrain", "finish"} /\ pc'[Pump] = "idle"
      BY <1>9, <2>3, <2>5, <3>1, <1>t DEF Signal, NextFunc, GoTo
    <3>6. ~First' /\ ~Last' /\ ~Busy(Stopped)' /\ ~Busy(Flush)'
      BY <2>1, <3>4, <3>5 DEF First, Last, Busy
    <3> QED BY <2>1, <3>1, <3>3, <3>4, <3>5, <3>6
            DEF PumpInv, Early, Resting, Later, AfterLoop, PumpCall, Call
  <2> QED BY <2>4, <2>5
<1>10. CASE QueueStopped
  <2>1. /\ UNCHANGED <<pc, cur, queueClosed>> /\ Made' = Made /\ Held' = Held
        /\ executed' = executed /\ dropped' = dropped
        /\ mpc = "sdstopped" /\ mpc' = "sddrained" /\ events' = Append(events, Stopped)
    BY <1>10, <1>m, Effects DEF QueueStopped, QueueEvent
  <2>2. events = <<>> /\ pc[Pump] = "idle" /\ PumpCall(Stopped) \notin Made
    BY <2>1 DEF PumpInv, Resting
  <2>3. First' /\ ~Last' /\ ~Busy(Stopped)' /\ ~Busy(Flush)'
    BY <2>1, <2>2, <1>e DEF First, Last, Busy
  <2> QED BY <2>1, <2>2, <2>3 DEF PumpInv, Early, Resting, Later, AfterLoop, PumpCall, Call
<1>11. CASE QueueFlush
  <2>1. /\ UNCHANGED <<pc, cur, queueClosed>> /\ Made' = Made /\ Held' = Held
        /\ executed' = executed /\ dropped' = dropped
        /\ mpc = "flush" /\ mpc' = "flushwait" /\ events' = Append(events, Flush)
    BY <1>11, <1>m, Effects DEF QueueFlush, QueueEvent
  <2>2. ~Last /\ ~Busy(Flush) /\ PumpCall(Flush) \notin Made
    BY <2>1 DEF PumpInv
  <2>3. Last' /\ (First' <=> First) /\ (events' = <<>> \/ First' \/ Last')
    BY <2>1, <2>2, <1>e DEF PumpInv, First, Last
  <2>4. (Busy(Stopped)' <=> Busy(Stopped)) /\ ~Busy(Flush)'
    BY <2>1, <2>2 DEF Busy, PumpCall, Call
  <2> QED BY <2>1, <2>2, <2>3, <2>4 DEF PumpInv, Early, Resting, Later, AfterLoop, PumpCall, Call
<1>12. CASE Flushed
  <2>1. /\ UNCHANGED <<cur, queueClosed, events>> /\ mpc = "flushwait" /\ mpc' = "destroy"
        /\ pc[Pump] = "inline" /\ pc'[Pump] = "idle" /\ cur[Pump] = PumpCall(Flush)
    BY <1>12, <1>t DEF Flushed, GoTo, PumpCall
  <2>2. Busy(Flush) /\ ~Busy(Stopped) /\ events = <<>>
    BY <2>1, <1>c DEF PumpInv, Busy
  <2>3. ~First' /\ ~Last' /\ ~First /\ ~Busy(Stopped)' /\ ~Busy(Flush)'
    BY <2>1, <2>2, <1>e DEF First, Last, Busy
  <2>4. /\ Held' = Held /\ executed \subseteq executed' /\ dropped' = dropped
    BY <1>12, Effects, MadeAfter DEF RunsAtOnce
  <2> QED BY <2>1, <2>2, <2>3, <2>4 DEF PumpInv, Early, Resting, Later, AfterLoop, PumpCall, Call
<1>13. CASE DestroyEventQueue
  <2>1. /\ UNCHANGED <<pc, cur, events>> /\ queueClosed' /\ mpc = "destroy" /\ mpc' = "exited"
        /\ Made' = Made /\ Held' = Held /\ executed' = executed /\ dropped' = dropped
    BY <1>13, <1>m, Effects DEF DestroyEventQueue
  <2>2. events = <<>> /\ pc[Pump] \in {"idle", "ended"}
    BY <2>1 DEF PumpInv
  <2>3. ~First /\ ~Last /\ ~First' /\ ~Last' /\ \A e : ~Busy(e) /\ ~Busy(e)'
    BY <2>1, <2>2, <1>e DEF First, Last, Busy
  <2> QED BY <2>1, <2>2, <2>3 DEF PumpInv, Early, Resting, Later, AfterLoop, PumpCall, Call
<1> QED
  <2>1. mpc = "crashed" => Calm
    BY DEF Next, Alive, vars, Calm, Still
  <2>2. mpc = "setup" => ~running
    BY DEF QuitInv
  <2> QED BY <1>1, <1>2, <1>3, <1>4, <1>5, <1>6, <1>7, <1>8, <1>9, <1>10, <1>11, <1>12, <1>13,
             <2>1, <2>2, StepKinds

(* The inductive invariant. *)
ExecInv == LoopInv /\ QuitInv /\ CallInv /\ PumpInv

LEMMA InitExecInv == Init => ExecInv
<1> SUFFICES ASSUME Init PROVE QuitInv /\ CallInv /\ PumpInv
  BY InitLoopInv DEF ExecInv
<1>1. Line = <<>> /\ Held = {} /\ Made = {} /\ InHand = {}
  <2>1. Line = <<>>
    BY DEF Init, Line
  <2>2. Held = {}
    BY <2>1 DEF Held, InSeq
  <2> QED BY <2>1, <2>2 DEF Init, Made, InHand
<1>2. pc[Pump] = "idle" /\ \A g \in Threads : pc[g] = "idle"
  BY DEF Init, Threads
<1>3. QuitInv
  BY <1>2 DEF Init, QuitInv, Stopping, ShutdownPlaces, AfterLoop
<1>4. CallInv
  <2>1. Distinct(Line)
    BY <1>1 DEF Distinct
  <2> QED BY <1>1, <1>2, <2>1 DEF Init, CallInv, NewInv, LineInv, WaitInv
<1>5. PumpInv
  <2>1. ~First /\ ~Last /\ \A e : ~Busy(e)
    BY <1>2 DEF Init, First, Last, Busy
  <2> QED BY <1>1, <1>2, <2>1 DEF Init, PumpInv, Later, AfterLoop
<1> QED BY <1>3, <1>4, <1>5

LEMMA ExecInvStep == ExecInv /\ [Next]_vars => ExecInv'
BY LoopInvStep, QuitKept, NewKept, LineKept, WaitKept, PumpKept DEF ExecInv, CallInv

(* Every step of the loop is one of the executor's, or none. *)
LEMMA ExecutorStep ==
  ASSUME ExecInv, [Next]_vars
  PROVE  [Executor!Next]_(Executor!vars)
<1>1. Line = batch \o pending /\ Line' = batch' \o pending' /\ Line \in Seq(CallSet)
  BY LineIsCalls DEF Line, ExecInv
<1>2. /\ Executor!Made = Made /\ Executor!Queued = Held
      /\ Quitting = (mpc # "setup" /\ ~running) /\ Quitting' = (mpc' # "setup" /\ ~running')
  BY <1>1 DEF Executor!Made, Executor!Queued, Made, Held, InSeq, Quitting
<1>3. CASE LeavesLine /\ returned' = returned /\ (Quitting => Quitting')
  BY <1>1, <1>2, <1>3 DEF LeavesLine, Executor!vars, Executor!Next, Executor!Quit, Quitting
<1>4. CASE LeavesLine /\ Signal /\ Quitting' = Quitting
  <2>1. serving \in (executed \cup dropped) \ returned /\ returned' = returned \cup {serving}
    BY <1>4 DEF Signal, ExecInv, CallInv, WaitInv, InHand
  <2>2. serving \in CallSet
    BY DEF ExecInv, LoopInv, TypeOK, DataTypes
  <2> QED BY <1>1, <1>2, <1>4, <2>1, <2>2
          DEF LeavesLine, Executor!Next, Executor!Return, Quitting
<1>5. ASSUME returned' = returned, Quitting' = Quitting, NEW c \in CallSet \ Made,
             Queues(c) \/ (Quitting /\ RunsAtOnce(c))
      PROVE  Executor!Next
  BY <1>1, <1>2, <1>5
     DEF Queues, RunsAtOnce, Executor!Next, Executor!Submit, Executor!ExecuteInline, Quitting
<1>6. ASSUME returned' = returned, Quitting' = Quitting, RunsHead \/ (Quitting /\ DropsHead)
      PROVE  Executor!Next
  BY <1>1, <1>2, <1>6
     DEF RunsHead, DropsHead, Executor!Next, Executor!ExecuteNext, Executor!DropNext, Quitting
<1> QED BY <1>3, <1>4, <1>5, <1>6, StepEffects DEF ExecInv, CallInv

(* ImplementsExecutor: the loop, its queue, the wake-ups and the shutdown, *)
(* with any number of goroutines, do no more than a queue whose calls are  *)
(* executed in order and at most once, and whose waiters are released by   *)
(* their own call; calls are dropped, or run by their makers, only once    *)
(* the application quits.                                                  *)
THEOREM LoopIsExecutor == Spec => ImplementsExecutor
<1>1. Init => Executor!Init
  <2>1. <<>> \o <<>> = <<>>
    OBVIOUS
  <2> QED BY <2>1 DEF Init, Executor!Init
<1>2. ExecInv /\ [Next]_vars => [Executor!Next]_(Executor!vars)
  BY ExecutorStep
<1> QED BY <1>1, <1>2, InitExecInv, ExecInvStep, PTL DEF Spec, ImplementsExecutor, Executor!Spec

(* WaiterReleasedByItsCall: a caller of DoAndWait goes on only when its own *)
(* function was called, or, once the queue is shut, discarded; the done     *)
(* channels, which are pooled and reused, are never mixed up.               *)
THEOREM WaitersMeetTheirCall == Spec => WaiterReleasedByItsCall
<1> DEFINE Released == \A g \in Threads : pc[g] = "wait" /\ pc'[g] = "idle" =>
                         cur[g] \in executed \/ (drained /\ cur[g] \in dropped)
<1>1. ASSUME ExecInv, [Next]_vars PROVE [Released]_vars
  <2> USE <1>1 DEF ExecInv, goVars, locals, allButGo, allButPlace
  <2>t. pc \in [Threads -> GoroutinePlaces] /\ Pump \in Threads /\ Workers \subseteq Threads
    BY DEF LoopInv, TypeOK, GoTypes, Threads
  <2>1. ASSUME Calm \/ DoesMore PROVE Released
    BY <2>1 DEF Calm, DoesMore, Still
  <2>2. ASSUME NEW h \in Threads, GoroutineStep(h) PROVE Released
    BY <2>2, <2>t
       DEF GoroutineStep, CheckDrained, Push, LoadReady, PostEmptyEvent, RunInline, QuitClose, GoTo
  <2>3. ASSUME NEW h \in Workers, DoFromGoroutine(h) \/ BeginsOther(h) PROVE Released
    BY <2>3, <2>t DEF DoFromGoroutine, BeginsOther, Begin, GoTo
  <2>4. ASSUME PumpTake \/ PumpEnd \/ Flushed PROVE Released
    BY <2>4, <2>t DEF PumpTake, PumpEnd, Flushed, GoTo
  <2>5. ASSUME \/ StartRun \/ Drain \/ RunFunc \/ QueueStopped \/ SetDrained \/ FinalDrain
               \/ FinishFunc \/ QueueFlush \/ DestroyEventQueue
        PROVE  Released
    BY <2>5 DEF StartRun, Drain, RunFunc, QueueStopped, SetDrained, FinalDrain, FinishFunc,
       QueueFlush, DestroyEventQueue
  <2>6. ASSUME Signal PROVE Released
    <3>1. serving \in InHand /\ serving.wait /\ (mpc = "release" => drained)
      BY <2>6 DEF Signal, InHand, CallInv, WaitInv, LoopInv, FlagsOK
    <3>2. cur[serving.by] = serving
      BY <3>1 DEF CallInv, WaitInv
    <3>3. \A g \in Threads : pc[g] = "wait" /\ pc'[g] = "idle" => g = serving.by
      BY <2>6, <2>t DEF Signal, Receives, GoTo
    <3> QED BY <2>6, <3>1, <3>2, <3>3 DEF Signal, CallInv, WaitInv
  <2>7. mpc = "setup" => ~running
    BY DEF QuitInv
  <2> HIDE DEF Released
  <2> QED BY <2>1, <2>2, <2>3, <2>4, <2>5, <2>6, <2>7, StepKinds
<1> QED BY <1>1, InitExecInv, ExecInvStep, PTL DEF Spec, WaiterReleasedByItsCall

(* EventsFlushed: main leaves WaitForEvents only when the stopped event was *)
(* taken and dealt with, and never meets the flush event in its own queue,  *)
(* where it would wait for itself.                                          *)
THEOREM StoppedIsFlushed == Spec => []EventsFlushed
<1>1. ASSUME ExecInv PROVE EventsFlushed
  <2>1. mpc \in {"destroy", "exited"} =>
          events = <<>> /\ pc[Pump] \in {"idle", "ended"} /\ ~First
    BY <1>1 DEF ExecInv, PumpInv, First
  <2>2. mpc \in {"destroy", "exited"} =>
          PumpCall(Stopped) \in executed \cup dropped
    BY <1>1, <2>1 DEF ExecInv, PumpInv, Busy, Later, AfterLoop
  <2>3. InSeq(pending) \cup InSeq(batch) \subseteq Held
    <3>1. pending \in Seq(CallSet) /\ batch \in Seq(CallSet)
      BY <1>1 DEF ExecInv, LoopInv, TypeOK, DataTypes
    <3>2. \A i \in DOMAIN batch : i \in DOMAIN Line /\ Line[i] = batch[i]
      BY <3>1 DEF Line
    <3>3. \A i \in DOMAIN pending : Len(batch) + i \in DOMAIN Line
                                    /\ Line[Len(batch) + i] = pending[i]
      BY <3>1 DEF Line
    <3> QED BY <3>2, <3>3 DEF Held, InSeq
  <2> QED BY <1>1, <2>1, <2>2, <2>3 DEF ExecInv, PumpInv, PumpCall, EventsFlushed
<1> QED BY <1>1, InitExecInv, ExecInvStep, PTL DEF Spec

=============================================================================
