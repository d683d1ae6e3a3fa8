------------------------ MODULE WaylandOutputsProofs ------------------------
(***************************************************************************)
(* That no window keeps a monitor that is gone, that fullscreen follows    *)
(* the outputs, and that client and compositor come to agree on the        *)
(* outputs that a window is on and on its scale, for any number of windows *)
(* and outputs.                                                            *)
(***************************************************************************)
EXTENDS WaylandOutputs, FiniteSetTheorems, SequenceTheorems, WellFoundedInduction, TLAPS

Events ==
  [type : {"global", "done", "remove"}, output : Outputs]
  \cup [type : {"enter", "leave"}, window : Windows, output : Outputs]
  \cup [type : {"scale"}, output : Outputs, scale : Scales]

(* A window that the compositor placed has a monitor, and one that has a   *)
(* monitor was asked to be fullscreen.                                     *)
AskedFor ==
  \A w \in Windows : /\ currentOutput[w] => monitor[w] # None
                     /\ monitor[w] # None => wanted[w] # "window"

OutputsInv == /\ TypeOK /\ events \in Seq(Events)
              /\ NoneDangling /\ RecordedWhereShown /\ AskedFor

-----------------------------------------------------------------------------
(* The helpers. *)

(* A set of windows in some order is a sequence of events about them.      *)
LEMMA ForAllIsEvents ==
  ASSUME NEW type \in {"enter", "leave"}, NEW ws \in SUBSET Windows, NEW o \in Outputs
  PROVE  ForAll(type, ws, o) \in Seq(Events)
<1> DEFINE n == Cardinality(ws)
           s == SetToSeq(ws)
<1>1. IsFiniteSet(ws)
  BY OutputsAssumption, FS_Subset DEF OutputsAssumption
<1>2. n \in Nat /\ ExistsBijection(1 .. n, ws)
  BY <1>1, FS_CardinalityType, FS_NatBijection, FS_CountingElements
<1>3. \E f \in [1 .. n -> ws] : IsInjective(f)
  BY <1>2 DEF ExistsBijection, Bijection, Injection, IsInjective
<1>4. s \in [1 .. n -> ws]
  BY <1>3 DEF SetToSeq
<1>5. \A i \in 1 .. n : s[i] \in Windows
  BY <1>4
<1>6. ForAll(type, ws, o) = [i \in 1 .. n |-> Surface(type, s[i], o)]
  BY <1>4 DEF ForAll
<1>7. \A w \in Windows : Surface(type, w, o) \in Events
  BY DEF Surface, Events
<1> HIDE DEF s, n
<1>8. [i \in 1 .. n |-> Surface(type, s[i], o)] \in Seq(Events)
  BY <1>2, <1>5, <1>7
<1> QED BY <1>6, <1>8

LEMMA ConcatThree ==
  ASSUME NEW s \in Seq(Events), NEW t \in Seq(Events), NEW u \in Seq(Events)
  PROVE  s \o t \o u \in Seq(Events)
<1>1. s \o t \in Seq(Events)
  OBVIOUS
<1> QED BY <1>1

LEMMA ReconciledStays ==
  ASSUME NEW m \in Outputs \cup {None}, NEW c \in BOOLEAN, NEW ms \in SUBSET Outputs,
         NEW f \in [Outputs -> Scales \cup {0}]
  PROVE  /\ Reconciled(m, c, f, ms) \in {m} \cup ms
         /\ Reconciled(m, c, f, ms) = None <=> m = None
         /\ \A o \in ms : m # None /\ c /\ Entered(f) = {o} => Reconciled(m, c, f, ms) = o
<1>1. None \notin ms
  BY OutputsAssumption DEF OutputsAssumption
<1>2. ForEntered(f, ms) \subseteq ms
  BY DEF ForEntered
<1>3. \A o \in ms : Entered(f) = {o} => ForEntered(f, ms) = {o}
  BY DEF ForEntered
<1> QED BY <1>1, <1>2, <1>3 DEF Reconciled

(* The output that is left, or left out, is no longer among the entered.   *)
LEMMA LeftEntered ==
  ASSUME NEW f \in [Outputs -> Scales \cup {0}], NEW o \in Outputs
  PROVE  /\ Left(f, o) \in [Outputs -> Scales \cup {0}]
         /\ Entered(Left(f, o)) = Entered(f) \ {o}
         /\ \A s \in Scales : /\ [f EXCEPT ![o] = s] \in [Outputs -> Scales \cup {0}]
                              /\ Entered([f EXCEPT ![o] = s]) = Entered(f) \cup {o}
BY OutputsAssumption DEF Left, Entered, OutputsAssumption

-----------------------------------------------------------------------------
(* The steps. *)

LEMMA InitOutputsInv == Init => OutputsInv
<1> SUFFICES ASSUME Init PROVE OutputsInv
  OBVIOUS
<1>1. TypeOK
  BY OutputsAssumption DEF Init, TypeOK, OutputsAssumption
<1>2. events \in Seq(Events)
  BY DEF Init
<1> QED BY <1>1, <1>2 DEF Init, OutputsInv, NoneDangling, RecordedWhereShown, AskedFor, Entered

(* Setting the factors of a window keeps the records that depend on them.  *)
LEMMA SetFactorsKeeps ==
  ASSUME OutputsInv, NEW w \in Windows, NEW f \in [Outputs -> Scales \cup {0}],
         Entered(f) \subseteq bound, SetFactors(w, f, monitors),
         UNCHANGED <<bound, monitors, scale, currentOutput, wanted, compositor, binds>>
  PROVE  TypeOK' /\ NoneDangling' /\ RecordedWhereShown' /\ AskedFor'
<1> DEFINE m(v) == IF v = w THEN Reconciled(monitor[w], currentOutput[w], f, monitors)
                   ELSE monitor[v]
           g(v) == IF v = w THEN f ELSE factor[v]
<1>1. /\ monitor \in [Windows -> Outputs \cup {None}] /\ currentOutput \in [Windows -> BOOLEAN]
      /\ factor \in [Windows -> [Outputs -> Scales \cup {0}]]
      /\ monitors \subseteq Outputs /\ bound \subseteq Outputs
  BY DEF OutputsInv, TypeOK
<1>2. /\ m(w) \in {monitor[w]} \cup monitors
      /\ m(w) = None <=> monitor[w] = None
      /\ \A o \in monitors : monitor[w] # None /\ currentOutput[w] /\ Entered(f) = {o} => m(w) = o
  <2>1. monitor[w] \in Outputs \cup {None} /\ currentOutput[w] \in BOOLEAN /\ monitors \in SUBSET Outputs
    BY <1>1
  <2>2. m(w) = Reconciled(monitor[w], currentOutput[w], f, monitors)
    OBVIOUS
  <2> HIDE DEF m
  <2> QED BY <2>1, <2>2, ReconciledStays
<1>3. \A v \in Windows : monitor'[v] = m(v) /\ factor'[v] = g(v)
  BY <1>1 DEF SetFactors
<1>4. TypeOK'
  <2>1. monitor' \in [Windows -> Outputs \cup {None}]
    BY <1>1, <1>2 DEF SetFactors
  <2>2. factor' \in [Windows -> [Outputs -> Scales \cup {0}]]
    BY <1>1 DEF SetFactors
  <2> QED BY <2>1, <2>2 DEF OutputsInv, TypeOK, compositor
<1> HIDE DEF m
<1>5. NoneDangling'
  BY <1>2, <1>3 DEF OutputsInv, NoneDangling, Entered, m
<1>6. AskedFor'
  BY <1>2, <1>3 DEF OutputsInv, AskedFor, m
<1>7. RecordedWhereShown'
  <2> SUFFICES ASSUME NEW v \in Windows, NEW o \in monitors,
                      currentOutput[v], Entered(g(v)) = {o}
               PROVE  m(v) = o
    BY <1>3 DEF RecordedWhereShown, Entered
  <2>1. monitor[v] # None
    BY DEF OutputsInv, AskedFor
  <2>2. CASE v = w
    BY <1>2, <2>1, <2>2
  <2>3. CASE v # w
    BY <2>3 DEF m, OutputsInv, RecordedWhereShown
  <2> QED BY <2>2, <2>3
<1> QED BY <1>4, <1>5, <1>6, <1>7

(* A monitor goes: what the windows were on is recorded anew. *)
LEMMA RemoveKeeps ==
  ASSUME OutputsInv, NEW o \in monitors, HandleGlobalRemove(o), UNCHANGED compositor
  PROVE  /\ TypeOK' /\ NoneDangling' /\ RecordedWhereShown' /\ AskedFor'
         /\ \A w \in Windows : /\ currentOutput[w] /\ monitors' # {} => currentOutput'[w]
                               /\ currentOutput'[w] => monitor'[w] # None
                               /\ monitor'[w] # None <=> wanted'[w] # "window"
<1> DEFINE f(w) == Removed(factor[w], o)
           placed(w) == Reconciled(monitor[w], currentOutput[w], f(w), monitors)
<1>1. /\ monitor \in [Windows -> Outputs \cup {None}] /\ currentOutput \in [Windows -> BOOLEAN]
      /\ factor \in [Windows -> [Outputs -> Scales \cup {0}]]
      /\ monitors \subseteq Outputs /\ bound \subseteq Outputs /\ o \in Outputs
      /\ monitors \subseteq bound /\ None \notin Outputs
  BY OutputsAssumption DEF OutputsInv, TypeOK, OutputsAssumption
<1>2. PICK spare \in Spare(o) :
        LET moved(w) == IF placed(w) = o /\ currentOutput[w] /\ spare # None THEN spare ELSE placed(w)
            forced(w) == moved(w) = o
        IN  /\ factor' = [w \in Windows |-> f(w)]
            /\ monitor' = [w \in Windows |-> IF forced(w) THEN None ELSE moved(w)]
            /\ currentOutput' = [w \in Windows |-> currentOutput[w] /\ ~forced(w)]
            /\ wanted' = [w \in Windows |-> IF monitor'[w] = None THEN "window" ELSE wanted[w]]
            /\ monitors' = Listed(monitors, o)
            /\ bound' = bound \ {o}
  BY DEF HandleGlobalRemove
<1> DEFINE moved(w) == IF placed(w) = o /\ currentOutput[w] /\ spare # None THEN spare ELSE placed(w)
<1>3. /\ spare \in (monitors \ {o}) \cup {None}
      /\ spare = None => monitors = {o}
  BY <1>1, <1>2 DEF Spare
<1>4. \A w \in Windows : f(w) \in [Outputs -> Scales \cup {0}]
                         /\ Entered(f(w)) = Entered(factor[w]) \ {o}
  BY <1>1, LeftEntered DEF Removed
<1>5. \A w \in Windows :
         /\ placed(w) \in {monitor[w]} \cup monitors
         /\ placed(w) = None <=> monitor[w] = None
         /\ \A p \in monitors : monitor[w] # None /\ currentOutput[w] /\ Entered(f(w)) = {p}
               => placed(w) = p
  BY <1>1, <1>4, ReconciledStays
<1>6. \A w \in Windows : monitor[w] \in monitors \cup {None}
                         /\ (currentOutput[w] => monitor[w] # None)
                         /\ (monitor[w] # None => wanted[w] # "window")
  BY DEF OutputsInv, NoneDangling, AskedFor
<1> HIDE DEF placed, f
<1>7. \A w \in Windows :
         /\ moved(w) \in monitors \cup {None}
         /\ moved(w) = None <=> monitor[w] = None
         /\ moved(w) = o /\ currentOutput[w] => monitors = {o}
  BY <1>1, <1>3, <1>5, <1>6
<1>8. \A w \in Windows :
         /\ factor'[w] = f(w)
         /\ monitor'[w] = IF moved(w) = o THEN None ELSE moved(w)
         /\ currentOutput'[w] = (currentOutput[w] /\ moved(w) # o)
         /\ wanted'[w] = IF monitor'[w] = None THEN "window" ELSE wanted[w]
  BY <1>2
<1>9. /\ monitors' = monitors \ {o} /\ bound' = bound \ {o}
      /\ UNCHANGED <<scale, binds, compositor>>
  BY <1>2 DEF Listed, HandleGlobalRemove
<1> HIDE DEF moved
<1>10. TypeOK'
  <2>1. monitor' \in [Windows -> Outputs \cup {None}]
    BY <1>1, <1>2, <1>7 DEF moved
  <2>2. factor' \in [Windows -> [Outputs -> Scales \cup {0}]]
    BY <1>2, <1>4
  <2>3. currentOutput' \in [Windows -> BOOLEAN]
    BY <1>2
  <2>4. wanted' \in [Windows -> {"window", "here", "secondary"}]
    BY <1>2 DEF OutputsInv, TypeOK
  <2> QED BY <1>9, <2>1, <2>2, <2>3, <2>4 DEF OutputsInv, TypeOK, compositor
<1>11. NoneDangling'
  <2>1. \A w \in Windows : monitor'[w] \in monitors' \cup {None}
    BY <1>7, <1>8, <1>9
  <2>2. \A w \in Windows : Entered(factor[w])' \subseteq bound'
    BY <1>4, <1>8, <1>9 DEF OutputsInv, NoneDangling, Entered
  <2> QED BY <2>1, <2>2 DEF NoneDangling
<1>12. \A w \in Windows : currentOutput'[w] => monitor'[w] # None
  BY <1>6, <1>7, <1>8
<1>13. \A w \in Windows : monitor'[w] # None <=> wanted'[w] # "window"
  BY <1>6, <1>7, <1>8
<1>14. RecordedWhereShown'
  <2> SUFFICES ASSUME NEW w \in Windows, NEW p \in monitors', currentOutput'[w],
                      Entered(factor[w])' = {p}
               PROVE  monitor'[w] = p
    BY DEF RecordedWhereShown
  <2>1. p \in monitors /\ p # o /\ currentOutput[w] /\ moved(w) # o /\ Entered(f(w)) = {p}
    BY <1>8, <1>9 DEF Entered
  <2>2. placed(w) = p
    BY <1>5, <1>6, <2>1
  <2> QED BY <1>8, <2>1, <2>2 DEF moved
<1>15. \A w \in Windows : currentOutput[w] /\ monitors' # {} => currentOutput'[w]
  BY <1>7, <1>8, <1>9
<1>16. AskedFor'
  BY <1>12, <1>13 DEF AskedFor
<1> QED BY <1>10, <1>11, <1>12, <1>13, <1>14, <1>15, <1>16

LEMMA DispatchKeeps ==
  ASSUME OutputsInv, Dispatch
  PROVE  OutputsInv'
<1> DEFINE e == Head(events)
<1>1. events # <<>> /\ e \in Events /\ events' \in Seq(Events)
  BY HeadTailProperties DEF Dispatch, OutputsInv
<1>2. /\ e.type \in {"global", "done", "scale", "enter", "leave", "remove"}
      /\ e.output \in Outputs
      /\ e.type = "scale" => e.scale \in Scales
      /\ e.type \in {"enter", "leave"} => e.window \in Windows
  BY <1>1 DEF Events
<1>3. /\ monitor \in [Windows -> Outputs \cup {None}] /\ currentOutput \in [Windows -> BOOLEAN]
      /\ factor \in [Windows -> [Outputs -> Scales \cup {0}]] /\ scale \in [Outputs -> Scales]
      /\ monitors \subseteq Outputs /\ bound \subseteq Outputs
  BY DEF OutputsInv, TypeOK
<1> HIDE DEF e
<1> SUFFICES TypeOK' /\ NoneDangling' /\ RecordedWhereShown' /\ AskedFor'
  BY <1>1 DEF OutputsInv
<1>4. CASE e.type = "global" /\ HandleGlobal(e.output)
  <2>1. TypeOK'
    BY <1>2, <1>4, OutputsAssumption
    DEF Dispatch, HandleGlobal, OutputsInv, TypeOK, compositor, OutputsAssumption
  <2> QED BY <2>1, <1>4
    DEF Dispatch, HandleGlobal, OutputsInv, NoneDangling, RecordedWhereShown, AskedFor, Entered
<1>5. CASE e.type = "done" /\ HandleDone(e.output)
  <2>1. CASE e.output \notin bound \ monitors
    BY <1>5, <2>1 DEF Dispatch, HandleDone, OutputsInv, TypeOK, compositor, NoneDangling,
                      RecordedWhereShown, AskedFor, Entered
  <2>2. CASE e.output \in bound \ monitors
    <3> DEFINE m(v) == Reconciled(monitor[v], currentOutput[v], factor[v], monitors')
    <3>1. monitors' = monitors \cup {e.output} /\ monitor' = [v \in Windows |-> m(v)]
      BY <1>5, <2>2 DEF HandleDone
    <3>2. UNCHANGED <<bound, scale, currentOutput, factor, wanted, binds, compositor>>
      BY <1>5 DEF HandleDone, Dispatch
    <3>3. monitors' \in SUBSET Outputs
      BY <1>2, <1>3, <3>1
    <3>4. \A v \in Windows :
             /\ m(v) \in {monitor[v]} \cup monitors'
             /\ m(v) = None <=> monitor[v] = None
             /\ \A o \in monitors' : monitor[v] # None /\ currentOutput[v] /\ Entered(factor[v]) = {o}
                   => m(v) = o
      <4> SUFFICES ASSUME NEW v \in Windows
                   PROVE  /\ m(v) \in {monitor[v]} \cup monitors'
                          /\ m(v) = None <=> monitor[v] = None
                          /\ \A o \in monitors' : monitor[v] # None /\ currentOutput[v]
                                /\ Entered(factor[v]) = {o} => m(v) = o
        OBVIOUS
      <4>1. /\ monitor[v] \in Outputs \cup {None} /\ currentOutput[v] \in BOOLEAN
            /\ factor[v] \in [Outputs -> Scales \cup {0}]
        BY <1>3
      <4>2. m(v) = Reconciled(monitor[v], currentOutput[v], factor[v], monitors')
        OBVIOUS
      <4> HIDE DEF m
      <4> QED BY <3>3, <4>1, <4>2, ReconciledStays
    <3> HIDE DEF m
    <3>5. TypeOK'
      BY <1>3, <3>1, <3>2, <3>3, <3>4, <2>2 DEF OutputsInv, TypeOK, compositor
    <3>6. NoneDangling' /\ AskedFor'
      BY <3>1, <3>2, <3>4 DEF OutputsInv, NoneDangling, AskedFor, Entered
    <3>7. RecordedWhereShown'
      BY <3>1, <3>2, <3>4 DEF OutputsInv, RecordedWhereShown, AskedFor, Entered
    <3> QED BY <3>5, <3>6, <3>7
  <2> QED BY <2>1, <2>2
<1>6. CASE e.type = "scale" /\ HandleScale(e.output, e.scale)
  <2>1. CASE e.output \notin bound
    <3>1. UNCHANGED <<bound, monitors, scale, monitor, currentOutput, factor, wanted, binds, compositor>>
      BY <1>6, <2>1 DEF HandleScale, Dispatch
    <3> QED BY <3>1 DEF OutputsInv, TypeOK, compositor, NoneDangling,
                        RecordedWhereShown, AskedFor, Entered
  <2>2. CASE e.output \in bound
    <3> DEFINE o == e.output
               f(w) == IF factor[w][o] # 0 THEN [factor[w] EXCEPT ![o] = e.scale] ELSE factor[w]
    <3>1. scale' = [scale EXCEPT ![o] = e.scale] /\ factor' = [w \in Windows |-> f(w)]
      BY <1>6, <2>2 DEF HandleScale
    <3>2. UNCHANGED <<bound, monitors, monitor, currentOutput, wanted, binds, compositor>>
      BY <1>6 DEF HandleScale, Dispatch
    <3>3. \A w \in Windows : f(w) \in [Outputs -> Scales \cup {0}]
                             /\ Entered(f(w)) = Entered(factor[w])
      BY <1>2, <1>3, <1>6, LeftEntered DEF Entered
    <3>4. TypeOK'
      BY <1>2, <1>3, <1>6, <3>1, <3>2, <3>3 DEF OutputsInv, TypeOK, compositor
    <3>5. \A w \in Windows : Entered(factor[w])' = Entered(factor[w])
      BY <3>1, <3>3 DEF Entered
    <3> QED BY <3>2, <3>4, <3>5 DEF OutputsInv, NoneDangling, RecordedWhereShown, AskedFor
  <2> QED BY <2>1, <2>2
<1>7. CASE e.type = "enter" /\ HandleEnter(e.window, e.output)
  <2>1. CASE e.output \notin bound
    <3>1. UNCHANGED <<bound, monitors, scale, monitor, currentOutput, factor, wanted, binds, compositor>>
      BY <1>7, <2>1 DEF HandleEnter, Dispatch
    <3> QED BY <3>1 DEF OutputsInv, TypeOK, compositor, NoneDangling,
                        RecordedWhereShown, AskedFor, Entered
  <2>2. CASE e.output \in bound
    <3> DEFINE f == [factor[e.window] EXCEPT ![e.output] = scale[e.output]]
    <3>1. f \in [Outputs -> Scales \cup {0}] /\ Entered(f) \subseteq bound
      <4>1. scale[e.output] \in Scales /\ factor[e.window] \in [Outputs -> Scales \cup {0}]
        BY <1>2, <1>3, <1>7
      <4>2. Entered(factor[e.window]) \subseteq bound
        BY <1>2, <1>7 DEF OutputsInv, NoneDangling
      <4>3. /\ f \in [Outputs -> Scales \cup {0}]
            /\ Entered(f) = Entered(factor[e.window]) \cup {e.output}
        BY <1>2, <4>1, LeftEntered
      <4> QED BY <2>2, <4>2, <4>3
    <3>2. SetFactors(e.window, f, monitors)
      BY <1>7, <2>2 DEF HandleEnter
    <3> QED BY <1>2, <1>7, <3>1, <3>2, SetFactorsKeeps DEF HandleEnter, Dispatch
  <2> QED BY <2>1, <2>2
<1>8. CASE e.type = "leave" /\ HandleLeave(e.window, e.output)
  <2>1. CASE e.output \notin bound
    <3>1. UNCHANGED <<bound, monitors, scale, monitor, currentOutput, factor, wanted, binds, compositor>>
      BY <1>8, <2>1 DEF HandleLeave, Dispatch
    <3> QED BY <3>1 DEF OutputsInv, TypeOK, compositor, NoneDangling,
                        RecordedWhereShown, AskedFor, Entered
  <2>2. CASE e.output \in bound
    <3> DEFINE f == Left(factor[e.window], e.output)
    <3>1. f \in [Outputs -> Scales \cup {0}] /\ Entered(f) \subseteq bound
      BY <1>2, <1>3, <1>8, LeftEntered DEF OutputsInv, NoneDangling
    <3>2. SetFactors(e.window, f, monitors)
      BY <1>8, <2>2 DEF HandleLeave
    <3> QED BY <1>2, <1>8, <3>1, <3>2, SetFactorsKeeps DEF HandleLeave, Dispatch
  <2> QED BY <2>1, <2>2
<1>9. CASE e.type = "remove" /\ HandleGlobalRemove(e.output)
  <2>1. CASE e.output \notin monitors
    <3>1. UNCHANGED <<bound, monitors, scale, monitor, currentOutput, factor, wanted, binds, compositor>>
      BY <1>9, <2>1 DEF HandleGlobalRemove, Dispatch
    <3> QED BY <3>1 DEF OutputsInv, TypeOK, compositor, NoneDangling,
                        RecordedWhereShown, AskedFor, Entered
  <2>2. CASE e.output \in monitors
    BY <1>2, <1>9, <2>2, RemoveKeeps DEF Dispatch
  <2> QED BY <2>1, <2>2
<1> QED BY <1>1, <1>2, <1>4, <1>5, <1>6, <1>7, <1>8, <1>9 DEF Dispatch, e

(* The calls of the application change the monitor of one window.          *)
LEMMA CallKeeps ==
  ASSUME OutputsInv, NEW w \in Windows, Call,
         wanted' \in [Windows -> {"window", "here", "secondary"}],
         \A v \in Windows \ {w} : wanted'[v] = wanted[v],
         NEW m \in monitors \cup {None}, NEW c \in BOOLEAN,
         monitor' = [monitor EXCEPT ![w] = m], currentOutput' = [currentOutput EXCEPT ![w] = c],
         m # None => wanted'[w] # "window",
         c => m # None /\ \A o \in monitors : Entered(factor[w]) = {o} => m = o
  PROVE  OutputsInv'
<1>1. /\ monitor \in [Windows -> Outputs \cup {None}] /\ currentOutput \in [Windows -> BOOLEAN]
      /\ monitors \subseteq Outputs
  BY DEF OutputsInv, TypeOK
<1>2. UNCHANGED <<bound, monitors, scale, factor, compositor, binds, events>>
  BY DEF Call
<1>3. \A v \in Windows : /\ monitor'[v] = IF v = w THEN m ELSE monitor[v]
                         /\ currentOutput'[v] = IF v = w THEN c ELSE currentOutput[v]
  BY <1>1
<1>4. TypeOK'
  <2>1. monitor' \in [Windows -> Outputs \cup {None}] /\ currentOutput' \in [Windows -> BOOLEAN]
    BY <1>1
  <2> QED BY <1>2, <2>1 DEF OutputsInv, TypeOK, compositor
<1>5. NoneDangling' /\ AskedFor'
  BY <1>2, <1>3 DEF OutputsInv, NoneDangling, AskedFor, Entered
<1>6. RecordedWhereShown'
  BY <1>2, <1>3 DEF OutputsInv, RecordedWhereShown, Entered
<1> QED BY <1>2, <1>4, <1>5, <1>6 DEF OutputsInv

(* Fullscreen where the compositor likes has a monitor, if there is any.   *)
LEMMA HereKeeps ==
  ASSUME OutputsInv, NEW w \in Windows, Call, FullScreenOnCurrentOutput(w),
         wanted' \in [Windows -> {"window", "here", "secondary"}],
         \A v \in Windows \ {w} : wanted'[v] = wanted[v], wanted'[w] # "window"
  PROVE  OutputsInv'
<1>1. /\ monitor \in [Windows -> Outputs \cup {None}] /\ currentOutput \in [Windows -> BOOLEAN]
      /\ monitors \subseteq Outputs /\ None \notin Outputs
      /\ \A v \in Windows : monitor[v] \in monitors \cup {None}
  BY OutputsAssumption DEF OutputsInv, TypeOK, NoneDangling, OutputsAssumption
<1>2. CASE UNCHANGED <<monitor, currentOutput>>
  <2>1. /\ monitor' = [monitor EXCEPT ![w] = monitor[w]]
        /\ currentOutput' = [currentOutput EXCEPT ![w] = currentOutput[w]]
        /\ currentOutput[w] => /\ monitor[w] # None
                              /\ \A o \in monitors : Entered(factor[w]) = {o} => monitor[w] = o
    BY <1>1, <1>2 DEF OutputsInv, AskedFor, RecordedWhereShown
  <2>2. monitor[w] \in monitors \cup {None} /\ currentOutput[w] \in BOOLEAN
    BY <1>1
  <2> QED BY <2>1, <2>2, CallKeeps
<1>3. CASE ~UNCHANGED <<monitor, currentOutput>>
  <2>1. PICK m \in monitors : /\ monitor' = [monitor EXCEPT ![w] = m]
                              /\ ForEntered(factor[w], monitors) # {} =>
                                    m \in ForEntered(factor[w], monitors)
    BY <1>1, <1>3 DEF FullScreenOnCurrentOutput, ForEntered
  <2>2. currentOutput' = [currentOutput EXCEPT ![w] = TRUE]
    BY <1>3 DEF FullScreenOnCurrentOutput
  <2>3. m # None /\ \A o \in monitors : Entered(factor[w]) = {o} => m = o
    BY <1>1, <2>1 DEF ForEntered
  <2> QED BY <2>1, <2>2, <2>3, CallKeeps
<1> QED BY <1>2, <1>3

(* And on the secondary monitor. *)
LEMMA SecondaryKeeps ==
  ASSUME OutputsInv, NEW w \in Windows, Call, FullScreenSecondary(w),
         wanted' \in [Windows -> {"window", "here", "secondary"}],
         \A v \in Windows \ {w} : wanted'[v] = wanted[v], wanted'[w] # "window"
  PROVE  OutputsInv'
<1>1. CASE monitors = {}
  <2>1. /\ monitor \in [Windows -> Outputs \cup {None}] /\ currentOutput \in [Windows -> BOOLEAN]
        /\ monitor[w] = None /\ ~currentOutput[w]
    BY <1>1 DEF OutputsInv, TypeOK, NoneDangling, AskedFor
  <2>2. /\ monitor' = [monitor EXCEPT ![w] = None]
        /\ currentOutput' = [currentOutput EXCEPT ![w] = FALSE]
    BY <1>1, <2>1 DEF FullScreenSecondary
  <2> QED BY <2>2, CallKeeps
<1>2. CASE monitors # {}
  <2>1. PICK m \in monitors : SetWindowMonitor(w, m)
    BY <1>2 DEF FullScreenSecondary
  <2> QED BY <2>1, CallKeeps DEF SetWindowMonitor
<1> QED BY <1>1, <1>2

(* The compositor changes what is on its way. *)
LEMMA CompositorKeeps ==
  ASSUME OutputsInv, UNCHANGED <<client, wanted>>, events' \in Seq(Events),
         plugged' \subseteq Outputs, known' \subseteq Outputs, binds' \subseteq Outputs,
         fresh' \subseteq Outputs, on' \in [Windows -> SUBSET Outputs]
  PROVE  OutputsInv'
BY DEF OutputsInv, TypeOK, NoneDangling, RecordedWhereShown, AskedFor, Entered, client

LEMMA NextKeeps ==
  ASSUME OutputsInv, [Next]_vars
  PROVE  OutputsInv'
<1>1. /\ plugged \subseteq Outputs /\ known \subseteq Outputs /\ binds \subseteq Outputs
      /\ fresh \subseteq Outputs /\ on \in [Windows -> SUBSET Outputs] /\ events \in Seq(Events)
      /\ wanted \in [Windows -> {"window", "here", "secondary"}]
  BY DEF OutputsInv, TypeOK
<1>2. \A o \in Outputs :
         /\ \A t \in {"global", "done", "remove"} : Global(t, o) \in Events
         /\ \A w \in Windows : Surface("enter", w, o) \in Events /\ Surface("leave", w, o) \in Events
         /\ \A s \in Scales : [type |-> "scale", output |-> o, scale |-> s] \in Events
  BY DEF Global, Surface, Events
<1>3. \A o \in Outputs : OnOutput(o) \in SUBSET Windows
  BY DEF OnOutput
<1>4. CASE Dispatch
  BY <1>4, DispatchKeeps
<1>5. ASSUME NEW w \in Windows, SetFullScreen(w) PROVE OutputsInv'
  BY <1>1, <1>5, HereKeeps DEF SetFullScreen
<1>6. ASSUME NEW w \in Windows, LeaveFullScreen(w) PROVE OutputsInv'
  BY <1>1, <1>6, CallKeeps DEF LeaveFullScreen, SetWindowMonitor
<1>7. ASSUME NEW w \in Windows, RequestFullScreenSecondary(w) PROVE OutputsInv'
  BY <1>1, <1>7, SecondaryKeeps DEF RequestFullScreenSecondary
<1>8. ASSUME NEW w \in Windows, ShowAgain(w) PROVE OutputsInv'
  BY <1>1, <1>8, HereKeeps, SecondaryKeeps DEF ShowAgain
<1>9. ASSUME NEW o \in Outputs, Plug(o) PROVE OutputsInv'
  <2>1. events' \in Seq(Events)
    BY <1>1, <1>2, <1>9 DEF Plug
  <2> QED BY <1>1, <1>9, <2>1, CompositorKeeps DEF Plug
<1>10. ASSUME NEW o \in Outputs, Bind(o) PROVE OutputsInv'
  <2> DEFINE enters == ForAll("enter", OnOutput(o), o)
             done == <<Global("done", o)>>
  <2>1. enters \in Seq(Events) /\ done \in Seq(Events)
    BY <1>2, <1>3, ForAllIsEvents
  <2>2. events' \in {events, events \o enters \o done, events \o done \o enters}
    BY <1>10 DEF Bind
  <2> HIDE DEF enters, done
  <2>3. events' \in Seq(Events)
    BY <1>1, <2>1, <2>2, ConcatThree
  <2> QED BY <1>1, <1>10, <2>3, CompositorKeeps DEF Bind
<1>11. ASSUME NEW o \in Outputs, Unplug(o) PROVE OutputsInv'
  <2> DEFINE leaves == IF o \in known THEN ForAll("leave", OnOutput(o), o) ELSE <<>>
             remove == <<Global("remove", o)>>
  <2>1. leaves \in Seq(Events) /\ remove \in Seq(Events)
    BY <1>2, <1>3, ForAllIsEvents
  <2>2. events' \in {events \o leaves \o remove, events \o remove \o leaves}
    BY <1>11 DEF Unplug
  <2> HIDE DEF leaves, remove
  <2>3. events' \in Seq(Events)
    BY <1>1, <2>1, <2>2, ConcatThree
  <2> QED BY <1>1, <1>11, <2>3, CompositorKeeps DEF Unplug
<1>12. ASSUME NEW w \in Windows, NEW o \in Outputs, EnterOutput(w, o) PROVE OutputsInv'
  <2>1. events' \in Seq(Events)
    BY <1>1, <1>2, <1>12 DEF EnterOutput, Tell
  <2> QED BY <1>1, <1>12, <2>1, CompositorKeeps DEF EnterOutput, Move
<1>13. ASSUME NEW w \in Windows, NEW o \in Outputs, LeaveOutput(w, o) PROVE OutputsInv'
  <2>1. events' \in Seq(Events)
    BY <1>1, <1>2, <1>13 DEF LeaveOutput, Tell
  <2> QED BY <1>1, <1>13, <2>1, CompositorKeeps DEF LeaveOutput, Move
<1>14. ASSUME NEW o \in Outputs, NEW s \in Scales, Rescale(o, s) PROVE OutputsInv'
  <2>1. events' \in Seq(Events)
    BY <1>1, <1>2, <1>14 DEF Rescale
  <2> QED BY <1>1, <1>14, <2>1, CompositorKeeps DEF Rescale, Move
<1>15. CASE UNCHANGED vars
  BY <1>1, <1>15, CompositorKeeps DEF vars, compositor
<1> QED BY <1>4, <1>5, <1>6, <1>7, <1>8, <1>9, <1>10, <1>11, <1>12, <1>13, <1>14, <1>15 DEF Next

-----------------------------------------------------------------------------
(* Type correctness of the outputs, for any number of windows, outputs and *)
(* scales (wl_init.c, wl_monitor.c).                                       *)
THEOREM OutputsTypeCorrect == Spec => []TypeOK
<1>1. OutputsInv => TypeOK
  BY DEF OutputsInv
<1> QED BY <1>1, InitOutputsInv, NextKeeps, PTL DEF Spec

(* No window is fullscreen on a monitor that is gone, or on an output whose *)
(* proxy is gone (registryHandleGlobalRemove).                             *)
THEOREM NoMonitorDangles == Spec => []NoneDangling
<1>1. OutputsInv => NoneDangling
  BY DEF OutputsInv
<1> QED BY <1>1, InitOutputsInv, NextKeeps, PTL DEF Spec

(* Whatever the order of enters, leaves, first dones and removals, fullscreen *)
(* that the compositor placed is recorded on the one output it is on.      *)
THEOREM RecordedOnItsOutput == Spec => []RecordedWhereShown
<1>1. OutputsInv => RecordedWhereShown
  BY DEF OutputsInv
<1> QED BY <1>1, InitOutputsInv, NextKeeps, PTL DEF Spec

(* What FullscreenFollows says of one step and one window.                 *)
Follows(w) ==
  /\ currentOutput[w] /\ monitors' # {} => currentOutput'[w] /\ monitor'[w] # None
  /\ monitors' # monitors /\ Head(events).type = "remove" =>
        (monitor'[w] # None <=> wanted'[w] # "window")

LEMMA DispatchFollows ==
  ASSUME OutputsInv, Dispatch, NEW w \in Windows
  PROVE  Follows(w)
<1> DEFINE e == Head(events)
<1>1. AskedFor' /\ AskedFor
  BY DispatchKeeps DEF OutputsInv
<1>2. CASE e.type = "remove" /\ HandleGlobalRemove(e.output) /\ e.output \in monitors
  BY <1>2, RemoveKeeps DEF Dispatch, Follows
<1>3. CASE ~(e.type = "remove" /\ HandleGlobalRemove(e.output) /\ e.output \in monitors)
  <2>1. currentOutput' = currentOutput /\ (e.type = "remove" => monitors' = monitors)
    BY <1>3 DEF Dispatch, HandleGlobal, HandleDone, HandleScale, HandleEnter, HandleLeave,
                HandleGlobalRemove
  <2> QED BY <1>1, <2>1 DEF Follows, AskedFor
<1> QED BY <1>2, <1>3

(* FullscreenFollows: while a monitor is left no event ends fullscreen that *)
(* the compositor placed, and after a disconnect the driver and GLFW agree *)
(* on who is fullscreen (registryHandleGlobalRemove, the driver's monitor  *)
(* callback).                                                              *)
THEOREM FullscreenFollowsOutputs == Spec => FullscreenFollows
<1>1. ASSUME OutputsInv, [Next]_vars, events # <<>>, events' = Tail(events)
      PROVE  \A w \in Windows : Follows(w)
  <2>1. events \in Seq(Events) /\ Len(events') < Len(events)
    BY <1>1, HeadTailProperties DEF OutputsInv
  <2>2. CASE Dispatch
    BY <1>1, <2>2, DispatchFollows
  <2>3. CASE ~Dispatch
    <3>1. UNCHANGED events \/ UNCHANGED client
      BY <1>1, <2>3 DEF Next, SetFullScreen, LeaveFullScreen, RequestFullScreenSecondary, ShowAgain,
                        Call, Plug, Bind, Unplug, EnterOutput, LeaveOutput, Rescale, Move, vars
    <3>2. UNCHANGED <<monitors, currentOutput>>
      BY <1>1, <2>1, <3>1 DEF client
    <3>3. AskedFor'
      BY <1>1, NextKeeps DEF OutputsInv
    <3> QED BY <3>2, <3>3 DEF Follows, AskedFor
  <2> QED BY <2>2, <2>3
<1>2. OutputsInv /\ [Next]_vars =>
        [events # <<>> /\ events' = Tail(events) => \A w \in Windows : Follows(w)]_vars
  BY <1>1
<1> QED BY <1>2, InitOutputsInv, NextKeeps, PTL DEF Spec, FullscreenFollows, Follows
-----------------------------------------------------------------------------
(* When all has arrived, the client and the compositor agree on the outputs *)
(* that a window is on.  The argument follows one window and one output:   *)
(* the last enter or leave on its way is right, and where there is none    *)
(* the client is.                                                          *)
Coming(q, t, o) == \E i \in DOMAIN q : q[i] = Global(t, o)
Stands(q, t, w, o) == \A i \in DOMAIN q : q[i] # Surface(t, w, o)
Comes(q, t, u, w, o) ==
  \E i \in DOMAIN q : /\ q[i] = Surface(t, w, o)
                      /\ \A j \in DOMAIN q : j > i => q[j] # Surface(u, w, o)

EndsEntered(q, x, w, o) ==
  \/ Comes(q, "enter", "leave", w, o)
  \/ x # 0 /\ Stands(q, "leave", w, o)
EndsLeft(q, x, w, o) ==
  \/ Comes(q, "leave", "enter", w, o)
  \/ x = 0 /\ Stands(q, "enter", w, o)

Agrees ==
  \A w \in Windows : \A o \in Outputs :
     /\ o \in known /\ o \in on[w] => EndsEntered(events, factor[w][o], w, o)
     /\ o \notin known \/ o \notin on[w] => EndsLeft(events, factor[w][o], w, o)

(* The stages of an output: it is announced before it is bound, and bound  *)
(* before its surfaces are told; only one that is unplugged is removed.    *)
Stages ==
  /\ known \subseteq plugged
  /\ \A w \in Windows : on[w] \subseteq plugged
  /\ \A o \in fresh : /\ o \notin plugged /\ o \notin binds /\ o \notin bound
                      /\ ~Coming(events, "global", o) /\ ~Coming(events, "remove", o)
  /\ \A i, j \in DOMAIN events : \A o \in Outputs :
        events[i] = Global("global", o) => /\ o \notin bound
                                           /\ events[j] = Global("global", o) => i = j
  /\ \A o \in plugged : /\ ~Coming(events, "remove", o)
                        /\ o \in binds \/ o \in known => o \in bound
                        /\ o \in known \/ o \in binds \/ Coming(events, "global", o)

(* The factors are the scales of the outputs, and the buffer's is the      *)
(* largest of them; there is one because the factors have a bound.         *)
Bounded(f) == \E n \in Nat : \A o \in Outputs : f[o] <= n
ScaleTrue ==
  /\ bufferScale \in [Windows -> Scales]
  /\ \A w \in Windows :
        /\ Bounded(factor[w])
        /\ \A o \in Outputs : factor[w][o] # 0 => factor[w][o] = scale[o]
        /\ bufferScale[w] = UpdatedScale(bufferScale[w], factor[w])

AgreeInv == OutputsInv /\ Stages /\ Agrees /\ ScaleTrue

(* Events are told apart by what they are about. *)
LEMMA EventIs ==
  ASSUME NEW e \in Events
  PROVE  /\ e.type \in {"global", "done", "scale", "enter", "leave", "remove"}
         /\ e.output \in Outputs
         /\ e.type = "scale" => e.scale \in Scales
         /\ e.type \in {"enter", "leave"} =>
               e.window \in Windows /\ e = Surface(e.type, e.window, e.output)
         /\ e.type \in {"global", "done", "remove"} => e = Global(e.type, e.output)
         /\ \A t, o : e = Global(t, o) => e.type = t /\ e.output = o
         /\ \A t, w, o : e = Surface(t, w, o) => e.type = t /\ e.output = o /\ e.window = w
BY DEF Events, Surface, Global

LEMMA Different ==
  /\ \A t, u, v, w, o, p : Surface(t, v, o) = Surface(u, w, p) <=> t = u /\ v = w /\ o = p
  /\ \A t, u, o, p : Global(t, o) = Global(u, p) <=> t = u /\ o = p
  /\ \A t \in {"enter", "leave"}, u \in {"global", "done", "remove"} :
        \A w, o, p : Surface(t, w, o) # Global(u, p)
<1>1. \A t, u, v, w, o, p : Surface(t, v, o) = Surface(u, w, p) <=> t = u /\ v = w /\ o = p
  BY DEF Surface
<1>2. \A t, u, o, p : Global(t, o) = Global(u, p) <=> t = u /\ o = p
  BY DEF Global
<1>3. \A t \in {"enter", "leave"}, u \in {"global", "done", "remove"} :
        \A w, o, p : Surface(t, w, o) # Global(u, p)
  <2> SUFFICES ASSUME NEW t \in {"enter", "leave"}, NEW u \in {"global", "done", "remove"},
                      NEW w, NEW o, NEW p, Surface(t, w, o) = Global(u, p)
               PROVE  FALSE
    OBVIOUS
  <2>1. Surface(t, w, o).type = t /\ Global(u, p).type = u
    BY DEF Surface, Global
  <2> QED BY <2>1
<1> QED BY <1>1, <1>2, <1>3

(* What a longer and what a shorter queue say. *)
LEMMA LongerComes ==
  ASSUME NEW q \in Seq(Events), NEW r \in Seq(Events), NEW t, NEW u, NEW w, NEW o,
         Comes(q, t, u, w, o), Stands(r, u, w, o)
  PROVE  Comes(q \o r, t, u, w, o)
<1>1. PICK i \in DOMAIN q : /\ q[i] = Surface(t, w, o)
                            /\ \A j \in DOMAIN q : j > i => q[j] # Surface(u, w, o)
  BY DEF Comes
<1>2. /\ i \in DOMAIN (q \o r) /\ (q \o r)[i] = Surface(t, w, o)
      /\ \A j \in DOMAIN (q \o r) : j > i => (q \o r)[j] # Surface(u, w, o)
  BY <1>1 DEF Stands
<1> QED BY <1>2 DEF Comes

LEMMA LongerStands ==
  ASSUME NEW q \in Seq(Events), NEW r \in Seq(Events), NEW u, NEW w, NEW o,
         Stands(q, u, w, o), Stands(r, u, w, o)
  PROVE  Stands(q \o r, u, w, o)
BY DEF Stands

LEMMA NowComes ==
  ASSUME NEW q \in Seq(Events), NEW r \in Seq(Events), NEW t, NEW u, NEW w, NEW o,
         ~Stands(r, t, w, o), Stands(r, u, w, o)
  PROVE  Comes(q \o r, t, u, w, o)
<1>1. PICK i \in DOMAIN r : r[i] = Surface(t, w, o)
  BY DEF Stands
<1>2. /\ Len(q) + i \in DOMAIN (q \o r) /\ (q \o r)[Len(q) + i] = Surface(t, w, o)
      /\ \A j \in DOMAIN (q \o r) : j > Len(q) + i => (q \o r)[j] # Surface(u, w, o)
  BY <1>1 DEF Stands
<1> QED BY <1>2 DEF Comes

LEMMA LongerComing ==
  ASSUME NEW q \in Seq(Events), NEW r \in Seq(Events), NEW t, NEW o
  PROVE  Coming(q \o r, t, o) <=> Coming(q, t, o) \/ Coming(r, t, o)
<1>1. ASSUME Coming(q \o r, t, o) PROVE Coming(q, t, o) \/ Coming(r, t, o)
  <2>1. PICK i \in DOMAIN (q \o r) : (q \o r)[i] = Global(t, o)
    BY <1>1 DEF Coming
  <2>2. CASE i <= Len(q)
    BY <2>1, <2>2 DEF Coming
  <2>3. CASE i > Len(q)
    <3>1. i - Len(q) \in DOMAIN r /\ r[i - Len(q)] = Global(t, o)
      BY <2>1, <2>3
    <3> QED BY <3>1 DEF Coming
  <2> QED BY <2>1, <2>2, <2>3
<1>2. ASSUME Coming(q, t, o) PROVE Coming(q \o r, t, o)
  BY <1>2 DEF Coming
<1>3. ASSUME Coming(r, t, o) PROVE Coming(q \o r, t, o)
  <2>1. PICK i \in DOMAIN r : r[i] = Global(t, o)
    BY <1>3 DEF Coming
  <2>2. Len(q) + i \in DOMAIN (q \o r) /\ (q \o r)[Len(q) + i] = Global(t, o)
    BY <2>1
  <2> QED BY <2>2 DEF Coming
<1> QED BY <1>1, <1>2, <1>3

LEMMA TailIs ==
  ASSUME NEW q \in Seq(Events), q # <<>>
  PROVE  /\ Tail(q) \in Seq(Events) /\ DOMAIN Tail(q) = 1 .. Len(q) - 1
         /\ 1 \in DOMAIN q /\ Head(q) = q[1] /\ Len(q) \in Nat /\ DOMAIN q = 1 .. Len(q)
         /\ \A i \in DOMAIN Tail(q) : i + 1 \in DOMAIN q /\ Tail(q)[i] = q[i + 1]
         /\ \A i \in DOMAIN q : i # 1 => i - 1 \in DOMAIN Tail(q) /\ Tail(q)[i - 1] = q[i]
BY HeadTailProperties

LEMMA ShorterComes ==
  ASSUME NEW q \in Seq(Events), q # <<>>, NEW t, NEW u, NEW w, NEW o, Comes(q, t, u, w, o)
  PROVE  \/ Comes(Tail(q), t, u, w, o)
         \/ Head(q) = Surface(t, w, o) /\ Stands(Tail(q), u, w, o)
<1>1. PICK i \in DOMAIN q : /\ q[i] = Surface(t, w, o)
                            /\ \A j \in DOMAIN q : j > i => q[j] # Surface(u, w, o)
  BY DEF Comes
<1>2. CASE i = 1
  BY <1>1, <1>2, TailIs DEF Stands
<1>3. CASE i # 1
  <2>1. /\ i - 1 \in DOMAIN Tail(q) /\ Tail(q)[i - 1] = Surface(t, w, o)
        /\ \A j \in DOMAIN Tail(q) : j > i - 1 => Tail(q)[j] # Surface(u, w, o)
    BY <1>1, <1>3, TailIs
  <2> QED BY <2>1 DEF Comes
<1> QED BY <1>2, <1>3

LEMMA ShorterStands ==
  ASSUME NEW q \in Seq(Events), q # <<>>, NEW u, NEW w, NEW o, Stands(q, u, w, o)
  PROVE  Stands(Tail(q), u, w, o) /\ Head(q) # Surface(u, w, o)
BY TailIs DEF Stands

LEMMA ShorterComing ==
  ASSUME NEW q \in Seq(Events), q # <<>>, NEW t, NEW o
  PROVE  /\ Coming(Tail(q), t, o) => Coming(q, t, o)
         /\ Coming(q, t, o) => Coming(Tail(q), t, o) \/ Head(q) = Global(t, o)
<1>1. ASSUME Coming(Tail(q), t, o) PROVE Coming(q, t, o)
  BY <1>1, TailIs DEF Coming
<1>2. ASSUME Coming(q, t, o), Head(q) # Global(t, o) PROVE Coming(Tail(q), t, o)
  <2>1. PICK i \in DOMAIN q : q[i] = Global(t, o)
    BY <1>2 DEF Coming
  <2>2. i # 1
    BY <1>2, <2>1, TailIs
  <2>3. i - 1 \in DOMAIN Tail(q) /\ Tail(q)[i - 1] = Global(t, o)
    BY <2>1, <2>2, TailIs
  <2> QED BY <2>3 DEF Coming
<1> QED BY <1>1, <1>2

(* An event is handled: where a window ends up does not change. *)
LEMMA HandledEntered ==
  ASSUME NEW q \in Seq(Events), q # <<>>, NEW x, NEW y, NEW w, NEW o,
         EndsEntered(q, x, w, o),
         Head(q) = Surface("enter", w, o) => y # 0,
         x # 0 /\ Head(q) # Surface("leave", w, o) => y # 0
  PROVE  EndsEntered(Tail(q), y, w, o)
<1>1. CASE Comes(q, "enter", "leave", w, o)
  BY <1>1, ShorterComes DEF EndsEntered
<1>2. CASE x # 0 /\ Stands(q, "leave", w, o)
  BY <1>2, ShorterStands DEF EndsEntered
<1> QED BY <1>1, <1>2 DEF EndsEntered

LEMMA HandledLeft ==
  ASSUME NEW q \in Seq(Events), q # <<>>, NEW x, NEW y, NEW w, NEW o,
         EndsLeft(q, x, w, o),
         Head(q) = Surface("leave", w, o) => y = 0,
         x = 0 /\ Head(q) # Surface("enter", w, o) => y = 0
  PROVE  EndsLeft(Tail(q), y, w, o)
<1>1. CASE Comes(q, "leave", "enter", w, o)
  BY <1>1, ShorterComes DEF EndsLeft
<1>2. CASE x = 0 /\ Stands(q, "enter", w, o)
  BY <1>2, ShorterStands DEF EndsLeft
<1> QED BY <1>1, <1>2 DEF EndsLeft

(* A set of windows in some order leaves none of them out. *)
LEMMA ForAllHas ==
  ASSUME NEW type \in {"enter", "leave"}, NEW ws \in SUBSET Windows, NEW o \in Outputs
  PROVE  /\ \A t, w, p : Stands(ForAll(type, ws, o), t, w, p) <=> t # type \/ w \notin ws \/ p # o
         /\ \A u \in {"global", "done", "remove"} : \A p : ~Coming(ForAll(type, ws, o), u, p)
<1> DEFINE n == Cardinality(ws)
           s == SetToSeq(ws)
<1>1. IsFiniteSet(ws)
  BY OutputsAssumption, FS_Subset DEF OutputsAssumption
<1>2. n \in Nat /\ ExistsBijection(1 .. n, ws)
  BY <1>1, FS_CardinalityType, FS_NatBijection, FS_CountingElements
<1>3. \E f \in [1 .. n -> ws] : IsInjective(f)
  BY <1>2 DEF ExistsBijection, Bijection, Injection, IsInjective
<1>4. s \in [1 .. n -> ws] /\ IsInjective(s)
  BY <1>3 DEF SetToSeq
<1>5. ForAll(type, ws, o) = [i \in 1 .. n |-> Surface(type, s[i], o)]
  BY <1>4 DEF ForAll
<1> HIDE DEF s
<1>6. s \in Injection(1 .. n, ws)
  BY <1>4 DEF Injection, IsInjective
<1>7. Cardinality(1 .. n) = n
  BY <1>2, FS_Interval
<1> HIDE DEF n
<1>8. s \in Surjection(1 .. n, ws)
  BY <1>1, <1>6, <1>7, FS_Injection DEF n
<1>9. \A w \in ws : \E i \in 1 .. n : s[i] = w
  BY <1>8 DEF Surjection
<1>10. \A i \in 1 .. n : s[i] \in ws
  BY <1>4
<1> DEFINE r == [i \in 1 .. n |-> Surface(type, s[i], o)]
<1>11. DOMAIN r = 1 .. n /\ \A i \in 1 .. n : r[i] = Surface(type, s[i], o)
  OBVIOUS
<1> HIDE DEF r
<1>12. \A t, w, p : Stands(r, t, w, p) <=> t # type \/ w \notin ws \/ p # o
  BY <1>9, <1>10, <1>11, Different DEF Stands
<1>13. \A u \in {"global", "done", "remove"} : \A p : ~Coming(r, u, p)
  BY <1>11, Different DEF Coming
<1> QED BY <1>5, <1>12, <1>13 DEF r

-----------------------------------------------------------------------------
(* The largest of the scales. *)
LessThan == {p \in Nat \X Nat : p[1] < p[2]}

LEMMA LeastNumber ==
  ASSUME NEW T \in SUBSET Nat, T # {}
  PROVE  \E n \in T : \A m \in T : n <= m
<1>1. LessThan = OpToRel(<, Nat)
  BY DEF LessThan, OpToRel
<1>2. IsWellFoundedOn(LessThan, Nat)
  BY <1>1, NatLessThanWellFounded
<1>3. PICK n \in T : \A m \in T : ~ (<<m, n>> \in LessThan)
  BY <1>2, WFMin
<1>4. \A m \in T : n <= m
  <2> TAKE m \in T
  <2>1. <<m, n>> \in LessThan <=> m < n
    BY DEF LessThan
  <2> QED BY <1>3, <2>1
<1> QED BY <1>4

(* A set of numbers with a bound has a largest one: its least bound. *)
LEMMA LargestNumber ==
  ASSUME NEW S \in SUBSET Nat, S # {}, NEW b \in Nat, \A x \in S : x <= b
  PROVE  Max(S) \in S
<1> DEFINE T == {n \in Nat : \A x \in S : x <= n}
<1>1. PICK n \in T : \A m \in T : n <= m
  BY LeastNumber
<1>2. n \in S
  <2> SUFFICES ASSUME n \notin S PROVE FALSE
    OBVIOUS
  <2>1. PICK x \in S : TRUE
    OBVIOUS
  <2>2. n - 1 \in Nat /\ \A y \in S : y <= n - 1
    BY <1>1, <2>1
  <2>3. n - 1 \in T
    BY <2>2
  <2> QED BY <1>1, <2>3
<1>3. \A y \in S : n >= y
  BY <1>1
<1> QED BY <1>2, <1>3 DEF Max

LEMMA UpdatedScaleIs ==
  ASSUME NEW f \in [Outputs -> Scales \cup {0}], NEW s \in Scales, Bounded(f)
  PROVE  /\ UpdatedScale(s, f) \in Scales
         /\ UpdatedScale(UpdatedScale(s, f), f) = UpdatedScale(s, f)
<1> DEFINE S == {f[o] : o \in Entered(f)} \cup {1}
<1>1. S \subseteq Scales /\ 1 \in S /\ Scales \subseteq Nat
  BY OutputsAssumption DEF Entered, OutputsAssumption
<1>2. PICK n \in Nat : \A o \in Outputs : f[o] <= n
  BY DEF Bounded
<1>3. n + 1 \in Nat /\ \A x \in S : x <= n + 1
  BY <1>1, <1>2, OutputsAssumption DEF Entered, OutputsAssumption
<1> HIDE DEF S
<1>4. Max(S) \in Scales
  BY <1>1, <1>3, LargestNumber
<1> QED BY <1>4 DEF UpdatedScale, S

(* What a window is told of one output keeps a bound. *)
LEMMA ExceptBounded ==
  ASSUME NEW f \in [Outputs -> Scales \cup {0}], NEW s \in Scales \cup {0}, NEW o, Bounded(f)
  PROVE  Bounded([f EXCEPT ![o] = s])
<1>1. PICK n \in Nat : \A p \in Outputs : f[p] <= n
  BY DEF Bounded
<1>2. s \in Nat
  BY OutputsAssumption DEF OutputsAssumption
<1>3. \A p \in Outputs : f[p] \in Nat /\ [f EXCEPT ![o] = s][p] \in {f[p], s}
  <2>1. \A p \in Outputs : f[p] \in Nat
    <3>1. Scales \cup {0} \subseteq Nat
      BY OutputsAssumption DEF OutputsAssumption
    <3> QED BY <3>1
  <2>2. \A p \in Outputs : [f EXCEPT ![o] = s][p] = IF p = o THEN s ELSE f[p]
    OBVIOUS
  <2> QED BY <2>1, <2>2
<1>4. n + s \in Nat /\ \A p \in Outputs : [f EXCEPT ![o] = s][p] <= n + s
  BY <1>1, <1>2, <1>3
<1> QED BY <1>4 DEF Bounded

-----------------------------------------------------------------------------
(* The handlers. *)

(* How an event changes what a window has entered. *)
LEMMA FactorSteps ==
  ASSUME OutputsInv, Dispatch, NEW w \in Windows, NEW o \in Outputs
  PROVE  /\ Head(events) = Surface("enter", w, o) =>
              factor'[w][o] # 0 \/ (o \notin bound /\ factor'[w][o] = factor[w][o])
         /\ Head(events) = Surface("leave", w, o) => factor'[w][o] = 0
         /\ Head(events) # Surface("enter", w, o) /\ factor[w][o] = 0 => factor'[w][o] = 0
         /\ /\ Head(events) # Surface("leave", w, o) /\ Head(events) # Global("remove", o)
            /\ factor[w][o] # 0
            => factor'[w][o] # 0
<1> DEFINE e == Head(events)
<1>1. events # <<>> /\ e \in Events
  BY HeadTailProperties DEF Dispatch, OutputsInv
<1>2. /\ factor \in [Windows -> [Outputs -> Scales \cup {0}]] /\ scale \in [Outputs -> Scales]
      /\ 0 \notin Scales
      /\ factor[w][o] # 0 => o \in bound
  BY OutputsAssumption DEF OutputsInv, TypeOK, OutputsAssumption, NoneDangling, Entered
<1>3. /\ e.output \in Outputs
      /\ e.type = "scale" => e.scale \in Scales
      /\ e.type \in {"enter", "leave"} =>
           e.window \in Windows /\ e = Surface(e.type, e.window, e.output)
      /\ e.type \in {"global", "done", "remove"} => e = Global(e.type, e.output)
      /\ \A t, v, p : e = Surface(t, v, p) => e.type = t /\ e.output = p /\ e.window = v
      /\ \A t, p : e = Global(t, p) => e.type = t /\ e.output = p
  BY <1>1, EventIs
<1> HIDE DEF e
<1> SUFFICES /\ e = Surface("enter", w, o) =>
                  factor'[w][o] # 0 \/ (o \notin bound /\ factor'[w][o] = factor[w][o])
             /\ e = Surface("leave", w, o) => factor'[w][o] = 0
             /\ e # Surface("enter", w, o) /\ factor[w][o] = 0 => factor'[w][o] = 0
             /\ e # Surface("leave", w, o) /\ e # Global("remove", o) /\ factor[w][o] # 0
                => factor'[w][o] # 0
  BY DEF e
<1>4. CASE e.type \in {"global", "done"} /\ UNCHANGED factor
  BY <1>3, <1>4
<1>5. CASE e.type = "scale" /\ HandleScale(e.output, e.scale)
  BY <1>2, <1>3, <1>5 DEF HandleScale
<1>6. CASE e.type = "enter" /\ HandleEnter(e.window, e.output)
  <2>1. CASE e.output \notin bound
    BY <1>3, <1>6, <2>1 DEF HandleEnter
  <2>2. CASE e.output \in bound
    <3>1. factor' = [factor EXCEPT ![e.window] =
                        [factor[e.window] EXCEPT ![e.output] = scale[e.output]]]
      BY <1>6, <2>2 DEF HandleEnter, SetFactors
    <3>2. factor'[w][o] = IF e.window = w /\ e.output = o THEN scale[o] ELSE factor[w][o]
      BY <1>2, <1>3, <1>6, <3>1
    <3>3. e = Surface("enter", w, o) <=> e.window = w /\ e.output = o
      BY <1>3, <1>6
    <3>4. e # Surface("leave", w, o) /\ scale[o] # 0
      BY <1>2, <1>3, <1>6
    <3>5. CASE e = Surface("enter", w, o)
      BY <3>2, <3>3, <3>4, <3>5
    <3>6. CASE e # Surface("enter", w, o)
      <4>1. factor'[w][o] = factor[w][o]
        BY <3>2, <3>3, <3>6
      <4> QED BY <3>4, <3>6, <4>1
    <3> QED BY <3>5, <3>6
  <2> QED BY <2>1, <2>2
<1>7. CASE e.type = "leave" /\ HandleLeave(e.window, e.output)
  BY <1>2, <1>3, <1>7 DEF HandleLeave, SetFactors, Left
<1>8. CASE e.type = "remove" /\ HandleGlobalRemove(e.output)
  <2>1. factor' = factor \/ factor' = [v \in Windows |-> Left(factor[v], e.output)]
    BY <1>8 DEF HandleGlobalRemove, Removed
  <2> QED BY <1>2, <1>3, <1>8, <2>1 DEF Left
<1> QED BY <1>4, <1>5, <1>6, <1>7, <1>8 DEF Dispatch, HandleGlobal, HandleDone, e

LEMMA DispatchAgrees ==
  ASSUME AgreeInv, Dispatch
  PROVE  Agrees'
<1>1. events \in Seq(Events) /\ events # <<>> /\ events' = Tail(events)
      /\ UNCHANGED <<known, on>>
  BY DEF AgreeInv, OutputsInv, Dispatch, compositor
<1> SUFFICES ASSUME NEW w \in Windows, NEW o \in Outputs
             PROVE  /\ o \in known /\ o \in on[w] => EndsEntered(events', factor'[w][o], w, o)
                    /\ o \notin known \/ o \notin on[w] => EndsLeft(events', factor'[w][o], w, o)
  BY <1>1 DEF Agrees
<1>2. /\ Head(events) = Surface("enter", w, o) =>
           factor'[w][o] # 0 \/ (o \notin bound /\ factor'[w][o] = factor[w][o])
      /\ Head(events) = Surface("leave", w, o) => factor'[w][o] = 0
      /\ Head(events) # Surface("enter", w, o) /\ factor[w][o] = 0 => factor'[w][o] = 0
      /\ /\ Head(events) # Surface("leave", w, o) /\ Head(events) # Global("remove", o)
         /\ factor[w][o] # 0
         => factor'[w][o] # 0
  BY FactorSteps DEF AgreeInv
<1>3. ASSUME o \in known, o \in on[w] PROVE EndsEntered(events', factor'[w][o], w, o)
  <2>1. o \in bound /\ ~Coming(events, "remove", o)
    BY <1>3 DEF AgreeInv, Stages
  <2>2. Head(events) # Global("remove", o)
    BY <1>1, <2>1, TailIs DEF Coming
  <2>3. EndsEntered(events, factor[w][o], w, o)
    BY <1>3 DEF AgreeInv, Agrees
  <2> QED BY <1>1, <1>2, <2>1, <2>2, <2>3, HandledEntered
<1>4. ASSUME o \notin known \/ o \notin on[w] PROVE EndsLeft(events', factor'[w][o], w, o)
  <2>1. EndsLeft(events, factor[w][o], w, o)
    BY <1>4 DEF AgreeInv, Agrees
  <2> QED BY <1>1, <1>2, <2>1, HandledLeft
<1> QED BY <1>3, <1>4

LEMMA DispatchStages ==
  ASSUME AgreeInv, Dispatch
  PROVE  Stages'
<1> DEFINE e == Head(events)
<1>1. events \in Seq(Events) /\ events # <<>> /\ events' = Tail(events)
      /\ UNCHANGED <<plugged, known, on, fresh>>
  BY DEF AgreeInv, OutputsInv, Dispatch, compositor
<1>2. e \in Events /\ e = events[1] /\ 1 \in DOMAIN events
  BY <1>1, TailIs, HeadTailProperties
<1>3. /\ e.output \in Outputs
      /\ e.type \in {"global", "done", "remove"} => e = Global(e.type, e.output)
      /\ \A t, o : e = Global(t, o) => e.type = t /\ e.output = o
  BY <1>2, EventIs
<1>4. \A t, o : /\ Coming(events', t, o) => Coming(events, t, o)
                /\ Coming(events, t, o) => Coming(events', t, o) \/ e = Global(t, o)
  BY <1>1, ShorterComing
<1>5. \A t, o : e = Global(t, o) => Coming(events, t, o)
  BY <1>2 DEF Coming
<1> HIDE DEF e
<1>6. \/ /\ e.type = "global" /\ e = Global("global", e.output)
         /\ bound' = bound \cup {e.output} /\ binds' = binds \cup {e.output}
      \/ /\ e.type # "global" /\ \A o : e # Global("global", o)
         /\ binds' = binds
         /\ \/ bound' = bound
            \/ bound' = bound \ {e.output} /\ e = Global("remove", e.output)
  <2>1. CASE e.type = "global" /\ HandleGlobal(e.output)
    BY <1>3, <2>1 DEF HandleGlobal
  <2>2. CASE e.type = "done" /\ HandleDone(e.output)
    BY <1>3, <2>2 DEF HandleDone
  <2>3. CASE e.type = "scale" /\ HandleScale(e.output, e.scale)
    BY <1>3, <2>3 DEF HandleScale
  <2>4. CASE e.type = "enter" /\ HandleEnter(e.window, e.output)
    BY <1>3, <2>4 DEF HandleEnter
  <2>5. CASE e.type = "leave" /\ HandleLeave(e.window, e.output)
    BY <1>3, <2>5 DEF HandleLeave
  <2>6. CASE e.type = "remove" /\ HandleGlobalRemove(e.output)
    BY <1>3, <2>6 DEF HandleGlobalRemove
  <2> QED BY <2>1, <2>2, <2>3, <2>4, <2>5, <2>6 DEF Dispatch, e
<1>7. Stages
  BY DEF AgreeInv
<1>8. \A o \in fresh : /\ o \notin plugged /\ o \notin binds' /\ o \notin bound'
                       /\ ~Coming(events', "global", o) /\ ~Coming(events', "remove", o)
  BY <1>4, <1>5, <1>6, <1>7 DEF Stages
<1>9. \A i, j \in DOMAIN events' : \A o \in Outputs :
        events'[i] = Global("global", o) =>
           /\ o \notin bound' /\ (events'[j] = Global("global", o) => i = j)
  <2> SUFFICES ASSUME NEW i \in DOMAIN events', NEW j \in DOMAIN events', NEW o \in Outputs,
                      events'[i] = Global("global", o)
               PROVE  o \notin bound' /\ (events'[j] = Global("global", o) => i = j)
    OBVIOUS
  <2>1. /\ i + 1 \in DOMAIN events /\ j + 1 \in DOMAIN events /\ i \in Nat /\ j \in Nat
        /\ events'[i] = events[i + 1] /\ events'[j] = events[j + 1] /\ i # 0
    BY <1>1, TailIs
  <2>2. o \notin bound /\ (events'[j] = Global("global", o) => i + 1 = j + 1)
    BY <1>7, <2>1 DEF Stages
  <2>3. e # Global("global", o)
    <3> SUFFICES ASSUME e = Global("global", o) PROVE FALSE
      OBVIOUS
    <3>1. 1 = i + 1
      BY <1>2, <1>7, <2>1 DEF Stages
    <3> QED BY <2>1, <3>1
  <2> QED BY <1>6, <2>1, <2>2, <2>3
<1>10. \A o \in plugged : /\ ~Coming(events', "remove", o)
                          /\ o \in binds' \/ o \in known => o \in bound'
                          /\ o \in known \/ o \in binds' \/ Coming(events', "global", o)
  <2> SUFFICES ASSUME NEW o \in plugged
               PROVE  /\ ~Coming(events', "remove", o)
                      /\ o \in binds' \/ o \in known => o \in bound'
                      /\ o \in known \/ o \in binds' \/ Coming(events', "global", o)
    OBVIOUS
  <2>1. /\ ~Coming(events, "remove", o)
        /\ o \in binds \/ o \in known => o \in bound
        /\ o \in known \/ o \in binds \/ Coming(events, "global", o)
    BY <1>7 DEF Stages
  <2>2. e # Global("remove", o)
    BY <1>5, <2>1
  <2> QED BY <1>3, <1>4, <1>6, <2>1, <2>2
<1> QED BY <1>1, <1>7, <1>8, <1>9, <1>10 DEF Stages

(* The scale of a buffer follows what its window is told. *)
LEMMA DispatchScale ==
  ASSUME AgreeInv, Dispatch
  PROVE  ScaleTrue'
<1> DEFINE e == Head(events)
<1>1. events \in Seq(Events) /\ events # <<>>
  BY DEF AgreeInv, OutputsInv, Dispatch
<1>2. e \in Events /\ e = events[1] /\ 1 \in DOMAIN events
  BY <1>1, TailIs, HeadTailProperties
<1>3. /\ e.output \in Outputs
      /\ e.type = "scale" => e.scale \in Scales
      /\ e.type \in {"enter", "leave"} => e.window \in Windows
      /\ e.type \in {"global", "done", "remove"} => e = Global(e.type, e.output)
  BY <1>2, EventIs
<1>4. /\ factor \in [Windows -> [Outputs -> Scales \cup {0}]] /\ scale \in [Outputs -> Scales]
      /\ bufferScale \in [Windows -> Scales]
      /\ 0 \notin Scales /\ 1 \in Scales
      /\ \A w \in Windows, o \in Outputs : factor[w][o] # 0 => o \in bound
  BY OutputsAssumption
  DEF AgreeInv, OutputsInv, ScaleTrue, TypeOK, OutputsAssumption, NoneDangling, Entered
<1>5. \A w \in Windows :
        /\ factor[w] \in [Outputs -> Scales \cup {0}]
        /\ Bounded(factor[w])
        /\ \A o \in Outputs : factor[w][o] # 0 => factor[w][o] = scale[o]
        /\ bufferScale[w] \in Scales
        /\ bufferScale[w] = UpdatedScale(bufferScale[w], factor[w])
  BY <1>4 DEF AgreeInv, ScaleTrue
<1> HIDE DEF e
<1> DEFINE Kept(w) ==
             /\ Bounded(factor'[w])
             /\ \A o \in Outputs : factor'[w][o] # 0 => factor'[w][o] = scale'[o]
             /\ bufferScale'[w] \in Scales
             /\ bufferScale'[w] = UpdatedScale(bufferScale'[w], factor'[w])
<1>16. bufferScale' = [w \in Windows |-> bufferScale'[w]]
  <2>1. CASE e.type = "scale" /\ HandleScale(e.output, e.scale)
    BY <1>4, <2>1 DEF HandleScale
  <2>2. CASE e.type = "enter" /\ HandleEnter(e.window, e.output)
    BY <1>4, <2>2 DEF HandleEnter, SetFactors
  <2>3. CASE e.type = "leave" /\ HandleLeave(e.window, e.output)
    BY <1>4, <2>3 DEF HandleLeave, SetFactors
  <2>4. CASE e.type = "remove" /\ HandleGlobalRemove(e.output)
    BY <1>4, <2>4 DEF HandleGlobalRemove
  <2> QED BY <1>4, <2>1, <2>2, <2>3, <2>4 DEF Dispatch, HandleGlobal, HandleDone, e
<1> SUFFICES ASSUME NEW w \in Windows PROVE Kept(w)
  <2>1. \A w \in Windows : Kept(w)
    OBVIOUS
  <2>2. bufferScale' \in [Windows -> Scales]
    BY <1>16, <2>1
  <2> QED BY <2>1, <2>2 DEF ScaleTrue, Bounded
<1>6. ASSUME NEW f \in [Outputs -> Scales \cup {0}], factor'[w] = f, Bounded(f),
             \A o \in Outputs : f[o] # 0 => f[o] = scale'[o],
             bufferScale'[w] = UpdatedScale(bufferScale[w], f)
      PROVE  Kept(w)
  <2>1. /\ UpdatedScale(bufferScale[w], f) \in Scales
        /\ UpdatedScale(UpdatedScale(bufferScale[w], f), f) = UpdatedScale(bufferScale[w], f)
    BY <1>5, <1>6, UpdatedScaleIs
  <2> QED BY <1>6, <2>1
<1>7. ASSUME factor'[w] = factor[w], bufferScale'[w] = bufferScale[w],
             \A o \in Outputs : factor[w][o] # 0 => scale'[o] = scale[o]
      PROVE  Kept(w)
  BY <1>5, <1>7
<1> HIDE DEF Kept
<1>8. CASE e.type = "global" /\ HandleGlobal(e.output)
  <2>1. e = Global("global", e.output)
    BY <1>3, <1>8
  <2>2. e.output \notin bound
    BY <1>2, <1>3, <2>1 DEF AgreeInv, Stages
  <2>3. \A o \in Outputs : factor[w][o] # 0 => scale'[o] = scale[o]
    BY <1>4, <1>8, <2>2 DEF HandleGlobal
  <2> QED BY <1>7, <1>8, <2>3 DEF HandleGlobal
<1>9. CASE e.type = "done" /\ HandleDone(e.output)
  BY <1>7, <1>9 DEF HandleDone
<1>10. CASE e.type = "scale" /\ HandleScale(e.output, e.scale)
  <2>1. CASE e.output \notin bound
    BY <1>7, <1>10, <2>1 DEF HandleScale
  <2>2. CASE e.output \in bound /\ factor[w][e.output] = 0
    <3>1. \A o \in Outputs : factor[w][o] # 0 => scale'[o] = scale[o]
      BY <1>4, <1>10, <2>2 DEF HandleScale
    <3>2. factor'[w] = factor[w] /\ bufferScale'[w] = bufferScale[w]
      BY <1>10, <2>2 DEF HandleScale
    <3> QED BY <1>7, <3>1, <3>2
  <2>3. CASE e.output \in bound /\ factor[w][e.output] # 0
    <3> DEFINE f == [factor[w] EXCEPT ![e.output] = e.scale]
    <3>1. factor'[w] = f /\ scale' = [scale EXCEPT ![e.output] = e.scale]
          /\ bufferScale'[w] = UpdatedScale(bufferScale[w], factor'[w])
      BY <1>10, <2>3 DEF HandleScale
    <3>2. f \in [Outputs -> Scales \cup {0}]
          /\ \A o \in Outputs : f[o] # 0 => f[o] = scale'[o]
      BY <1>3, <1>4, <1>5, <1>10, <3>1
    <3>3. Bounded(f)
      BY <1>3, <1>5, <1>10, ExceptBounded
    <3> HIDE DEF f
    <3> QED BY <1>6, <3>1, <3>2, <3>3
  <2> QED BY <2>1, <2>2, <2>3
<1>11. ASSUME NEW v \in Windows, NEW g \in [Outputs -> Scales \cup {0}], Bounded(g),
              \A o \in Outputs : g[o] # 0 => g[o] = scale[o],
              SetFactors(v, g, monitors), scale' = scale
       PROVE  Kept(w)
  <2>0. factor' = [factor EXCEPT ![v] = g]
        /\ bufferScale' = [bufferScale EXCEPT ![v] = UpdatedScale(@, g)]
    BY <1>11 DEF SetFactors
  <2>1. CASE v = w
    <3>1. factor'[w] = g /\ bufferScale'[w] = UpdatedScale(bufferScale[w], g)
      BY <1>4, <2>0, <2>1
    <3> QED BY <1>6, <1>11, <3>1
  <2>2. CASE v # w
    <3>1. factor'[w] = factor[w] /\ bufferScale'[w] = bufferScale[w]
      BY <2>0, <2>2
    <3> QED BY <1>7, <1>11, <3>1
  <2> QED BY <2>1, <2>2
<1>12. CASE e.type = "enter" /\ HandleEnter(e.window, e.output)
  <2>1. CASE e.output \notin bound
    BY <1>7, <1>12, <2>1 DEF HandleEnter
  <2>2. CASE e.output \in bound
    <3> DEFINE f == [factor[e.window] EXCEPT ![e.output] = scale[e.output]]
    <3>1. e.window \in Windows /\ scale[e.output] \in Scales
      BY <1>3, <1>4, <1>12
    <3>2. f \in [Outputs -> Scales \cup {0}]
          /\ \A o \in Outputs : f[o] # 0 => f[o] = scale[o]
      BY <1>3, <1>5, <3>1
    <3>3. Bounded(f)
      BY <1>3, <1>5, <3>1, ExceptBounded
    <3>4. SetFactors(e.window, f, monitors) /\ scale' = scale
      BY <1>12, <2>2 DEF HandleEnter
    <3> HIDE DEF f
    <3> QED BY <1>11, <3>1, <3>2, <3>3, <3>4
  <2> QED BY <2>1, <2>2
<1>13. ASSUME NEW v \in Windows, NEW o \in Outputs
       PROVE  /\ Left(factor[v], o) \in [Outputs -> Scales \cup {0}]
              /\ Bounded(Left(factor[v], o))
              /\ \A p \in Outputs : Left(factor[v], o)[p] # 0 => Left(factor[v], o)[p] = scale[p]
  <2>1. Bounded([factor[v] EXCEPT ![o] = 0])
    BY <1>5, ExceptBounded
  <2> QED BY <1>5, <2>1 DEF Left
<1>14. CASE e.type = "leave" /\ HandleLeave(e.window, e.output)
  <2>1. CASE e.output \notin bound
    BY <1>7, <1>14, <2>1 DEF HandleLeave
  <2>2. CASE e.output \in bound
    <3>1. e.window \in Windows /\ scale' = scale
          /\ SetFactors(e.window, Left(factor[e.window], e.output), monitors)
      BY <1>3, <1>14, <2>2 DEF HandleLeave
    <3> QED BY <1>3, <1>11, <1>13, <3>1
  <2> QED BY <2>1, <2>2
<1>15. CASE e.type = "remove" /\ HandleGlobalRemove(e.output)
  <2>1. CASE e.output \notin monitors
    BY <1>7, <1>15, <2>1 DEF HandleGlobalRemove
  <2>2. CASE e.output \in monitors
    <3>1. /\ factor' = [v \in Windows |-> Left(factor[v], e.output)]
          /\ bufferScale' = [v \in Windows |->
                UpdatedScale(bufferScale[v], Left(factor[v], e.output))]
          /\ scale' = scale
      BY <1>15, <2>2 DEF HandleGlobalRemove, Removed
    <3>2. /\ factor'[w] = Left(factor[w], e.output)
          /\ bufferScale'[w] = UpdatedScale(bufferScale[w], Left(factor[w], e.output))
      BY <3>1
    <3> QED BY <1>3, <1>6, <1>13, <3>1, <3>2
  <2> QED BY <2>1, <2>2
<1> QED BY <1>8, <1>9, <1>10, <1>12, <1>14, <1>15 DEF Dispatch, e

-----------------------------------------------------------------------------
(* The compositor. *)

(* A queue grows: windows and outputs about which it says nothing stay. *)
LEMMA AgreesLonger ==
  ASSUME NEW q \in Seq(Events), NEW r \in Seq(Events), NEW x, NEW w, NEW o
  PROVE  /\ EndsEntered(q, x, w, o) /\ Stands(r, "leave", w, o) => EndsEntered(q \o r, x, w, o)
         /\ EndsLeft(q, x, w, o) /\ Stands(r, "enter", w, o) => EndsLeft(q \o r, x, w, o)
         /\ ~Stands(r, "enter", w, o) /\ Stands(r, "leave", w, o) => EndsEntered(q \o r, x, w, o)
         /\ ~Stands(r, "leave", w, o) /\ Stands(r, "enter", w, o) => EndsLeft(q \o r, x, w, o)
BY LongerComes, LongerStands, NowComes DEF EndsEntered, EndsLeft

LEMMA CompositorAgrees ==
  ASSUME AgreeInv, NEW r \in Seq(Events), events' = events \o r, UNCHANGED client,
         \A w \in Windows, o \in Outputs :
            IF o \in known' /\ o \in on'[w]
            THEN /\ Stands(r, "leave", w, o)
                 /\ ~Stands(r, "enter", w, o) \/ (o \in known /\ o \in on[w])
            ELSE /\ Stands(r, "enter", w, o)
                 /\ ~Stands(r, "leave", w, o) \/ o \notin known \/ o \notin on[w]
  PROVE  Agrees'
<1>1. events \in Seq(Events) /\ UNCHANGED factor
  BY DEF AgreeInv, OutputsInv, client
<1> SUFFICES ASSUME NEW w \in Windows, NEW o \in Outputs
             PROVE  /\ o \in known' /\ o \in on'[w] => EndsEntered(events', factor'[w][o], w, o)
                    /\ o \notin known' \/ o \notin on'[w] => EndsLeft(events', factor'[w][o], w, o)
  BY DEF Agrees
<1>2. /\ o \in known /\ o \in on[w] => EndsEntered(events, factor[w][o], w, o)
      /\ o \notin known \/ o \notin on[w] => EndsLeft(events, factor[w][o], w, o)
  BY DEF AgreeInv, Agrees
<1> QED BY <1>1, <1>2, AgreesLonger

(* New events announce and remove nothing, but with the lists that follow. *)
LEMMA CompositorStages ==
  ASSUME AgreeInv, NEW r \in Seq(Events), events' = events \o r, UNCHANGED client,
         binds' \subseteq binds, fresh' \subseteq fresh, known' \subseteq plugged',
         \A w \in Windows : on'[w] \subseteq plugged',
         plugged' \subseteq plugged \cup fresh, plugged' \cap fresh' = {},
         \A o \in Outputs : /\ Coming(r, "remove", o) => o \notin fresh \cup plugged'
                            /\ ~Coming(r, "global", o)
                            /\ o \in plugged' => /\ o \in plugged
                                                 /\ o \in known' => o \in known \cup binds
                                                 /\ o \in known \cup binds => o \in known' \cup binds'
  PROVE  Stages'
<1>1. events \in Seq(Events) /\ UNCHANGED bound
      /\ plugged \subseteq Outputs /\ fresh \subseteq Outputs
  BY DEF AgreeInv, OutputsInv, TypeOK, client
<1>2. \A t, o : Coming(events', t, o) <=> Coming(events, t, o) \/ Coming(r, t, o)
  BY <1>1, LongerComing
<1>3. Stages
  BY DEF AgreeInv
<1>4. \A o \in fresh' : /\ o \notin plugged' /\ o \notin binds' /\ o \notin bound'
                        /\ ~Coming(events', "global", o) /\ ~Coming(events', "remove", o)
  BY <1>1, <1>2, <1>3 DEF Stages
<1>5. \A i, j \in DOMAIN events' : \A o \in Outputs :
        events'[i] = Global("global", o) =>
           /\ o \notin bound' /\ (events'[j] = Global("global", o) => i = j)
  <2>1. \A i \in DOMAIN events' : \A o \in Outputs :
           events'[i] = Global("global", o) => i \in DOMAIN events /\ events[i] = events'[i]
    <3> SUFFICES ASSUME NEW i \in DOMAIN events', NEW o \in Outputs,
                        events'[i] = Global("global", o), i \notin DOMAIN events
                 PROVE  FALSE
      BY <1>1
    <3>1. i - Len(events) \in DOMAIN r /\ r[i - Len(events)] = Global("global", o)
      BY <1>1
    <3> QED BY <3>1 DEF Coming
  <2> QED BY <1>1, <1>3, <2>1 DEF Stages
<1>6. \A o \in plugged' : /\ ~Coming(events', "remove", o)
                          /\ o \in binds' \/ o \in known' => o \in bound'
                          /\ o \in known' \/ o \in binds' \/ Coming(events', "global", o)
  <2> SUFFICES ASSUME NEW o \in plugged'
               PROVE  /\ ~Coming(events', "remove", o)
                      /\ o \in binds' \/ o \in known' => o \in bound'
                      /\ o \in known' \/ o \in binds' \/ Coming(events', "global", o)
    OBVIOUS
  <2>1. o \in Outputs
    BY <1>1
  <2>2. o \in plugged
    BY <2>1
  <2>3. /\ ~Coming(events, "remove", o)
        /\ o \in binds \/ o \in known => o \in bound
        /\ o \in known \/ o \in binds \/ Coming(events, "global", o)
    BY <1>3, <2>2 DEF Stages
  <2> QED BY <1>1, <1>2, <2>1, <2>2, <2>3
<1> QED BY <1>4, <1>5, <1>6 DEF Stages

LEMMA CompositorScale ==
  ASSUME AgreeInv, UNCHANGED client
  PROVE  ScaleTrue'
<1>1. UNCHANGED <<factor, scale, bufferScale>>
  BY DEF client
<1>2. ScaleTrue
  BY DEF AgreeInv
<1> QED BY <1>1, <1>2 DEF ScaleTrue

(* What the events that the compositor appends say. *)
LEMMA OneEvent ==
  ASSUME NEW t \in {"enter", "leave"}, NEW w \in Windows, NEW o \in Outputs
  PROVE  /\ <<Surface(t, w, o)>> \in Seq(Events)
         /\ \A u, v, p : Stands(<<Surface(t, w, o)>>, u, v, p) <=> u # t \/ v # w \/ p # o
         /\ \A u \in {"global", "done", "remove"} : \A p : ~Coming(<<Surface(t, w, o)>>, u, p)
<1>1. Surface(t, w, o) \in Events
  BY DEF Surface, Events
<1>2. \A u, v, p : Stands(<<Surface(t, w, o)>>, u, v, p) <=> Surface(t, w, o) # Surface(u, v, p)
  BY DEF Stands
<1>3. \A u, p : Coming(<<Surface(t, w, o)>>, u, p) <=> Surface(t, w, o) = Global(u, p)
  BY DEF Coming
<1> QED BY <1>1, <1>2, <1>3, Different

LEMMA OneGlobal ==
  ASSUME NEW t \in {"global", "done", "remove"}, NEW o \in Outputs
  PROVE  /\ <<Global(t, o)>> \in Seq(Events)
         /\ \A u \in {"enter", "leave"} : \A v, p : Stands(<<Global(t, o)>>, u, v, p)
         /\ \A u, p : Coming(<<Global(t, o)>>, u, p) <=> u = t /\ p = o
<1>1. Global(t, o) \in Events
  BY DEF Global, Events
<1>2. \A u, v, p : Stands(<<Global(t, o)>>, u, v, p) <=> Global(t, o) # Surface(u, v, p)
  BY DEF Stands
<1>3. \A u, p : Coming(<<Global(t, o)>>, u, p) <=> Global(t, o) = Global(u, p)
  BY DEF Coming
<1> QED BY <1>1, <1>2, <1>3, Different

LEMMA Both ==
  ASSUME NEW q \in Seq(Events), NEW r \in Seq(Events)
  PROVE  /\ q \o r \in Seq(Events)
         /\ \A t, w, o : Stands(q \o r, t, w, o) <=> Stands(q, t, w, o) /\ Stands(r, t, w, o)
         /\ \A t, o : Coming(q \o r, t, o) <=> Coming(q, t, o) \/ Coming(r, t, o)
<1>1. \A t, w, o : Stands(q \o r, t, w, o) <=> Stands(q, t, w, o) /\ Stands(r, t, w, o)
  <2> SUFFICES ASSUME NEW t, NEW w, NEW o
               PROVE  Stands(q \o r, t, w, o) <=> Stands(q, t, w, o) /\ Stands(r, t, w, o)
    OBVIOUS
  <2>1. ASSUME Stands(q \o r, t, w, o) PROVE Stands(q, t, w, o) /\ Stands(r, t, w, o)
    <3>1. \A i \in DOMAIN q : i \in DOMAIN (q \o r) /\ (q \o r)[i] = q[i]
      OBVIOUS
    <3>2. \A i \in DOMAIN r : Len(q) + i \in DOMAIN (q \o r) /\ (q \o r)[Len(q) + i] = r[i]
      OBVIOUS
    <3> QED BY <2>1, <3>1, <3>2 DEF Stands
  <2> QED BY <2>1, LongerStands
<1> QED BY <1>1, LongerComing

LEMMA Associates ==
  ASSUME NEW q \in Seq(Events), NEW r \in Seq(Events), NEW s \in Seq(Events)
  PROVE  q \o r \o s = q \o (r \o s)
<1>1. (q \o r) \o s = q \o (r \o s)
  BY ConcatAssociative
<1> QED BY <1>1

LEMMA BindAgrees ==
  ASSUME AgreeInv, NEW o \in Outputs, Bind(o)
  PROVE  Stages' /\ Agrees'
<1> DEFINE enters == ForAll("enter", OnOutput(o), o)
           done == <<Global("done", o)>>
<1>1. OnOutput(o) \in SUBSET Windows
  BY DEF OnOutput
<1>2. /\ enters \in Seq(Events)
      /\ \A t, w, p : Stands(enters, t, w, p) <=> t # "enter" \/ w \notin OnOutput(o) \/ p # o
      /\ \A u \in {"global", "done", "remove"} : \A p : ~Coming(enters, u, p)
  BY <1>1, ForAllIsEvents, ForAllHas
<1>3. /\ done \in Seq(Events)
      /\ \A t \in {"enter", "leave"} : \A w, p : Stands(done, t, w, p)
      /\ \A p : ~Coming(done, "global", p) /\ ~Coming(done, "remove", p)
  BY OneGlobal
<1>4. /\ UNCHANGED client /\ UNCHANGED <<plugged, on, fresh>>
      /\ o \in binds /\ binds' = binds \ {o}
      /\ events \in Seq(Events)
  BY DEF Bind, AgreeInv, OutputsInv
<1>5. Stages
  BY DEF AgreeInv
<1>6. CASE o \notin plugged
  <2>1. UNCHANGED <<known, events>>
    BY <1>6 DEF Bind
  <2> DEFINE r == <<>>
  <2>2. /\ r \in Seq(Events) /\ events' = events \o r
        /\ \A t, w, p : Stands(r, t, w, p)
        /\ \A t, p : ~Coming(r, t, p)
    BY <1>4, <2>1 DEF Stands, Coming
  <2> HIDE DEF r
  <2>3. Stages'
    BY <1>4, <1>5, <1>6, <2>1, <2>2, CompositorStages DEF Stages
  <2>4. Agrees'
    BY <1>4, <2>1, <2>2, CompositorAgrees
  <2> QED BY <2>3, <2>4
<1>7. CASE o \in plugged
  <2>1. known' = known \cup {o} /\ events' \in {events \o enters \o done, events \o done \o enters}
    BY <1>7 DEF Bind
  <2> HIDE DEF enters, done
  <2>2. PICK r \in {enters \o done, done \o enters} : events' = events \o r
    BY <1>2, <1>3, <1>4, <2>1, Associates
  <2>3. /\ r \in Seq(Events)
        /\ \A w, p : /\ Stands(r, "enter", w, p) <=> w \notin OnOutput(o) \/ p # o
                     /\ Stands(r, "leave", w, p)
        /\ \A p : ~Coming(r, "global", p) /\ ~Coming(r, "remove", p)
    <3>1. CASE r = enters \o done
      BY <1>2, <1>3, <3>1, Both
    <3>2. CASE r = done \o enters
      BY <1>2, <1>3, <3>2, Both
    <3> QED BY <2>2, <3>1, <3>2
  <2>4. Stages'
    BY <1>4, <1>5, <1>7, <2>1, <2>2, <2>3, CompositorStages DEF Stages
  <2>5. \A w \in Windows : w \in OnOutput(o) <=> o \in on[w]
    BY DEF OnOutput
  <2>6. \A w \in Windows, p \in Outputs :
            IF p \in known' /\ p \in on'[w]
            THEN /\ Stands(r, "leave", w, p)
                 /\ ~Stands(r, "enter", w, p) \/ (p \in known /\ p \in on[w])
            ELSE /\ Stands(r, "enter", w, p)
                 /\ ~Stands(r, "leave", w, p) \/ p \notin known \/ p \notin on[w]
    BY <1>4, <2>1, <2>3, <2>5
  <2>7. Agrees'
    BY <1>4, <2>2, <2>3, <2>6, CompositorAgrees
  <2> QED BY <2>4, <2>7
<1> QED BY <1>6, <1>7

LEMMA UnplugAgrees ==
  ASSUME AgreeInv, NEW o \in Outputs, Unplug(o)
  PROVE  Stages' /\ Agrees'
<1> DEFINE leaves == IF o \in known THEN ForAll("leave", OnOutput(o), o) ELSE <<>>
           remove == <<Global("remove", o)>>
<1>1. OnOutput(o) \in SUBSET Windows
  BY DEF OnOutput
<1>2. /\ leaves \in Seq(Events)
      /\ \A w, p : /\ Stands(leaves, "leave", w, p) <=>
                         o \notin known \/ w \notin OnOutput(o) \/ p # o
                   /\ Stands(leaves, "enter", w, p)
      /\ \A p : ~Coming(leaves, "global", p) /\ ~Coming(leaves, "remove", p)
  <2>1. CASE o \in known
    BY <1>1, <2>1, ForAllIsEvents, ForAllHas
  <2>2. CASE o \notin known
    BY <2>2 DEF Stands, Coming
  <2> QED BY <2>1, <2>2
<1>3. /\ remove \in Seq(Events)
      /\ \A t \in {"enter", "leave"} : \A w, p : Stands(remove, t, w, p)
      /\ \A p : ~Coming(remove, "global", p) /\ (Coming(remove, "remove", p) <=> p = o)
  BY OneGlobal
<1>4. /\ UNCHANGED client /\ UNCHANGED <<binds, fresh>>
      /\ o \in plugged /\ plugged' = plugged \ {o} /\ known' = known \ {o}
      /\ on' = [w \in Windows |-> on[w] \ {o}]
      /\ events' \in {events \o leaves \o remove, events \o remove \o leaves}
      /\ events \in Seq(Events)
  BY DEF Unplug, AgreeInv, OutputsInv
<1>5. Stages
  BY DEF AgreeInv
<1> HIDE DEF leaves, remove
<1>6. PICK r \in {leaves \o remove, remove \o leaves} : events' = events \o r
  BY <1>2, <1>3, <1>4, Associates
<1>7. /\ r \in Seq(Events)
      /\ \A w, p : /\ Stands(r, "leave", w, p) <=> o \notin known \/ w \notin OnOutput(o) \/ p # o
                   /\ Stands(r, "enter", w, p)
      /\ \A p : ~Coming(r, "global", p) /\ (Coming(r, "remove", p) <=> p = o)
  <2>1. CASE r = leaves \o remove
    BY <1>2, <1>3, <2>1, Both
  <2>2. CASE r = remove \o leaves
    BY <1>2, <1>3, <2>2, Both
  <2> QED BY <1>6, <2>1, <2>2
<1>8. Stages'
  BY <1>4, <1>5, <1>6, <1>7, CompositorStages DEF Stages
<1>9. \A w \in Windows : w \in OnOutput(o) <=> o \in on[w]
  BY DEF OnOutput
<1>10. \A w \in Windows, p \in Outputs :
            IF p \in known' /\ p \in on'[w]
            THEN /\ Stands(r, "leave", w, p)
                 /\ ~Stands(r, "enter", w, p) \/ (p \in known /\ p \in on[w])
            ELSE /\ Stands(r, "enter", w, p)
                 /\ ~Stands(r, "leave", w, p) \/ p \notin known \/ p \notin on[w]
  BY <1>4, <1>7, <1>9
<1>11. Agrees'
  BY <1>4, <1>6, <1>7, <1>10, CompositorAgrees
<1> QED BY <1>8, <1>11

LEMMA PlugAgrees ==
  ASSUME AgreeInv, NEW o \in Outputs, Plug(o)
  PROVE  Stages' /\ Agrees'
<1> DEFINE r == <<Global("global", o)>>
<1>1. /\ r \in Seq(Events)
      /\ \A t \in {"enter", "leave"} : \A w, p : Stands(r, t, w, p)
      /\ \A u, p : Coming(r, u, p) <=> u = "global" /\ p = o
      /\ r = <<Global("global", o)>>
  BY OneGlobal
<1>2. /\ UNCHANGED client /\ UNCHANGED <<known, on, binds>>
      /\ o \in fresh /\ fresh' = fresh \ {o} /\ plugged' = plugged \cup {o}
      /\ events \in Seq(Events) /\ events' = Append(events, Global("global", o))
      /\ UNCHANGED bound
  BY DEF Plug, AgreeInv, OutputsInv, client
<1>3. events' = events \o r
  BY <1>2
<1> HIDE DEF r
<1>4. Agrees'
  BY <1>1, <1>2, <1>3, CompositorAgrees
<1>5. Stages
  BY DEF AgreeInv
<1>6. \A t, p : Coming(events', t, p) <=> Coming(events, t, p) \/ (t = "global" /\ p = o)
  <2> SUFFICES ASSUME NEW t, NEW p
               PROVE  Coming(events', t, p) <=> Coming(events, t, p) \/ (t = "global" /\ p = o)
    OBVIOUS
  <2>1. Coming(events \o r, t, p) <=> Coming(events, t, p) \/ Coming(r, t, p)
    <3>1. events \in Seq(Events) /\ r \in Seq(Events)
      BY <1>1, <1>2
    <3> QED BY <3>1, LongerComing
  <2> QED BY <1>1, <1>3, <2>1
<1>7. \A i, j \in DOMAIN events' : \A p \in Outputs :
        events'[i] = Global("global", p) =>
           /\ p \notin bound' /\ (events'[j] = Global("global", p) => i = j)
  <2>1. /\ DOMAIN events' = 1 .. Len(events) + 1 /\ DOMAIN events = 1 .. Len(events)
        /\ events'[Len(events) + 1] = Global("global", o)
        /\ \A i \in DOMAIN events : events'[i] = events[i]
        /\ Len(events) \in Nat
    BY <1>2
  <2>2. \A i \in DOMAIN events : events[i] # Global("global", o)
    BY <1>2, <1>5 DEF Stages, Coming
  <2>3. o \notin bound
    BY <1>2, <1>5 DEF Stages
  <2> SUFFICES ASSUME NEW i \in DOMAIN events', NEW j \in DOMAIN events', NEW p \in Outputs,
                      events'[i] = Global("global", p)
               PROVE  p \notin bound' /\ (events'[j] = Global("global", p) => i = j)
    OBVIOUS
  <2>4. CASE p = o
    <3>1. \A k \in DOMAIN events' : events'[k] = Global("global", o) => k = Len(events) + 1
      BY <2>1, <2>2
    <3> QED BY <1>2, <2>3, <2>4, <3>1
  <2>5. CASE p # o
    <3>1. \A k \in DOMAIN events' : events'[k] = Global("global", p) =>
             k \in DOMAIN events /\ events[k] = Global("global", p)
      BY <2>1, <2>5, Different
    <3> QED BY <1>2, <1>5, <3>1 DEF Stages
  <2> QED BY <2>4, <2>5
<1>8. Stages'
  BY <1>2, <1>5, <1>6, <1>7 DEF Stages
<1> QED BY <1>4, <1>8

LEMMA MoveAgrees ==
  ASSUME AgreeInv, NEW w \in Windows, NEW o \in Outputs, EnterOutput(w, o) \/ LeaveOutput(w, o)
  PROVE  Stages' /\ Agrees'
<1>1. /\ UNCHANGED client /\ UNCHANGED <<plugged, known, fresh, binds>>
      /\ events \in Seq(Events) /\ on \in [Windows -> SUBSET Outputs]
  BY DEF EnterOutput, LeaveOutput, Move, AgreeInv, OutputsInv, TypeOK
<1>2. Stages
  BY DEF AgreeInv
<1>3. PICK t \in {"enter", "leave"} :
        /\ t = "enter" => EnterOutput(w, o)
        /\ t = "leave" => LeaveOutput(w, o)
  OBVIOUS
<1>4. /\ \A v \in Windows : v # w => on'[v] = on[v]
      /\ t = "enter" => o \in plugged /\ on'[w] = on[w] \cup {o}
      /\ t = "leave" => on'[w] = on[w] \ {o}
      /\ events' = IF o \in known THEN Append(events, Surface(t, w, o)) ELSE events
  BY <1>1, <1>3 DEF EnterOutput, LeaveOutput, Tell
<1> DEFINE r == IF o \in known THEN <<Surface(t, w, o)>> ELSE <<>>
<1>5. /\ r \in Seq(Events) /\ events' = events \o r
      /\ \A u, v, p : Stands(r, u, v, p) <=> o \notin known \/ u # t \/ v # w \/ p # o
      /\ \A u \in {"global", "done", "remove"} : \A p : ~Coming(r, u, p)
  <2>1. CASE o \in known
    BY <1>1, <1>4, <2>1, OneEvent
  <2>2. CASE o \notin known
    BY <1>1, <1>4, <2>2 DEF Stands, Coming
  <2> QED BY <2>1, <2>2
<1> HIDE DEF r
<1>6. \A v \in Windows : on'[v] \subseteq plugged
  BY <1>2, <1>3, <1>4 DEF Stages
<1>7. Stages'
  BY <1>1, <1>2, <1>5, <1>6, CompositorStages DEF Stages
<1>8. \A v \in Windows, p \in Outputs :
            IF p \in known' /\ p \in on'[v]
            THEN /\ Stands(r, "leave", v, p)
                 /\ ~Stands(r, "enter", v, p) \/ (p \in known /\ p \in on[v])
            ELSE /\ Stands(r, "enter", v, p)
                 /\ ~Stands(r, "leave", v, p) \/ p \notin known \/ p \notin on[v]
  BY <1>1, <1>3, <1>4, <1>5
<1>9. Agrees'
  BY <1>1, <1>5, <1>8, CompositorAgrees
<1> QED BY <1>7, <1>9

LEMMA RescaleAgrees ==
  ASSUME AgreeInv, NEW o \in Outputs, NEW s \in Scales, Rescale(o, s)
  PROVE  Stages' /\ Agrees'
<1> DEFINE e == [type |-> "scale", output |-> o, scale |-> s]
           r == <<e>>
<1>1. /\ UNCHANGED client /\ UNCHANGED <<plugged, known, fresh, binds, on>>
      /\ events \in Seq(Events) /\ events' = Append(events, e)
  BY DEF Rescale, Move, AgreeInv, OutputsInv
<1>2. e \in Events /\ e.type = "scale"
  BY DEF Events
<1> HIDE DEF e
<1>3. /\ \A t \in {"enter", "leave"} : \A w, p : e # Surface(t, w, p)
      /\ \A t \in {"global", "remove"} : \A p : e # Global(t, p)
  BY <1>2, EventIs
<1>4. /\ r \in Seq(Events) /\ events' = events \o r
      /\ \A t \in {"enter", "leave"} : \A w, p : Stands(r, t, w, p)
      /\ \A t \in {"global", "remove"} : \A p : ~Coming(r, t, p)
  BY <1>1, <1>2, <1>3 DEF Stands, Coming
<1> HIDE DEF r
<1>5. Stages
  BY DEF AgreeInv
<1>6. Stages'
  BY <1>1, <1>4, <1>5, CompositorStages DEF Stages
<1>7. Agrees'
  BY <1>1, <1>4, CompositorAgrees
<1> QED BY <1>6, <1>7

-----------------------------------------------------------------------------
LEMMA InitAgreeInv == Init => AgreeInv
<1> SUFFICES ASSUME Init PROVE AgreeInv
  OBVIOUS
<1>1. OutputsInv
  BY InitOutputsInv
<1>2. /\ events = <<>> /\ DOMAIN events = {}
      /\ \A w \in Windows : factor[w] = [o \in Outputs |-> 0] /\ on[w] = {} /\ bufferScale[w] = 1
  BY DEF Init
<1>3. Stages
  BY <1>2 DEF Init, Stages, Coming
<1>4. Agrees
  BY <1>2 DEF Agrees, EndsLeft, Stands
<1>5. ScaleTrue
  <2>1. bufferScale \in [Windows -> Scales]
    BY OutputsAssumption DEF Init, OutputsAssumption
  <2>2. \A w \in Windows : Bounded(factor[w]) /\ Entered(factor[w]) = {}
    BY <1>2 DEF Bounded, Entered
  <2> QED BY <1>2, <2>1, <2>2 DEF ScaleTrue, UpdatedScale
<1> QED BY <1>1, <1>3, <1>4, <1>5 DEF AgreeInv

LEMMA NextAgreeInv ==
  ASSUME AgreeInv, [Next]_vars
  PROVE  AgreeInv'
<1>1. OutputsInv'
  BY NextKeeps DEF AgreeInv
<1>2. CASE Dispatch
  BY <1>1, <1>2, DispatchAgrees, DispatchStages, DispatchScale DEF AgreeInv
<1>3. ASSUME UNCHANGED <<bound, scale, factor, bufferScale, compositor, binds, events>>
      PROVE  AgreeInv'
  <2>1. Stages' /\ Agrees'
    BY <1>3 DEF AgreeInv, Stages, Agrees, compositor
  <2>2. ScaleTrue'
    BY <1>3 DEF AgreeInv, ScaleTrue
  <2> QED BY <1>1, <2>1, <2>2 DEF AgreeInv
<1>4. ASSUME NEW w \in Windows, \/ SetFullScreen(w) \/ LeaveFullScreen(w)
                                \/ RequestFullScreenSecondary(w) \/ ShowAgain(w)
      PROVE  AgreeInv'
  BY <1>3, <1>4 DEF SetFullScreen, LeaveFullScreen, RequestFullScreenSecondary, ShowAgain, Call
<1>5. ASSUME UNCHANGED client, Stages', Agrees' PROVE AgreeInv'
  BY <1>1, <1>5, CompositorScale DEF AgreeInv
<1>6. ASSUME NEW w \in Windows, NEW o \in Outputs, EnterOutput(w, o) \/ LeaveOutput(w, o)
      PROVE  AgreeInv'
  BY <1>5, <1>6, MoveAgrees DEF EnterOutput, LeaveOutput, Move
<1>7. ASSUME NEW o \in Outputs, Plug(o) PROVE AgreeInv'
  BY <1>5, <1>7, PlugAgrees DEF Plug
<1>8. ASSUME NEW o \in Outputs, Bind(o) PROVE AgreeInv'
  BY <1>5, <1>8, BindAgrees DEF Bind
<1>9. ASSUME NEW o \in Outputs, Unplug(o) PROVE AgreeInv'
  BY <1>5, <1>9, UnplugAgrees DEF Unplug
<1>10. ASSUME NEW o \in Outputs, NEW s \in Scales, Rescale(o, s) PROVE AgreeInv'
  BY <1>5, <1>10, RescaleAgrees DEF Rescale, Move
<1>11. CASE UNCHANGED vars
  BY <1>3, <1>11 DEF vars, client
<1> QED BY <1>2, <1>4, <1>6, <1>7, <1>8, <1>9, <1>10, <1>11 DEF Next

(* When all has arrived, a window has entered the outputs that it is on;   *)
(* and at any time its buffer has the largest scale of those that it has   *)
(* entered (surfaceHandleEnter, surfaceHandleLeave, outputHandleScale,     *)
(* registryHandleGlobalRemove, _glfwUpdateBufferScaleFromOutputsWayland).  *)
THEOREM OutputsAlwaysAgree == Spec => []OutputsAgree
<1>1. ASSUME AgreeInv PROVE OutputsAgree
  <2> SUFFICES ASSUME NEW w \in Windows
               PROVE  /\ Arrived => Entered(factor[w]) = on[w]
                      /\ \A o \in Entered(factor[w]) : factor[w][o] = scale[o]
                      /\ bufferScale[w] \in Scales
                      /\ Entered(factor[w]) # {} =>
                            bufferScale[w] = Max({scale[o] : o \in Entered(factor[w])} \cup {1})
    BY DEF OutputsAgree
  <2>1. ASSUME Arrived PROVE Entered(factor[w]) = on[w]
    <3>1. on[w] \subseteq Outputs /\ on[w] \subseteq plugged
      BY <1>1 DEF AgreeInv, OutputsInv, TypeOK, Stages
    <3>2. events = <<>> /\ binds = {}
      BY <2>1 DEF Arrived
    <3>3. plugged \subseteq known
      BY <1>1, <3>2 DEF AgreeInv, Stages, Coming
    <3>4. \A o \in Outputs : /\ o \in known /\ o \in on[w] => EndsEntered(<<>>, factor[w][o], w, o)
                             /\ o \notin known \/ o \notin on[w] => EndsLeft(<<>>, factor[w][o], w, o)
      BY <1>1, <3>2 DEF AgreeInv, Agrees
    <3>5. \A o \in Outputs : /\ EndsEntered(<<>>, factor[w][o], w, o) => factor[w][o] # 0
                             /\ EndsLeft(<<>>, factor[w][o], w, o) => factor[w][o] = 0
      BY DEF EndsEntered, EndsLeft, Comes
    <3> QED BY <3>1, <3>3, <3>4, <3>5 DEF Entered
  <2>2. \A o \in Entered(factor[w]) : factor[w][o] = scale[o]
    BY <1>1 DEF AgreeInv, ScaleTrue, Entered
  <2>3. bufferScale[w] \in Scales /\ bufferScale[w] = UpdatedScale(bufferScale[w], factor[w])
    BY <1>1 DEF AgreeInv, ScaleTrue
  <2>4. {factor[w][o] : o \in Entered(factor[w])} = {scale[o] : o \in Entered(factor[w])}
    BY <2>2
  <2>5. Entered(factor[w]) # {} =>
           bufferScale[w] = Max({scale[o] : o \in Entered(factor[w])} \cup {1})
    BY <2>3, <2>4 DEF UpdatedScale
  <2> QED BY <2>1, <2>2, <2>3, <2>5
<1> QED BY <1>1, InitAgreeInv, NextAgreeInv, PTL DEF Spec
=============================================================================
