--------------------------- MODULE WaylandOutputs ---------------------------
(***************************************************************************)
(* Outputs of a Wayland session that come and go, and the fullscreen       *)
(* windows on them: the registry (wl_init.c), the outputs (wl_monitor.c    *)
(* and monitor.c), the outputs a surface is on and its scale               *)
(* (wl_window.c), fullscreen on the output the compositor selects          *)
(* (wl_refyne.c), and the driver that follows a forced exit                *)
(* (loop_desktop.go, window_desktop.go).                                   *)
(*                                                                         *)
(* Every plug of an output makes a new wl_output, so an output is plugged  *)
(* at most once.  The compositor may put any window on any output; that a  *)
(* request of the client moved it there is of no matter here.              *)
(***************************************************************************)
EXTENDS Naturals, Sequences, SequencesExt, FiniteSetsExt

CONSTANTS
    Windows, Outputs,
    None,           \* no monitor
    Scales,         \* the scale factors of outputs
    MaxCalls,       \* bound: calls of the application
    MaxMoves        \* bound: enters, leaves and changes of a scale

ASSUME OutputsAssumption ==
    /\ IsFiniteSet(Windows) /\ None \notin Outputs
    /\ Scales \subseteq Nat \ {0} /\ 1 \in Scales
    /\ MaxCalls \in Nat /\ MaxMoves \in Nat

VARIABLES
    bound,          \* outputs with a wl_output proxy and a _GLFWmonitor
    monitors,       \* those in the list of GLFW's monitors; its order is left out
    scale,          \* their scales, as far as the client knows
    monitor,        \* per window, the monitor that it is fullscreen on, or None
    currentOutput,  \* and whether the compositor selected it
    factor,         \* and the scales of the outputs it has entered (0: not entered)
    bufferScale,    \* and the scale of its buffer
    wanted,         \* and what the driver's flags say: "window", "here" or "secondary"
    plugged, known, \* the compositor: outputs there are, and those the client has bound
    binds,          \* requests to bind on their way
    on,             \* per window, the outputs it is on
    fresh,          \* outputs that have not been plugged yet
    events,         \* on their way to the client
    calls, moves    \* the counters that the bounds are for

client == <<bound, monitors, scale, monitor, currentOutput, factor, bufferScale>>
compositor == <<plugged, known, on, fresh>>
vars == <<client, wanted, compositor, binds, events, calls, moves>>

\* glfwInit waits until the outputs of the moment are known.
Init ==
    /\ plugged \in SUBSET Outputs \ {{}}
    /\ known = plugged /\ fresh = Outputs \ plugged
    /\ bound = plugged /\ monitors = plugged
    /\ scale = [o \in Outputs |-> 1]
    /\ monitor = [w \in Windows |-> None]
    /\ currentOutput = [w \in Windows |-> FALSE]
    /\ factor = [w \in Windows |-> [o \in Outputs |-> 0]]
    /\ bufferScale = [w \in Windows |-> 1]
    /\ wanted = [w \in Windows |-> "window"]
    /\ on = [w \in Windows |-> {}]
    /\ binds = {} /\ events = <<>>
    /\ calls = 0 /\ moves = 0
----------------------------------------------------------------------------
(***************************************************************************)
(* Helpers of the handlers.  f is the factors of one window, ms the list.  *)
(***************************************************************************)
Entered(f) == {o \in Outputs : f[o] # 0}

\* monitorForEnteredOutput: only when the window is on one output alone.
ForEntered(f, ms) == {o \in ms : Entered(f) = {o}}

\* _glfwReconcileFullscreenOutputWayland: the monitor m of a window becomes this.
Reconciled(m, current, f, ms) ==
    IF m # None /\ current /\ ForEntered(f, ms) # {}
    THEN CHOOSE o \in ForEntered(f, ms) : TRUE
    ELSE m

\* _glfwUpdateBufferScaleFromOutputsWayland: kept while there is no output.
UpdatedScale(s, f) ==
    IF Entered(f) = {} THEN s ELSE Max({f[o] : o \in Entered(f)} \cup {1})

\* The factors of w become f: both updates follow.
SetFactors(w, f, ms) ==
    /\ factor' = [factor EXCEPT ![w] = f]
    /\ monitor' = [monitor EXCEPT ![w] = Reconciled(@, currentOutput[w], f, ms)]
    /\ bufferScale' = [bufferScale EXCEPT ![w] = UpdatedScale(@, f)]
----------------------------------------------------------------------------
(* Events. *)
HandleGlobal(o) ==
    /\ bound' = bound \cup {o}
    /\ scale' = [scale EXCEPT ![o] = 1]
    /\ binds' = binds \cup {o}
    /\ UNCHANGED <<monitors, monitor, currentOutput, factor, bufferScale, wanted>>

\* Mutant: the windows are not looked at.
HandleDone_listed(o) ==
    /\ monitors' = IF o \in bound THEN monitors \cup {o} ELSE monitors
    /\ UNCHANGED <<bound, scale, monitor, currentOutput, factor, bufferScale, wanted, binds>>

\* The first done of an output lists it; windows may be on it already.
HandleDone(o) ==
    /\ IF o \in bound \ monitors
       THEN /\ monitors' = monitors \cup {o}
            /\ monitor' = [w \in Windows |->
                  Reconciled(monitor[w], currentOutput[w], factor[w], monitors')]
       ELSE UNCHANGED <<monitors, monitor>>
    /\ UNCHANGED <<bound, scale, currentOutput, factor, bufferScale, wanted, binds>>

\* Mutant: what the windows have noted of the output is not refreshed.
HandleScale_monitor(o, s) ==
    /\ scale' = IF o \in bound THEN [scale EXCEPT ![o] = s] ELSE scale
    /\ UNCHANGED <<bound, monitors, monitor, currentOutput, factor, bufferScale, wanted, binds>>
HandleScale(o, s) ==
    /\ IF o \in bound
       THEN /\ scale' = [scale EXCEPT ![o] = s]
            /\ factor' = [w \in Windows |->
                  IF factor[w][o] # 0 THEN [factor[w] EXCEPT ![o] = s] ELSE factor[w]]
            /\ bufferScale' = [w \in Windows |->
                  IF factor[w][o] # 0 THEN UpdatedScale(bufferScale[w], factor'[w])
                  ELSE bufferScale[w]]
       ELSE UNCHANGED <<scale, factor, bufferScale>>
    /\ UNCHANGED <<bound, monitors, monitor, currentOutput, wanted, binds>>

\* An event about a proxy that has been destroyed carries NULL.
HandleEnter(w, o) ==
    /\ IF o \in bound
       THEN SetFactors(w, [factor[w] EXCEPT ![o] = scale[o]], monitors)
       ELSE UNCHANGED <<factor, monitor, bufferScale>>
    /\ UNCHANGED <<bound, monitors, scale, currentOutput, wanted, binds>>

\* _glfwRemoveOutputWayland
Left(f, o) == [f EXCEPT ![o] = 0]

HandleLeave(w, o) ==
    /\ IF o \in bound
       THEN SetFactors(w, Left(factor[w], o), monitors)
       ELSE UNCHANGED <<factor, monitor, bufferScale>>
    /\ UNCHANGED <<bound, monitors, scale, currentOutput, wanted, binds>>

\* Mutant: only a leave does.
Removed_not(f, o) == f
Removed(f, o) == Left(f, o)

\* _glfwInputMonitor
Listed_still(ms, o) == ms    \* Mutant: a disconnected monitor stays in the list.
Listed(ms, o) == ms \ {o}

\* A monitor to keep a window on that the compositor placed on o.
Spare_none(o) == {None}      \* Mutant: fullscreen ends.
Spare(o) == IF monitors = {o} THEN {None} ELSE monitors \ {o}

\* A window that is on the removed monitor in spite of that is forced out of
\* fullscreen, and the driver's monitor callback follows.
HandleGlobalRemove(o) ==
    /\ IF o \in monitors
       THEN \E spare \in Spare(o) :
              LET removed(w) == Removed(factor[w], o)
                  placed(w) == Reconciled(monitor[w], currentOutput[w], removed(w), monitors)
                  moved(w) == IF placed(w) = o /\ currentOutput[w] /\ spare # None
                              THEN spare ELSE placed(w)
                  forced(w) == moved(w) = o
              IN  /\ factor' = [w \in Windows |-> removed(w)]
                  /\ bufferScale' = [w \in Windows |-> UpdatedScale(bufferScale[w], removed(w))]
                  /\ monitor' = [w \in Windows |-> IF forced(w) THEN None ELSE moved(w)]
                  /\ currentOutput' = [w \in Windows |-> currentOutput[w] /\ ~forced(w)]
                  /\ wanted' = [w \in Windows |->
                        IF monitor'[w] = None THEN "window" ELSE wanted[w]]
                  /\ monitors' = Listed(monitors, o)
                  /\ bound' = bound \ {o}
       ELSE UNCHANGED <<factor, bufferScale, monitor, currentOutput, wanted, monitors, bound>>
    /\ UNCHANGED <<scale, binds>>

Dispatch ==
    /\ events # <<>>
    /\ LET e == Head(events)
       IN  \/ e.type = "global" /\ HandleGlobal(e.output)
           \/ e.type = "done" /\ HandleDone(e.output)
           \/ e.type = "scale" /\ HandleScale(e.output, e.scale)
           \/ e.type = "enter" /\ HandleEnter(e.window, e.output)
           \/ e.type = "leave" /\ HandleLeave(e.window, e.output)
           \/ e.type = "remove" /\ HandleGlobalRemove(e.output)
    /\ events' = Tail(events)
    /\ UNCHANGED <<compositor, calls, moves>>
----------------------------------------------------------------------------
(***************************************************************************)
(* The application: SetFullScreen, RequestFullScreenSecondary, Show.       *)
(***************************************************************************)
\* _glfwSetWindowMonitorWayland
SetWindowMonitor(w, m) ==
    /\ monitor' = [monitor EXCEPT ![w] = m]
    /\ currentOutput' = [currentOutput EXCEPT ![w] = FALSE]

FullScreenOnCurrentOutput(w) ==
    LET entered == ForEntered(factor[w], monitors)
        choices == IF entered # {} THEN entered
                   ELSE IF monitor[w] # None THEN {monitor[w]}
                   ELSE monitors
    IN  IF (currentOutput[w] /\ monitor[w] # None) \/ choices = {}
        THEN UNCHANGED <<monitor, currentOutput>>
        ELSE /\ \E m \in choices : monitor' = [monitor EXCEPT ![w] = m]
             /\ currentOutput' = [currentOutput EXCEPT ![w] = TRUE]

\* The secondary monitor is the first at another position than the primary one,
\* or the primary one: any of the list.
FullScreenSecondary(w) ==
    IF monitors = {} THEN UNCHANGED <<monitor, currentOutput>>
    ELSE \E m \in monitors : SetWindowMonitor(w, m)

Call ==
    /\ calls < MaxCalls
    /\ calls' = calls + 1
    /\ UNCHANGED <<bound, monitors, scale, factor, bufferScale, compositor, binds, events, moves>>

SetFullScreen(w) ==
    /\ Call
    /\ wanted' = [wanted EXCEPT ![w] = "here"]
    /\ FullScreenOnCurrentOutput(w)

LeaveFullScreen(w) ==
    /\ Call
    /\ wanted' = [wanted EXCEPT ![w] = "window"]
    /\ SetWindowMonitor(w, None)

RequestFullScreenSecondary(w) ==
    /\ Call
    /\ wanted' = [wanted EXCEPT ![w] = "secondary"]
    /\ FullScreenSecondary(w)

\* A window that is shown again asks for its fullscreen once more.
ShowAgain(w) ==
    /\ Call
    /\ \/ wanted[w] = "secondary" /\ FullScreenSecondary(w)
       \/ wanted[w] = "here" /\ FullScreenOnCurrentOutput(w)
    /\ UNCHANGED wanted
----------------------------------------------------------------------------
(***************************************************************************)
(* The compositor: external.                                               *)
(***************************************************************************)
Global(type, o) == [type |-> type, output |-> o]
Surface(type, w, o) == [type |-> type, window |-> w, output |-> o]

\* The events of one kind that windows ws receive about o, in some order.
ForAll(type, ws, o) == LET s == SetToSeq(ws) IN [i \in DOMAIN s |-> Surface(type, s[i], o)]
OnOutput(o) == {w \in Windows : o \in on[w]}

Plug(o) ==
    /\ o \in fresh
    /\ fresh' = fresh \ {o} /\ plugged' = plugged \cup {o}
    /\ events' = Append(events, Global("global", o))
    /\ UNCHANGED <<client, wanted, known, on, binds, calls, moves>>

\* The enters of the windows that are there come before or after the done; an
\* output that is gone already is inert.
Bind(o) ==
    /\ o \in binds
    /\ binds' = binds \ {o}
    /\ IF o \in plugged
       THEN /\ known' = known \cup {o}
            /\ LET enters == ForAll("enter", OnOutput(o), o)
                   done == <<Global("done", o)>>
               IN  events' \in {events \o enters \o done, events \o done \o enters}
       ELSE UNCHANGED <<known, events>>
    /\ UNCHANGED <<client, wanted, plugged, on, fresh, calls, moves>>

Unplug(o) ==
    /\ o \in plugged
    /\ plugged' = plugged \ {o} /\ known' = known \ {o}
    /\ on' = [w \in Windows |-> on[w] \ {o}]
    /\ LET leaves == IF o \in known THEN ForAll("leave", OnOutput(o), o) ELSE <<>>
           remove == <<Global("remove", o)>>
       IN  events' \in {events \o leaves \o remove, events \o remove \o leaves}
    /\ UNCHANGED <<client, wanted, fresh, binds, calls, moves>>

Move == moves < MaxMoves /\ moves' = moves + 1
        /\ UNCHANGED <<client, wanted, plugged, known, fresh, binds, calls>>
Tell(o, e) == events' = IF o \in known THEN Append(events, e) ELSE events

\* An enter may be repeated.
EnterOutput(w, o) ==
    /\ Move /\ o \in plugged
    /\ on' = [on EXCEPT ![w] = @ \cup {o}]
    /\ Tell(o, Surface("enter", w, o))

LeaveOutput(w, o) ==
    /\ Move /\ o \in on[w]
    /\ on' = [on EXCEPT ![w] = @ \ {o}]
    /\ Tell(o, Surface("leave", w, o))

Rescale(o, s) ==
    /\ Move /\ o \in known
    /\ events' = Append(events, [type |-> "scale", output |-> o, scale |-> s])
    /\ UNCHANGED on
----------------------------------------------------------------------------
Next ==
    \/ Dispatch
    \/ \E w \in Windows :
          \/ SetFullScreen(w) \/ LeaveFullScreen(w)
          \/ RequestFullScreenSecondary(w) \/ ShowAgain(w)
          \/ \E o \in Outputs : EnterOutput(w, o) \/ LeaveOutput(w, o)
    \/ \E o \in Outputs :
          \/ Plug(o) \/ Bind(o) \/ Unplug(o)
          \/ \E s \in Scales : Rescale(o, s)

Spec == Init /\ [][Next]_vars
----------------------------------------------------------------------------
TypeOK ==
    /\ bound \subseteq Outputs /\ monitors \subseteq bound
    /\ scale \in [Outputs -> Scales]
    /\ monitor \in [Windows -> Outputs \cup {None}]
    /\ currentOutput \in [Windows -> BOOLEAN]
    /\ factor \in [Windows -> [Outputs -> Scales \cup {0}]]
    /\ wanted \in [Windows -> {"window", "here", "secondary"}]
    /\ plugged \subseteq Outputs /\ known \subseteq Outputs
    /\ binds \subseteq Outputs /\ fresh \subseteq Outputs
    /\ on \in [Windows -> SUBSET Outputs]

\* No window keeps a monitor or an output that has been freed: what it is
\* fullscreen on is in the list, and what it has entered has a proxy.
NoneDangling ==
    \A w \in Windows : /\ monitor[w] \in monitors \cup {None}
                       /\ Entered(factor[w]) \subseteq bound

\* A window whose fullscreen output the compositor selects is recorded on the
\* output that it is on, if it is on one alone and that one is a monitor.
RecordedWhereShown ==
    \A w \in Windows : \A o \in monitors :
        currentOutput[w] /\ Entered(factor[w]) = {o} => monitor[w] = o

\* When all has arrived, a window has entered the outputs that it is on, with
\* the scales they have, and its buffer has the largest of them.
Arrived == events = <<>> /\ binds = {}
OutputsAgree ==
    \A w \in Windows :
        /\ Arrived => Entered(factor[w]) = on[w]
        /\ \A o \in Entered(factor[w]) : factor[w][o] = scale[o]
        /\ bufferScale[w] \in Scales
        /\ Entered(factor[w]) # {} =>
              bufferScale[w] = Max({scale[o] : o \in Entered(factor[w])} \cup {1})

\* While a monitor is left, no event ends fullscreen that the compositor placed,
\* and a disconnect leaves no window that the driver takes for fullscreen but
\* GLFW does not, or the other way round.
FullscreenFollows ==
    [][events # <<>> /\ events' = Tail(events) =>
         \A w \in Windows :
            /\ currentOutput[w] /\ monitors' # {} => currentOutput'[w] /\ monitor'[w] # None
            /\ monitors' # monitors /\ Head(events).type = "remove" =>
                  (monitor'[w] # None <=> wanted'[w] # "window")]_vars
============================================================================
