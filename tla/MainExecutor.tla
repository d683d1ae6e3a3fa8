---------------------------- MODULE MainExecutor ----------------------------
(***************************************************************************)
(* What fyne.Do and fyne.DoAndWait promise, with no threads in it: calls   *)
(* are queued, the main thread executes them in the order they were        *)
(* queued, each at most once, and a caller that waits is released only by  *)
(* the execution of its own call.  Once the application has been told to   *)
(* quit, and only then, the queue may be discarded (which releases its     *)
(* waiters) and new calls may be executed at once by whoever makes them.   *)
(* RunLoop implements this specification.                                  *)
(***************************************************************************)
EXTENDS Naturals, Sequences

CONSTANT Calls          \* the calls that can be made; each is made once

VARIABLES queue,        \* calls made and not yet executed, oldest first
          executed,     \* calls whose function has been called
          dropped,      \* calls discarded without being executed
          returned,     \* calls whose waiting caller has been released
          quitting      \* the application has been told to quit

vars == <<queue, executed, dropped, returned, quitting>>

Queued == {queue[i] : i \in DOMAIN queue}
Made == Queued \cup executed \cup dropped

TypeOK == /\ queue \in Seq(Calls)
          /\ executed \subseteq Calls
          /\ dropped \subseteq Calls
          /\ returned \subseteq Calls
          /\ quitting \in BOOLEAN

Init == /\ queue = <<>>
        /\ executed = {}
        /\ dropped = {}
        /\ returned = {}
        /\ quitting = FALSE

Submit(c) == /\ c \notin Made
             /\ queue' = Append(queue, c)
             /\ UNCHANGED <<executed, dropped, returned, quitting>>

ExecuteNext == /\ queue # <<>>
               /\ executed' = executed \cup {Head(queue)}
               /\ queue' = Tail(queue)
               /\ UNCHANGED <<dropped, returned, quitting>>

DropNext == /\ quitting
            /\ queue # <<>>
            /\ dropped' = dropped \cup {Head(queue)}
            /\ queue' = Tail(queue)
            /\ UNCHANGED <<executed, returned, quitting>>

ExecuteInline(c) == /\ quitting
                    /\ c \notin Made
                    /\ executed' = executed \cup {c}
                    /\ UNCHANGED <<queue, dropped, returned, quitting>>

Return(c) == /\ c \in executed \cup dropped
             /\ c \notin returned
             /\ returned' = returned \cup {c}
             /\ UNCHANGED <<queue, executed, dropped, quitting>>

Quit == /\ quitting' = TRUE
        /\ UNCHANGED <<queue, executed, dropped, returned>>

Next == \/ \E c \in Calls : Submit(c) \/ ExecuteInline(c) \/ Return(c)
        \/ ExecuteNext
        \/ DropNext
        \/ Quit

Spec == Init /\ [][Next]_vars
=============================================================================
