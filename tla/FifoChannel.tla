---------------------------- MODULE FifoChannel -----------------------------
(***************************************************************************)
(* What internal/async promises of an unbounded channel: what is sent is   *)
(* received once and in order, and the receiver is told the end only when  *)
(* the channel has been closed and everything sent has been received.      *)
(***************************************************************************)
EXTENDS Sequences

CONSTANT Values

VARIABLES held,   \* sent and not yet received, oldest first
          open,   \* Close has not been called
          ended   \* the receiver has been told the end

fifoVars == <<held, open, ended>>

Init == held = <<>> /\ open = TRUE /\ ended = FALSE

Send(v) == /\ open
           /\ held' = Append(held, v)
           /\ UNCHANGED <<open, ended>>

Receive == /\ held # <<>>
           /\ held' = Tail(held)
           /\ UNCHANGED <<open, ended>>

Close == open /\ open' = FALSE /\ UNCHANGED <<held, ended>>

End == /\ ~open /\ held = <<>>
       /\ ended' = TRUE
       /\ UNCHANGED <<held, open>>

Next == (\E v \in Values : Send(v)) \/ Receive \/ Close \/ End

Spec == Init /\ [][Next]_fifoVars
=============================================================================
