--------------------------- MODULE UnboundedChan ----------------------------
(***************************************************************************)
(* internal/async/chan.go: a channel without bound, made of two buffered   *)
(* Go channels and a goroutine that moves what is sent from one to the     *)
(* other through a slice.                                                  *)
(*                                                                         *)
(* Senders and the closer keep to the use the code makes of it in the life *)
(* cycle queue: nothing is sent once Close has been called.                *)
(***************************************************************************)
EXTENDS Naturals, Sequences

CONSTANTS Senders,
          Cap,        \* of the in and out channels; 16 in the code
          MaxSends    \* bound: values each sender sends

ASSUME ChanAssumption == Cap \in Nat \ {0} /\ MaxSends \in Nat

Values == [by : Senders, n : 1 .. MaxSends]

VARIABLES
  in, out, q,          \* the two channels and the slice
  inClosed, outClosed, \* close(ch.in), close(ch.out)
  place,               \* of the processing goroutine
  sent,                \* how many values each sender has sent
  closing,             \* Close has been called
  told,                \* the receiver's loop has ended
  got                  \* how many values of each it has received

endVars == <<sent, closing, told, got>>
vars == <<in, out, q, inClosed, outClosed, place, endVars>>

Places == {"outer", "inner", "drainin", "drainq", "ended"}

TypeOK ==
  /\ in \in Seq(Values) /\ out \in Seq(Values) /\ q \in Seq(Values)
  /\ Len(in) <= Cap /\ Len(out) <= Cap
  /\ inClosed \in BOOLEAN /\ outClosed \in BOOLEAN /\ place \in Places
  /\ sent \in [Senders -> 0 .. MaxSends] /\ got \in [Senders -> 0 .. MaxSends]
  /\ closing \in BOOLEAN /\ told \in BOOLEAN

Init ==
  /\ in = <<>> /\ out = <<>> /\ q = <<>>
  /\ inClosed = FALSE /\ outClosed = FALSE /\ place = "outer"
  /\ sent = [s \in Senders |-> 0] /\ got = [s \in Senders |-> 0]
  /\ closing = FALSE /\ told = FALSE

-----------------------------------------------------------------------------
(* The users of the channel. *)

(* In() <- v *)
Send(s) ==
  /\ ~closing /\ sent[s] < MaxSends
  /\ Len(in) < Cap
  /\ in' = Append(in, [by |-> s, n |-> sent[s] + 1])
  /\ sent' = [sent EXCEPT ![s] = @ + 1]
  /\ UNCHANGED <<out, q, inClosed, outClosed, place, closing, told, got>>

(* Close() hands over to the goroutine in person; it may have to wait. *)
Close ==
  /\ ~closing /\ closing' = TRUE
  /\ UNCHANGED <<in, out, q, inClosed, outClosed, place, sent, told, got>>

(* for v := range Out() *)
Receive ==
  /\ out # <<>>
  /\ out' = Tail(out)
  /\ got' = [got EXCEPT ![Head(out).by] = @ + 1]
  /\ UNCHANGED <<in, q, inClosed, outClosed, place, sent, closing, told>>

ReceiveEnd ==
  /\ out = <<>> /\ outClosed /\ ~told
  /\ told' = TRUE
  /\ UNCHANGED <<in, out, q, inClosed, outClosed, place, sent, closing, got>>

-----------------------------------------------------------------------------
(* processing: whichever case of its select is ready. *)

(* case e := <-ch.in, of either select *)
MayPull == place \in {"outer", "inner"}

Pull ==
  /\ MayPull /\ in # <<>>
  /\ in' = Tail(in)
  /\ q' = Append(q, Head(in))
  /\ place' = "inner"
  /\ UNCHANGED <<out, inClosed, outClosed, endVars>>

MoveOut_last ==                    \* mutant: takes the newest
  /\ q # <<>> /\ Len(out) < Cap
  /\ out' = Append(out, q[Len(q)])
  /\ q' = SubSeq(q, 1, Len(q) - 1)
MoveOut ==
  /\ q # <<>> /\ Len(out) < Cap
  /\ out' = Append(out, Head(q))
  /\ q' = Tail(q)

(* case ch.out <- ch.q[0] *)
PushOut ==
  /\ place = "inner"
  /\ MoveOut
  /\ place' = IF q' = <<>> THEN "outer" ELSE "inner"
  /\ UNCHANGED <<in, inClosed, outClosed, endVars>>

(* case <-ch.close: closed() first closes the way in. *)
TakeClose ==
  /\ place \in {"outer", "inner"} /\ closing
  /\ inClosed' = TRUE
  /\ place' = "drainin"
  /\ UNCHANGED <<in, out, q, outClosed, endVars>>

(* for e := range ch.in *)
AfterDrainIn_hasty == TRUE         \* mutant: what is buffered is left
AfterDrainIn == in = <<>>

DrainIn ==
  /\ place = "drainin"
  /\ \/ /\ in # <<>>
        /\ in' = Tail(in) /\ q' = Append(q, Head(in))
        /\ UNCHANGED place
     \/ /\ AfterDrainIn
        /\ place' = "drainq"
        /\ UNCHANGED <<in, q>>
  /\ UNCHANGED <<out, inClosed, outClosed, endVars>>

(* for len(ch.q) > 0: with out full it tries again, and again. *)
DrainOut ==
  /\ place = "drainq"
  /\ MoveOut
  /\ UNCHANGED <<in, inClosed, outClosed, place, endVars>>

Announce_not == UNCHANGED outClosed  \* mutant: close(ch.out) forgotten
Announce == outClosed' = TRUE

CloseOut ==
  /\ place = "drainq" /\ q = <<>>
  /\ Announce
  /\ place' = "ended"
  /\ UNCHANGED <<in, out, q, inClosed, endVars>>

Processing == Pull \/ PushOut \/ TakeClose \/ DrainIn \/ DrainOut \/ CloseOut

Next == \/ \E s \in Senders : Send(s)
        \/ Close \/ Receive \/ ReceiveEnd
        \/ Processing

Spec == Init /\ [][Next]_vars

(* The goroutine is scheduled, and so are senders that can send. *)
FairSpec == /\ Spec
            /\ WF_vars(Processing)
            /\ \A s \in Senders : WF_vars(Send(s))

(* A receiver that ranges over Out(); not every channel has one. *)
ReceiverRanges == WF_vars(Receive \/ ReceiveEnd)
-----------------------------------------------------------------------------
(* Properties. *)

(* The two buffers and the slice are one FIFO: nothing is lost, doubled or *)
(* reordered on the way, and the end comes after everything sent.          *)
Fifo == INSTANCE FifoChannel
          WITH held <- out \o q \o in, open <- ~closing, ended <- told
ImplementsFifo == Fifo!Spec

(* Once closed, the receiver's loop comes to its end, slow as it may be;   *)
(* the goroutine that closes down does not wait for ever.                  *)
ClosingEnds == ReceiverRanges => (closing ~> told /\ place = "ended")

(* Everything sent is received, closed or not. *)
SentIsReceived ==
  ReceiverRanges =>
    \A s \in Senders : \A n \in 1 .. MaxSends : sent[s] = n ~> got[s] >= n
=============================================================================
