------------------------ MODULE UnboundedChanProofs -------------------------
(***************************************************************************)
(* That the unbounded channel is a FIFO channel, whatever the size of its  *)
(* buffers, the number of its senders and what they send.                  *)
(***************************************************************************)
EXTENDS UnboundedChan, SequenceTheorems, TLAPS

-----------------------------------------------------------------------------
(* Sequences. *)

(* The library's fact in the form the SMT solver instantiates best. *)
LEMMA Associative ==
  \A S : \A s \in Seq(S), t \in Seq(S), u \in Seq(S) :
    (s \o t) \o u = s \o (t \o u)
BY ConcatAssociative, Zenon

(* Moving the head of one sequence to the end of the one before it changes *)
(* nothing of the two together.                                            *)
LEMMA MoveHead ==
  ASSUME NEW S, NEW s \in Seq(S), NEW t \in Seq(S), t # <<>>
  PROVE  /\ Append(s, Head(t)) \in Seq(S) /\ Tail(t) \in Seq(S)
         /\ Append(s, Head(t)) \o Tail(t) = s \o t
<1>1. Head(t) \in S /\ Tail(t) \in Seq(S) /\ t = <<Head(t)>> \o Tail(t)
  OBVIOUS
<1>2. Append(s, Head(t)) = s \o <<Head(t)>> /\ <<Head(t)>> \in Seq(S)
  BY <1>1
<1>3. (s \o <<Head(t)>>) \o Tail(t) = s \o (<<Head(t)>> \o Tail(t))
  BY <1>1, <1>2, Associative
<1> QED BY <1>1, <1>2, <1>3

(* Appending to the last of two sequences appends to both together. *)
LEMMA AppendToConcat ==
  ASSUME NEW S, NEW s \in Seq(S), NEW t \in Seq(S), NEW e \in S
  PROVE  /\ Append(t, e) \in Seq(S)
         /\ s \o Append(t, e) = Append(s \o t, e)
<1>1. Append(t, e) = t \o <<e>> /\ <<e>> \in Seq(S) /\ s \o t \in Seq(S)
  OBVIOUS
<1>2. Append(s \o t, e) = (s \o t) \o <<e>>
  BY <1>1
<1> QED BY <1>1, <1>2, Associative

(* The head of two sequences together is the head of the first. *)
LEMMA TailOfConcat ==
  ASSUME NEW S, NEW s \in Seq(S), NEW t \in Seq(S), s # <<>>
  PROVE  s \o t # <<>> /\ Tail(s \o t) = Tail(s) \o t
OBVIOUS

-----------------------------------------------------------------------------
(* The channel. *)

(* The goroutine leaves nothing behind on its way out, and takes that way  *)
(* only when Close was called.                                             *)
ChanInv ==
  /\ in \in Seq(Values) /\ out \in Seq(Values) /\ q \in Seq(Values)
  /\ sent \in [Senders -> Nat]
  /\ place \in Places
  /\ place \in {"drainin", "drainq", "ended"} => closing
  /\ place \in {"drainq", "ended"} => in = <<>>
  /\ place = "ended" => q = <<>>
  /\ outClosed => place = "ended"

LEMMA InitChanInv == Init => ChanInv
BY DEF Init, ChanInv, Places

LEMMA ChanStep ==
  ASSUME ChanInv, [Next]_vars
  PROVE  ChanInv'
<1> USE DEF ChanInv, Places, endVars, vars
<1>1. ASSUME NEW s \in Senders, Send(s) PROVE ChanInv'
  <2>1. [by |-> s, n |-> sent[s] + 1] \in Values
    BY <1>1, ChanAssumption DEF Send, Values, ChanAssumption
  <2>2. in' \in Seq(Values)
    BY <1>1, <2>1 DEF Send
  <2>3. place \notin {"drainq", "ended"} /\ sent' \in [Senders -> Nat]
    BY <1>1 DEF Send
  <2> QED BY <1>1, <2>2, <2>3 DEF Send
<1>2. CASE Close
  BY <1>2 DEF Close
<1>3. CASE Receive
  BY <1>3, HeadTailProperties DEF Receive
<1>4. CASE ReceiveEnd
  BY <1>4 DEF ReceiveEnd
<1>5. CASE Pull
  BY <1>5, MoveHead DEF Pull, MayPull
<1>6. CASE PushOut
  BY <1>6, MoveHead DEF PushOut, MoveOut
<1>7. CASE TakeClose
  BY <1>7 DEF TakeClose
<1>8. CASE DrainIn
  BY <1>8, MoveHead DEF DrainIn, AfterDrainIn
<1>9. CASE DrainOut
  <2>1. q \in Seq(Values) /\ Tail(q) \in Seq(Values)
    BY <1>9, HeadTailProperties DEF DrainOut, MoveOut
  <2> QED BY <1>9, <2>1, MoveHead DEF DrainOut, MoveOut
<1>10. CASE CloseOut
  BY <1>10 DEF CloseOut, Announce
<1>11. CASE UNCHANGED vars
  BY <1>11
<1> QED
  BY <1>1, <1>2, <1>3, <1>4, <1>5, <1>6, <1>7, <1>8, <1>9, <1>10, <1>11
     DEF Next, Processing

-----------------------------------------------------------------------------
(* The refinement: moving values along changes nothing. *)

LEMMA FifoInit == Init => Fifo!Init
BY DEF Init, Fifo!Init

LEMMA FifoStep ==
  ASSUME ChanInv, [Next]_vars
  PROVE  [Fifo!Next]_(Fifo!fifoVars)
<1> DEFINE held == out \o q \o in
<1>b. ASSUME in # <<>>
      PROVE  (out \o Append(q, Head(in))) \o Tail(in) = (out \o q) \o in
  <2> DEFINE u == Append(q, Head(in))
             v == Tail(in)
  <2>1. q \in Seq(Values) /\ in \in Seq(Values)
    BY DEF ChanInv
  <2>2. out \in Seq(Values)
    BY DEF ChanInv
  <2>3. u \in Seq(Values) /\ v \in Seq(Values)
    BY <1>b, <2>1, MoveHead
  <2>4. u \o v = q \o in
    BY <1>b, <2>1, MoveHead
  <2> HIDE DEF u, v
  <2>5. (out \o u) \o v = out \o (u \o v)
    BY <2>2, <2>3, Associative
  <2>6. (out \o q) \o in = out \o (q \o in)
    BY <2>1, <2>2, Associative
  <2>7. (out \o u) \o v = (out \o q) \o in
    BY <2>4, <2>5, <2>6
  <2> QED BY <2>7 DEF u, v
<1> USE DEF ChanInv, endVars, vars
<1>0. out \o q \in Seq(Values) /\ held \in Seq(Values)
  OBVIOUS
<1>a. ASSUME UNCHANGED <<held, closing, told>>
      PROVE  [Fifo!Next]_(Fifo!fifoVars)
  BY <1>a DEF Fifo!fifoVars
<1>1. ASSUME NEW s \in Senders, Send(s) PROVE [Fifo!Next]_(Fifo!fifoVars)
  <2> DEFINE v == [by |-> s, n |-> sent[s] + 1]
  <2>1. v \in Values
    BY <1>1, ChanAssumption DEF Send, Values, ChanAssumption
  <2>2. held' = Append(held, v)
    BY <1>0, <1>1, <2>1, AppendToConcat DEF Send
  <2>3. Fifo!Send(v)
    BY <1>1, <2>2 DEF Send, Fifo!Send
  <2> QED BY <2>1, <2>3 DEF Fifo!Next
<1>2. CASE Close
  BY <1>2 DEF Close, Fifo!Close, Fifo!Next
<1>3. CASE Receive
  <2>1. Tail(out) \in Seq(Values) /\ out \o q # <<>>
        /\ Tail(out \o q) = Tail(out) \o q
    BY <1>3, TailOfConcat DEF Receive
  <2>2. held # <<>> /\ Tail(held) = Tail(out \o q) \o in
    BY <1>0, <2>1, TailOfConcat
  <2>3. held' = Tail(held)
    BY <1>3, <2>1, <2>2 DEF Receive
  <2> QED BY <1>3, <2>2, <2>3 DEF Receive, Fifo!Receive, Fifo!Next
<1>4. CASE ReceiveEnd
  <2>1. closing /\ in = <<>> /\ q = <<>> /\ out = <<>>
    BY <1>4 DEF ReceiveEnd
  <2>2. held = <<>> /\ held' = held
    BY <1>4, <2>1 DEF ReceiveEnd
  <2> QED BY <1>4, <2>1, <2>2 DEF ReceiveEnd, Fifo!End, Fifo!Next
<1>5. ASSUME in # <<>>, in' = Tail(in), q' = Append(q, Head(in)),
             UNCHANGED <<out, endVars>>
      PROVE  [Fifo!Next]_(Fifo!fifoVars)
  <2>1. (out \o Append(q, Head(in))) \o Tail(in) = (out \o q) \o in
    BY <1>5, <1>b
  <2>2. held' = held
    BY <1>5, <2>1
  <2> QED BY <1>5, <2>2, <1>a
<1>6. ASSUME MoveOut, UNCHANGED <<in, endVars>>
      PROVE  [Fifo!Next]_(Fifo!fifoVars)
  <2>1. out' \o q' = out \o q
    BY <1>6, MoveHead DEF MoveOut
  <2> QED BY <1>6, <2>1, <1>a
<1>7. CASE Pull
  BY <1>5, <1>7 DEF Pull
<1>8. CASE PushOut
  BY <1>6, <1>8 DEF PushOut
<1>9. CASE TakeClose
  BY <1>9, <1>a DEF TakeClose
<1>10. CASE DrainIn
  <2>1. CASE in # <<>> /\ in' = Tail(in) /\ q' = Append(q, Head(in))
    BY <1>5, <1>10, <2>1 DEF DrainIn
  <2>2. CASE UNCHANGED <<in, q>>
    BY <1>10, <2>2, <1>a DEF DrainIn
  <2> QED BY <1>10, <2>1, <2>2 DEF DrainIn
<1>11. CASE DrainOut
  BY <1>6, <1>11 DEF DrainOut
<1>12. CASE CloseOut
  BY <1>12, <1>a DEF CloseOut
<1>13. CASE UNCHANGED vars
  BY <1>13, <1>a
<1> QED
  BY <1>1, <1>2, <1>3, <1>4, <1>7, <1>8, <1>9, <1>10, <1>11, <1>12, <1>13
     DEF Next, Processing

(* ImplementsFifo: nothing is lost, doubled or reordered between In() and  *)
(* Out(), and the end is announced after everything, for any capacity.     *)
THEOREM ChannelIsFifo == Spec => ImplementsFifo
<1>1. ChanInv /\ [Next]_vars => ChanInv'
  BY ChanStep
<1>2. ChanInv /\ [Next]_vars => [Fifo!Next]_(Fifo!fifoVars)
  BY FifoStep
<1> QED
  BY <1>1, <1>2, InitChanInv, FifoInit, PTL
     DEF Spec, ImplementsFifo, Fifo!Spec
=============================================================================
