-------------------------------- MODULE Fifo --------------------------------
(***************************************************************************)
(* What the replication groups rely on: one first-in first-out queue for    *)
(* all the messages of a SimNet whose links can be cut.  A message is lost  *)
(* on a cut link only, when it is sent or when its turn comes.              *)
(***************************************************************************)
EXTENDS Naturals, Sequences

CONSTANTS Node, Registered    \* the node ids; those with a handler

VARIABLES queue, cut, handled, sends

vars == <<queue, cut, handled, sends>>

Whole(m) == <<m.src, m.dst>> \notin cut

Init == queue = <<>> /\ cut = {} /\ handled = <<>> /\ sends = 0

Send(s, d) ==
  LET m == [id |-> sends, src |-> s, dst |-> d]
  IN  /\ queue' = IF Whole(m) THEN Append(queue, m) ELSE queue
      /\ sends' = sends + 1
      /\ UNCHANGED <<cut, handled>>

Deliver ==
  /\ queue # <<>>
  /\ queue' = Tail(queue)
  /\ handled' = IF Whole(Head(queue)) /\ Head(queue).dst \in Registered
                THEN Append(handled, Head(queue)) ELSE handled
  /\ UNCHANGED <<cut, sends>>

Relink == cut' \subseteq Node \X Node /\ UNCHANGED <<queue, handled, sends>>

Next == Deliver \/ Relink \/ \E s, d \in Node : Send(s, d)

Spec == Init /\ [][Next]_vars
=============================================================================
