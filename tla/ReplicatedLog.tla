---------------------------- MODULE ReplicatedLog ----------------------------
(***************************************************************************)
(* What a replicated store promises: there is one committed sequence of     *)
(* commands, it only ever grows, and every node's store is the effect of a  *)
(* prefix of it.  A node that crashes starts again from the empty store.    *)
(***************************************************************************)
EXTENDS Integers, Sequences

CONSTANTS Node, Key, Value, None

VARIABLES
  committed,   \* the commands, [key, value]; key None changes nothing
  applied,     \* how many of them each node has applied
  store        \* each node's key-value map

vars == <<committed, applied, store>>

Command == [key : Key \cup {None}, value : Value \cup {None}]

\* The map after the first n commands of c: the last write of a key wins.
View(c, n) ==
  [k \in Key |->
     LET writes == {j \in 1..n : c[j].key = k}
     IN  IF writes = {} THEN None
         ELSE c[CHOOSE j \in writes : \A w \in writes : w <= j].value]

Init ==
  /\ committed = <<>>
  /\ applied = [n \in Node |-> 0]
  /\ store = [n \in Node |-> View(<<>>, 0)]

\* The sequence grows, by one command or by several at once.
Grow ==
  /\ Len(committed') >= Len(committed)
  /\ SubSeq(committed', 1, Len(committed)) = committed
  /\ \A k \in DOMAIN committed' : committed'[k] \in Command

\* One node brings its store up to some point of the (possibly longer) sequence.
Apply(n) ==
  /\ Grow
  /\ \E k \in applied[n]..Len(committed') :
       /\ applied' = [applied EXCEPT ![n] = k]
       /\ store' = [store EXCEPT ![n] = View(committed', k)]

Restart(n) ==
  /\ applied' = [applied EXCEPT ![n] = 0]
  /\ store' = [store EXCEPT ![n] = View(<<>>, 0)]
  /\ UNCHANGED committed

Next == \E n \in Node : Apply(n) \/ Restart(n)

Spec == Init /\ [][Next]_vars
==============================================================================
