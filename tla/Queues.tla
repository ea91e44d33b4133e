-------------------------------- MODULE Queues --------------------------------
(* Queues without repetition: membership and removal at a position.         *)
EXTENDS Naturals, Sequences

Occurs(q, x) == \E i \in 1..Len(q) : q[i] = x

NoRepeat(q) == \A i, j \in 1..Len(q) : q[i] = q[j] => i = j

(* VecDeque::remove(k): the rest keeps its order.                           *)
Cut(q, k) == SubSeq(q, 1, k - 1) \o SubSeq(q, k + 1, Len(q))
=============================================================================
