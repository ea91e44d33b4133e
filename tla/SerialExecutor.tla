---------------------------- MODULE SerialExecutor ----------------------------
(***************************************************************************)
(* What the dispatcher promises its callers: requests wait in one FIFO      *)
(* queue, one at a time is executed, a waiting one may be withdrawn, and    *)
(* each is settled once.                                                    *)
(***************************************************************************)
EXTENDS Queues

CONSTANTS Requests, None

VARIABLES
    waiting,    \* requests in the order they were queued
    executing,  \* the request being executed, None when there is none
    settled     \* requests that were answered or withdrawn

vars == <<waiting, executing, settled>>

Init ==
    /\ waiting = <<>>
    /\ executing = None
    /\ settled = {}

Enqueue(r) ==
    /\ ~Occurs(waiting, r) /\ r # executing /\ r \notin settled
    /\ waiting' = Append(waiting, r)
    /\ UNCHANGED <<executing, settled>>

Withdraw(i) ==
    /\ waiting' = Cut(waiting, i)
    /\ settled' = settled \cup {waiting[i]}
    /\ UNCHANGED executing

Begin ==
    /\ executing = None
    /\ waiting # <<>>
    /\ executing' = Head(waiting)
    /\ waiting' = Tail(waiting)
    /\ UNCHANGED settled

Finish ==
    /\ executing # None
    /\ settled' = settled \cup {executing}
    /\ executing' = None
    /\ UNCHANGED waiting

Next ==
    \/ \E r \in Requests : Enqueue(r)
    \/ \E i \in 1..Len(waiting) : Withdraw(i)
    \/ Begin
    \/ Finish

Spec == Init /\ [][Next]_vars
=============================================================================
