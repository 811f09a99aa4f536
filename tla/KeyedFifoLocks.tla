--------------------------- MODULE KeyedFifoLocks ---------------------------
(***************************************************************************)
(* What engine/operation-locks.js promises its callers, without promises:  *)
(* one first-in-first-out queue per lock key and at most one task inside.  *)
(* The specification that OperationLocks, the promise chain, implements.   *)
(***************************************************************************)
EXTENDS Naturals, Sequences

CONSTANTS Tasks,   \* asynchronous operations that may want a lock
          Keys,    \* lock keys
          None     \* no task

VARIABLES queue,   \* queue[k]: tasks that asked for k and have not left, oldest first
          owner    \* owner[k]: the task running under k, or None

vars == <<queue, owner>>

InQueue(t, k) == \E n \in 1..Len(queue[k]) : queue[k][n] = t

Init == /\ queue = [k \in Keys |-> <<>>]
        /\ owner = [k \in Keys |-> None]

Ask(t, k) == /\ ~ InQueue(t, k)
             /\ queue' = [queue EXCEPT ![k] = Append(@, t)]
             /\ UNCHANGED owner

Enter(t, k) == /\ owner[k] = None
               /\ queue[k] # <<>> /\ Head(queue[k]) = t
               /\ owner' = [owner EXCEPT ![k] = t]
               /\ UNCHANGED queue

\* A task enters one key and asks for the next one in the same turn.
EnterAndAsk(t, k, j) == /\ owner[k] = None
                        /\ queue[k] # <<>> /\ Head(queue[k]) = t
                        /\ j # k /\ ~ InQueue(t, j)
                        /\ owner' = [owner EXCEPT ![k] = t]
                        /\ queue' = [queue EXCEPT ![j] = Append(@, t)]

Leave(t, k) == /\ owner[k] = t
               /\ owner' = [owner EXCEPT ![k] = None]
               /\ queue' = [queue EXCEPT ![k] = Tail(@)]

Next == \E t \in Tasks, k \in Keys :
           \/ Ask(t, k) \/ Enter(t, k) \/ Leave(t, k)
           \/ \E j \in Keys : EnterAndAsk(t, k, j)

Spec == Init /\ [][Next]_vars
=============================================================================
