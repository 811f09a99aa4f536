--------------------------- MODULE OperationLocks ---------------------------
(***************************************************************************)
(* engine/operation-locks.js: the keyed lock every account operation takes *)
(* (withLock, withAccountLock, withAccountLocks, withPathLock).            *)
(*                                                                         *)
(* A lock is a chain of promises.  The map accountLocks remembers, for     *)
(* each key, the promise of the last request (its tail); a new request     *)
(* awaits that promise and leaves its own in its place.  A promise is      *)
(* named here by the task whose request made it: tail[k] = t is "the tail  *)
(* of k is the promise of t", prev[t][k] = u is "t awaits the promise of   *)
(* u", and a resolved promise is one nobody is recorded as awaiting.       *)
(*                                                                         *)
(* A task follows a plan: a sequence of groups of keys.  The keys of one   *)
(* group are what one call of withAccountLocks takes (sorted, one inside   *)
(* the other); a following group is a nested call made by the body, as in  *)
(* auth-state.js adoptOfficialAuth (__switch__) calling oauth.js upsert    *)
(* (__oauth_upsert__, then the accounts).                                  *)
(***************************************************************************)
EXTENDS Naturals, Sequences

CONSTANTS Tasks,   \* asynchronous operations
          Keys,    \* lock keys
          Rank,    \* the order in which one task takes keys: the sort of a group, outer groups first
          Plans,   \* the sequences of key groups that callers use
          Nothing  \* no task, no key

ASSUME NoneAssumption == Nothing \notin Tasks /\ Nothing \notin Keys

ASSUME RankAssumption ==
  /\ Rank \in [Keys -> Nat]
  /\ \A j, k \in Keys : Rank[j] = Rank[k] => j = k

\* Every group is non-empty and comes wholly after the groups around it: no
\* caller asks for a key it already holds (the lock is not re-entrant) and all
\* callers agree on the order of keys.
ASSUME PlansAssumption ==
  /\ Plans \subseteq Seq((SUBSET Keys) \ {{}})
  /\ \A p \in Plans :
        /\ p # <<>>
        /\ \A m, n \in 1..Len(p) : m < n =>
              \A j \in p[m], k \in p[n] : Rank[j] < Rank[k]

VARIABLES tail,    \* accountLocks: tail[k] is the task whose promise is stored, or Nothing
          prev,    \* prev[t][k]: the task whose promise t still awaits for k, or Nothing
          phase,   \* where the task is: idle, waiting, body, unwinding
          want,    \* the key a waiting task awaits
          todo,    \* keys of the current group not asked for yet
          rest,    \* the groups nested calls will ask for
          held     \* the keys whose body the task is in

lockVars == <<tail, prev, phase, want, todo, rest, held>>

Greatest(S) == CHOOSE k \in S : \A j \in S : Rank[j] <= Rank[k]

\* Mutant: the keys of a group are not sorted the way nested calls take them.
UnsortedLeast(S) == Greatest(S)
Least(S) == CHOOSE k \in S : \A j \in S : Rank[k] <= Rank[j]

LocksInit ==
  /\ tail = [k \in Keys |-> Nothing]
  /\ prev = [t \in Tasks |-> [k \in Keys |-> Nothing]]
  /\ phase = [t \in Tasks |-> "idle"]
  /\ want = [t \in Tasks |-> Nothing]
  /\ todo = [t \in Tasks |-> {}]
  /\ rest = [t \in Tasks |-> <<>>]
  /\ held = [t \in Tasks |-> {}]

\* withLock up to its first await: remember the tail found, leave our own.
Chain(t, k) == [prev EXCEPT ![t][k] = tail[k]]

\* The next key of a group is the first in sorted order (withAccountLocks).
AskNext(t, S) == LET k == Least(S) IN
  /\ prev' = Chain(t, k)
  /\ tail' = [tail EXCEPT ![k] = t]
  /\ want' = [want EXCEPT ![t] = k]
  /\ todo' = [todo EXCEPT ![t] = S \ {k}]
  /\ phase' = [phase EXCEPT ![t] = "waiting"]

\* A caller starts an operation that takes the keys of some plan.
Call(t) == /\ phase[t] = "idle"
           /\ \E p \in Plans : /\ AskNext(t, Head(p))
                               /\ rest' = [rest EXCEPT ![t] = Tail(p)]
           /\ UNCHANGED held

\* The awaited promise is resolved: the task is inside this key, and asks for
\* the next key of its group in the same turn, or runs the body.
Resume(t) ==
  /\ phase[t] = "waiting"
  /\ prev[t][want[t]] = Nothing
  /\ held' = [held EXCEPT ![t] = @ \cup {want[t]}]
  /\ \/ /\ todo[t] # {}
        /\ AskNext(t, todo[t])
     \/ /\ todo[t] = {}
        /\ phase' = [phase EXCEPT ![t] = "body"]
        /\ want' = [want EXCEPT ![t] = Nothing]
        /\ UNCHANGED <<tail, prev, todo>>
  /\ UNCHANGED rest

\* The body calls an operation that takes locks of its own.
Nest(t) == /\ phase[t] = "body"
           /\ rest[t] # <<>>
           /\ AskNext(t, Head(rest[t]))
           /\ rest' = [rest EXCEPT ![t] = Tail(@)]
           /\ UNCHANGED held

\* release(): the promise of t for k resolves, so nobody awaits it any more.
Resolved(t, k) == [u \in Tasks |->
                     [prev[u] EXCEPT ![k] = IF @ = t THEN Nothing ELSE @]]

\* Mutant: the map entry is never deleted.
DroppedNever(t, k) == tail

\* The map entry goes only when it is still the promise of this request.
Dropped(t, k) == IF tail[k] = t THEN [tail EXCEPT ![k] = Nothing] ELSE tail

\* The outermost finally ends the operation.
PhaseAfter(t, k) == IF held[t] = {k} THEN "idle" ELSE "unwinding"

\* The finally block, innermost key first, whether the body returned or threw
\* (it may throw before it makes its nested calls).
Release(t) == LET k == Greatest(held[t]) IN
  /\ phase[t] \in {"body", "unwinding"}
  /\ held' = [held EXCEPT ![t] = @ \ {k}]
  /\ prev' = Resolved(t, k)
  /\ tail' = Dropped(t, k)
  /\ phase' = [phase EXCEPT ![t] = PhaseAfter(t, k)]
  /\ rest' = [rest EXCEPT ![t] = <<>>]
  /\ UNCHANGED <<want, todo>>

LocksNext == \E t \in Tasks : Call(t) \/ Resume(t) \/ Nest(t) \/ Release(t)

\* The event loop runs every continuation that is ready, and every body ends:
\* the operations under a lock await only timed child processes, timed HTTP
\* requests and file I/O.
LocksFairness == \A t \in Tasks : WF_lockVars(Resume(t)) /\ WF_lockVars(Release(t))

LocksSpec == LocksInit /\ [][LocksNext]_lockVars
LocksFairSpec == LocksSpec /\ LocksFairness
-----------------------------------------------------------------------------
\* Inside k, or in line for it.
InLine(t, k) == k \in held[t] \/ (phase[t] = "waiting" /\ want[t] = k)

\* The types of the variables, and what the phase of a task says of its keys.
LocksTypeOK ==
  /\ tail \in [Keys -> Tasks \cup {Nothing}]
  /\ prev \in [Tasks -> [Keys -> Tasks \cup {Nothing}]]
  /\ phase \in [Tasks -> {"idle", "waiting", "body", "unwinding"}]
  /\ want \in [Tasks -> Keys \cup {Nothing}]
  /\ todo \in [Tasks -> SUBSET Keys]
  /\ rest \in [Tasks -> Seq((SUBSET Keys) \ {{}})]
  /\ held \in [Tasks -> SUBSET Keys]
  /\ \A t \in Tasks : /\ phase[t] = "waiting" <=> want[t] # Nothing
                      /\ phase[t] = "idle" => held[t] = {}
                      /\ phase[t] \in {"body", "unwinding"} => held[t] # {}

\* No two operations run under one key: what withLock is for.
MutualExclusion ==
  \A t, u \in Tasks : t # u => held[t] \cap held[u] = {}

\* Every operation that asks for its locks comes to run under all of them,
\* whatever the others do: no deadlock between sorted groups and nested calls,
\* and no starvation, because a chain is first in, first out.
EveryCallRuns ==
  \A t \in Tasks : (phase[t] = "waiting") ~> (phase[t] = "body")

\* The line for k, read off the chain of promises from its tail.
LineOf(k) ==
  LET upTo[t \in Tasks] == IF prev[t][k] = Nothing THEN <<t>>
                           ELSE Append(upTo[prev[t][k]], t)
  IN  IF tail[k] = Nothing THEN <<>> ELSE upTo[tail[k]]

OwnerOf(k) == IF \E t \in Tasks : k \in held[t]
              THEN CHOOSE t \in Tasks : k \in held[t] ELSE Nothing

Fifo == INSTANCE KeyedFifoLocks
          WITH None <- Nothing,
               queue <- [k \in Keys |-> LineOf(k)],
               owner <- [k \in Keys |-> OwnerOf(k)]

\* The promise chain implements a first-in-first-out lock per key: nobody
\* overtakes a request made before his own.
ImplementsFifo == Fifo!Spec
=============================================================================
