---------------------------- MODULE AccountVault ----------------------------
(***************************************************************************)
(* What an account store promises its callers, without files: an account   *)
(* is there with its newest version or it is not.  Saving and deleting are *)
(* atomic; a deletion that fails may put back what it took.                *)
(***************************************************************************)
EXTENDS Naturals

CONSTANTS Accts, MaxVersion, None

VARIABLES content,  \* content[a]: the version of account a that is stored, or None
          newest,   \* newest[a]: how many versions of a have been stored
          doomed    \* the account that is being deleted, or None

vars == <<content, newest, doomed>>

Init ==
  /\ content = [a \in Accts |-> None]
  /\ newest = [a \in Accts |-> 0]
  /\ doomed = None

Save(a) ==
  /\ doomed = None /\ newest[a] < MaxVersion
  /\ newest' = [newest EXCEPT ![a] = @ + 1]
  /\ content' = [content EXCEPT ![a] = newest'[a]]
  /\ UNCHANGED doomed

Doom(a) == doomed = None /\ doomed' = a /\ UNCHANGED <<content, newest>>

Remove(a) ==
  /\ doomed = a
  /\ content' = [content EXCEPT ![a] = None]
  /\ UNCHANGED <<newest, doomed>>

PutBack(a) ==
  /\ doomed = a /\ newest[a] > 0
  /\ content' = [content EXCEPT ![a] = newest[a]]
  /\ UNCHANGED <<newest, doomed>>

\* The deletion is over, one way or the other.
Settle == doomed # None /\ doomed' = None /\ UNCHANGED <<content, newest>>

Next == Settle \/ \E a \in Accts : Save(a) \/ Doom(a) \/ Remove(a) \/ PutBack(a)

Spec == Init /\ [][Next]_vars
=============================================================================
