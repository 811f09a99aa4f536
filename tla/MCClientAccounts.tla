-------------------------- MODULE MCClientAccounts --------------------------
(* Small instances of ClientAccounts, and the stores AccountIdentity folds. *)
EXTENDS ClientAccounts, AccountIdentity, TLC

CONSTANTS a1, a2, p1, p2

MCSymmetry == Permutations({a1, a2})

\* Stores of up to three records, of every product, and the sign-ins into them.
MCRecord(i, email, key) == [id |-> i, email |-> email, key |-> key, quota |-> i = 2, born |-> i, since |-> 1]
MCEmails == {"e1", "e2", Unknown}
MCKeys == {"k1", "k2", "e1", Unknown}
MCStores == UNION {{{MCRecord(i, f[i][1], f[i][2]) : i \in D} : f \in [D -> MCEmails \X MCKeys]} : D \in SUBSET (1..3)}
MCTokens == {[MCRecord(9, email, key) EXCEPT !.since = 2] : email \in MCEmails, key \in MCKeys}
MCCurrent == {0, 1}

ASSUME GroupsHold == \A codex \in BOOLEAN : \A S \in MCStores : EachInOneGroup(codex, S) /\ MailboxesStay(codex, S)
ASSUME FoldsHold ==
  \A codex \in BOOLEAN : \A S \in {T \in MCStores : Apart(codex, T)} :
    \A tokens \in {t \in MCTokens : KeysAreOwn(S \cup {t})}, current \in MCCurrent : \A record \in Saved(codex, S, tokens, current) :
      FoldStaysInLocks(codex, S, tokens, record) /\ StaysApart(codex, S, record, current)
=============================================================================
