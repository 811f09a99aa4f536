-------------------------- MODULE AccountIdentity --------------------------
(***************************************************************************)
(* When two saved records are one account: what a sign-in is saved into,   *)
(* which records are folded together after it, which of them stays, and    *)
(* what it takes over from the others.  The others are deleted.            *)
(*                                                                         *)
(* A record has an email and a key, each of which may be unknown: Codex's  *)
(* account id, or the fingerprint of a Cursor or Antigravity login.  Codex *)
(* goes by the key where both have one, the others by the email.  Being    *)
(* the same is therefore not transitive, and a record of which little is   *)
(* known may be the same as two that are not.                              *)
(***************************************************************************)
EXTENDS Naturals, SequencesExt

CONSTANT Unknown      \* an email or a key that is not known

\* A record, as far as it matters: quota tells whether it has windows, born when it
\* was first saved, since when its token was.
Known(x) == x # Unknown

SameKey(l, r) == Known(l.key) /\ l.key = r.key
SameEmail(l, r) == Known(l.email) /\ l.email = r.email

SameCodex(l, r) == IF Known(l.key) /\ Known(r.key) THEN SameKey(l, r) ELSE SameEmail(l, r)
SameManaged(l, r) == IF Known(l.email) /\ Known(r.email) THEN SameEmail(l, r) ELSE SameKey(l, r)
Same(codex, l, r) == IF codex THEN SameCodex(l, r) ELSE SameManaged(l, r)

\* No two records of a store are the same.
Apart(codex, S) == \A a, b \in S : a # b => ~ Same(codex, a, b)
-----------------------------------------------------------------------------
(* The groups                                                              *)

\* unionIdentityGroups: the records linked to one another.
Closed(codex, S, T) == \A x \in T, y \in S : Same(codex, x, y) => y \in T
Linked(codex, S, a) == {b \in S : \A T \in SUBSET S : a \in T /\ Closed(codex, S, T) => b \in T}

\* splitGroupsByEmail: a group of several mailboxes stays together only by one account id.
Mailboxes(G) == {a.email : a \in {b \in G : Known(b.email)}}
OneMailbox(G) == \A e, f \in Mailboxes(G) : e = f
SharedAccountId(codex, G) == codex /\ \E k \in {a.key : a \in G} : Known(k) /\ \A a \in G : Known(a.key) => a.key = k

\* A record without an email goes with the one mailbox that has its fingerprint.
Owners(codex, G, u) == {e \in Mailboxes(G) : \E a \in G : a.email = e /\ SameKey(a, u) /\ ~ codex}
ByEmail(codex, G, e) == {a \in G : a.email = e \/ (~ Known(a.email) /\ Owners(codex, G, a) = {e})}
Unowned(codex, G) == {a \in G : ~ Known(a.email) /\ \A e \in Mailboxes(G) : Owners(codex, G, a) # {e}}

Split(codex, G) ==
  IF OneMailbox(G) \/ SharedAccountId(codex, G) THEN {G}
  ELSE {ByEmail(codex, G, e) : e \in Mailboxes(G)} \cup ({Unowned(codex, G)} \ {{}})

GroupByIdentity(codex, S) == UNION {Split(codex, Linked(codex, S, a)) : a \in S}
-----------------------------------------------------------------------------
(* Folding a group                                                         *)

\* pickIdentityKeeper: the current account, or else one with windows, with an email,
\* the oldest; where all that is equal the order of the list decides.
Better(a, b) == \/ a.quota /\ ~ b.quota
                \/ a.quota = b.quota /\ Known(a.email) /\ ~ Known(b.email)
                \/ a.quota = b.quota /\ (Known(a.email) <=> Known(b.email)) /\ a.born < b.born
Keepers(G, current) ==
  IF \E a \in G : a.id = current THEN {a \in G : a.id = current} ELSE {a \in G : ~ \E b \in G : Better(b, a)}

\* absorbIdentitySource: the newer token, and what the keeper lacks.
Absorb(keeper, source) ==
  LET newer == source.since > keeper.since
  IN  [keeper EXCEPT !.since = IF newer THEN source.since ELSE @,
                     !.key = IF newer /\ Known(source.key) THEN source.key ELSE @,
                     !.email = IF Known(@) THEN @ ELSE source.email,
                     !.quota = @ \/ source.quota]

\* What may stay of a group: the others are taken in in the order of the list.
Folds(G, current) ==
  UNION {{FoldLeft(Absorb, k, order) : order \in SetToSeqs(G \ {k})} : k \in Keepers(G, current)}
-----------------------------------------------------------------------------
(* A sign-in (upsert, upsertCursorAccount, upsertAntigravityAccount)       *)

Or(x, y) == IF Known(x) THEN x ELSE y

\* accountFromTokens, accountFromCursorTokens: what is not known now is kept.
Preview(codex, tokens) == [tokens EXCEPT !.key = IF codex THEN @ ELSE Or(@, tokens.email)]
Merged(codex, tokens, existing) ==
  [tokens EXCEPT !.id = existing.id, !.born = existing.born, !.quota = existing.quota,
                 !.email = Or(@, existing.email),
                 !.key = Or(Or(@, existing.key), IF codex THEN Unknown ELSE Or(tokens.email, existing.email))]

Matches(codex, S, tokens) == {a \in S : Same(codex, Preview(codex, tokens), a)}
\* The record that is written: the account the login was started for, where it
\* matches, or else the one to keep of those that match, or one of its own.
Saved(codex, S, tokens, current) ==
  LET M == Matches(codex, S, tokens)
      N == M \cup {a \in S : a.id = tokens.id}
  IN  IF N = {} THEN {Preview(codex, tokens)} ELSE {Merged(codex, tokens, k) : k \in M \cup Keepers(N, current)}

\* extraIdentityIds: the locks a sign-in holds besides that of the record it writes.
Locks(codex, S, tokens, saved) == {a.id : a \in Matches(codex, S, tokens)} \cup {saved.id}
With(S, saved) == {a \in S : a.id # saved.id} \cup {saved}
Folded(codex, S) == {G \in GroupByIdentity(codex, S) : \E a, b \in G : a # b}
-----------------------------------------------------------------------------
(* What folding keeps to                                                   *)

\* Every record is in one group: none is forgotten, none is folded into two.
EachInOneGroup(codex, S) ==
  /\ UNION GroupByIdentity(codex, S) = S
  /\ \A G, H \in GroupByIdentity(codex, S) : G # H => G \cap H = {}

\* Two mailboxes are folded together only when they have one account id, whatever
\* links them (test/cursor.test.js:2505, "unknown email does not bridge two mailboxes").
MailboxesStay(codex, S) ==
  \A G \in GroupByIdentity(codex, S) : OneMailbox(G) \/ SharedAccountId(codex, G)

\* Where no fingerprint is known a record takes its email for a key (Preview, Merged): a
\* key is an email only where an email is known.
KeysAreOwn(S) == \A a, b \in S : Known(a.key) /\ a.key = b.email => Known(a.email)

\* A fold deletes accounts.  When no two records were the same before the sign-in, it
\* deletes only such as the sign-in has locked: no refresh of one is in flight.
FoldStaysInLocks(codex, S, tokens, saved) ==
  \A G \in Folded(codex, With(S, saved)) : {a.id : a \in G} \subseteq Locks(codex, S, tokens, saved)

\* ... and no two records are the same afterwards, in whatever order they were read.
StaysApart(codex, S, saved, current) ==
  LET T == With(S, saved)
      Rest == T \ UNION Folded(codex, T)
  IN  \A kept \in [Folded(codex, T) -> UNION {Folds(G, current) : G \in Folded(codex, T)}] :
        (\A G \in Folded(codex, T) : kept[G] \in Folds(G, current))
          => Apart(codex, Rest \cup {kept[G] : G \in Folded(codex, T)})
=============================================================================
