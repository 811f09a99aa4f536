------------------------- MODULE ClientAccountsProofs -------------------------
(***************************************************************************)
(* Who is signed in, for any accounts and any number of operations: copies *)
(* are current, a failed switch restores what it found, a Cursor sync      *)
(* follows the client, and profiles stay apart.                            *)
(*                                                                         *)
(* None of it is inductive.  Two facts carry it: no key is held twice      *)
(* (Exclusive), and an operation that has come to a certain point holds,   *)
(* or asks for, the keys of what it is about to write (Shape).  The other  *)
(* parts say what an operation remembers of the stores it has read, as     *)
(* long as nobody has written them since.                                  *)
(*                                                                         *)
(* And which records are folded into one after a sign-in, for any store    *)
(* (AccountIdentity).                                                      *)
(***************************************************************************)
EXTENDS ClientAccounts, AccountIdentity, TLAPS

\* A switch between the closing of the client and its end.
Replacing == {"closed", "write", "check", "undo"}

\* The keys of an operation: those it asks for before its body, those it holds after.
Keys(o) == IF o.at = "wait" THEN o.want ELSE o.held

\* An operation by its kind and by how far it has come.
Shape(o) ==
  /\ o \in Operation
  /\ o.kind = "none" => o \in Ended
  /\ o.kind = "switch" =>
       /\ o.at \in {"wait", "kill"} \cup Replacing
       /\ o.tgt \in Accts /\ {SwitchLock, o.tgt} \subseteq Keys(o)
       /\ o.at # "wait" => o.mem \in Nat
  /\ o.kind \in RefreshKinds =>
       /\ o.at \in {"wait", "post", "usage"}
       /\ o.tgt \in Accts /\ o.tgt \in Keys(o)
       /\ o.at # "wait" => o.mem \in Nat
  /\ o.kind = "delete" => o.at = "wait" /\ o.tgt \in Accts /\ o.tgt \in Keys(o)
  /\ o.kind = "sync" =>
       /\ o.at \in {"read", "second", "wait"}
       /\ o.at = "wait" => SwitchLock \in o.want
  /\ o.kind = "import" =>
       /\ o.at \in {"wait", "read", "second", "save", "point"}
       /\ SwitchLock \in Keys(o)
       /\ o.at = "wait" => o.got = None
       /\ o.at = "save" => o.tgt \in o.want
  /\ o.kind = "login" =>
       /\ o.at \in {"wait", "save", "meta", "named", "point"}
       /\ o.tgt \in Accts /\ o.mem \in Nat
       /\ o.at \in {"wait", "save", "point"} => SwitchLock \in Keys(o)
       /\ o.at \in {"save", "named"} => o.tgt \in o.want
  /\ o.got # None => o.kind \in {"sync", "import"}
  /\ (o.kind = "sync" /\ o.at = "wait") \/ (o.kind = "import" /\ o.at \in {"save", "point"}) =>
       o.got \in Logins /\ o.tgt = o.got.who /\ o.mem = o.got.num
  /\ o.keep # None => o.at \in {"kill", "post", "usage"} \cup Replacing
  /\ o.was # None => o.at \in Replacing
  /\ o.at \in Replacing => o.was \in [login : MaybeLogin, cur : Accts \cup {None}]
  /\ o.at \in {"write", "check"} => product # "cursor"
  /\ o.at = "undo" => product = "hub"
  /\ o.snap = Unread => product = "hub"

\* No key is held twice.
Exclusive == \A p, q \in Procs : p # q => op[p].held \cap op[q].held = {}

(* What an operation o remembers of what it has read.                      *)

\* A copy of an account it will save whole: the token is the saved one.
CopyKept(o) == o.at \in {"kill", "post", "usage"} \cup Replacing => saved[o.tgt] = o.mem

\* While a switch replaces the login nobody moves the current account, until it
\* does itself.
CurKept(o) == o.at \in Replacing \ {"undo"} => cur = o.was.cur

\* Nor the login, but the client itself; once it is written, the old one is kept.
LoginKept(o) == o.still =>
  /\ o.at \in {"closed", "write"} => Official = o.was.login
  /\ o.at \in {"write", "check", "undo"} => o.snap \in {o.was.login, Unread}

\* A Cursor login that was read is the one in the database until a switch or the
\* client writes another one.
GotKept(o) ==
  product = "cursor" /\ o.got # None /\ o.still /\ (o.kind = "sync" => o.fresh) /\ o.at # "point" =>
    o.got = login["db"]

Kept(o) == CopyKept(o) /\ CurKept(o) /\ LoginKept(o) /\ GotKept(o)

TypedFiles ==
  /\ product \in {"cursor", "ide", "hub"}
  /\ saved \in [Accts -> Numbers]
  /\ prof \in [Accts -> Accts \cup {None}]
  /\ cur \in Accts \cup {None}
  /\ login \in [Stores -> MaybeLogin]
  /\ issued \in [Accts -> Nat]
  /\ app \in BOOLEAN

\* What the operations rest on.
Base ==
  /\ TypedFiles
  /\ op \in [Procs -> Operation] /\ Exclusive
  /\ \A p \in Procs : Shape(op[p]) /\ Kept(op[p])

\* The logins to restore carry their own profile, and so does everything of a client
\* other than Cursor: only Cursor's operations handle profiles.
OwnSnaps == \A p \in Procs : op[p].snap \in Logins => op[p].snap.prof = op[p].snap.who
OthersStayApart == OwnSnaps /\ (product # "cursor" => OwnProfiles)

IInv == Base /\ OthersStayApart
-----------------------------------------------------------------------------
(* Operations                                                              *)

\* Another operation has written the login, or the client has, or neither.
Aged(o, n) == \/ n = o
              \/ o \notin Ended /\ n = [o EXCEPT !.fresh = FALSE]
              \/ o \notin Ended /\ n = [o EXCEPT !.still = FALSE]

LEMMA Constants ==
  /\ None \notin Accts /\ None \notin Nat /\ None \notin Logins /\ Unread \notin Logins
  /\ Unread # None /\ SwitchLock \notin Accts /\ UpsertLock \notin Accts
  BY ConstantsAssumption DEF Logins

LEMMA IdleIsShaped == Shape(Idle) /\ Shape(Failed) /\ Shape(Stuck)
<1>1. Idle \in Operation /\ Failed \in Operation /\ Stuck \in Operation
  BY DEF Idle, Failed, Stuck, Operation, Numbers, MaybeLogin
<1>2. Shape(Idle)
  BY <1>1, Constants DEF Idle, Shape, Ended, Failed, Replacing, RefreshKinds
<1>3. Shape(Failed)
  BY <1>1, Constants DEF Idle, Shape, Ended, Failed, Replacing, RefreshKinds
<1>4. Shape(Stuck)
  BY <1>1, Constants DEF Idle, Shape, Ended, Stuck, Replacing, RefreshKinds
<1> QED
  BY <1>2, <1>3, <1>4

LEMMA EndedIs ==
  ASSUME NEW o \in Ended
  PROVE  /\ o.kind = "none" /\ o.at \in {"idle", "failed", "stuck"}
         /\ o.held = {} /\ o.got = None /\ o.was = None
  BY DEF Ended, Idle, Failed, Stuck

\* Where an operation holds what it is about.
LEMMA KeysAreHeld ==
  ASSUME NEW o, Shape(o)
  PROVE  /\ o.at \in {"kill", "post", "usage"} \cup Replacing => o.tgt \in Accts /\ o.tgt \in o.held /\ o.mem \in Nat
         /\ o.at \in Replacing => o.kind = "switch" /\ SwitchLock \in o.held
<1>1. o.kind \in {"none", "switch", "sync", "import", "login", "refresh", "refreshAll", "delete"}
  BY DEF Shape, Operation
<1>2. CASE o.kind = "none"
  BY <1>2, EndedIs DEF Shape, Replacing
<1>3. CASE o.kind = "switch"
  BY <1>3 DEF Shape, Keys, Replacing
<1>4. CASE o.kind \in RefreshKinds
  BY <1>4 DEF Shape, Keys, Replacing
<1>5. CASE o.kind \in {"sync", "import", "login", "delete"}
  BY <1>5 DEF Shape, Replacing
<1> QED
  BY <1>1, <1>2, <1>3, <1>4, <1>5 DEF RefreshKinds

LEMMA AgedIs ==
  ASSUME NEW o, Shape(o), NEW n, Aged(o, n)
  PROVE  /\ Shape(n)
         /\ n.kind = o.kind /\ n.at = o.at /\ n.tgt = o.tgt /\ n.want = o.want /\ n.held = o.held
         /\ n.mem = o.mem /\ n.keep = o.keep /\ n.got = o.got /\ n.snap = o.snap /\ n.was = o.was
         /\ n.still => o.still
         /\ n.fresh => o.fresh
<1>1. CASE n = o
  BY <1>1
<1>2. CASE o \notin Ended /\ n = [o EXCEPT !.fresh = FALSE]
  <2>1. o.kind # "none" /\ o \in Operation
    BY <1>2 DEF Shape
  <2>2. /\ n \in Operation
        /\ n.kind = o.kind /\ n.at = o.at /\ n.tgt = o.tgt /\ n.want = o.want /\ n.held = o.held
        /\ n.mem = o.mem /\ n.keep = o.keep /\ n.got = o.got /\ n.snap = o.snap /\ n.was = o.was
        /\ n.still = o.still /\ ~ n.fresh
    BY <1>2, <2>1 DEF Operation
  <2>3. Shape(n)
    BY <2>1, <2>2 DEF Shape, Keys
  <2> QED
    BY <2>2, <2>3
<1>3. CASE o \notin Ended /\ n = [o EXCEPT !.still = FALSE]
  <2>1. o.kind # "none" /\ o \in Operation
    BY <1>3 DEF Shape
  <2>2. /\ n \in Operation
        /\ n.kind = o.kind /\ n.at = o.at /\ n.tgt = o.tgt /\ n.want = o.want /\ n.held = o.held
        /\ n.mem = o.mem /\ n.keep = o.keep /\ n.got = o.got /\ n.snap = o.snap /\ n.was = o.was
        /\ n.fresh = o.fresh /\ ~ n.still
    BY <1>3, <2>1 DEF Operation
  <2>3. Shape(n)
    BY <2>1, <2>2 DEF Shape, Keys
  <2> QED
    BY <2>2, <2>3
<1> QED
  BY <1>1, <1>2, <1>3 DEF Aged
-----------------------------------------------------------------------------
(* One operation acts                                                      *)

\* The operation of p becomes n; those of the others only age.
Acts(p, n) ==
  /\ product' = product
  /\ op' = [q \in Procs |-> op'[q]] /\ op'[p] = n
  /\ \A q \in Procs \ {p} : Aged(op[q], op'[q])

LEMMA SetActs ==
  ASSUME NEW p \in Procs, NEW n, op \in [Procs -> Operation], product' = product,
         op' = [op EXCEPT ![p] = n]
  PROVE  Acts(p, n)
  BY DEF Acts, Aged

LEMMA StaleActs ==
  ASSUME NEW p \in Procs, NEW n, op \in [Procs -> Operation], product' = product,
         op' = Stale([op EXCEPT ![p] = n])
  PROVE  /\ Acts(p, IF n \in Ended THEN n ELSE [n EXCEPT !.fresh = FALSE])
         /\ \A q \in Procs \ {p} : op[q] \in Ended \/ op'[q] = [op[q] EXCEPT !.fresh = FALSE]
<1> DEFINE f == [op EXCEPT ![p] = n]
<1>1. f[p] = n /\ \A q \in Procs \ {p} : f[q] = op[q]
  OBVIOUS
<1> HIDE DEF f
<1>2. op' = [q \in Procs |-> IF f[q] \in Ended THEN f[q] ELSE [f[q] EXCEPT !.fresh = FALSE]]
  BY DEF Stale, f
<1>3. /\ op'[p] = IF n \in Ended THEN n ELSE [n EXCEPT !.fresh = FALSE]
      /\ \A q \in Procs \ {p} : op'[q] = IF op[q] \in Ended THEN op[q] ELSE [op[q] EXCEPT !.fresh = FALSE]
  BY <1>1, <1>2
<1>4. op' = [q \in Procs |-> op'[q]]
  BY <1>2
<1> QED
  BY <1>3, <1>4 DEF Acts, Aged

\* It takes only keys that are free, and it holds the keys of what it writes.
Holds(p, n) == \/ n.held \subseteq op[p].held
               \/ /\ n.held \subseteq op[p].held \cup op[p].want
                  /\ \A q \in Procs \ {p} : op[p].want \cap op[q].held = {}

OthersLack(p, key) == \A q \in Procs \ {p} : key \notin op[q].held

Writes(p) ==
  /\ \A a \in Accts : saved'[a] # saved[a] => OthersLack(p, a)
  /\ cur' # cur => OthersLack(p, SwitchLock)
  /\ login' # login => /\ OthersLack(p, SwitchLock)
                       /\ \A q \in Procs \ {p} : op[q] \in Ended \/ op'[q] = [op[q] EXCEPT !.fresh = FALSE]

LEMMA ActsKeeps ==
  ASSUME NEW p \in Procs, NEW n, Base, TypedFiles', Acts(p, n), Shape(n), Holds(p, n), Writes(p), Kept(n)'
  PROVE  Base'
<1>1. \A q \in Procs \ {p} : Shape(op[q]) /\ Kept(op[q]) /\ Aged(op[q], op'[q])
  BY DEF Base, Acts
<1>2. op'[p] = n /\ op' = [q \in Procs |-> op'[q]] /\ product' = product
  BY DEF Acts
<1>3. \A q \in Procs : Shape(op'[q])
  BY <1>1, <1>2, AgedIs
<1>4. \A q \in Procs : Shape(op[q])'
  BY <1>2, <1>3 DEF Shape, Keys
<1>5. (op \in [Procs -> Operation])'
  <2>1. \A q \in Procs : op'[q] \in Operation
    BY <1>3 DEF Shape
  <2>2. Operation' = Operation
    BY DEF Operation, LockKeys, Numbers, MaybeLogin, Logins
  <2> QED
    BY <1>2, <2>1, <2>2
<1>6. Exclusive'
  <2>1. \A q \in Procs \ {p} : op'[q].held = op[q].held
    BY <1>1, AgedIs
  <2>2. \A q \in Procs \ {p} : n.held \cap op[q].held = {}
    BY DEF Holds, Base, Exclusive
  <2> QED
    BY <1>2, <2>1, <2>2 DEF Base, Exclusive
<1>7. ASSUME NEW q \in Procs \ {p} PROVE Kept(op[q])'
  <2> DEFINE o == op[q]
             m == op'[q]
  <2>1. Shape(o) /\ Kept(o) /\ Aged(o, m)
    BY <1>1
  <2>2. /\ m.kind = o.kind /\ m.at = o.at /\ m.tgt = o.tgt /\ m.held = o.held
        /\ m.mem = o.mem /\ m.got = o.got /\ m.snap = o.snap /\ m.was = o.was
        /\ m.still => o.still
        /\ m.fresh => o.fresh
    BY <2>1, AgedIs
  <2>3. m.at \in {"kill", "post", "usage"} \cup Replacing => o.tgt \in Accts /\ o.tgt \in o.held
    BY <2>1, <2>2, KeysAreHeld
  <2>4. CopyKept(op[q])'
    BY <2>1, <2>2, <2>3 DEF Kept, CopyKept, Writes, OthersLack
  <2>5. m.at \in Replacing => SwitchLock \in o.held
    BY <2>1, <2>2, KeysAreHeld
  <2>6. CurKept(op[q])'
    BY <2>1, <2>2, <2>5 DEF Kept, CurKept, Writes, OthersLack
  <2>7. LoginKept(op[q])'
    BY <1>2, <2>1, <2>2, <2>5 DEF Kept, LoginKept, Writes, OthersLack, Official, Store, Replacing
  <2>8. GotKept(op[q])'
    <3>1. CASE login' = login
      BY <1>2, <2>1, <2>2, <3>1 DEF Kept, GotKept
    <3>2. CASE login' # login
      <4>1. SwitchLock \notin o.held /\ (o \in Ended \/ m = [o EXCEPT !.fresh = FALSE])
        BY <3>2 DEF Writes, OthersLack
      <4>2. o.kind = "sync" => ~ m.fresh
        BY <2>1, <4>1 DEF Shape, Operation, Ended, Idle, Failed, Stuck
      <4>3. o.got # None => o.kind = "sync"
        BY <2>1, <4>1 DEF Shape, Keys
      <4> QED
        BY <2>2, <4>2, <4>3 DEF GotKept
    <3> QED
      BY <3>1, <3>2
  <2> QED
    BY <2>4, <2>6, <2>7, <2>8 DEF Kept
<1>8. Kept(op[p])'
  BY <1>2 DEF Kept, CopyKept, CurKept, LoginKept, GotKept
<1> QED
  BY <1>4, <1>5, <1>6, <1>7, <1>8 DEF Base

\* It rests: it remembers nothing of the stores.
LEMMA RestingKeeps ==
  ASSUME NEW p \in Procs, NEW n, Base, TypedFiles', Acts(p, n), Shape(n), Holds(p, n), Writes(p),
         n.at \notin {"kill", "post", "usage"} \cup Replacing, n.got = None \/ n.at = "point"
  PROVE  Base'
<1>1. Kept(n)'
  BY DEF Kept, CopyKept, CurKept, LoginKept, GotKept, Replacing
<1> QED
  BY <1>1, ActsKeeps

LEMMA EndedKeeps ==
  ASSUME NEW p \in Procs, NEW n \in Ended, Base, TypedFiles', Acts(p, n), Writes(p)
  PROVE  Base'
<1>1. Shape(n) /\ n.held = {}
  BY IdleIsShaped, EndedIs DEF Ended
<1>2. Kept(n)'
  BY EndedIs DEF Kept, CopyKept, CurKept, LoginKept, GotKept, Replacing
<1> QED
  BY <1>1, <1>2, ActsKeeps DEF Holds

\* Files and stores stay as they are.
Quiet == UNCHANGED <<product, files, login>> /\ issued' \in [Accts -> Nat] /\ app' \in BOOLEAN

LEMMA QuietWrites ==
  ASSUME NEW p \in Procs, Base, Quiet
  PROVE  TypedFiles' /\ Writes(p)
  BY DEF Quiet, Base, TypedFiles, Writes, files, Numbers, MaybeLogin, Logins

LEMMA QuietKeeps ==
  ASSUME NEW p \in Procs, NEW n, Base, Quiet, op' = [op EXCEPT ![p] = n],
         Shape(n), Holds(p, n), Kept(n)
  PROVE  Base'
<1>1. Acts(p, n)
  BY SetActs DEF Base, Quiet
<1>2. Kept(n)'
  BY DEF Quiet, files, Kept, CopyKept, CurKept, LoginKept, GotKept, Official, Store
<1> QED
  BY <1>1, <1>2, QuietWrites, ActsKeeps

LEMMA QuietEnd ==
  ASSUME NEW p \in Procs, Base, Quiet, Leave(p) \/ Fail(p)
  PROVE  Base'
<1>1. PICK n \in Ended : op' = [op EXCEPT ![p] = n]
  BY DEF Leave, Fail, Ended
<1>2. Acts(p, n)
  BY <1>1, SetActs DEF Base, Quiet
<1> QED
  BY <1>2, QuietWrites, EndedKeeps

LEMMA FilesStay ==
  ASSUME Base, UNCHANGED <<product, files, login, issued, app>>
  PROVE  Quiet
  BY DEF Quiet, Base, TypedFiles
-----------------------------------------------------------------------------
(* Calls                                                                   *)

LEMMA CallIs ==
  ASSUME NEW kind, NEW at, NEW a, NEW want, NEW mem
  PROVE  LET n == Call(kind, at, a, want, mem) IN
         /\ n.kind = kind /\ n.at = at /\ n.tgt = a /\ n.want = want /\ n.mem = mem
         /\ n.held = {} /\ n.keep = None /\ n.got = None /\ n.snap = None /\ n.was = None
         /\ n.fresh /\ n.still
         /\ at \notin {"kill", "post", "usage"} \cup Replacing => Kept(n)
<1> DEFINE n == Call(kind, at, a, want, mem)
<1>1. /\ n.kind = kind /\ n.at = at /\ n.tgt = a /\ n.want = want /\ n.mem = mem
      /\ n.held = {} /\ n.keep = None /\ n.got = None /\ n.snap = None /\ n.was = None
      /\ n.fresh /\ n.still
  BY DEF Call, Idle
<1> HIDE DEF n
<1>2. at \notin {"kill", "post", "usage"} \cup Replacing => Kept(n)
  BY <1>1 DEF Kept, CopyKept, CurKept, LoginKept, GotKept, Replacing
<1> QED
  BY <1>1, <1>2 DEF n

LEMMA CallIsTyped ==
  ASSUME NEW kind \in {"switch", "sync", "import", "login", "refresh", "refreshAll", "delete"},
         NEW at \in {"wait", "read"}, NEW a \in Accts \cup {None},
         NEW want \in SUBSET LockKeys, NEW mem \in Numbers
  PROVE  Call(kind, at, a, want, mem) \in Operation
  BY DEF Call, Idle, Operation, Numbers, MaybeLogin

LEMMA CallKeeps ==
  ASSUME NEW p \in Procs, Base, Quiet,
         NEW kind \in {"switch", "sync", "import", "login", "refresh", "refreshAll", "delete"},
         NEW at \in {"wait", "read"}, NEW a \in Accts \cup {None},
         NEW want \in SUBSET LockKeys, NEW mem \in Numbers,
         op' = [op EXCEPT ![p] = Call(kind, at, a, want, mem)],
         at = "read" <=> kind = "sync",
         kind \in {"switch", "delete"} \cup RefreshKinds => a \in Accts /\ a \in want,
         kind \in {"switch", "import", "login"} => SwitchLock \in want,
         kind = "login" => a \in Accts /\ mem \in Nat
  PROVE  Base'
<1> DEFINE n == Call(kind, at, a, want, mem)
<1>1. /\ n.kind = kind /\ n.at = at /\ n.tgt = a /\ n.want = want /\ n.mem = mem
      /\ n.held = {} /\ n.keep = None /\ n.got = None /\ n.snap = None /\ n.was = None
      /\ Kept(n)
  BY CallIs DEF Replacing
<1>2. n \in Operation
  BY CallIsTyped
<1> HIDE DEF n
<1>3. Shape(n)
  BY <1>1, <1>2, Constants DEF Shape, Keys, Replacing, RefreshKinds
<1> QED
  BY <1>1, <1>3, QuietKeeps DEF Holds, n

LEMMA CallsKeep ==
  ASSUME NEW p \in Procs, Base, Calls(p)
  PROVE  Base'
<1>1. cur \in Accts \cup {None} /\ None \in Numbers /\ Accts \cup {SwitchLock} \subseteq LockKeys
  BY DEF Base, TypedFiles, Numbers, LockKeys
<1>2. CASE CallSync(p)
  BY <1>1, <1>2, FilesStay, CallKeeps DEF CallSync, RefreshKinds
<1>3. CASE CallImport(p)
  BY <1>1, <1>3, FilesStay, CallKeeps DEF CallImport, RefreshKinds
<1>4. ASSUME NEW a \in Accts, CallSwitch(p, a) PROVE Base'
  <2>1. SwitchLocks(a) \in SUBSET LockKeys /\ {SwitchLock, a} \subseteq SwitchLocks(a)
    BY <1>1 DEF SwitchLocks
  <2> QED
    BY <1>1, <1>4, <2>1, FilesStay, CallKeeps DEF CallSwitch, RefreshKinds
<1>5. ASSUME NEW a \in Accts, CallLogin(p, a) PROVE Base'
  <2>1. issued[a] + 1 \in Nat /\ issued' \in [Accts -> Nat] /\ app' \in BOOLEAN
    BY <1>5 DEF CallLogin, Issue, Base, TypedFiles
  <2>2. Quiet
    BY <1>5, <2>1 DEF CallLogin, Quiet
  <2> QED
    BY <1>1, <1>5, <2>1, <2>2, CallKeeps DEF CallLogin, RefreshKinds, Numbers
<1>6. ASSUME NEW a \in Accts, CallRefresh(p, a) PROVE Base'
  <2>1. PICK kind \in {"refresh", "refreshAll"} :
          op' = [op EXCEPT ![p] = Call(kind, "wait", a, RefreshLocks(kind, a), None)]
    BY <1>6 DEF CallRefresh
  <2>2. RefreshLocks(kind, a) \in SUBSET LockKeys /\ a \in RefreshLocks(kind, a)
    BY <1>1 DEF RefreshLocks
  <2> QED
    BY <1>1, <1>6, <2>1, <2>2, FilesStay, CallKeeps DEF CallRefresh, RefreshKinds
<1>7. ASSUME NEW a \in Accts, CallDelete(p, a) PROVE Base'
  BY <1>1, <1>7, FilesStay, CallKeeps DEF CallDelete, DeleteLocks, RefreshKinds
<1> QED
  BY <1>2, <1>3, <1>4, <1>5, <1>6, <1>7 DEF Calls
-----------------------------------------------------------------------------
(* Switching                                                               *)

LEMMA EnteredIs ==
  ASSUME NEW p \in Procs, NEW at, op[p] \in Operation
  PROVE  LET o == op[p]
             n == Entered(p, at)
         IN /\ n = [o EXCEPT !.at = at, !.held = o.held \cup o.want, !.want = {}]
            /\ n.held \subseteq o.held \cup o.want
  BY DEF Entered, Operation

\* The current account, or the login, is written by one that holds the switch lock.
LEMMA SwitchLockIsMine ==
  ASSUME NEW p \in Procs, Base, SwitchLock \in op[p].held
  PROVE  OthersLack(p, SwitchLock)
  BY DEF Base, Exclusive, OthersLack

LEMMA TargetIsMine ==
  ASSUME NEW p \in Procs, Base, op[p].tgt \in op[p].held
  PROVE  OthersLack(p, op[p].tgt)
  BY DEF Base, Exclusive, OthersLack

LEMMA GrantedIsMine ==
  ASSUME NEW p \in Procs, NEW kinds, NEW at, Granted(p, kinds, at)
  PROVE  /\ op[p].kind \in kinds /\ op[p].at = at
         /\ \A q \in Procs \ {p} : op[p].want \cap op[q].held = {}
         /\ \A key \in op[p].want : OthersLack(p, key)
  BY DEF Granted, OthersLack

LEMMA BeginSwitchKeeps ==
  ASSUME NEW p \in Procs, Base, BeginSwitch(p)
  PROVE  Base'
<1> DEFINE o == op[p]
           a == o.tgt
<1>1. Shape(o) /\ o \in Operation /\ Quiet
  BY FilesStay DEF BeginSwitch, Base, Shape
<1>2. /\ o.kind = "switch" /\ o.at = "wait"
      /\ \A q \in Procs \ {p} : o.want \cap op[q].held = {}
  BY GrantedIsMine DEF BeginSwitch
<1>3. a \in Accts /\ {SwitchLock, a} \subseteq o.want
  BY <1>1, <1>2 DEF Shape, Keys
<1>4. CASE Fail(p)
  BY <1>1, <1>4, QuietEnd
<1>5. CASE ~ Fail(p)
  <2> DEFINE n == [Entered(p, "kill") EXCEPT !.mem = saved[a], !.keep = prof[a], !.still = TRUE]
  <2>1. saved[a] \in Nat /\ prof[a] \in Accts \cup {None} /\ op' = [op EXCEPT ![p] = n]
    BY <1>3, <1>5 DEF BeginSwitch, Base, TypedFiles, Numbers
  <2> DEFINE k == saved[a]
             b == prof[a]
  <2>2. n = [o EXCEPT !.at = "kill", !.held = o.held \cup o.want, !.want = {},
                      !.mem = k, !.keep = b, !.still = TRUE]
    BY <1>1, EnteredIs DEF Operation
  <2> HIDE DEF n, k, b
  <2>3. k \in Nat /\ b \in Accts \cup {None}
    BY <2>1 DEF k, b
  <2>4. /\ n \in Operation
        /\ n.kind = "switch" /\ n.at = "kill" /\ n.tgt = a /\ n.held = o.held \cup o.want
        /\ n.mem = k /\ n.keep = b /\ n.got = o.got /\ n.was = o.was /\ n.snap = o.snap
    BY <1>1, <1>2, <2>2, <2>3 DEF Operation, Numbers
  <2>5. o.got = None /\ o.was = None
    BY <1>1, <1>2 DEF Shape, Replacing
  <2>6. Shape(n)
    BY <1>1, <1>3, <2>3, <2>4, <2>5 DEF Shape, Keys, Replacing, RefreshKinds
  <2>7. Kept(n)
    BY <2>4, <2>5 DEF Kept, CopyKept, CurKept, LoginKept, GotKept, Replacing, k
  <2>8. Holds(p, n)
    BY <1>2, <2>4 DEF Holds
  <2> QED
    BY <1>1, <2>1, <2>6, <2>7, <2>8, QuietKeeps
<1> QED
  BY <1>4, <1>5

LEMMA ClosingKeeps ==
  ASSUME NEW p \in Procs, Base, ClientCloses(p) \/ ClientStays(p) \/ NothingWritten(p)
  PROVE  Base'
<1> DEFINE o == op[p]
<1>1. Shape(o) /\ o \in Operation /\ Kept(o) /\ app \in BOOLEAN
  BY DEF Base, Shape, TypedFiles
<1>2. Quiet
  BY <1>1 DEF ClientCloses, ClientStays, NothingWritten, Quiet, Base, TypedFiles
<1>3. CASE Fail(p)
  BY <1>2, <1>3, QuietEnd
<1>4. CASE ClientCloses(p)
  <2> DEFINE w == [login |-> Official, cur |-> cur]
             n == [o EXCEPT !.at = "closed", !.was = w, !.still = TRUE]
  <2>1. o.kind = "switch" /\ o.at = "kill"
    BY <1>4 DEF ClientCloses
  <2>2. w \in [login : MaybeLogin, cur : Accts \cup {None}] /\ w.cur = cur /\ w.login = Official
    BY DEF Base, TypedFiles, Official, Store, Stores
  <2>3. op' = [op EXCEPT ![p] = n]
    BY <1>1, <1>4 DEF ClientCloses, Base, Operation
  <2> HIDE DEF w, n
  <2>4. /\ n \in Operation
        /\ n.kind = "switch" /\ n.at = "closed" /\ n.tgt = o.tgt /\ n.held = o.held /\ n.want = o.want
        /\ n.mem = o.mem /\ n.keep = o.keep /\ n.got = o.got /\ n.was = w /\ n.snap = o.snap
    BY <1>1, <2>1, <2>2 DEF Operation, n
  <2>5. Shape(n)
    BY <1>1, <2>1, <2>2, <2>4 DEF Shape, Keys, Replacing, RefreshKinds
  <2>6. o.got = None
    BY <1>1, <2>1 DEF Shape
  <2>7. Kept(n)
    BY <1>1, <2>1, <2>2, <2>4, <2>6 DEF Kept, CopyKept, CurKept, LoginKept, GotKept
  <2> QED
    BY <1>2, <2>3, <2>4, <2>5, <2>7, QuietKeeps DEF Holds
<1> QED
  BY <1>3, <1>4 DEF ClientStays, NothingWritten

\* A Cursor switch writes, or puts everything back.
LEMMA CapturedIsTyped ==
  ASSUME Base, NEW kept \in Captured
  PROVE  kept \in [Accts -> Accts \cup {None}]
<1>1. prof \in [Accts -> Accts \cup {None}] /\ Official \in MaybeLogin
  BY DEF Base, TypedFiles, Official, Store, Stores
<1>2. CASE kept = prof
  BY <1>1, <1>2
<1>3. CASE kept # prof
  <2>1. Official \in Logins
    BY <1>1, <1>3 DEF Captured, MaybeLogin
  <2>2. Official.who \in Accts /\ Official.prof \in Accts
    BY <2>1 DEF Logins
  <2>3. PICK b \in Keepable(Official.who, Official.prof) : kept = [prof EXCEPT ![Official.who] = b]
    BY <1>3 DEF Captured
  <2>4. b \in Accts \cup {None}
    BY <1>1, <2>2, <2>3 DEF Keepable
  <2> QED
    BY <1>1, <2>3, <2>4
<1> QED
  BY <1>2, <1>3

LEMMA LoginIsTyped ==
  ASSUME NEW a \in Accts, NEW k \in Nat, NEW b \in Accts
  PROVE  LoginOf(a, k, b) \in Logins
  BY DEF LoginOf, Logins

LEMMA WriteIsTyped ==
  ASSUME Base, NEW x \in MaybeLogin, Write(x)
  PROVE  login' \in [Stores -> MaybeLogin]
  BY DEF Base, TypedFiles, Write

LEMMA CursorSwitchKeeps ==
  ASSUME NEW p \in Procs, Base, CursorSwitches(p) \/ CursorSwitchFails(p)
  PROVE  Base'
<1> DEFINE o == op[p]
           a == o.tgt
<1>1. Shape(o) /\ Kept(o) /\ TypedFiles /\ op \in [Procs -> Operation]
  BY DEF Base
<1>2. o.at = "closed" /\ o.kind = "switch"
  BY DEF CursorSwitches, CursorSwitchFails
<1>3. a \in Accts /\ a \in o.held /\ SwitchLock \in o.held /\ o.mem \in Nat
  BY <1>1, <1>2, KeysAreHeld DEF Replacing
<1>4. OthersLack(p, SwitchLock) /\ OthersLack(p, a)
  BY <1>3, SwitchLockIsMine, TargetIsMine
<1>5. CASE CursorSwitches(p)
  <2>1. PICK kept \in Captured :
          LET mine == Given(a, IF kept[a] # None THEN kept[a] ELSE o.keep)
          IN Write(LoginOf(a, o.mem, mine)) /\ prof' = [kept EXCEPT ![a] = mine]
    BY <1>5 DEF CursorSwitches
  <2> DEFINE mine == Given(a, IF kept[a] # None THEN kept[a] ELSE o.keep)
  <2>2. Write(LoginOf(a, o.mem, mine)) /\ prof' = [kept EXCEPT ![a] = mine]
    BY <2>1
  <2>3. kept \in [Accts -> Accts \cup {None}]
    BY CapturedIsTyped
  <2>4. o.keep \in Accts \cup {None}
    BY <1>1 DEF Shape, Operation
  <2>5. mine \in Accts
    BY <1>3, <2>3, <2>4 DEF Given
  <2> HIDE DEF mine
  <2>6. login' \in [Stores -> MaybeLogin]
    BY <1>3, <2>2, <2>5, LoginIsTyped, WriteIsTyped DEF MaybeLogin
  <2>7. prof' \in [Accts -> Accts \cup {None}]
    BY <2>2, <2>3, <2>5
  <2>8. saved' = [saved EXCEPT ![a] = o.mem] /\ cur' = a /\ app' = TRUE /\ product' = product /\ issued' = issued
        /\ op' = Stale([op EXCEPT ![p] = Idle])
    BY <1>5 DEF CursorSwitches
  <2>9. TypedFiles'
    BY <1>1, <1>3, <2>6, <2>7, <2>8 DEF TypedFiles, Numbers, MaybeLogin, Logins
  <2>10. Acts(p, Idle) /\ \A q \in Procs \ {p} : op[q] \in Ended \/ op'[q] = [op[q] EXCEPT !.fresh = FALSE]
    <3>1. Idle \in Ended
      BY DEF Ended
    <3> QED
      BY <1>1, <2>8, <3>1, StaleActs
  <2>11. Writes(p)
    BY <1>1, <1>3, <1>4, <2>8, <2>10 DEF Writes, TypedFiles
  <2> QED
    BY <2>9, <2>10, <2>11, EndedKeeps DEF Ended
<1>6. CASE CursorSwitchFails(p)
  <2>1. /\ prof' \in Captured /\ app' = TRUE /\ Fail(p)
        /\ UNCHANGED <<product, saved, cur, login, issued>>
    BY <1>6 DEF CursorSwitchFails
  <2>2. TypedFiles'
    BY <1>1, <2>1, CapturedIsTyped DEF TypedFiles, Numbers, MaybeLogin, Logins
  <2>3. Acts(p, Failed)
    BY <1>1, <2>1, SetActs DEF Fail
  <2>4. Writes(p)
    BY <2>1 DEF Writes
  <2> QED
    BY <2>2, <2>3, <2>4, EndedKeeps DEF Ended
<1> QED
  BY <1>5, <1>6

\* Antigravity's switch, step by step.
LEMMA CaptureKeeps ==
  ASSUME NEW p \in Procs, Base, CaptureLogin(p)
  PROVE  Base'
<1> DEFINE o == op[p]
<1>1. Shape(o) /\ Kept(o) /\ o \in Operation /\ op \in [Procs -> Operation]
  BY DEF Base, Shape
<1>2. o.at = "closed" /\ o.kind = "switch" /\ product # "cursor"
  BY DEF CaptureLogin
<1>3. PICK x \in {Official} \cup (IF product = "hub" THEN {Unread} ELSE {}) :
        op' = [op EXCEPT ![p].at = "write", ![p].snap = x]
  BY DEF CaptureLogin
<1>4. Official \in MaybeLogin /\ Official # Unread
  BY Constants DEF Base, TypedFiles, Official, Store, Stores, MaybeLogin
<1>5. x \in MaybeLogin \cup {Unread} /\ (x = Unread => product = "hub")
  BY <1>3, <1>4
<1> DEFINE n == [o EXCEPT !.at = "write", !.snap = x]
<1>6. op' = [op EXCEPT ![p] = n]
  BY <1>1, <1>3 DEF Operation
<1>7. /\ n \in Operation
      /\ n.kind = "switch" /\ n.at = "write" /\ n.tgt = o.tgt /\ n.held = o.held /\ n.want = o.want
      /\ n.mem = o.mem /\ n.keep = o.keep /\ n.got = o.got /\ n.was = o.was /\ n.snap = x /\ n.still = o.still
  BY <1>1, <1>2, <1>5 DEF Operation
<1> HIDE DEF n
<1>8. Shape(n)
  BY <1>1, <1>2, <1>5, <1>7 DEF Shape, Keys, Replacing, RefreshKinds
<1>9. Kept(n)
  BY <1>1, <1>2, <1>3, <1>7 DEF Kept, CopyKept, CurKept, LoginKept, GotKept, Replacing
<1>10. Quiet
  BY FilesStay DEF CaptureLogin
<1> QED
  BY <1>6, <1>7, <1>8, <1>9, <1>10, QuietKeeps DEF Holds

\* A switch ends with an error, whatever it has written of login and current account.
LEMMA GivingUpKeeps ==
  ASSUME NEW p \in Procs, NEW n \in {Failed, Stuck}, Base,
         op[p].kind = "switch", op[p].at \in Replacing,
         login' \in [Stores -> MaybeLogin], cur' \in Accts \cup {None}, app' \in BOOLEAN,
         UNCHANGED <<product, saved, prof, issued>>, op' = Stale([op EXCEPT ![p] = n])
  PROVE  Base'
<1> DEFINE o == op[p]
<1>1. Shape(o) /\ TypedFiles /\ op \in [Procs -> Operation]
  BY DEF Base
<1>2. OthersLack(p, SwitchLock)
  BY <1>1, KeysAreHeld, SwitchLockIsMine
<1>3. TypedFiles'
  BY <1>1 DEF TypedFiles, Numbers, MaybeLogin, Logins
<1>4. n \in Ended
  BY DEF Ended
<1>5. Acts(p, n) /\ \A q \in Procs \ {p} : op[q] \in Ended \/ op'[q] = [op[q] EXCEPT !.fresh = FALSE]
  BY <1>1, <1>4, StaleActs
<1>6. Writes(p)
  BY <1>2, <1>5 DEF Writes
<1> QED
  BY <1>3, <1>4, <1>5, <1>6, EndedKeeps

\* What is put back is a login, or the login is left.
LEMMA PutsBackIs ==
  ASSUME NEW p \in Procs, Base, PutsBack(p)
  PROVE  /\ login' \in [Stores -> MaybeLogin] /\ app' \in BOOLEAN
         /\ \E n \in {Failed, Stuck} : op' = Stale([op EXCEPT ![p] = n])
<1>1. Shape(op[p]) /\ TypedFiles
  BY DEF Base
<1>2. Restored(p) \in MaybeLogin
  BY <1>1 DEF Restored, Shape, Operation, TypedFiles, Official, Store, Stores
<1> QED
  BY <1>1, <1>2, WriteIsTyped DEF PutsBack, TypedFiles

LEMMA WriteKeeps ==
  ASSUME NEW p \in Procs, Base, WriteLogin(p)
  PROVE  Base'
<1> DEFINE o == op[p]
           n == [o EXCEPT !.at = "check"]
<1>0. PICK m : m = [o EXCEPT !.at = "check", !.fresh = FALSE]
  OBVIOUS
<1>1. Shape(o) /\ Kept(o) /\ o \in Operation /\ TypedFiles /\ op \in [Procs -> Operation]
  BY DEF Base, Shape
<1>2. /\ o.kind = "switch" /\ o.at = "write" /\ UNCHANGED <<product, files, issued, app>>
      /\ op' = Stale([op EXCEPT ![p] = n])
  BY <1>1 DEF WriteLogin
<1>3. SwitchLock \in o.held /\ o.tgt \in Accts /\ o.mem \in Nat
  BY <1>1, <1>2, KeysAreHeld DEF Replacing
<1>4. OthersLack(p, SwitchLock)
  BY <1>3, SwitchLockIsMine
<1>5. TypedFiles'
  <2>1. LoginOf(o.tgt, o.mem, o.tgt) \in MaybeLogin
    BY <1>3, LoginIsTyped DEF MaybeLogin
  <2>2. login' \in [Stores -> MaybeLogin]
    BY <2>1, WriteIsTyped DEF WriteLogin
  <2> QED
    BY <1>1, <1>2, <2>2 DEF TypedFiles, files, Numbers, MaybeLogin, Logins
<1>6. n.kind = "switch" /\ [n EXCEPT !.fresh = FALSE] = m
  BY <1>0, <1>1, <1>2 DEF Operation
<1>7. n \notin Ended
  BY <1>6, EndedIs
<1>8. Acts(p, m) /\ \A q \in Procs \ {p} : op[q] \in Ended \/ op'[q] = [op[q] EXCEPT !.fresh = FALSE]
  BY <1>1, <1>2, <1>6, <1>7, StaleActs
<1>9. Writes(p)
  BY <1>2, <1>4, <1>8 DEF Writes, files
<1>10. /\ m \in Operation
       /\ m.kind = "switch" /\ m.at = "check" /\ m.tgt = o.tgt /\ m.held = o.held /\ m.want = o.want
       /\ m.mem = o.mem /\ m.keep = o.keep /\ m.got = o.got /\ m.was = o.was /\ m.snap = o.snap
       /\ m.still = o.still
  BY <1>0, <1>1, <1>2 DEF Operation
<1>11. Shape(m)
  BY <1>1, <1>2, <1>10 DEF Shape, Keys, Replacing, RefreshKinds
<1>12. o.got = None
  BY <1>1, <1>2 DEF Shape
<1>13. Kept(m)'
  BY <1>1, <1>2, <1>10, <1>12 DEF Kept, CopyKept, CurKept, LoginKept, GotKept, Replacing, files
<1> QED
  BY <1>5, <1>8, <1>9, <1>10, <1>11, <1>13, ActsKeeps DEF Holds

LEMMA RollbackKeeps ==
  ASSUME NEW p \in Procs, Base, WriteTimesOut(p) \/ SwitchRollsBack(p) \/ HubRollsBack(p)
  PROVE  Base'
<1> DEFINE o == op[p]
<1>1. Shape(o) /\ TypedFiles
  BY DEF Base
<1>2. CASE WriteTimesOut(p)
  <2>1. /\ o.kind = "switch" /\ o.at = "write" /\ Write(LoginOf(o.tgt, o.mem, o.tgt))
        /\ app' = TRUE /\ op' = Stale([op EXCEPT ![p] = Failed]) /\ UNCHANGED <<product, files, issued>>
    BY <1>2 DEF WriteTimesOut
  <2>2. o.tgt \in Accts /\ o.mem \in Nat
    BY <1>1, <2>1 DEF Shape
  <2>3. login' \in [Stores -> MaybeLogin]
    BY <2>1, <2>2, LoginIsTyped, WriteIsTyped DEF MaybeLogin
  <2> QED
    BY <1>1, <2>1, <2>3, GivingUpKeeps DEF Replacing, files, TypedFiles
<1>3. CASE SwitchRollsBack(p)
  <2>1. o.kind = "switch" /\ o.at = "check" /\ PutsBack(p) /\ UNCHANGED <<product, files, issued>>
    BY <1>3 DEF SwitchRollsBack
  <2> QED
    BY <1>1, <2>1, PutsBackIs, GivingUpKeeps DEF Replacing, files, TypedFiles
<1>4. CASE HubRollsBack(p)
  <2>1. /\ o.kind = "switch" /\ o.at = "undo" /\ PutsBack(p) /\ cur' = o.was.cur
        /\ UNCHANGED <<product, saved, prof, issued>>
    BY <1>4 DEF HubRollsBack
  <2>2. o.was \in [login : MaybeLogin, cur : Accts \cup {None}]
    BY <1>1, <2>1 DEF Shape, Operation, Replacing
  <2>3. cur' \in Accts \cup {None}
    BY <2>1, <2>2
  <2> QED
    BY <2>1, <2>3, PutsBackIs, GivingUpKeeps DEF Replacing
<1> QED
  BY <1>2, <1>3, <1>4

\* The files of the account and the current account are written; the login is not.
LEMMA FinishSwitchKeeps ==
  ASSUME NEW p \in Procs, Base, FinishSwitch(p)
  PROVE  Base'
<1> DEFINE o == op[p]
<1>1. Shape(o) /\ TypedFiles /\ op \in [Procs -> Operation]
  BY DEF Base
<1>2. o.tgt \in Accts /\ o.tgt \in o.held /\ SwitchLock \in o.held /\ o.mem \in Nat
  BY <1>1, KeysAreHeld DEF FinishSwitch, Replacing
<1>3. OthersLack(p, SwitchLock) /\ OthersLack(p, o.tgt)
  BY <1>2, SwitchLockIsMine, TargetIsMine
<1>4. /\ saved' = [saved EXCEPT ![o.tgt] = o.mem] /\ cur' = o.tgt /\ app' = TRUE
      /\ UNCHANGED <<product, prof, login, issued>> /\ Leave(p)
  BY DEF FinishSwitch
<1>5. TypedFiles'
  BY <1>1, <1>2, <1>4 DEF TypedFiles, Numbers, MaybeLogin, Logins
<1>6. Writes(p)
  BY <1>1, <1>3, <1>4 DEF Writes, TypedFiles
<1>7. Acts(p, Idle)
  BY <1>1, <1>4, SetActs DEF Leave
<1> QED
  BY <1>5, <1>6, <1>7, EndedKeeps DEF Ended

LEMMA SavesHalfKeeps ==
  ASSUME NEW p \in Procs, Base, SavesHalf(p)
  PROVE  Base'
<1> DEFINE o == op[p]
<1>0. PICK n : n = [o EXCEPT !.at = "undo"]
  OBVIOUS
<1>1. Shape(o) /\ Kept(o) /\ o \in Operation /\ TypedFiles /\ op \in [Procs -> Operation]
  BY DEF Base, Shape
<1>2. /\ product = "hub" /\ o.kind = "switch" /\ o.at = "check"
      /\ saved' = [saved EXCEPT ![o.tgt] = o.mem] /\ cur' \in {cur, o.tgt}
      /\ op' = [op EXCEPT ![p] = n] /\ UNCHANGED <<product, prof, login, issued, app>>
  BY <1>0, <1>1 DEF SavesHalf
<1>3. o.tgt \in Accts /\ o.tgt \in o.held /\ SwitchLock \in o.held /\ o.mem \in Nat
  BY <1>1, <1>2, KeysAreHeld DEF Replacing
<1>4. OthersLack(p, SwitchLock) /\ OthersLack(p, o.tgt)
  BY <1>3, SwitchLockIsMine, TargetIsMine
<1>5. TypedFiles'
  BY <1>1, <1>2, <1>3 DEF TypedFiles, Numbers, MaybeLogin, Logins
<1>6. Writes(p)
  BY <1>1, <1>2, <1>4 DEF Writes, TypedFiles
<1>7. Acts(p, n)
  BY <1>1, <1>2, SetActs
<1>8. /\ n \in Operation
      /\ n.kind = "switch" /\ n.at = "undo" /\ n.tgt = o.tgt /\ n.held = o.held /\ n.want = o.want
      /\ n.mem = o.mem /\ n.keep = o.keep /\ n.got = o.got /\ n.was = o.was /\ n.snap = o.snap
      /\ n.still = o.still
  BY <1>0, <1>1, <1>2 DEF Operation
<1>9. Shape(n)
  BY <1>1, <1>2, <1>8 DEF Shape, Keys, Replacing, RefreshKinds
<1>10. o.got = None /\ saved'[o.tgt] = o.mem
  BY <1>1, <1>2, <1>3 DEF Shape, TypedFiles
<1>11. Kept(n)'
  BY <1>1, <1>2, <1>8, <1>10 DEF Kept, CopyKept, CurKept, LoginKept, GotKept, Replacing
<1> QED
  BY <1>5, <1>6, <1>7, <1>8, <1>9, <1>11, ActsKeeps DEF Holds

LEMMA SwitchStepKeeps ==
  ASSUME NEW p \in Procs, Base, SwitchStep(p)
  PROVE  Base'
  BY BeginSwitchKeeps, ClosingKeeps, CursorSwitchKeeps, CaptureKeeps, WriteKeeps, RollbackKeeps,
     FinishSwitchKeeps, SavesHalfKeeps DEF SwitchStep
-----------------------------------------------------------------------------
(* Reading the client's login                                              *)

LEMMA BeginImportKeeps ==
  ASSUME NEW p \in Procs, Base, BeginImport(p)
  PROVE  Base'
<1> DEFINE o == op[p]
           n == Entered(p, "read")
<1>1. Shape(o) /\ o \in Operation
  BY DEF Base, Shape
<1>2. /\ o.kind = "import" /\ o.at = "wait"
      /\ \A q \in Procs \ {p} : o.want \cap op[q].held = {}
  BY GrantedIsMine DEF BeginImport
<1>3. n = [o EXCEPT !.at = "read", !.held = o.held \cup o.want, !.want = {}]
  BY <1>1, EnteredIs
<1> HIDE DEF n
<1>4. /\ n \in Operation
      /\ n.kind = "import" /\ n.at = "read" /\ n.tgt = o.tgt /\ n.held = o.held \cup o.want
      /\ n.keep = o.keep /\ n.got = o.got /\ n.was = o.was /\ n.snap = o.snap
  BY <1>1, <1>2, <1>3 DEF Operation
<1>5. o.got = None /\ SwitchLock \in o.want
  BY <1>1, <1>2 DEF Shape, Keys
<1>6. Shape(n)
  BY <1>1, <1>2, <1>4, <1>5 DEF Shape, Keys, Replacing, RefreshKinds
<1>7. Kept(n)
  BY <1>4, <1>5 DEF Kept, CopyKept, CurKept, LoginKept, GotKept, Replacing
<1>8. Quiet /\ op' = [op EXCEPT ![p] = n]
  BY FilesStay DEF BeginImport, n
<1> QED
  BY <1>2, <1>4, <1>6, <1>7, <1>8, QuietKeeps DEF Holds

LEMMA ReadFirstKeeps ==
  ASSUME NEW p \in Procs, Base, ReadFirst(p)
  PROVE  Base'
<1> DEFINE o == op[p]
<1>1. Shape(o) /\ o \in Operation /\ TypedFiles /\ op \in [Procs -> Operation]
  BY DEF Base, Shape
<1>2. o.kind \in {"sync", "import"} /\ o.at = "read"
  BY DEF ReadFirst
<1>3. PICK x \in FirstRead : op' = [op EXCEPT ![p].at = "second", ![p].got = x, ![p].still = TRUE]
  BY DEF ReadFirst
<1>4. x \in MaybeLogin /\ (product = "cursor" => x = login["db"])
  BY <1>1, <1>3 DEF FirstRead, TypedFiles, Stores, MaybeLogin
<1> DEFINE n == [o EXCEPT !.at = "second", !.got = x, !.still = TRUE]
<1>5. op' = [op EXCEPT ![p] = n]
  BY <1>1, <1>3 DEF Operation
<1>6. /\ n \in Operation
      /\ n.kind = o.kind /\ n.at = "second" /\ n.tgt = o.tgt /\ n.held = o.held /\ n.want = o.want
      /\ n.keep = o.keep /\ n.got = x /\ n.was = o.was /\ n.snap = o.snap
  BY <1>1, <1>4 DEF Operation
<1> HIDE DEF n
<1>7. Shape(n)
  BY <1>1, <1>2, <1>6 DEF Shape, Keys, Replacing, RefreshKinds
<1>8. Kept(n)
  BY <1>4, <1>6 DEF Kept, CopyKept, CurKept, LoginKept, GotKept, Replacing
<1>9. Quiet
  BY FilesStay DEF ReadFirst
<1> QED
  BY <1>5, <1>6, <1>7, <1>8, <1>9, QuietKeeps DEF Holds

\* What the two reads make together.
LEMMA SecondReadIs ==
  ASSUME NEW p \in Procs, Base, op[p].got \in MaybeLogin
  PROVE  /\ SecondRead(p) \in MaybeLogin
         /\ product = "cursor" /\ op[p].got = login["db"] => SecondRead(p) = login["db"]
         /\ product = "cursor" /\ SecondRead(p) # None => op[p].got # None
<1> DEFINE g == op[p].got
           d == login["db"]
<1>1. d \in MaybeLogin
  BY DEF Base, TypedFiles, Stores
<1>2. CASE product # "cursor" \/ g = None \/ d = None
  BY <1>1, <1>2 DEF SecondRead
<1>3. CASE product = "cursor" /\ g # None /\ d # None
  <2>1. g \in Logins /\ d \in Logins
    BY <1>1, <1>3 DEF MaybeLogin
  <2>2. SecondRead(p) = [g EXCEPT !.prof = d.prof]
    BY <1>3 DEF SecondRead
  <2>3. [g EXCEPT !.prof = d.prof] \in Logins /\ (g = d => [g EXCEPT !.prof = d.prof] = d)
    BY <2>1 DEF Logins
  <2> QED
    BY <1>3, <2>2, <2>3 DEF MaybeLogin
<1> QED
  BY <1>2, <1>3

LEMMA ReadSecondKeeps ==
  ASSUME NEW p \in Procs, Base, ReadSecond(p)
  PROVE  Base'
<1> DEFINE o == op[p]
           x == SecondRead(p)
<1>1. Shape(o) /\ Kept(o) /\ o \in Operation /\ TypedFiles /\ op \in [Procs -> Operation]
  BY DEF Base, Shape
<1>2. o.kind \in {"sync", "import"} /\ o.at = "second" /\ Quiet
  BY FilesStay DEF ReadSecond
<1>3. CASE Leave(p)
  BY <1>2, <1>3, QuietEnd
<1>4. CASE ~ Leave(p)
  <2> DEFINE at == IF o.kind = "sync" THEN "wait" ELSE "save"
             want == IF o.kind = "sync" THEN {SwitchLock} ELSE {UpsertLock, x.who}
             n == [o EXCEPT !.at = at, !.tgt = x.who, !.mem = x.num, !.got = x, !.want = want]
  <2>1. x # None /\ op' = [op EXCEPT ![p] = n]
    BY <1>1, <1>4 DEF ReadSecond, Operation
  <2>2. o.got \in MaybeLogin
    BY <1>1 DEF Operation
  <2>3. x \in Logins
    BY <2>1, <2>2, SecondReadIs DEF MaybeLogin
  <2>4. product = "cursor" => o.got # None
    BY <2>1, <2>2, SecondReadIs
  <2>5. product = "cursor" /\ o.got = login["db"] => x = login["db"]
    BY <2>2, SecondReadIs
  <2> HIDE DEF x
  <2>6. x.who \in Accts /\ x.num \in Nat
    BY <2>3 DEF Logins
  <2>7. want \in SUBSET LockKeys /\ (o.kind = "sync" => SwitchLock \in want) /\ (o.kind = "import" => x.who \in want)
    BY <1>2, <2>6 DEF LockKeys
  <2>8. at \in {"wait", "save"} /\ (o.kind = "sync" => at = "wait") /\ (o.kind = "import" => at = "save")
    BY <1>2
  <2> HIDE DEF at, want
  <2>9. /\ n \in Operation
        /\ n.kind = o.kind /\ n.at = at /\ n.tgt = x.who /\ n.held = o.held /\ n.want = want /\ n.mem = x.num
        /\ n.keep = o.keep /\ n.got = x /\ n.was = o.was /\ n.snap = o.snap
        /\ n.fresh = o.fresh /\ n.still = o.still
    BY <1>1, <2>3, <2>6, <2>7, <2>8 DEF Operation, Numbers, MaybeLogin
  <2> HIDE DEF n
  <2>10. Shape(n)
    BY <1>1, <1>2, <2>3, <2>7, <2>8, <2>9 DEF Shape, Keys, Replacing, RefreshKinds
  <2>11. Kept(n)
    BY <1>1, <1>2, <2>4, <2>5, <2>8, <2>9 DEF Kept, CopyKept, CurKept, LoginKept, GotKept, Replacing
  <2> QED
    BY <1>2, <2>1, <2>9, <2>10, <2>11, QuietKeeps DEF Holds
<1> QED
  BY <1>3, <1>4

LEMMA KeepableIs ==
  ASSUME NEW a \in Accts, NEW b \in Accts, Base, NEW c \in Keepable(a, b)
  PROVE  c \in Accts \cup {None}
  BY DEF Keepable, Base, TypedFiles

LEMMA FinishSyncKeeps ==
  ASSUME NEW p \in Procs, Base, FinishSync(p)
  PROVE  Base'
<1> DEFINE o == op[p]
           a == o.tgt
<1>1. Shape(o) /\ TypedFiles /\ op \in [Procs -> Operation]
  BY DEF Base
<1>2. o.kind = "sync" /\ o.at = "wait" /\ \A key \in o.want : OthersLack(p, key)
  BY GrantedIsMine DEF FinishSync
<1>3. o.got \in Logins /\ a = o.got.who /\ SwitchLock \in o.want
  BY <1>1, <1>2 DEF Shape
<1>4. a \in Accts /\ o.got.prof \in Accts
  BY <1>3 DEF Logins
<1>5. cur' \in Accts \cup {None} /\ prof' \in [Accts -> Accts \cup {None}]
  <2>1. CASE UNCHANGED <<cur, prof>>
    BY <1>1, <2>1 DEF TypedFiles
  <2>2. CASE ~ UNCHANGED <<cur, prof>>
    <3>1. PICK c \in Keepable(a, o.got.prof) : prof' = [prof EXCEPT ![a] = c]
      BY <2>2 DEF FinishSync
    <3>2. c \in Accts \cup {None} /\ cur' = a
      BY <1>4, <2>2, KeepableIs DEF FinishSync
    <3> QED
      BY <1>1, <1>4, <3>1, <3>2 DEF TypedFiles
  <2> QED
    BY <2>1, <2>2
<1>6. UNCHANGED <<product, saved, login, issued, app>> /\ Leave(p)
  BY DEF FinishSync
<1>7. TypedFiles'
  BY <1>1, <1>5, <1>6 DEF TypedFiles, Numbers, MaybeLogin, Logins
<1>8. Writes(p)
  BY <1>2, <1>3, <1>6 DEF Writes
<1>9. Acts(p, Idle)
  BY <1>1, <1>6, SetActs DEF Leave
<1> QED
  BY <1>7, <1>8, <1>9, EndedKeeps DEF Ended

\* An account is saved by an operation that was granted its key.
LEMMA SaveImportKeeps ==
  ASSUME NEW p \in Procs, Base, SaveImport(p)
  PROVE  Base'
<1> DEFINE o == op[p]
           a == o.tgt
           n == [o EXCEPT !.at = "point", !.want = {}]
<1>1. Shape(o) /\ o \in Operation /\ TypedFiles /\ op \in [Procs -> Operation]
  BY DEF Base, Shape
<1>2. o.kind = "import" /\ o.at = "save" /\ \A key \in o.want : OthersLack(p, key)
  BY GrantedIsMine DEF SaveImport
<1>3. o.got \in Logins /\ a = o.got.who /\ o.mem = o.got.num /\ SwitchLock \in o.held /\ a \in o.want
  BY <1>1, <1>2 DEF Shape, Keys
<1>4. a \in Accts /\ o.got.prof \in Accts /\ o.mem \in Nat
  BY <1>3 DEF Logins
<1>5. /\ saved' = [saved EXCEPT ![a] = o.mem]
      /\ UNCHANGED <<product, cur, login, issued, app>>
      /\ op' = [op EXCEPT ![p] = n]
  BY <1>1 DEF SaveImport, Operation
<1>6. PICK c \in Keepable(a, o.got.prof) : prof' = [prof EXCEPT ![a] = c]
  BY DEF SaveImport
<1>7. TypedFiles'
  <2>1. c \in Accts \cup {None}
    BY <1>4, KeepableIs
  <2> QED
    BY <1>1, <1>4, <1>5, <1>6, <2>1 DEF TypedFiles, Numbers, MaybeLogin, Logins
<1>8. Writes(p)
  BY <1>1, <1>2, <1>3, <1>5 DEF Writes, TypedFiles
<1>9. /\ n \in Operation
      /\ n.kind = "import" /\ n.at = "point" /\ n.tgt = a /\ n.held = o.held /\ n.mem = o.mem
      /\ n.keep = o.keep /\ n.got = o.got /\ n.was = o.was /\ n.snap = o.snap
  BY <1>1, <1>2 DEF Operation
<1>10. Acts(p, n)
  BY <1>1, <1>5, SetActs
<1> HIDE DEF n
<1>11. Shape(n)
  BY <1>1, <1>2, <1>3, <1>9 DEF Shape, Keys, Replacing, RefreshKinds
<1> QED
  BY <1>7, <1>8, <1>9, <1>10, <1>11, RestingKeeps DEF Holds, Replacing

LEMMA PointingKeeps ==
  ASSUME NEW p \in Procs, Base, PointImport(p) \/ PointLogin(p)
  PROVE  Base'
<1> DEFINE o == op[p]
<1>1. Shape(o) /\ TypedFiles /\ op \in [Procs -> Operation]
  BY DEF Base
<1>2. o.kind \in {"import", "login"} /\ o.at = "point"
  BY DEF PointImport, PointLogin
<1>3. o.tgt \in Accts /\ SwitchLock \in o.held
  BY <1>1, <1>2 DEF Shape, Keys, Logins
<1>4. /\ cur' \in {cur, o.tgt} /\ UNCHANGED <<product, saved, prof, login, issued, app>>
      /\ Leave(p)
  BY DEF PointImport, PointLogin
<1>5. TypedFiles'
  BY <1>1, <1>3, <1>4 DEF TypedFiles, Numbers, MaybeLogin, Logins
<1>6. Writes(p)
  BY <1>3, <1>4, SwitchLockIsMine DEF Writes
<1>7. Acts(p, Idle)
  BY <1>1, <1>4, SetActs DEF Leave
<1> QED
  BY <1>5, <1>6, <1>7, EndedKeeps DEF Ended

LEMMA ReadStepKeeps ==
  ASSUME NEW p \in Procs, Base, ReadStep(p)
  PROVE  Base'
  BY BeginImportKeeps, ReadFirstKeeps, ReadSecondKeeps, FinishSyncKeeps, SaveImportKeeps, PointingKeeps
     DEF ReadStep
-----------------------------------------------------------------------------
(* Signing in                                                              *)

LEMMA BeginLoginKeeps ==
  ASSUME NEW p \in Procs, Base, BeginLogin(p) \/ MetaArrives(p)
  PROVE  Base'
<1> DEFINE o == op[p]
<1>1. Shape(o) /\ o \in Operation /\ TypedFiles /\ op \in [Procs -> Operation]
  BY DEF Base, Shape
<1>2. Quiet /\ o.kind = "login"
  BY FilesStay, GrantedIsMine DEF BeginLogin, MetaArrives
<1>3. o.tgt \in Accts /\ o.mem \in Nat /\ o.got = None /\ {UpsertLock, SwitchLock, o.tgt} \subseteq LockKeys
  BY <1>1, <1>2 DEF Shape, LockKeys
<1>4. CASE BeginLogin(p)
  <2> DEFINE want == {UpsertLock, o.tgt}
             n == [Entered(p, "save") EXCEPT !.want = want]
  <2>1. o.at = "wait" /\ \A q \in Procs \ {p} : o.want \cap op[q].held = {}
    BY <1>4, GrantedIsMine DEF BeginLogin
  <2>2. n = [o EXCEPT !.at = "save", !.held = o.held \cup o.want, !.want = want]
    <3> HIDE DEF want
    <3>1. Entered(p, "save") = [o EXCEPT !.at = "save", !.held = o.held \cup o.want, !.want = {}]
      BY <1>1, EnteredIs
    <3> QED
      BY <1>1, <3>1 DEF Operation
  <2>3. op' = [op EXCEPT ![p] = n] /\ want \in SUBSET LockKeys /\ o.tgt \in want
    BY <1>3, <1>4 DEF BeginLogin
  <2> HIDE DEF n, want
  <2>4. /\ n \in Operation
        /\ n.kind = "login" /\ n.at = "save" /\ n.tgt = o.tgt /\ n.held = o.held \cup o.want
        /\ n.want = want /\ n.mem = o.mem
        /\ n.keep = o.keep /\ n.got = o.got /\ n.was = o.was /\ n.snap = o.snap
    BY <1>1, <1>2, <2>2, <2>3 DEF Operation
  <2>5. SwitchLock \in o.want
    BY <1>1, <1>2, <2>1 DEF Shape, Keys
  <2>6. Shape(n)
    BY <1>1, <1>2, <1>3, <2>1, <2>3, <2>4, <2>5 DEF Shape, Keys, Replacing, RefreshKinds
  <2>7. Kept(n)
    BY <1>3, <2>4 DEF Kept, CopyKept, CurKept, LoginKept, GotKept, Replacing
  <2> QED
    BY <1>2, <2>1, <2>3, <2>4, <2>6, <2>7, QuietKeeps DEF Holds
<1>5. CASE MetaArrives(p)
  <2>1. CASE Leave(p)
    BY <1>2, <2>1, QuietEnd
  <2>2. CASE ~ Leave(p)
    <3> DEFINE want == {SwitchLock, o.tgt}
               n == [o EXCEPT !.at = "named", !.want = want]
    <3>1. o.at = "meta" /\ op' = [op EXCEPT ![p] = n]
      BY <1>1, <1>5, <2>2 DEF MetaArrives, Operation
    <3>5. want \in SUBSET LockKeys /\ o.tgt \in want
      BY <1>3
    <3> HIDE DEF want
    <3>2. /\ n \in Operation
          /\ n.kind = "login" /\ n.at = "named" /\ n.tgt = o.tgt /\ n.held = o.held
          /\ n.want = want /\ n.mem = o.mem
          /\ n.keep = o.keep /\ n.got = o.got /\ n.was = o.was /\ n.snap = o.snap
      BY <1>1, <1>2, <3>5 DEF Operation
    <3> HIDE DEF n
    <3>3. Shape(n)
      BY <1>1, <1>2, <1>3, <3>1, <3>2, <3>5 DEF Shape, Keys, Replacing, RefreshKinds
    <3>4. Kept(n)
      BY <1>3, <3>2 DEF Kept, CopyKept, CurKept, LoginKept, GotKept, Replacing
    <3> QED
      BY <1>2, <3>1, <3>2, <3>3, <3>4, QuietKeeps DEF Holds
  <2> QED
    BY <2>1, <2>2
<1> QED
  BY <1>4, <1>5

LEMMA SaveLoginKeeps ==
  ASSUME NEW p \in Procs, Base, SaveLogin(p) \/ SaveMeta(p)
  PROVE  Base'
<1> DEFINE o == op[p]
           a == o.tgt
<1>1. Shape(o) /\ o \in Operation /\ TypedFiles /\ op \in [Procs -> Operation]
  BY DEF Base, Shape
<1>2. o.kind = "login" /\ o.at \in {"save", "named"} /\ \A key \in o.want : OthersLack(p, key)
  BY GrantedIsMine DEF SaveLogin, SaveMeta
<1>3. a \in Accts /\ o.mem \in Nat /\ o.got = None /\ a \in o.want
  BY <1>1, <1>2 DEF Shape
<1>4. PICK k \in Numbers : saved' = [saved EXCEPT ![a] = k]
  <2>1. saved[a] \in Numbers /\ o.mem \in Numbers
    BY <1>1, <1>3 DEF TypedFiles, Numbers
  <2>2. CASE SaveLogin(p)
    BY <2>1, <2>2 DEF SaveLogin
  <2>3. CASE SaveMeta(p)
    BY <1>1, <1>3, <2>1, <2>3 DEF SaveMeta, TypedFiles
  <2> QED
    BY <2>2, <2>3
<1>5. UNCHANGED <<product, prof, cur, login, issued, app>>
  BY DEF SaveLogin, SaveMeta
<1>6. TypedFiles'
  BY <1>1, <1>3, <1>4, <1>5 DEF TypedFiles, Numbers, MaybeLogin, Logins
<1>7. Writes(p)
  BY <1>1, <1>2, <1>3, <1>4, <1>5 DEF Writes, TypedFiles
<1>8. CASE SaveMeta(p)
  <2>1. Acts(p, Idle)
    BY <1>1, <1>5, <1>8, SetActs DEF SaveMeta, Leave
  <2> QED
    BY <1>6, <1>7, <2>1, EndedKeeps DEF Ended
<1>9. CASE SaveLogin(p)
  <2> DEFINE n == IF product = "cursor" THEN [o EXCEPT !.at = "meta", !.want = {}, !.held = {}]
                  ELSE [o EXCEPT !.at = "point", !.want = {}]
  <2>1. op' = [op EXCEPT ![p] = n] /\ o.at = "save"
    <3>1. o.at = "save"
      BY <1>9, GrantedIsMine DEF SaveLogin
    <3>2. CASE product = "cursor"
      BY <1>1, <1>9, <3>1, <3>2 DEF SaveLogin, Operation
    <3>3. CASE product # "cursor"
      BY <1>1, <1>9, <3>1, <3>3 DEF SaveLogin, Operation
    <3> QED
      BY <3>2, <3>3
  <2>2. /\ n \in Operation
        /\ n.kind = "login" /\ n.at \in {"meta", "point"} /\ n.tgt = a /\ n.held \subseteq o.held /\ n.mem = o.mem
        /\ n.at = "point" => n.held = o.held
        /\ n.keep = o.keep /\ n.got = o.got /\ n.was = o.was /\ n.snap = o.snap
    BY <1>1, <1>2 DEF Operation
  <2>3. Acts(p, n)
    BY <1>1, <1>5, <2>1, SetActs
  <2> HIDE DEF n
  <2>4. SwitchLock \in o.held
    BY <1>1, <1>2, <2>1 DEF Shape, Keys
  <2>5. Shape(n)
    BY <1>1, <1>2, <1>3, <2>1, <2>2, <2>4 DEF Shape, Keys, Replacing, RefreshKinds
  <2>6. n.at \notin {"kill", "post", "usage"} \cup Replacing /\ n.got = None /\ Holds(p, n)
    BY <1>3, <2>2 DEF Replacing, Holds
  <2> QED
    BY <1>6, <1>7, <2>3, <2>5, <2>6, RestingKeeps
<1> QED
  BY <1>8, <1>9

LEMMA LoginStepKeeps ==
  ASSUME NEW p \in Procs, Base, LoginStep(p)
  PROVE  Base'
  BY BeginLoginKeeps, SaveLoginKeeps, PointingKeeps DEF LoginStep
-----------------------------------------------------------------------------
(* Refreshing and deleting                                                 *)

LEMMA BeginRefreshKeeps ==
  ASSUME NEW p \in Procs, Base, BeginRefresh(p)
  PROVE  Base'
<1> DEFINE o == op[p]
           a == o.tgt
<1>1. Shape(o) /\ o \in Operation /\ TypedFiles /\ Quiet
  BY FilesStay DEF BeginRefresh, Base, Shape
<1>2. /\ o.kind \in RefreshKinds /\ o.at = "wait"
      /\ \A q \in Procs \ {p} : o.want \cap op[q].held = {}
  BY GrantedIsMine DEF BeginRefresh
<1>3. a \in Accts /\ a \in o.want /\ o.got = None /\ o.was = None /\ o.kind \notin {"sync", "import"}
  BY <1>1, <1>2 DEF Shape, Keys, Replacing, RefreshKinds
<1>4. CASE Leave(p)
  BY <1>1, <1>4, QuietEnd
<1>5. CASE ~ Leave(p)
  <2> DEFINE k == saved[a]
             b == prof[a]
             n == [Entered(p, "post") EXCEPT !.mem = k, !.keep = b]
  <2>1. k \in Nat /\ b \in Accts \cup {None} /\ op' = [op EXCEPT ![p] = n]
    BY <1>1, <1>3, <1>5 DEF BeginRefresh, TypedFiles, Numbers
  <2>2. n = [o EXCEPT !.at = "post", !.held = o.held \cup o.want, !.want = {}, !.mem = k, !.keep = b]
    BY <1>1, EnteredIs DEF Operation
  <2> HIDE DEF n, b
  <2>3. /\ n \in Operation
        /\ n.kind = o.kind /\ n.at = "post" /\ n.tgt = a /\ n.held = o.held \cup o.want
        /\ n.mem = k /\ n.keep = b /\ n.got = None /\ n.was = None /\ n.snap = o.snap
    <3> HIDE DEF k
    <3> QED
      BY <1>1, <1>3, <2>1, <2>2 DEF Operation, Numbers
  <2>4. Kept(n)
    BY <2>3 DEF Kept, CopyKept, CurKept, LoginKept, GotKept, Replacing
  <2> HIDE DEF k
  <2>5. Shape(n)
    BY <1>1, <1>2, <1>3, <2>1, <2>3 DEF Shape, Keys, Replacing, RefreshKinds
  <2> QED
    BY <1>1, <1>2, <2>1, <2>3, <2>4, <2>5, QuietKeeps DEF Holds
<1> QED
  BY <1>4, <1>5

\* A refresh writes the record it holds, with the token it has: both are its own.
LEMMA RecordIsMine ==
  ASSUME NEW p \in Procs, NEW k \in Nat, Base, op[p].at \in {"post", "usage"},
         SaveRecord(op[p].tgt, k, op[p].keep), issued' \in [Accts -> Nat], UNCHANGED <<product, cur, login, app>>
  PROVE  TypedFiles' /\ Writes(p)
<1> DEFINE o == op[p]
           a == o.tgt
           b == o.keep
<1>1. Shape(o) /\ TypedFiles
  BY DEF Base
<1>2. a \in Accts /\ a \in o.held /\ b \in Accts \cup {None}
  BY <1>1, KeysAreHeld DEF Shape, Operation
<1>3. OthersLack(p, a)
  BY <1>2, TargetIsMine
<1>4. saved' = [saved EXCEPT ![a] = k] /\ prof' = [prof EXCEPT ![a] = b]
  BY DEF SaveRecord
<1>5. TypedFiles'
  BY <1>1, <1>2, <1>4 DEF TypedFiles, Numbers, MaybeLogin, Logins
<1> QED
  BY <1>1, <1>3, <1>4, <1>5 DEF Writes, TypedFiles

LEMMA SaveRefreshKeeps ==
  ASSUME NEW p \in Procs, Base, SaveRefresh(p)
  PROVE  Base'
<1>1. Shape(op[p]) /\ op \in [Procs -> Operation] /\ issued \in [Accts -> Nat]
  BY DEF Base, TypedFiles
<1>2. op[p].mem \in Nat
  BY <1>1, KeysAreHeld DEF SaveRefresh
<1>3. TypedFiles' /\ Writes(p)
  BY <1>1, <1>2, RecordIsMine DEF SaveRefresh
<1>4. Acts(p, Idle)
  BY <1>1, SetActs DEF SaveRefresh, Leave
<1> QED
  BY <1>3, <1>4, EndedKeeps DEF Ended

\* A refresh has the new token in hand and in the file.
LEMMA UsageKeeps ==
  ASSUME NEW p \in Procs, NEW k \in Nat, NEW n, Base, op[p].at = "post",
         n = [op[p] EXCEPT !.at = "usage", !.mem = k], Acts(p, n), TypedFiles', Writes(p),
         saved'[op[p].tgt] = k
  PROVE  Base'
<1> DEFINE o == op[p]
<1>1. Shape(o) /\ o \in Operation
  BY DEF Base, Shape
<1>2. o.kind \in RefreshKinds
  BY <1>1, EndedIs DEF Shape, Replacing, Operation, RefreshKinds
<1>3. /\ n \in Operation
      /\ n.kind = o.kind /\ n.at = "usage" /\ n.tgt = o.tgt /\ n.held = o.held /\ n.mem = k
      /\ n.keep = o.keep /\ n.got = o.got /\ n.was = o.was /\ n.snap = o.snap
  BY <1>1 DEF Operation, Numbers
<1>4. Shape(n)
  BY <1>1, <1>2, <1>3 DEF Shape, Keys, Replacing, RefreshKinds
<1>5. o.got = None
  BY <1>1, <1>2 DEF Shape, RefreshKinds
<1>6. Kept(n)'
  BY <1>3, <1>5 DEF Kept, CopyKept, CurKept, LoginKept, GotKept, Replacing
<1> QED
  BY <1>3, <1>4, <1>6, ActsKeeps DEF Holds

LEMMA RefreshTokenKeeps ==
  ASSUME NEW p \in Procs, Base, RefreshToken(p)
  PROVE  Base'
<1> DEFINE o == op[p]
           a == o.tgt
           k == issued[a] + 1
           n == [o EXCEPT !.at = "usage", !.mem = k]
<1>1. Shape(o) /\ o \in Operation /\ op \in [Procs -> Operation] /\ TypedFiles
  BY DEF Base, Shape
<1>2. a \in Accts /\ o.at = "post"
  BY <1>1, KeysAreHeld DEF RefreshToken
<1>3. k \in Nat /\ issued' \in [Accts -> Nat]
  BY <1>1, <1>2 DEF RefreshToken, Issue, TypedFiles
<1>4. SaveRecord(a, k, o.keep) /\ UNCHANGED <<product, cur, login, app>>
  BY DEF RefreshToken
<1>5. saved'[a] = k
  BY <1>1, <1>2, <1>4 DEF SaveRecord, TypedFiles
<1>6. CASE Leave(p)
  <2> HIDE DEF k
  <2>1. TypedFiles' /\ Writes(p)
    BY <1>2, <1>3, <1>4, RecordIsMine
  <2>2. Acts(p, Idle)
    BY <1>1, <1>4, <1>6, SetActs DEF Leave
  <2> QED
    BY <2>1, <2>2, EndedKeeps DEF Ended
<1>7. CASE ~ Leave(p)
  <2>1. op' = [op EXCEPT ![p] = n]
    <3>1. op' = [op EXCEPT ![p].at = "usage", ![p].mem = k]
      BY <1>7 DEF RefreshToken
    <3> HIDE DEF k
    <3> QED
      BY <1>1, <3>1 DEF Operation
  <2> HIDE DEF k
  <2>2. TypedFiles' /\ Writes(p)
    BY <1>2, <1>3, <1>4, RecordIsMine
  <2>3. Acts(p, n)
    BY <1>1, <1>4, <2>1, SetActs
  <2> QED
    BY <1>2, <1>3, <1>5, <2>2, <2>3, UsageKeeps
<1> QED
  BY <1>6, <1>7

LEMMA BeginDeleteKeeps ==
  ASSUME NEW p \in Procs, Base, BeginDelete(p)
  PROVE  Base'
<1> DEFINE o == op[p]
           a == o.tgt
<1>1. Shape(o) /\ op \in [Procs -> Operation] /\ TypedFiles
  BY DEF Base
<1>2. o.kind = "delete" /\ o.at = "wait" /\ \A key \in o.want : OthersLack(p, key)
  BY GrantedIsMine DEF BeginDelete
<1>3. a \in Accts /\ OthersLack(p, a)
  BY <1>1, <1>2 DEF Shape, Keys
<1>4. UNCHANGED <<product, cur, login, issued, app>> /\ Leave(p)
  BY DEF BeginDelete
<1>5. /\ saved' = saved \/ saved' = [saved EXCEPT ![a] = None]
      /\ prof' = prof \/ prof' = [prof EXCEPT ![a] = None]
  BY DEF BeginDelete
<1>6. TypedFiles'
  BY <1>1, <1>3, <1>4, <1>5 DEF TypedFiles, Numbers, MaybeLogin, Logins
<1>7. Writes(p)
  BY <1>1, <1>3, <1>4, <1>5 DEF Writes, TypedFiles
<1>8. Acts(p, Idle)
  BY <1>1, <1>4, SetActs DEF Leave
<1> QED
  BY <1>6, <1>7, <1>8, EndedKeeps DEF Ended

LEMMA StepKeeps ==
  ASSUME NEW p \in Procs, Base, Step(p)
  PROVE  Base'
<1>1. CASE RefreshStep(p)
  BY <1>1, BeginRefreshKeeps, RefreshTokenKeeps, SaveRefreshKeeps, BeginDeleteKeeps DEF RefreshStep
<1> QED
  BY <1>1, SwitchStepKeeps, ReadStepKeeps, LoginStepKeeps DEF Step
-----------------------------------------------------------------------------
(* The client itself, the manager's end, and the beginning                 *)

LEMMA OfficialKeeps ==
  ASSUME Base, OfficialStep
  PROVE  Base'
<1>1. TypedFiles /\ op \in [Procs -> Operation]
  BY DEF Base
<1>2. CASE OfficialStarts \/ OfficialExits
  <2>1. UNCHANGED <<product, files, login, issued, op>> /\ app' \in BOOLEAN
    BY <1>2 DEF OfficialStarts, OfficialExits
  <2> QED
    BY <2>1 DEF Base, TypedFiles, files, Exclusive, Shape, Keys, Kept, CopyKept, CurKept, LoginKept, GotKept,
                Official, Store, Numbers, MaybeLogin, Logins, Operation, LockKeys
<1>3. CASE OfficialSignsOut \/ \E a \in Accts : OfficialSignsIn(a)
  <2>1. op' = Moved /\ UNCHANGED <<product, files, app>>
    BY <1>3 DEF OfficialSignsOut, OfficialSignsIn
  <2>2. TypedFiles'
    <3>1. CASE OfficialSignsOut
      BY <1>1, <3>1, WriteIsTyped DEF OfficialSignsOut, TypedFiles, files, Numbers, MaybeLogin, Logins
    <3>2. ASSUME NEW a \in Accts, OfficialSignsIn(a) PROVE TypedFiles'
      <4> DEFINE k == issued[a] + 1
      <4>1. k \in Nat /\ issued' \in [Accts -> Nat] /\ Write(LoginOf(a, k, a))
        BY <1>1, <3>2 DEF OfficialSignsIn, Issue, TypedFiles
      <4> HIDE DEF k
      <4>2. login' \in [Stores -> MaybeLogin]
        BY <4>1, LoginIsTyped, WriteIsTyped DEF MaybeLogin
      <4> QED
        BY <1>1, <2>1, <4>1, <4>2 DEF TypedFiles, files, Numbers, MaybeLogin, Logins
    <3> QED
      BY <1>3, <3>1, <3>2
  <2>3. ASSUME NEW q \in Procs
        PROVE  Aged(op[q], op'[q]) /\ ((op[q] \in Ended /\ op'[q] = op[q]) \/ ~ op'[q].still)
    <3>1. op[q] \in Operation /\ op'[q] = IF op[q] \in Ended THEN op[q] ELSE [op[q] EXCEPT !.still = FALSE]
      BY <1>1, <2>1 DEF Moved, Free
    <3> QED
      BY <3>1 DEF Aged, Operation
  <2>4. ASSUME NEW q \in Procs
        PROVE  /\ Shape(op'[q]) /\ op'[q].held = op[q].held
               /\ op'[q].at = op[q].at /\ op'[q].tgt = op[q].tgt /\ op'[q].mem = op[q].mem
               /\ op'[q].was = op[q].was
    <3>1. Shape(op[q])
      BY DEF Base
    <3>2. Aged(op[q], op'[q])
      BY <2>3
    <3> QED
      BY <3>1, <3>2, AgedIs
  <2>5. \A q \in Procs : Shape(op[q])'
    BY <2>1, <2>4 DEF Shape, Keys
  <2>6. (op \in [Procs -> Operation])' /\ Exclusive'
    <3>1. op' = [q \in Procs |-> op'[q]]
      BY <2>1 DEF Moved
    <3>2. \A q \in Procs : op'[q] \in Operation
      BY <2>4 DEF Shape
    <3>3. op' \in [Procs -> Operation]
      BY <3>1, <3>2
    <3> QED
      BY <2>4, <3>3 DEF Base, Exclusive
  <2>7. ASSUME NEW q \in Procs PROVE Kept(op[q])'
    <3>1. op'[q].still => op'[q] \in Ended
      BY <2>3
    <3>2. /\ op'[q].at = op[q].at /\ op'[q].tgt = op[q].tgt /\ op'[q].mem = op[q].mem
          /\ op'[q].was = op[q].was
      BY <2>4
    <3>3. CopyKept(op[q])' /\ CurKept(op[q])'
      <4>1. CopyKept(op[q]) /\ CurKept(op[q]) /\ saved' = saved /\ cur' = cur
        BY <2>1 DEF Base, Kept, files
      <4> QED
        BY <3>2, <4>1 DEF CopyKept, CurKept
    <3>4. op'[q] \in Ended => op'[q].at \in {"idle", "failed", "stuck"} /\ op'[q].got = None
      BY EndedIs
    <3>5. LoginKept(op[q])' /\ GotKept(op[q])'
      BY <3>1, <3>4 DEF LoginKept, GotKept
    <3> QED
      BY <3>3, <3>5 DEF Kept
  <2> QED
    BY <2>2, <2>5, <2>6, <2>7 DEF Base
<1> QED
  BY <1>2, <1>3 DEF OfficialStep

\* Nothing is in progress.
LEMMA IdleIsBase ==
  ASSUME TypedFiles, op = [p \in Procs |-> Idle]
  PROVE  Base
<1>1. Idle \in Ended /\ Shape(Idle)
  BY IdleIsShaped DEF Ended
<1>2. Idle.at = "idle" /\ Idle.got = None /\ Idle.held = {}
  BY DEF Idle
<1>3. \A p \in Procs : Kept(op[p])
  BY <1>2 DEF Kept, CopyKept, CurKept, LoginKept, GotKept, Replacing
<1>4. op \in [Procs -> Operation] /\ Exclusive
  BY <1>1, <1>2 DEF Exclusive, Shape
<1> QED
  BY <1>1, <1>3, <1>4 DEF Base

LEMMA CrashKeeps ==
  ASSUME Base, Crash
  PROVE  Base'
<1>1. TypedFiles' /\ op' = [p \in Procs |-> Idle]
  BY DEF Crash, Base, TypedFiles, files, Numbers, MaybeLogin, Logins
<1>2. Idle \in Ended /\ Shape(Idle)'
  <2>1. product' = product /\ Shape(Idle)
    BY IdleIsShaped DEF Crash
  <2> QED
    BY <2>1 DEF Shape, Keys, Ended
<1>3. Idle.at = "idle" /\ Idle.got = None /\ Idle.held = {}
  BY DEF Idle
<1>4. \A p \in Procs : Kept(op[p])'
  BY <1>1, <1>3 DEF Kept, CopyKept, CurKept, LoginKept, GotKept, Replacing
<1>5. \A p \in Procs : Shape(op[p])'
  BY <1>1, <1>2 DEF Shape, Keys
<1>6. (op \in [Procs -> Operation])' /\ Exclusive'
  <2>1. Idle \in Operation
    BY IdleIsShaped DEF Shape
  <2> QED
    BY <1>1, <1>3, <2>1 DEF Exclusive
<1> QED
  BY <1>1, <1>4, <1>5, <1>6 DEF Base

LEMMA InitBase == Init => Base
<1> SUFFICES ASSUME Init PROVE Base
  OBVIOUS
<1>1. 1 \in Numbers /\ None \in Numbers
  BY DEF Numbers
<1>2. \A a \in Accts : LoginOf(a, 1, a) \in Logins
  BY LoginIsTyped
<1>3. TypedFiles
  BY <1>1, <1>2, ConstantsAssumption DEF Init, TypedFiles, MaybeLogin
<1> QED
  BY <1>3, IdleIsBase DEF Init

LEMMA NextBase == Base /\ [Next]_vars => Base'
<1> SUFFICES ASSUME Base, [Next]_vars PROVE Base'
  OBVIOUS
<1>1. CASE UNCHANGED vars
  BY <1>1 DEF vars, Base, TypedFiles, files, Exclusive, Shape, Keys, Kept, CopyKept, CurKept, LoginKept, GotKept,
              Official, Store, Numbers, MaybeLogin, Logins
<1>2. CASE Next
  BY <1>2, CallsKeep, StepKeeps, OfficialKeeps, CrashKeeps DEF Next
<1> QED
  BY <1>1, <1>2

LEMMA AlwaysBase == Spec => []Base
  BY InitBase, NextBase, PTL DEF Spec

\* The types of all state, whatever operations are called.
THEOREM TypesAreRight == Spec => []TypeOK
<1>1. Base => TypeOK
  BY DEF Base, TypedFiles, TypeOK
<1> QED
  BY <1>1, AlwaysBase, PTL

\* No lost update: whatever a switch or a refresh holds of an account it will save
\* whole, nobody has saved that account since it loaded it.  Every operation that
\* saves an account asks for its key (withAccountLock).
THEOREM CopiesAreCurrent == Spec => []CopyIsCurrent
<1>1. Base => CopyIsCurrent
  BY DEF Base, Kept, CopyKept, CopyIsCurrent, HoldsCopy, Replacing
<1> QED
  BY <1>1, AlwaysBase, PTL
-----------------------------------------------------------------------------
(* Who may change an operation: its own steps, and little else             *)

LEMMA OthersAge ==
  ASSUME NEW p \in Procs, op \in [Procs -> Operation], Calls(p) \/ Step(p), NEW q \in Procs, q # p
  PROVE  Aged(op[q], op'[q])
<1>1. CASE Calls(p)
  BY <1>1 DEF Calls, CallSync, CallImport, CallSwitch, CallLogin, CallRefresh, CallDelete, Aged
<1>2. ASSUME NEW n, op' = Stale([op EXCEPT ![p] = n]) PROVE Aged(op[q], op'[q])
  <2>1. op'[q] = IF op[q] \in Ended THEN op[q] ELSE [op[q] EXCEPT !.fresh = FALSE]
    BY <1>2 DEF Stale
  <2> QED
    BY <2>1 DEF Aged
<1>3. CASE op'[q] = op[q]
  BY <1>3 DEF Aged
<1>4. CASE SwitchStep(p)
  <2>1. CASE BeginSwitch(p) \/ ClientCloses(p) \/ ClientStays(p) \/ NothingWritten(p) \/ CursorSwitchFails(p)
             \/ CaptureLogin(p) \/ FinishSwitch(p) \/ SavesHalf(p)
    BY <1>3, <2>1 DEF BeginSwitch, ClientCloses, ClientStays, NothingWritten, CursorSwitchFails,
                      CaptureLogin, FinishSwitch, SavesHalf, Leave, Fail
  <2>2. CASE CursorSwitches(p) \/ WriteTimesOut(p) \/ SwitchRollsBack(p) \/ HubRollsBack(p)
    BY <1>2, <2>2 DEF CursorSwitches, WriteTimesOut, SwitchRollsBack, HubRollsBack, PutsBack
  <2>3. CASE WriteLogin(p)
    <3>1. op' = Stale([op EXCEPT ![p] = [op[p] EXCEPT !.at = "check"]])
      BY <2>3 DEF WriteLogin
    <3> QED
      BY <1>2, <3>1
  <2> QED
    BY <1>4, <2>1, <2>2, <2>3 DEF SwitchStep
<1>5. CASE ReadStep(p)
  BY <1>3, <1>5 DEF ReadStep, BeginImport, ReadFirst, ReadSecond, FinishSync, SaveImport, PointImport, Leave
<1>6. CASE LoginStep(p)
  BY <1>3, <1>6 DEF LoginStep, BeginLogin, SaveLogin, PointLogin, MetaArrives, SaveMeta, Leave
<1>7. CASE RefreshStep(p)
  BY <1>3, <1>7 DEF RefreshStep, BeginRefresh, RefreshToken, SaveRefresh, BeginDelete, Leave
<1> QED
  BY <1>1, <1>4, <1>5, <1>6, <1>7 DEF Step

\* An operation that is over, one way or the other, has made the step itself, or
\* the manager was killed.
LEMMA EndsItself ==
  ASSUME Base, [Next]_vars, NEW p \in Procs, op[p] \notin Ended, op'[p] \in Ended
  PROVE  Step(p) \/ Crash
<1>1. op \in [Procs -> Operation] /\ Shape(op[p])
  BY DEF Base
<1>2. op[p].kind # "none" /\ op'[p].kind = "none"
  BY <1>1, EndedIs DEF Shape
<1>3. CASE UNCHANGED vars
  BY <1>3 DEF vars
<1>4. ASSUME NEW r \in Procs, Calls(r) \/ Step(r) PROVE Step(p)
  <2>1. CASE r # p
    <3>1. Aged(op[p], op'[p])
      BY <1>1, <1>4, <2>1, OthersAge
    <3> QED
      BY <1>1, <1>2, <3>1, AgedIs
  <2>2. CASE r = p /\ Calls(p)
    <3>1. \E kind, at, a, want, mem : kind # "none" /\ op' = [op EXCEPT ![p] = Call(kind, at, a, want, mem)]
      BY <2>2 DEF Calls, CallSync, CallImport, CallSwitch, CallLogin, CallRefresh, CallDelete
    <3>2. op'[p].kind # "none"
      BY <1>1, <3>1, CallIs
    <3> QED
      BY <1>2, <3>2
  <2> QED
    BY <1>4, <2>1, <2>2
<1>5. CASE OfficialStep
  <2>1. op' = op \/ op' = Moved
    BY <1>5 DEF OfficialStep, OfficialStarts, OfficialExits, OfficialSignsOut, OfficialSignsIn
  <2>2. op'[p].kind = op[p].kind
    BY <1>1, <2>1 DEF Moved, Free, Operation
  <2> QED
    BY <1>2, <2>2
<1> QED
  BY <1>3, <1>4, <1>5 DEF Next
-----------------------------------------------------------------------------
(* The sync and the official client                                        *)

\* A Cursor sync that moves the current account moves it to the account that is
\* signed in: no switch has written the login since (fresh), nor has the client.
LEMMA SyncStep ==
  ASSUME Base, [Next]_vars, NEW p \in Procs, SyncEnds(p), cur' # cur, ~ Excused(p)
  PROVE  Official # None /\ cur' = Official.who
<1> DEFINE o == op[p]
<1>1. Shape(o) /\ Kept(o) /\ o.kind = "sync" /\ o.at = "wait" /\ o.still /\ product = "cursor"
  BY DEF Base, SyncEnds, Excused
<1>2. Step(p) \/ Crash
  <2>1. o \notin Ended /\ op'[p] \in Ended
    BY <1>1, EndedIs DEF SyncEnds, Ended
  <2> QED
    BY <2>1, EndsItself
<1>3. FinishSync(p)
  <2>1. ~ Crash
    BY DEF Crash, files
  <2>2. ~ SwitchStep(p)
    BY <1>1 DEF SwitchStep, BeginSwitch, Granted, ClientCloses, ClientStays, NothingWritten, CursorSwitches,
                CursorSwitchFails, CaptureLogin, WriteLogin, WriteTimesOut, FinishSwitch, SwitchRollsBack,
                SavesHalf, HubRollsBack
  <2>3. ~ LoginStep(p)
    BY <1>1 DEF LoginStep, BeginLogin, Granted, SaveLogin, PointLogin, MetaArrives, SaveMeta
  <2>4. ~ RefreshStep(p)
    BY <1>1 DEF RefreshStep, BeginRefresh, Granted, RefreshKinds, RefreshToken, SaveRefresh, BeginDelete
  <2> QED
    BY <1>1, <1>2, <2>1, <2>2, <2>3, <2>4
       DEF Step, ReadStep, BeginImport, Granted, ReadFirst, ReadSecond, SaveImport, PointImport
<1>4. o.fresh /\ cur' = o.tgt
  BY <1>1, <1>3 DEF FinishSync, StillCurrent
<1>5. o.got \in Logins /\ o.tgt = o.got.who
  BY <1>1 DEF Shape
<1>6. o.got = login["db"]
  BY <1>1, <1>4, <1>5, Constants DEF Kept, GotKept
<1> QED
  BY <1>1, <1>4, <1>5, <1>6, Constants DEF Official, Store

\* Cursor: whatever switch ended while the sync was reading, the current account
\* is moved only to the account the client is signed in to.
THEOREM SyncsFollowTheClient == Spec => SyncFollowsOfficial
<1>1. Base /\ [Next]_vars => [\A p \in Procs : SyncEnds(p) /\ cur' # cur /\ ~ Excused(p)
                                => Official # None /\ cur' = Official.who]_vars
  BY SyncStep
<1> QED
  BY <1>1, AlwaysBase, PTL DEF Spec, SyncFollowsOfficial
-----------------------------------------------------------------------------
(* A switch that fails                                                     *)

LEMMA FailureIs ==
  ASSUME Base, [Next]_vars, NEW p \in Procs, Fails(p)
  PROVE  \/ NothingWritten(p) \/ CursorSwitchFails(p) \/ WriteTimesOut(p)
         \/ SwitchRollsBack(p) \/ HubRollsBack(p)
<1> DEFINE o == op[p]
<1>1. Shape(o) /\ o.was # None /\ op'[p] \in {Failed, Stuck} /\ op \in [Procs -> Operation]
  BY DEF Base, Fails
<1>2. o.at \in Replacing /\ o.kind = "switch"
  BY <1>1, KeysAreHeld DEF Shape
<1>3. Step(p) \/ Crash
  <2>1. o \notin Ended /\ op'[p] \in Ended
    BY <1>1, EndedIs DEF Ended
  <2> QED
    BY <2>1, EndsItself
<1>4. op'[p].at \in {"failed", "stuck"} /\ op'[p] # Idle
  BY <1>1 DEF Failed, Stuck, Idle
<1>5. ~ Crash
  BY <1>1, <1>4 DEF Crash
<1>6. SwitchStep(p)
  BY <1>2, <1>3, <1>5 DEF Step, Replacing, RefreshKinds, Granted,
       ReadStep, BeginImport, ReadFirst, ReadSecond, FinishSync, SaveImport, PointImport,
       LoginStep, BeginLogin, SaveLogin, PointLogin, MetaArrives, SaveMeta,
       RefreshStep, BeginRefresh, RefreshToken, SaveRefresh, BeginDelete
<1>7. ~ BeginSwitch(p) /\ ~ ClientCloses(p) /\ ~ ClientStays(p)
  BY <1>2 DEF BeginSwitch, ClientCloses, ClientStays, Granted, Replacing
<1>8. ~ CaptureLogin(p) /\ ~ FinishSwitch(p) /\ ~ SavesHalf(p)
  BY <1>1, <1>2, <1>4 DEF CaptureLogin, FinishSwitch, SavesHalf, Leave, Replacing, Operation
<1>9. ~ CursorSwitches(p)
  <2>1. CASE CursorSwitches(p)
    <3>1. op' = Stale([op EXCEPT ![p] = Idle]) /\ Idle \in Ended
      BY <2>1 DEF CursorSwitches, Ended
    <3>2. Acts(p, Idle)
      BY <1>1, <2>1, <3>1, StaleActs DEF CursorSwitches
    <3> QED
      BY <1>1, <1>4, <3>2 DEF Acts
  <2> QED
    BY <2>1
<1>10. ~ WriteLogin(p)
  <2>1. CASE WriteLogin(p)
    <3> DEFINE n == [o EXCEPT !.at = "check"]
    <3>1. op' = Stale([op EXCEPT ![p] = n]) /\ n.at = "check"
      BY <1>1, <2>1 DEF WriteLogin, Operation
    <3>2. n \notin Ended /\ [n EXCEPT !.fresh = FALSE].at = "check"
      BY <1>1, <3>1, EndedIs DEF Operation
    <3> HIDE DEF n
    <3>3. op'[p] = [n EXCEPT !.fresh = FALSE]
      BY <1>1, <3>1, <3>2 DEF Stale
    <3> QED
      BY <1>1, <1>4, <3>2, <3>3
  <2> QED
    BY <2>1
<1> QED
  BY <1>6, <1>7, <1>8, <1>9, <1>10 DEF SwitchStep

LEMMA FailureRestores ==
  ASSUME Base, [Next]_vars, NEW p \in Procs, Fails(p), op[p].still
  PROVE  /\ cur' = op[p].was.cur
         /\ saved'[op[p].tgt] = op[p].mem
         /\ TooLate(p) \/ op'[p] = Stuck \/ Official' = op[p].was.login
<1> DEFINE o == op[p]
<1>1. Shape(o) /\ Kept(o) /\ o.was # None
  BY DEF Base, Fails
<1>2. o.at \in Replacing
  BY <1>1 DEF Shape
<1>3. saved[o.tgt] = o.mem /\ (o.at # "undo" => cur = o.was.cur)
  BY <1>1, <1>2 DEF Kept, CopyKept, CurKept
<1>4. /\ o.at \in {"closed", "write"} => Official = o.was.login
      /\ o.at \in {"write", "check", "undo"} => o.snap \in {o.was.login, Unread}
  BY <1>1 DEF Kept, LoginKept
<1>5. CASE NothingWritten(p) \/ CursorSwitchFails(p)
  <2>1. UNCHANGED <<product, saved, cur, login>> /\ o.at \in {"closed", "write"}
    BY <1>5 DEF NothingWritten, CursorSwitchFails, files
  <2> QED
    BY <1>3, <1>4, <2>1 DEF Official, Store
<1>6. CASE WriteTimesOut(p)
  BY <1>3, <1>6 DEF WriteTimesOut, TooLate, files
<1>7. ASSUME PutsBack(p), UNCHANGED product, o.at \in {"check", "undo"}
      PROVE  TooLate(p) \/ op'[p] = Stuck \/ Official' = o.was.login
  <2>1. CASE Write(Restored(p))
    <3>1. Official' = Restored(p)
      BY <1>7, <2>1 DEF Write, Official, Store, Stores, Base, TypedFiles
    <3>2. o.snap = Unread => TooLate(p)
      BY <1>1 DEF Shape, TooLate
    <3> QED
      BY <1>4, <1>7, <3>1, <3>2 DEF Restored
  <2>2. CASE op' = Stale([op EXCEPT ![p] = Stuck])
    BY <2>2 DEF Stale, Ended, Base
  <2> QED
    BY <1>7, <2>1, <2>2 DEF PutsBack
<1>8. CASE SwitchRollsBack(p)
  <2>1. UNCHANGED <<product, saved, cur>> /\ o.at = "check" /\ PutsBack(p)
    BY <1>8 DEF SwitchRollsBack, files
  <2> QED
    BY <1>3, <1>7, <2>1
<1>9. CASE HubRollsBack(p)
  <2>1. UNCHANGED <<product, saved>> /\ o.at = "undo" /\ PutsBack(p) /\ cur' = o.was.cur
    BY <1>9 DEF HubRollsBack
  <2> QED
    BY <1>3, <1>7, <2>1
<1> QED
  BY <1>5, <1>6, <1>8, <1>9, FailureIs

\* A switch that fails leaves what it found: no other operation could move the
\* current account, save the account or write the login between its snapshot and
\* the rollback (doCursorSwitch, doAntigravitySwitch), for they ask for the same keys.
THEOREM FailedSwitchesRestore == Spec => FailedSwitchRestores
<1>1. Base /\ [Next]_vars =>
        [\A p \in Procs : Fails(p) /\ op[p].still =>
            /\ cur' = op[p].was.cur
            /\ saved'[op[p].tgt] = op[p].mem
            /\ TooLate(p) \/ op'[p] = Stuck \/ Official' = op[p].was.login]_vars
  BY FailureRestores
<1> QED
  BY <1>1, AlwaysBase, PTL DEF Spec, FailedSwitchRestores
-----------------------------------------------------------------------------
(* Profiles                                                                *)

\* Where the profile and the login that an operation o has in hand come from.
Sources(o, n) ==
  /\ \/ n.keep = None
     \/ n.keep = o.keep /\ n.tgt = o.tgt
     \/ n.tgt \in Accts /\ n.keep = prof[n.tgt]
  /\ \/ n.snap \in {None, Unread, o.snap}
     \/ n.snap = Official /\ product # "cursor"

LEMMA EndedHasNothing ==
  ASSUME NEW o, NEW n \in Ended
  PROVE  Sources(o, n)
  BY DEF Ended, Idle, Failed, Stuck, Sources

LEMMA AgedHasTheSame ==
  ASSUME NEW o, NEW n, Shape(o), Aged(o, n)
  PROVE  Sources(o, n)
  BY AgedIs DEF Sources

LEMMA SwitchSources ==
  ASSUME NEW p \in Procs, Base, SwitchStep(p)
  PROVE  Sources(op[p], op'[p])
<1> DEFINE o == op[p]
<1>1. Shape(o) /\ o \in Operation /\ op \in [Procs -> Operation]
  BY DEF Base, Shape
<1>2. ASSUME NEW n \in Ended, op' = [op EXCEPT ![p] = n] \/ op' = Stale([op EXCEPT ![p] = n])
      PROVE  Sources(o, op'[p])
  <2>1. op'[p] = n
    BY <1>1, <1>2 DEF Stale
  <2> QED
    BY <2>1, EndedHasNothing
<1>3. Idle \in Ended /\ Failed \in Ended /\ Stuck \in Ended
  BY DEF Ended
<1>4. CASE Fail(p) \/ Leave(p)
  BY <1>2, <1>3, <1>4 DEF Fail, Leave
<1>5. CASE BeginSwitch(p)
  <2>1. CASE ~ Fail(p)
    <3> DEFINE k == saved[o.tgt]
               b == prof[o.tgt]
    <3>1. op' = [op EXCEPT ![p] = [Entered(p, "kill") EXCEPT !.mem = k, !.keep = b, !.still = TRUE]]
      BY <1>5, <2>1 DEF BeginSwitch
    <3>2. o.tgt \in Accts
      BY <1>1, <1>5, GrantedIsMine DEF BeginSwitch, Shape
    <3> HIDE DEF k, b
    <3>3. op'[p].keep = b /\ op'[p].tgt = o.tgt /\ op'[p].snap = o.snap
      BY <1>1, <3>1 DEF Entered, Operation
    <3> QED
      BY <3>2, <3>3 DEF Sources, b
  <2> QED
    BY <1>4, <2>1
<1>6. CASE ClientCloses(p)
  <2> DEFINE w == [login |-> Official, cur |-> cur]
  <2>1. op' = [op EXCEPT ![p].at = "closed", ![p].was = w, ![p].still = TRUE]
    BY <1>6 DEF ClientCloses
  <2> HIDE DEF w
  <2>2. op'[p].keep = o.keep /\ op'[p].tgt = o.tgt /\ op'[p].snap = o.snap
    BY <1>1, <2>1 DEF Operation
  <2> QED
    BY <2>2 DEF Sources
<1>7. CASE CaptureLogin(p)
  <2>1. PICK x \in {Official, Unread} : op' = [op EXCEPT ![p].at = "write", ![p].snap = x]
    BY <1>7 DEF CaptureLogin
  <2>2. op'[p].keep = o.keep /\ op'[p].tgt = o.tgt /\ op'[p].snap = x
    BY <1>1, <2>1 DEF Operation
  <2> QED
    BY <1>7, <2>2 DEF Sources, CaptureLogin
<1>8. CASE WriteLogin(p)
  <2> DEFINE n == [o EXCEPT !.at = "check"]
  <2>1. op' = Stale([op EXCEPT ![p] = n]) /\ n.at = "check"
    BY <1>1, <1>8 DEF WriteLogin, Operation
  <2>2. n \notin Ended
    BY <2>1, EndedIs
  <2>3. op'[p] = [n EXCEPT !.fresh = FALSE]
    BY <1>1, <2>1, <2>2 DEF Stale
  <2>4. op'[p].keep = o.keep /\ op'[p].tgt = o.tgt /\ op'[p].snap = o.snap
    BY <1>1, <2>3 DEF Operation
  <2> QED
    BY <2>4 DEF Sources
<1>9. CASE CursorSwitches(p) \/ WriteTimesOut(p) \/ SwitchRollsBack(p) \/ HubRollsBack(p)
  BY <1>2, <1>3, <1>9 DEF CursorSwitches, WriteTimesOut, SwitchRollsBack, HubRollsBack, PutsBack
<1>10. CASE SavesHalf(p)
  <2>1. op' = [op EXCEPT ![p].at = "undo"]
    BY <1>10 DEF SavesHalf
  <2>2. op'[p].keep = o.keep /\ op'[p].tgt = o.tgt /\ op'[p].snap = o.snap
    BY <1>1, <2>1 DEF Operation
  <2> QED
    BY <2>2 DEF Sources
<1> QED
  BY <1>4, <1>5, <1>6, <1>7, <1>8, <1>9, <1>10
     DEF SwitchStep, ClientStays, NothingWritten, CursorSwitchFails, FinishSwitch

\* Without a profile in hand it is enough that the login to restore is the same.
LEMMA PlainSources ==
  ASSUME NEW o, NEW n, n.keep = o.keep, n.snap = o.snap, n.tgt = o.tgt \/ o.keep = None
  PROVE  Sources(o, n)
  BY DEF Sources

LEMMA ReadSources ==
  ASSUME NEW p \in Procs, Base, ReadStep(p) \/ LoginStep(p)
  PROVE  Sources(op[p], op'[p])
<1> DEFINE o == op[p]
<1>1. Shape(o) /\ o \in Operation /\ op \in [Procs -> Operation]
  BY DEF Base, Shape
<1>2. CASE Leave(p)
  <2>1. op'[p] = Idle /\ Idle \in Ended
    BY <1>1, <1>2 DEF Leave, Ended
  <2> QED
    BY <2>1, EndedHasNothing
<1>3. CASE BeginImport(p) \/ BeginLogin(p)
  <2>1. \E at, want : op' = [op EXCEPT ![p] = [Entered(p, at) EXCEPT !.want = want]]
    <3>1. CASE BeginImport(p)
      <4>1. Entered(p, "read") = [Entered(p, "read") EXCEPT !.want = {}]
        BY <1>1 DEF Entered, Operation
      <4> QED
        BY <3>1, <4>1 DEF BeginImport
    <3>2. CASE BeginLogin(p)
      BY <3>2 DEF BeginLogin
    <3> QED
      BY <1>3, <3>1, <3>2
  <2>2. op'[p].keep = o.keep /\ op'[p].tgt = o.tgt /\ op'[p].snap = o.snap
    BY <1>1, <2>1 DEF Entered, Operation
  <2> QED
    BY <2>2, PlainSources
<1>4. CASE ReadFirst(p) \/ SaveImport(p)
  <2>1. op'[p].keep = o.keep /\ op'[p].tgt = o.tgt /\ op'[p].snap = o.snap
    <3>1. CASE ReadFirst(p)
      <4>1. PICK x \in FirstRead : op' = [op EXCEPT ![p].at = "second", ![p].got = x, ![p].still = TRUE]
        BY <3>1 DEF ReadFirst
      <4> QED
        BY <1>1, <4>1 DEF Operation
    <3>2. CASE SaveImport(p)
      BY <1>1, <3>2 DEF SaveImport, Operation
    <3> QED
      BY <1>4, <3>1, <3>2
  <2> QED
    BY <2>1, PlainSources
<1>5. CASE ReadSecond(p)
  <2>1. o.keep = None
    BY <1>1, <1>5 DEF ReadSecond, Shape, Replacing
  <2>2. CASE ~ Leave(p)
    <3> DEFINE x == SecondRead(p)
    <3>1. \E at, want : op' = [op EXCEPT ![p].at = at, ![p].tgt = x.who, ![p].mem = x.num, ![p].got = x,
                                        ![p].want = want]
      BY <1>5, <2>2 DEF ReadSecond
    <3> HIDE DEF x
    <3>2. op'[p].keep = o.keep /\ op'[p].snap = o.snap
      BY <1>1, <3>1 DEF Operation
    <3> QED
      BY <2>1, <3>2, PlainSources
  <2> QED
    BY <1>2, <2>2
<1>6. CASE SaveLogin(p) \/ MetaArrives(p)
  <2>1. CASE ~ Leave(p)
    <3>1. op'[p].keep = o.keep /\ op'[p].snap = o.snap /\ op'[p].tgt = o.tgt
      BY <1>1, <1>6, <2>1 DEF SaveLogin, MetaArrives, Operation
    <3> QED
      BY <3>1, PlainSources
  <2> QED
    BY <1>2, <2>1
<1> QED
  BY <1>2, <1>3, <1>4, <1>5, <1>6 DEF ReadStep, LoginStep, FinishSync, PointImport, PointLogin, SaveMeta

LEMMA RefreshSources ==
  ASSUME NEW p \in Procs, Base, RefreshStep(p)
  PROVE  Sources(op[p], op'[p])
<1> DEFINE o == op[p]
<1>1. Shape(o) /\ o \in Operation /\ op \in [Procs -> Operation]
  BY DEF Base, Shape
<1>2. CASE Leave(p)
  <2>1. op'[p] = Idle /\ Idle \in Ended
    BY <1>1, <1>2 DEF Leave, Ended
  <2> QED
    BY <2>1, EndedHasNothing
<1>3. CASE BeginRefresh(p) /\ ~ Leave(p)
  <2> DEFINE k == saved[o.tgt]
             b == prof[o.tgt]
  <2>1. op' = [op EXCEPT ![p] = [Entered(p, "post") EXCEPT !.mem = k, !.keep = b]]
    BY <1>3 DEF BeginRefresh
  <2>2. o.tgt \in Accts
    BY <1>1, <1>3, GrantedIsMine DEF BeginRefresh, Shape
  <2> HIDE DEF k, b
  <2>3. op'[p].keep = b /\ op'[p].tgt = o.tgt /\ op'[p].snap = o.snap
    BY <1>1, <2>1 DEF Entered, Operation
  <2> QED
    BY <2>2, <2>3 DEF Sources, b
<1>4. CASE RefreshToken(p) /\ ~ Leave(p)
  <2> DEFINE k == issued[o.tgt] + 1
  <2>1. op' = [op EXCEPT ![p].at = "usage", ![p].mem = k]
    BY <1>4 DEF RefreshToken
  <2> HIDE DEF k
  <2>2. op'[p].keep = o.keep /\ op'[p].tgt = o.tgt /\ op'[p].snap = o.snap
    BY <1>1, <2>1 DEF Operation
  <2> QED
    BY <2>2, PlainSources
<1> QED
  BY <1>2, <1>3, <1>4 DEF RefreshStep, SaveRefresh, BeginDelete

LEMMA CallSources ==
  ASSUME NEW p \in Procs, Base, Calls(p)
  PROVE  Sources(op[p], op'[p])
<1>1. op \in [Procs -> Operation]
  BY DEF Base
<1>2. \E kind, at, a, want, mem : op' = [op EXCEPT ![p] = Call(kind, at, a, want, mem)]
  BY DEF Calls, CallSync, CallImport, CallSwitch, CallLogin, CallRefresh, CallDelete
<1>3. op'[p].keep = None /\ op'[p].snap = None
  BY <1>1, <1>2, CallIs
<1> QED
  BY <1>3 DEF Sources

LEMMA EverySource ==
  ASSUME Base, [Next]_vars, NEW p \in Procs
  PROVE  Sources(op[p], op'[p])
<1>1. Shape(op[p]) /\ op \in [Procs -> Operation]
  BY DEF Base
<1>2. CASE UNCHANGED vars
  BY <1>2, PlainSources DEF vars
<1>3. ASSUME NEW r \in Procs, Calls(r) \/ Step(r) PROVE Sources(op[p], op'[p])
  <2>1. CASE r = p
    BY <1>3, <2>1, CallSources, SwitchSources, ReadSources, RefreshSources DEF Step
  <2>2. CASE r # p
    BY <1>1, <1>3, <2>2, OthersAge, AgedHasTheSame
  <2> QED
    BY <2>1, <2>2
<1>4. CASE OfficialStep
  <2>1. op' = op \/ op' = Moved
    BY <1>4 DEF OfficialStep, OfficialStarts, OfficialExits, OfficialSignsOut, OfficialSignsIn
  <2>2. op'[p] = op[p] \/ op'[p] = [op[p] EXCEPT !.still = FALSE]
    BY <1>1, <2>1 DEF Moved
  <2>3. op'[p].keep = op[p].keep /\ op'[p].tgt = op[p].tgt /\ op'[p].snap = op[p].snap
    BY <1>1, <2>2 DEF Operation
  <2> QED
    BY <2>3, PlainSources
<1>5. CASE Crash
  <2>1. op'[p] = Idle /\ Idle \in Ended
    BY <1>5 DEF Crash, Ended
  <2> QED
    BY <2>1, EndedHasNothing
<1> QED
  BY <1>2, <1>3, <1>4, <1>5 DEF Next

LEMMA WriteIsOwn ==
  ASSUME NEW x, Write(x), x # None => x.prof = x.who, OwnProfiles, login \in [Stores -> MaybeLogin]
  PROVE  \A s \in Stores : login'[s] # None => login'[s].prof = login'[s].who
  BY DEF Write, OwnProfiles

LEMMA CapturedIsOwn ==
  ASSUME Base, OwnProfiles, NEW kept \in Captured, NEW a \in Accts
  PROVE  kept[a] \in {a, None}
<1>1. prof \in [Accts -> Accts \cup {None}] /\ Store \in Stores /\ Official = login[Store]
  BY DEF Base, TypedFiles, Store, Stores, Official
<1>2. CASE kept = prof
  BY <1>2 DEF OwnProfiles
<1>3. CASE kept # prof
  <2>1. PICK b \in Keepable(Official.who, Official.prof) : kept = [prof EXCEPT ![Official.who] = b]
    BY <1>3 DEF Captured
  <2>2. Official # None
    BY <1>3 DEF Captured
  <2>3. Official.prof = Official.who
    BY <1>1, <2>2 DEF OwnProfiles
  <2>4. Official.who \in Accts
    BY <1>1, <2>2 DEF Base, TypedFiles, MaybeLogin, Logins
  <2>5. b \in {Official.who, None}
    BY <2>1, <2>3, <2>4 DEF Keepable, OwnProfiles
  <2> QED
    BY <1>1, <2>1, <2>4, <2>5 DEF OwnProfiles
<1> QED
  BY <1>2, <1>3

\* The session that is kept after two reads belongs to the account that was read.
LEMMA KeepableIsOwn ==
  ASSUME NEW p \in Procs, Base, OwnProfiles, op[p].got \in Logins,
         product = "cursor" => op[p].got = login["db"],
         NEW c \in Keepable(op[p].got.who, op[p].got.prof)
  PROVE  c \in {op[p].got.who, None}
<1> DEFINE a == op[p].got.who
<1>1. a \in Accts /\ op[p].got # None
  BY Constants DEF Logins
<1>2. product = "cursor" => op[p].got.prof = a
  BY <1>1 DEF OwnProfiles, Stores
<1> QED
  BY <1>1, <1>2 DEF Keepable, OwnProfiles

LEMMA StepStaysApart ==
  ASSUME NEW p \in Procs, Base, OwnProfiles, OwnSnaps, Step(p),
         product = "cursor" /\ op[p].got # None => op[p].still
  PROVE  /\ \A a \in Accts : prof'[a] \in {a, None}
         /\ \A s \in Stores : login'[s] # None => login'[s].prof = login'[s].who
<1> DEFINE o == op[p]
           t == o.tgt
           OwnProf == \A a \in Accts : prof'[a] \in {a, None}
           OwnLogin == \A s \in Stores : login'[s] # None => login'[s].prof = login'[s].who
<1>1. /\ Shape(o) /\ Kept(o) /\ o \in Operation
      /\ prof \in [Accts -> Accts \cup {None}] /\ login \in [Stores -> MaybeLogin]
  BY DEF Base, Shape, TypedFiles
<1>2. OwnProf \/ prof' # prof
  BY DEF OwnProfiles
<1>3. OwnLogin \/ login' # login
  BY DEF OwnProfiles
<1>4. ASSUME NEW b \in {t, None}, prof' = [prof EXCEPT ![t] = b] PROVE OwnProf
  BY <1>1, <1>4 DEF OwnProfiles
<1>5. \A a, k, b : LoginOf(a, k, b).who = a /\ LoginOf(a, k, b).prof = b
  BY DEF LoginOf
<1>6. CASE CursorSwitches(p)
  <2>1. PICK kept \in Captured :
          LET mine == Given(t, IF kept[t] # None THEN kept[t] ELSE o.keep)
          IN Write(LoginOf(t, o.mem, mine)) /\ prof' = [kept EXCEPT ![t] = mine]
    BY <1>6 DEF CursorSwitches
  <2> DEFINE mine == Given(t, IF kept[t] # None THEN kept[t] ELSE o.keep)
  <2>2. Write(LoginOf(t, o.mem, mine)) /\ prof' = [kept EXCEPT ![t] = mine]
    BY <2>1
  <2>3. t \in Accts
    BY <1>1, <1>6 DEF CursorSwitches, Shape
  <2>4. kept \in [Accts -> Accts \cup {None}] /\ \A a \in Accts : kept[a] \in {a, None}
    BY CapturedIsTyped, CapturedIsOwn
  <2>5. mine = t
    BY <2>3, <2>4 DEF Given, OwnProfiles
  <2> HIDE DEF mine
  <2>6. OwnProf
    BY <2>2, <2>4, <2>5
  <2>7. OwnLogin
    BY <1>1, <1>5, <2>2, <2>5, WriteIsOwn
  <2> QED
    BY <2>6, <2>7
<1>7. CASE CursorSwitchFails(p)
  BY <1>3, <1>7, CapturedIsOwn DEF CursorSwitchFails
<1>8. CASE WriteLogin(p) \/ WriteTimesOut(p)
  <2>1. Write(LoginOf(t, o.mem, t)) /\ prof' = prof
    BY <1>8 DEF WriteLogin, WriteTimesOut, files
  <2>2. OwnLogin
    BY <1>1, <1>5, <2>1, WriteIsOwn
  <2> QED
    BY <1>2, <2>1, <2>2
<1>9. CASE SwitchRollsBack(p) \/ HubRollsBack(p)
  <2> DEFINE x == Restored(p)
  <2>1. (Write(x) \/ login' = login) /\ prof' = prof
    BY <1>9 DEF SwitchRollsBack, HubRollsBack, PutsBack, files
  <2>2. x # None => x.prof = x.who
    <3>1. Store \in Stores /\ Official = login[Store]
      BY DEF Store, Stores, Official
    <3>2. o.snap \in Logins \/ o.snap \in {None, Unread}
      BY <1>1 DEF Operation, MaybeLogin
    <3> QED
      BY <3>1, <3>2 DEF Restored, OwnProfiles, OwnSnaps
  <2> HIDE DEF x
  <2>3. OwnLogin
    BY <1>1, <1>3, <2>1, <2>2, WriteIsOwn
  <2> QED
    BY <1>2, <2>1, <2>3
<1>10. CASE FinishSync(p) \/ SaveImport(p)
  <2>1. o.got \in Logins /\ t = o.got.who /\ login' = login /\ o.got # None
    BY <1>1, <1>10, Constants DEF FinishSync, SaveImport, Granted, Shape
  <2>2. CASE prof' = prof
    BY <1>2, <1>3, <2>1, <2>2
  <2>3. CASE prof' # prof
    <3>1. PICK c \in Keepable(t, o.got.prof) : prof' = [prof EXCEPT ![t] = c]
      BY <1>10, <2>3 DEF FinishSync, SaveImport
    <3>2. o.kind \in {"sync", "import"} /\ o.at \in {"wait", "save"} /\ (o.kind = "sync" => StillCurrent(p))
      BY <1>10, <2>3 DEF FinishSync, SaveImport, Granted
    <3>3. product = "cursor" => o.got = login["db"]
      BY <1>1, <2>1, <3>2 DEF Kept, GotKept, StillCurrent
    <3>4. c \in {t, None}
      BY <2>1, <3>1, <3>3, KeepableIsOwn
    <3> QED
      BY <1>3, <1>4, <2>1, <3>1, <3>4
  <2> QED
    BY <2>2, <2>3
<1>11. CASE RefreshToken(p) \/ SaveRefresh(p)
  <2>1. prof' = [prof EXCEPT ![t] = o.keep] /\ login' = login
    BY <1>11 DEF RefreshToken, SaveRefresh, SaveRecord
  <2>2. o.keep \in {t, None}
    BY DEF OwnProfiles
  <2> QED
    BY <1>3, <1>4, <2>1, <2>2
<1>12. CASE BeginDelete(p)
  <2>1. login' = login /\ (prof' = prof \/ prof' = [prof EXCEPT ![t] = None])
    BY <1>12 DEF BeginDelete
  <2> QED
    BY <1>2, <1>3, <1>4, <2>1
<1>13. CASE UNCHANGED <<prof, login>>
  BY <1>2, <1>3, <1>13
<1> QED
  BY <1>6, <1>7, <1>8, <1>9, <1>10, <1>11, <1>12, <1>13
     DEF Step, SwitchStep, BeginSwitch, ClientCloses, ClientStays, NothingWritten, CaptureLogin, FinishSwitch,
         SavesHalf, files,
         ReadStep, BeginImport, ReadFirst, ReadSecond, PointImport,
         LoginStep, BeginLogin, SaveLogin, PointLogin, MetaArrives, SaveMeta, RefreshStep, BeginRefresh

LEMMA ProfilesStep ==
  ASSUME Base, [Next]_vars, OwnProfiles, OwnSnaps,
         \A p \in Procs : product = "cursor" /\ op[p].got # None => op[p].still
  PROVE  OwnProfiles'
<1>1. \A a \in Accts : prof[a] \in {a, None}
  BY DEF OwnProfiles
<1>2. \A s \in Stores : login[s] # None => login[s].prof = login[s].who
  BY DEF OwnProfiles
<1>3. /\ \A a \in Accts : prof'[a] \in {a, None}
      /\ \A s \in Stores : login'[s] # None => login'[s].prof = login'[s].who
  <2>1. CASE UNCHANGED <<prof, login>>
    BY <1>1, <1>2, <2>1
  <2>2. ASSUME NEW p \in Procs, Calls(p) PROVE UNCHANGED <<prof, login>>
    BY <2>2 DEF Calls, CallSync, CallImport, CallSwitch, CallLogin, CallRefresh, CallDelete, files
  <2>3. ASSUME NEW x, x # None => x.prof = x.who, Write(x), prof' = prof
        PROVE  \A s \in Stores : login'[s] # None => login'[s].prof = login'[s].who
    BY <2>3, WriteIsOwn DEF Base, TypedFiles
  <2>4. CASE OfficialSignsOut
    BY <1>1, <2>3, <2>4 DEF OfficialSignsOut, files
  <2>5. ASSUME NEW a \in Accts, OfficialSignsIn(a)
        PROVE  /\ \A b \in Accts : prof'[b] \in {b, None}
               /\ \A s \in Stores : login'[s] # None => login'[s].prof = login'[s].who
    <3>1. Write(LoginOf(a, issued[a] + 1, a)) /\ prof' = prof
      BY <2>5 DEF OfficialSignsIn, files
    <3>2. LoginOf(a, issued[a] + 1, a).prof = LoginOf(a, issued[a] + 1, a).who
      BY DEF LoginOf
    <3> QED
      BY <1>1, <2>3, <3>1, <3>2
  <2>6. CASE OfficialStarts \/ OfficialExits \/ Crash \/ UNCHANGED vars
    BY <2>1, <2>6 DEF OfficialStarts, OfficialExits, Crash, vars, files
  <2> QED
    BY <2>1, <2>2, <2>4, <2>5, <2>6, StepStaysApart DEF Next, OfficialStep
<1>4. ASSUME NEW p \in Procs PROVE op'[p].keep \in {op'[p].tgt, None}
  <2>1. Sources(op[p], op'[p])
    BY EverySource
  <2>2. op[p].keep \in {op[p].tgt, None}
    BY DEF OwnProfiles
  <2> QED
    BY <1>1, <2>1, <2>2 DEF Sources
<1> QED
  BY <1>3, <1>4 DEF OwnProfiles

LEMMA ApartStep ==
  ASSUME Base, [Next]_vars, OthersStayApart
  PROVE  OthersStayApart'
<1>1. product' = product
  BY DEF Next, Calls, CallSync, CallImport, CallSwitch, CallLogin, CallRefresh, CallDelete,
         Step, SwitchStep, BeginSwitch, ClientCloses, ClientStays, NothingWritten, CursorSwitches, CursorSwitchFails,
         CaptureLogin, WriteLogin, WriteTimesOut, FinishSwitch, SwitchRollsBack, SavesHalf, HubRollsBack,
         ReadStep, BeginImport, ReadFirst, ReadSecond, FinishSync, SaveImport, PointImport,
         LoginStep, BeginLogin, SaveLogin, PointLogin, MetaArrives, SaveMeta,
         RefreshStep, BeginRefresh, RefreshToken, SaveRefresh, BeginDelete,
         OfficialStep, OfficialStarts, OfficialExits, OfficialSignsOut, OfficialSignsIn, Crash, vars
<1>2. ASSUME NEW p \in Procs, op'[p].snap \in Logins PROVE op'[p].snap.prof = op'[p].snap.who
  <2>1. Sources(op[p], op'[p])
    BY EverySource
  <2>2. op'[p].snap \notin {None, Unread}
    BY <1>2, Constants
  <2>3. CASE op'[p].snap = op[p].snap
    BY <1>2, <2>3 DEF OthersStayApart, OwnSnaps
  <2>4. CASE op'[p].snap = Official /\ product # "cursor"
    <3>1. Store \in Stores /\ Official = login[Store]
      BY DEF Store, Stores, Official
    <3> QED
      BY <2>2, <2>4, <3>1 DEF OthersStayApart, OwnProfiles
  <2> QED
    BY <2>1, <2>2, <2>3, <2>4 DEF Sources
<1>3. OwnSnaps'
  BY <1>2 DEF OwnSnaps, Logins
<1>4. product # "cursor" => OwnProfiles'
  BY ProfilesStep DEF OthersStayApart
<1> QED
  BY <1>1, <1>3, <1>4 DEF OthersStayApart

LEMMA AlwaysApart == Spec => []OthersStayApart
<1>1. Init => OthersStayApart
  <2> SUFFICES ASSUME Init PROVE OthersStayApart
    OBVIOUS
  <2>1. \A p \in Procs : op[p].keep = None /\ op[p].snap \notin Logins
    BY Constants DEF Init, Idle
  <2>2. \A s \in Stores : login[s] # None => login[s].prof = login[s].who
    BY DEF Init, LoginOf
  <2>3. \A a \in Accts : prof[a] = None
    BY DEF Init
  <2> QED
    BY <2>1, <2>2, <2>3 DEF OthersStayApart, OwnSnaps, OwnProfiles
<1>2. Base /\ OthersStayApart /\ [Next]_vars => OthersStayApart'
  BY ApartStep
<1> QED
  BY <1>1, <1>2, AlwaysBase, PTL DEF Spec

\* No account ever gets the profile or the team session of another one, for any
\* interleaving of syncs, imports, switches and refreshes, unless the client itself
\* changed its login between the two reads of one of them.
THEOREM ProfilesAlwaysStayApart == Spec => ProfilesStayApart
<1>1. Base /\ OthersStayApart /\ [Next]_vars =>
        [OwnProfiles /\ ~ OwnProfiles' => \E p \in Procs : op[p].got # None /\ ~ op[p].still]_vars
  <2> SUFFICES ASSUME Base, OthersStayApart, [Next]_vars, OwnProfiles, ~ OwnProfiles'
               PROVE  \E p \in Procs : op[p].got # None /\ ~ op[p].still
    OBVIOUS
  <2> QED
    BY ProfilesStep DEF OthersStayApart
<1> QED
  BY <1>1, AlwaysBase, AlwaysApart, PTL DEF Spec, ProfilesStayApart
-----------------------------------------------------------------------------
(* When two records are one account: groups and folds, for every store       *)

\* To be one account goes both ways.
LEMMA SameGoesBack ==
  ASSUME NEW codex, NEW a, NEW b
  PROVE  Same(codex, a, b) => Same(codex, b, a)
BY DEF Same, SameCodex, SameManaged, SameKey, SameEmail

\* What is linked to a record.
LEMMA LinkedOf ==
  ASSUME NEW codex, NEW S, NEW a \in S
  PROVE  /\ Linked(codex, S, a) \subseteq S
         /\ a \in Linked(codex, S, a)
         /\ Closed(codex, S, Linked(codex, S, a))
         /\ \A T \in SUBSET S : a \in T /\ Closed(codex, S, T) => Linked(codex, S, a) \subseteq T
<1> DEFINE L == Linked(codex, S, a)
<1>1. L \subseteq S /\ a \in L
  BY DEF Linked
<1>2. \A T \in SUBSET S : a \in T /\ Closed(codex, S, T) => L \subseteq T
  BY DEF Linked
<1>3. ASSUME NEW x \in L, NEW y \in S, Same(codex, x, y) PROVE y \in L
  <2> SUFFICES ASSUME NEW T \in SUBSET S, a \in T, Closed(codex, S, T) PROVE y \in T
    BY DEF Linked
  <2>1. x \in T
    BY <1>2
  <2> QED BY <1>3, <2>1 DEF Closed
<1>4. Closed(codex, S, L)
  BY <1>3, Zenon DEF Closed
<1> QED BY <1>1, <1>2, <1>4

\* Links make classes: whoever is linked to a record is linked to the same ones.
LEMMA LinkedClass ==
  ASSUME NEW codex, NEW S, NEW a \in S, NEW b \in Linked(codex, S, a)
  PROVE  Linked(codex, S, b) = Linked(codex, S, a)
<1> DEFINE L(x) == Linked(codex, S, x)
<1>0. b \in S
  BY LinkedOf
<1>1. L(b) \subseteq L(a)
  <2>1. L(a) \in SUBSET S /\ b \in L(a) /\ Closed(codex, S, L(a))
    BY LinkedOf
  <2>2. \A T \in SUBSET S : b \in T /\ Closed(codex, S, T) => L(b) \subseteq T
    BY <1>0, LinkedOf
  <2> QED BY <2>1, <2>2
<1>2. a \in L(b)
  <2> SUFFICES ASSUME a \notin L(b) PROVE FALSE
    OBVIOUS
  <2> DEFINE T == S \ L(b)
  <2>1. ASSUME NEW x \in T, NEW y \in S, Same(codex, x, y) PROVE y \in T
    <3>1. Same(codex, y, x)
      BY <2>1, SameGoesBack
    <3>2. y \in L(b) => x \in L(b)
      BY <1>0, <3>1, LinkedOf DEF Closed
    <3> QED BY <3>2
  <2>2. Closed(codex, S, T) /\ T \in SUBSET S /\ a \in T
    BY <2>1, Zenon DEF Closed
  <2>3. b \in T
    BY <2>2, LinkedOf
  <2>4. b \in L(b)
    BY <1>0, LinkedOf
  <2> QED BY <2>3, <2>4
<1>3. L(a) \subseteq L(b)
  <2>1. L(b) \in SUBSET S /\ Closed(codex, S, L(b))
    BY <1>0, LinkedOf
  <2>2. \A T \in SUBSET S : a \in T /\ Closed(codex, S, T) => L(a) \subseteq T
    BY LinkedOf
  <2> QED BY <1>2, <2>1, <2>2
<1> QED BY <1>1, <1>3

\* A group is split, not cut: each record is in one part.
LEMMA SplitParts ==
  ASSUME NEW codex, NEW G
  PROVE  /\ UNION Split(codex, G) = G
         /\ \A P, Q \in Split(codex, G) : P # Q => P \cap Q = {}
<1>1. CASE OneMailbox(G) \/ SharedAccountId(codex, G)
  BY <1>1 DEF Split
<1>2. CASE ~ (OneMailbox(G) \/ SharedAccountId(codex, G))
  <2> DEFINE M == Mailboxes(G)
             B(e) == ByEmail(codex, G, e)
             U == Unowned(codex, G)
  <2>1. Split(codex, G) = {B(e) : e \in M} \cup ({U} \ {{}})
    BY <1>2, Zenon DEF Split
  <2>2. \A e \in M : Known(e) /\ B(e) \subseteq G
    BY DEF Mailboxes, ByEmail
  <2>3. U \subseteq G
    BY DEF Unowned
  <2>4. ASSUME NEW a \in G PROVE (\E e \in M : a \in B(e)) \/ a \in U
    <3>1. CASE Known(a.email)
      BY <3>1 DEF Mailboxes, ByEmail
    <3>2. CASE ~ Known(a.email)
      BY <3>2 DEF ByEmail, Unowned
    <3> QED BY <3>1, <3>2
  <2>5. ASSUME NEW e \in M, NEW f \in M, NEW a \in B(e), a \in B(f) PROVE e = f
    <3>1. a \in G /\ Known(e) /\ Known(f)
      BY <2>2
    <3>2. CASE Known(a.email)
      BY <2>5, <3>2 DEF ByEmail
    <3>3. CASE ~ Known(a.email)
      <4>1. a.email # e /\ a.email # f
        BY <3>1, <3>3 DEF Known
      <4>2. Owners(codex, G, a) = {e} /\ Owners(codex, G, a) = {f}
        BY <2>5, <4>1, Zenon DEF ByEmail
      <4> QED BY <4>2
    <3> QED BY <3>2, <3>3
  <2>6. ASSUME NEW e \in M, NEW a \in B(e) PROVE a \notin U
    <3>1. CASE Known(a.email)
      BY <3>1 DEF Unowned
    <3>2. CASE ~ Known(a.email)
      <4>1. a.email # e
        BY <2>2, <3>2 DEF Known
      <4>2. Owners(codex, G, a) = {e}
        BY <2>6, <4>1, Zenon DEF ByEmail
      <4> QED BY <4>2 DEF Unowned
    <3> QED BY <3>1, <3>2
  <2> HIDE DEF M, B, U
  <2>7. UNION Split(codex, G) = G
    <3>1. UNION Split(codex, G) \subseteq G
      BY <2>1, <2>2, <2>3
    <3>2. ASSUME NEW a \in G PROVE a \in UNION Split(codex, G)
      <4>1. CASE a \in U
        BY <2>1, <4>1
      <4>2. CASE \E e \in M : a \in B(e)
        BY <2>1, <4>2
      <4> QED BY <2>4, <4>1, <4>2
    <3> QED BY <3>1, <3>2
  <2>8. ASSUME NEW P \in Split(codex, G), NEW Q \in Split(codex, G), NEW a, a \in P, a \in Q
        PROVE  P = Q
    <3>1. CASE P = U
      BY <2>1, <2>6, <2>8, <3>1
    <3>2. CASE \E e \in M : P = B(e)
      BY <2>1, <2>5, <2>6, <2>8, <3>2
    <3> QED BY <2>1, <3>1, <3>2
  <2> QED BY <2>7, <2>8
<1> QED BY <1>1, <1>2

\* Folding forgets nobody and folds nobody twice: for every set of records, each is in one
\* group.
THEOREM GroupsPartition ==
  ASSUME NEW codex \in BOOLEAN, NEW S
  PROVE  EachInOneGroup(codex, S)
<1> DEFINE L(a) == Linked(codex, S, a)
<1>0. GroupByIdentity(codex, S) = UNION {Split(codex, L(a)) : a \in S}
  BY DEF GroupByIdentity
<1>1. \A a \in S : L(a) \subseteq S /\ a \in L(a)
  BY LinkedOf
<1>2. \A a \in S : \A b \in L(a) : L(b) = L(a)
  BY LinkedClass
<1>3. \A a \in S : /\ UNION Split(codex, L(a)) = L(a)
                   /\ \A P, Q \in Split(codex, L(a)) : P # Q => P \cap Q = {}
  BY SplitParts
<1> HIDE DEF L
<1>4. UNION GroupByIdentity(codex, S) = S
  <2>1. ASSUME NEW a \in S PROVE a \in UNION GroupByIdentity(codex, S)
    <3>1. PICK P \in Split(codex, L(a)) : a \in P
      BY <1>1, <1>3
    <3> QED BY <1>0, <3>1
  <2>2. ASSUME NEW G \in GroupByIdentity(codex, S) PROVE G \subseteq S
    <3>1. PICK a \in S : G \in Split(codex, L(a))
      BY <1>0
    <3> QED BY <1>1, <1>3, <3>1
  <2> QED BY <2>1, <2>2
<1>5. ASSUME NEW G \in GroupByIdentity(codex, S), NEW H \in GroupByIdentity(codex, S),
             NEW x, x \in G, x \in H
      PROVE  G = H
  <2>1. PICK a \in S : G \in Split(codex, L(a))
    BY <1>0
  <2>2. PICK b \in S : H \in Split(codex, L(b))
    BY <1>0
  <2>3. x \in L(a) /\ x \in L(b)
    BY <1>3, <1>5, <2>1, <2>2
  <2>4. L(a) = L(b)
    BY <1>2, <2>3
  <2>5. G \cap H # {}
    BY <1>5
  <2> QED BY <1>3, <2>1, <2>2, <2>4, <2>5
<1> QED BY <1>4, <1>5 DEF EachInOneGroup

\* An unknown email bridges no two mailboxes: for every set of records, those folded together
\* have one mailbox or one account id.
THEOREM MailboxesNeverMix ==
  ASSUME NEW codex \in BOOLEAN, NEW S
  PROVE  MailboxesStay(codex, S)
<1> SUFFICES ASSUME NEW a \in S, NEW P \in Split(codex, Linked(codex, S, a))
             PROVE  OneMailbox(P) \/ SharedAccountId(codex, P)
  BY DEF MailboxesStay, GroupByIdentity
<1> DEFINE G == Linked(codex, S, a)
<1> HIDE DEF G
<1>1. P \in Split(codex, G)
  BY DEF G
<1>2. CASE OneMailbox(G) \/ SharedAccountId(codex, G)
  BY <1>1, <1>2 DEF Split
<1>3. ASSUME NEW e \in Mailboxes(G), P = ByEmail(codex, G, e) PROVE OneMailbox(P)
  <2>1. \A b \in P : Known(b.email) => b.email = e
    BY <1>3 DEF ByEmail
  <2> QED BY <2>1 DEF OneMailbox, Mailboxes
<1>4. ASSUME P = Unowned(codex, G) PROVE OneMailbox(P)
  <2>1. \A b \in P : ~ Known(b.email)
    BY <1>4 DEF Unowned
  <2> QED BY <2>1 DEF OneMailbox, Mailboxes
<1> QED BY <1>1, <1>2, <1>3, <1>4 DEF Split

\* A sign-in, as it is saved, is the same as a record only where the login itself is, or
\* where what it takes over from a record of the store is.
LEMMA SavedMatches ==
  ASSUME NEW codex \in BOOLEAN, NEW IdSet, NEW EmailSet, NEW KeySet,
         NEW tokens \in [id : IdSet, email : EmailSet, key : KeySet, quota : BOOLEAN, born : Nat, since : Nat],
         NEW k, NEW a, KeysAreOwn({k, a, tokens}), ~ Same(codex, k, a),
         Same(codex, Merged(codex, tokens, k), a)
  PROVE  Same(codex, Preview(codex, tokens), a)
<1> DEFINE m == Merged(codex, tokens, k)
           p == Preview(codex, tokens)
<1>1. /\ m.email = Or(tokens.email, k.email)
      /\ m.key = Or(Or(tokens.key, k.key), IF codex THEN Unknown ELSE Or(tokens.email, k.email))
      /\ p.email = tokens.email
      /\ p.key = IF codex THEN tokens.key ELSE Or(tokens.key, tokens.email)
  BY DEF Merged, Preview
<1> HIDE DEF m, p
<1>2. Same(codex, m, a)
  BY DEF m
<1>3. CASE codex
  <2>1. Same(codex, p, a)
    BY <1>1, <1>2, <1>3 DEF Same, SameCodex, SameKey, SameEmail, Or, Known
  <2> QED BY <2>1 DEF p
<1>4. CASE ~ codex
  <2>1. Same(codex, p, a)
    BY <1>1, <1>2, <1>4 DEF Same, SameManaged, SameKey, SameEmail, Or, Known, KeysAreOwn
  <2> QED BY <2>1 DEF p
<1> QED BY <1>3, <1>4

\* In a store where no two were the same, a sign-in links only the records that are the
\* same as the one it writes.
LEMMA LinksOfSaved ==
  ASSUME NEW codex \in BOOLEAN, NEW S, Apart(codex, S), NEW record, NEW x \in With(S, record)
  PROVE  \/ Linked(codex, With(S, record), x) = {x}
         \/ Linked(codex, With(S, record), x) \subseteq {record} \cup {a \in With(S, record) : Same(codex, record, a)}
<1> DEFINE T == With(S, record)
           C == {record} \cup {a \in T : Same(codex, record, a)}
<1>1. record \in T /\ \A a \in T : a # record => a \in S
  BY DEF With
<1>2. \A y, z \in T : y # record /\ z # record /\ Same(codex, y, z) => y = z
  BY <1>1 DEF Apart
<1> HIDE DEF T
<1>3. CASE record \in Linked(codex, T, x)
  <2>1. Linked(codex, T, record) = Linked(codex, T, x)
    BY <1>3, LinkedClass DEF T
  <2>2. ASSUME NEW y \in C, NEW z \in T, Same(codex, y, z) PROVE z \in C
    BY <1>1, <1>2, <2>2
  <2>3. C \in SUBSET T /\ record \in C /\ Closed(codex, T, C)
    BY <1>1, <2>2 DEF Closed
  <2>4. Linked(codex, T, record) \subseteq C
    BY <1>1, <2>3, LinkedOf
  <2> QED BY <2>1, <2>4 DEF T
<1>4. CASE record \notin Linked(codex, T, x)
  <2>1. x \in Linked(codex, T, x) /\ Closed(codex, T, Linked(codex, T, x))
    BY LinkedOf DEF T
  <2>2. ASSUME NEW z \in T, Same(codex, x, z) PROVE z \in {x}
    <3>1. z # record /\ x # record
      BY <1>4, <2>1, <2>2 DEF Closed
    <3>2. x \in T
      BY DEF T
    <3> QED BY <1>2, <2>2, <3>1, <3>2
  <2>3. Closed(codex, T, {x}) /\ {x} \in SUBSET T
    BY <2>2 DEF Closed, T
  <2>4. Linked(codex, T, x) \subseteq {x}
    BY <2>3, LinkedOf DEF T
  <2> QED BY <2>1, <2>4 DEF T
<1> QED BY <1>3, <1>4

\* A fold deletes only records that the sign-in has locked, for every store in which no two
\* records were the same: nothing else touches a record while it is deleted.
THEOREM FoldsAreLocked ==
  ASSUME NEW codex \in BOOLEAN, NEW IdSet, NEW EmailSet, NEW KeySet,
         NEW tokens \in [id : IdSet, email : EmailSet, key : KeySet, quota : BOOLEAN, born : Nat, since : Nat],
         NEW S, Apart(codex, S), KeysAreOwn(S \cup {tokens}),
         NEW current, NEW record \in Saved(codex, S, tokens, current)
  PROVE  FoldStaysInLocks(codex, S, tokens, record)
<1> DEFINE T == With(S, record)
<1> SUFFICES ASSUME NEW G \in Folded(codex, T), NEW a \in G
             PROVE  a.id \in Locks(codex, S, tokens, record)
  BY DEF FoldStaysInLocks
<1>1. PICK x \in T : G \in Split(codex, Linked(codex, T, x))
  BY Zenon DEF Folded, GroupByIdentity
<1>2. G \subseteq Linked(codex, T, x) /\ \E u, v \in G : u # v
  BY <1>1, SplitParts DEF Folded
<1>3. G \subseteq {record} \cup {b \in T : Same(codex, record, b)}
  <2>1. \/ Linked(codex, T, x) = {x}
        \/ Linked(codex, T, x) \subseteq {record} \cup {b \in T : Same(codex, record, b)}
    BY <1>1, LinksOfSaved
  <2> QED BY <1>2, <2>1
<1>4. CASE a = record
  BY <1>4 DEF Locks
<1>5. CASE a # record
  <2>1. a \in S /\ a.id # record.id /\ Same(codex, record, a)
    BY <1>3, <1>5 DEF With
  <2>2. Same(codex, Preview(codex, tokens), a)
    <3>1. CASE record = Preview(codex, tokens)
      BY <2>1, <3>1
    <3>2. ASSUME NEW k \in S, record = Merged(codex, tokens, k)
          PROVE  Same(codex, Preview(codex, tokens), a)
      <4>1. record.id = k.id
        BY <3>2 DEF Merged
      <4>2. ~ Same(codex, k, a)
        BY <2>1, <4>1 DEF Apart
      <4>3. KeysAreOwn({k, a, tokens})
        BY <2>1 DEF KeysAreOwn
      <4> QED BY <2>1, <3>2, <4>2, <4>3, SavedMatches
    <3>3. record = Preview(codex, tokens) \/ \E k \in S : record = Merged(codex, tokens, k)
      BY DEF Saved, Matches, Keepers
    <3> QED BY <3>1, <3>2, <3>3
  <2> QED BY <2>1, <2>2 DEF Locks, Matches
<1> QED BY <1>4, <1>5
=============================================================================
