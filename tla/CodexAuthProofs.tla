-------------------------- MODULE CodexAuthProofs --------------------------
(***************************************************************************)
(* Proofs about CodexAuth, for any number of accounts and of operations in *)
(* progress: the types, that no operation overwrites an account another    *)
(* one changed, that a switch in its start window is isolated, and that    *)
(* the login the manager takes for its own is of the current account; then *)
(* where each token is, and so that no working one is lost.                *)
(*                                                                         *)
(* The argument is the locks': what an operation holds nobody else holds   *)
(* (Apart), an operation past its load holds the account it works on, a    *)
(* switch the switch lock (Shape), and every write of an account, of the   *)
(* current account or of the projection happens under those locks, in the  *)
(* step that is granted them or by the operation that has them (IInv).     *)
(* A token is known to the operation that got it and to nobody else until  *)
(* it is saved (TokenInv), and to official Codex alone when the projection *)
(* is not of its login, where nobody adopts and nothing crashes            *)
(* (ForeignInv).                                                           *)
(***************************************************************************)
EXTENDS CodexAuth, TLAPS

\* No two operations are inside the same lock.
Apart == \A p, q \in Procs : p # q => op[p].held \cap op[q].held = {}

\* What the place of an operation says of its account, its locks and its data.
Shape(o) ==
  /\ o.at = "idle" => o.held = {}
  /\ o.at # "idle" => o.tgt \in Accts
  /\ o.at = "wait" => o.held = {}
  /\ o.at = "wait" /\ o.kind \in SwitchKinds => {SwitchLock, o.tgt} \subseteq o.want
  /\ o.at = "wait" /\ o.kind \in RefreshKinds \cup {"delete"} => o.tgt \in o.want
  /\ o.at = "wait" /\ o.kind \in {"switch", "reapply"} => o.mem = None
  /\ o.at = "wait" /\ o.kind = "signin" => o.mem \in Nat
  /\ o.at = "wait" /\ o.kind = "adopt" => SwitchLock \in o.want
  /\ o.at = "save" => o.mem \in Nat /\ o.tgt \in o.want /\ o.kind \in {"signin", "adopt"}
  /\ o.at = "save" /\ o.kind = "signin" => o.held = {}
  /\ o.kind = "adopt" => o.mem \in Nat
  /\ o.at = "point" => SwitchLock \in o.held /\ o.kind = "adopt"
  /\ o.at = "save" /\ o.kind = "adopt" => SwitchLock \in o.held
  /\ o.at \in {"kill", "start", "restart"} =>
       {SwitchLock, o.tgt} \subseteq o.held /\ o.mem \in Nat /\ o.kind \in SwitchKinds
  /\ o.at = "start" => o.snap \in Capture
  /\ o.at \in {"post", "answer", "quota", "settle"} =>
       o.tgt \in o.held /\ o.mem \in Nat /\ o.kind \in RefreshKinds
  /\ o.at = "answer" => o.got \in Nat

\* A projection names the account its token is of, in the file and in a capture.
Honest(x) == x # None => x.by = x.of.acct

CopyPlaces == {"kill", "start", "post", "answer", "quota", "settle"}

\* NoLostUpdate and SwitchIsolated for one operation and given files.
CopyFresh(o, v) ==
  o.at \in CopyPlaces =>
     v[o.tgt] = o.mem \/ (o.kind = "signin" /\ o.at = "kill" /\ v[o.tgt] = None)
Isolated(o, v, c, j) ==
  o.at = "start" => /\ c = o.tgt
                    /\ j = [by |-> c, of |-> Tok(c, o.mem)]
                    /\ v[c] = o.mem

Local(o, v, c, j) ==
  /\ Shape(o)
  /\ CopyFresh(o, v)
  /\ Isolated(o, v, c, j)
  /\ o.at = "start" => Honest(o.snap.proj)

IInv ==
  /\ TypeOK
  /\ Apart
  /\ Honest(proj)
  /\ \A p \in Procs : Local(op[p], vault, cur, proj)
-----------------------------------------------------------------------------
\* The initial states satisfy the invariant: nothing is in progress.
LEMMA InitIInv == Init => IInv
<1> SUFFICES ASSUME Init PROVE IInv
  OBVIOUS
<1> USE ConstantsAssumption
<1>1. PICK M \in SUBSET Accts : /\ vault = [a \in Accts |-> IF a \in M THEN 1 ELSE None]
                                /\ cur \in M \cup {None}
  BY DEF Init
<1>2. Idle \in Operation
  BY DEF Idle, Operation, LockKeys, Numbers, Capture
<1>3. auth \in Official /\ proj \in Projection /\ Honest(proj)
  BY <1>1 DEF Init, Official, Projection, AnyToken, Tok, Honest
<1>4. TypeOK
  BY <1>1, <1>2, <1>3 DEF Init, TypeOK, Numbers
<1>5. \A p \in Procs : op[p] = Idle
  BY DEF Init
<1>6. Apart
  BY <1>5 DEF Apart, Idle
<1>7. \A p \in Procs : Local(op[p], vault, cur, proj)
  <2>1. Local(Idle, vault, cur, proj)
    BY DEF Local, Shape, CopyFresh, Isolated, Honest, Idle, CopyPlaces, SwitchKinds, RefreshKinds
  <2> QED BY <1>5, <2>1
<1> QED BY <1>3, <1>4, <1>6, <1>7 DEF IInv

\* An operation that takes only free locks, and writes only what nobody else has
\* locked, keeps the invariant when it keeps its own part of it.
LEMMA GuardedStep ==
  ASSUME IInv, TypeOK', NEW p \in Procs,
         \A q \in Procs \ {p} : op'[q] = op[q],
         \A q \in Procs \ {p} : op'[p].held \cap op[q].held = {},
         Honest(proj'),
         Local(op'[p], vault', cur', proj'),
         \A q \in Procs \ {p} : \A a \in op[q].held \cap Accts : vault'[a] = vault[a],
         \A q \in Procs \ {p} : SwitchLock \in op[q].held => cur' = cur,
         \A q \in Procs \ {p} : SwitchLock \in op[q].held /\ cur \in op[q].held => proj' = proj
  PROVE  IInv'
<1> USE ConstantsAssumption
<1>1. Apart'
  <2> SUFFICES ASSUME NEW r \in Procs, NEW q \in Procs, r # q
               PROVE  op'[r].held \cap op'[q].held = {}
    BY DEF Apart
  <2>1. op[r].held \cap op[q].held = {}
    BY DEF IInv, Apart
  <2>2. CASE r = p
    BY <2>2
  <2>3. CASE q = p
    BY <2>3
  <2>4. CASE r # p /\ q # p
    BY <2>1, <2>4
  <2> QED BY <2>2, <2>3, <2>4
<1>2. ASSUME NEW q \in Procs \ {p} PROVE Local(op'[q], vault', cur', proj')
  <2>1. op'[q] = op[q]
    OBVIOUS
  <2>2. Local(op[q], vault, cur, proj)
    BY DEF IInv
  <2>3. Shape(op[q]) /\ (op[q].at = "start" => Honest(op[q].snap.proj))
    BY <2>2 DEF Local
  <2>4. CopyFresh(op[q], vault')
    <3> SUFFICES ASSUME op[q].at \in CopyPlaces
                 PROVE  vault'[op[q].tgt] = vault[op[q].tgt]
      BY <2>2 DEF Local, CopyFresh
    <3>1. op[q].tgt \in op[q].held \cap Accts
      BY <2>3 DEF Shape, CopyPlaces
    <3> QED BY <3>1
  <2>5. Isolated(op[q], vault', cur', proj')
    <3> SUFFICES ASSUME op[q].at = "start"
                 PROVE  Isolated(op[q], vault', cur', proj')
      BY DEF Isolated
    <3>1. op[q].tgt \in op[q].held \cap Accts /\ SwitchLock \in op[q].held
      BY <2>3 DEF Shape
    <3>2. cur = op[q].tgt
      BY <2>2 DEF Local, Isolated
    <3>3. cur' = cur /\ proj' = proj /\ vault'[cur] = vault[cur]
      BY <3>1, <3>2
    <3> QED BY <2>2, <3>3 DEF Local, Isolated
  <2> QED BY <2>1, <2>3, <2>4, <2>5 DEF Local
<1>3. \A q \in Procs : Local(op'[q], vault', cur', proj')
  BY <1>2
<1> QED BY <1>1, <1>3 DEF IInv
-----------------------------------------------------------------------------
\* A step that moves one operation and no file.
LEMMA QuietStep ==
  ASSUME IInv, NEW p \in Procs, NEW r \in Operation,
         op' = [op EXCEPT ![p] = r],
         UNCHANGED files,
         issued' \in [Accts -> Nat], live' \in [Accts -> SUBSET Nat], app' \in BOOLEAN,
         \A q \in Procs \ {p} : r.held \cap op[q].held = {},
         Local(r, vault, cur, proj)
  PROVE  IInv'
<1>1. TypeOK'
  BY DEF IInv, TypeOK, files
<1>2. op'[p] = r /\ \A q \in Procs \ {p} : op'[q] = op[q]
  BY DEF IInv, TypeOK
<1>3. Local(op'[p], vault', cur', proj')
  BY <1>2 DEF files
<1>4. Honest(proj')
  BY DEF IInv, files
<1> QED BY <1>1, <1>2, <1>3, <1>4, GuardedStep DEF files

\* What the invariant says of one operation, with the locks it may be granted.
LEMMA Facts ==
  ASSUME IInv, NEW p \in Procs
  PROVE  /\ op[p] \in Operation
         /\ Local(op[p], vault, cur, proj)
         /\ \A q \in Procs \ {p} : op[p].held \cap op[q].held = {}
         /\ op \in [Procs -> Operation]
BY DEF IInv, TypeOK, Apart

\* An operation that is over is idle, and idle satisfies every local condition.
LEMMA LeaveKeeps ==
  ASSUME IInv, NEW p \in Procs, Leave(p), UNCHANGED files,
         issued' \in [Accts -> Nat], live' \in [Accts -> SUBSET Nat], app' \in BOOLEAN
  PROVE  IInv'
<1>1. Idle \in Operation
  BY ConstantsAssumption DEF Idle, Operation, LockKeys, Numbers, Capture
<1>2. Local(Idle, vault, cur, proj)
  BY DEF Local, Shape, CopyFresh, Isolated, Idle, CopyPlaces, SwitchKinds, RefreshKinds
<1>3. \A q \in Procs : Idle.held \cap op[q].held = {}
  BY DEF Idle
<1> QED BY <1>1, <1>2, <1>3, QuietStep DEF Leave

\* The types of the server's and of the official app's side.
LEMMA OtherTypes ==
  ASSUME IInv
  PROVE  /\ issued \in [Accts -> Nat] /\ live \in [Accts -> SUBSET Nat] /\ app \in BOOLEAN
         /\ \A a \in Accts : \A spent : Issue(a, spent) =>
               /\ issued' \in [Accts -> Nat] /\ live' \in [Accts -> SUBSET Nat]
               /\ issued[a] + 1 \in Nat
BY DEF IInv, TypeOK, Issue

\* Calling an operation that holds nothing yet and has loaded nothing.
LEMMA CallKeeps ==
  ASSUME IInv, NEW p \in Procs, NEW kind, NEW at \in {"wait", "save"}, NEW a \in Accts,
         NEW want \in SUBSET LockKeys, NEW mem \in Numbers,
         op' = [op EXCEPT ![p] = Call(kind, at, a, want, mem)],
         UNCHANGED files,
         issued' \in [Accts -> Nat], live' \in [Accts -> SUBSET Nat], app' \in BOOLEAN,
         \/ at = "wait" /\ kind \in {"switch", "reapply"} /\ {SwitchLock, a} \subseteq want
              /\ mem = None
         \/ at = "wait" /\ kind \in RefreshKinds \cup {"delete"} /\ a \in want
         \/ at = "wait" /\ kind = "adopt" /\ mem \in Nat /\ SwitchLock \in want
         \/ at = "save" /\ kind = "signin" /\ mem \in Nat /\ a \in want
  PROVE  IInv'
<1> DEFINE r == Call(kind, at, a, want, mem)
<1>1. /\ r.kind = kind /\ r.at = at /\ r.tgt = a /\ r.want = want /\ r.held = {}
      /\ r.mem = mem
  BY DEF Call, Idle
<1>2. r \in Operation
  BY DEF Call, Idle, Operation, SwitchKinds, RefreshKinds, Numbers
<1>3. Local(r, vault, cur, proj)
  BY <1>1 DEF Local, Shape, CopyFresh, Isolated, CopyPlaces, SwitchKinds, RefreshKinds
<1>4. \A q \in Procs : r.held \cap op[q].held = {}
  BY <1>1
<1> HIDE DEF r
<1> QED BY <1>2, <1>3, <1>4, QuietStep DEF r

\* The calls of the handlers keep the invariant: they ask for locks and hold none.
LEMMA CallsKeep ==
  ASSUME IInv, NEW p \in Procs, NEW a \in Accts,
         CallSwitch(p, a) \/ CallSignIn(p, a) \/ CallAdopt(p) \/ CallRefresh(p, a)
           \/ CallDelete(p, a)
  PROVE  IInv'
<1> USE OtherTypes
<1>0. /\ cur \in Accts \cup {None} /\ auth \in Official
      /\ {SwitchLock, OAuthLock} \cup Accts = LockKeys /\ None \in Numbers
      /\ Nat \subseteq Numbers
  BY DEF IInv, TypeOK, LockKeys, Numbers
<1>1. CASE CallSwitch(p, a)
  <2>1. PICK kind \in {"switch", "reapply"} :
          op' = [op EXCEPT ![p] = Call(kind, "wait", a, SwitchLocks(a), None)]
    BY <1>1 DEF CallSwitch
  <2>2. {SwitchLock, a} \subseteq SwitchLocks(a) /\ SwitchLocks(a) \in SUBSET LockKeys
    BY <1>0 DEF SwitchLocks
  <2> QED BY <1>0, <1>1, <2>1, <2>2, CallKeeps DEF CallSwitch, SwitchKinds, server
<1>2. CASE CallSignIn(p, a)
  BY <1>0, <1>2, CallKeeps DEF CallSignIn
<1>3. CASE CallAdopt(p)
  <2>1. auth.acct \in Accts /\ auth.num \in Nat
    BY <1>0, <1>3 DEF CallAdopt, IsToken, Official, AnyToken
  <2> QED BY <1>0, <1>3, <2>1, CallKeeps DEF CallAdopt, server
<1>4. CASE CallRefresh(p, a)
  <2>1. PICK kind \in RefreshKinds :
          op' = [op EXCEPT ![p] = Call(kind, "wait", a, {a}, None)]
    BY <1>4 DEF CallRefresh, RefreshLocks
  <2>2. {a} \in SUBSET LockKeys /\ a \in {a}
    BY <1>0
  <2>3. UNCHANGED files /\ UNCHANGED <<issued, live, app>>
    BY <1>4 DEF CallRefresh, server
  <2> QED BY <1>0, <2>1, <2>2, <2>3, CallKeeps
<1>5. CASE CallDelete(p, a)
  <2>1. op' = [op EXCEPT ![p] = Call("delete", "wait", a, {a}, None)]
    BY <1>5 DEF CallDelete
  <2>2. {a} \in SUBSET LockKeys /\ a \in {a}
    BY <1>0
  <2>3. UNCHANGED files /\ UNCHANGED <<issued, live, app>>
    BY <1>5 DEF CallDelete, server
  <2> QED BY <1>0, <2>1, <2>2, <2>3, CallKeeps
<1> QED BY <1>1, <1>2, <1>3, <1>4, <1>5
-----------------------------------------------------------------------------
\* A later place that needs no more than the earlier one: the same locks, account
\* and copy (the steps that only wait for Codex or for the server).
LEMMA MoveKeeps ==
  ASSUME IInv, NEW p \in Procs, NEW r \in Operation, op' = [op EXCEPT ![p] = r],
         UNCHANGED files,
         issued' \in [Accts -> Nat], live' \in [Accts -> SUBSET Nat], app' \in BOOLEAN,
         r.tgt = op[p].tgt, r.held = op[p].held, r.mem = op[p].mem, r.kind = op[p].kind,
         \/ op[p].at \in {"kill", "start"} /\ r.at = "restart"
         \/ op[p].at \in {"post", "answer", "quota", "settle"}
              /\ r.at \in {"post", "answer", "quota", "settle"}
              /\ (r.at = "answer" => r.got \in Nat)
  PROVE  IInv'
<1>1. Local(op[p], vault, cur, proj) /\ op[p] \in Operation
  BY Facts
<1>2. Local(r, vault, cur, proj)
  <2>1. CASE op[p].at \in {"kill", "start"} /\ r.at = "restart"
    BY <1>1, <2>1 DEF Local, Shape, CopyFresh, Isolated, CopyPlaces, SwitchKinds
  <2>2. CASE /\ op[p].at \in {"post", "answer", "quota", "settle"}
             /\ r.at \in {"post", "answer", "quota", "settle"}
             /\ (r.at = "answer" => r.got \in Nat)
    BY <1>1, <2>2 DEF Local, Shape, CopyFresh, Isolated, CopyPlaces, RefreshKinds
  <2> QED BY <2>1, <2>2
<1>3. \A q \in Procs \ {p} : r.held \cap op[q].held = {}
  BY Facts
<1> QED BY <1>2, <1>3, QuietStep

\* The steps of a switch that change no file.
LEMMA SwitchWaitsKeep ==
  ASSUME IInv, NEW p \in Procs,
         KillFails(p) \/ CommitFails(p) \/ StartSucceeds(p) \/ RestartAfterFailure(p)
  PROVE  IInv'
<1>1. op[p] \in Operation /\ op \in [Procs -> Operation] /\ app \in BOOLEAN
  BY Facts, OtherTypes
<1>2. CASE KillFails(p) \/ CommitFails(p)
  <2> DEFINE r == [op[p] EXCEPT !.at = "restart"]
  <2>1. r \in Operation
    BY <1>1 DEF Operation
  <2>2. /\ r.at = "restart" /\ r.tgt = op[p].tgt /\ r.held = op[p].held
        /\ r.mem = op[p].mem /\ r.kind = op[p].kind
    BY <1>1 DEF Operation
  <2>3. op' = [op EXCEPT ![p] = r]
    BY <1>1, <1>2 DEF KillFails, CommitFails, Move
  <2>4. op[p].at = "kill" /\ UNCHANGED files /\ UNCHANGED server /\ app' \in BOOLEAN
    BY <1>1, <1>2 DEF KillFails, CommitFails
  <2> HIDE DEF r
  <2> QED BY <2>1, <2>2, <2>3, <2>4, MoveKeeps, OtherTypes DEF server
<1>3. CASE StartSucceeds(p) \/ RestartAfterFailure(p)
  <2>1. Leave(p) /\ UNCHANGED files /\ UNCHANGED server /\ app' \in BOOLEAN
    BY <1>1, <1>3 DEF StartSucceeds, RestartAfterFailure
  <2> QED BY <2>1, LeaveKeeps, OtherTypes DEF server
<1> QED BY <1>2, <1>3

\* The steps of a refresh that change no file.
LEMMA RefreshWaitsKeep ==
  ASSUME IInv, NEW p \in Procs, RepairToken(p) \/ ServerRotates(p)
  PROVE  IInv'
<1>1. op[p] \in Operation /\ op \in [Procs -> Operation] /\ app \in BOOLEAN
  BY Facts, OtherTypes
<1>2. CASE RepairToken(p)
  <2> DEFINE r == [op[p] EXCEPT !.at = "post", !.mend = FALSE]
  <2>1. r \in Operation
    BY <1>1 DEF Operation
  <2>2. /\ r.at = "post" /\ r.tgt = op[p].tgt /\ r.held = op[p].held
        /\ r.mem = op[p].mem /\ r.kind = op[p].kind
    BY <1>1 DEF Operation
  <2>3. op' = [op EXCEPT ![p] = r]
    BY <1>1, <1>2 DEF RepairToken
  <2>4. op[p].at = "quota" /\ UNCHANGED files /\ UNCHANGED server /\ app' \in BOOLEAN
    BY <1>1, <1>2 DEF RepairToken
  <2> HIDE DEF r
  <2> QED BY <2>1, <2>2, <2>3, <2>4, MoveKeeps, OtherTypes DEF server
<1>3. CASE ServerRotates(p)
  <2> DEFINE a == op[p].tgt
             r == [op[p] EXCEPT !.at = "answer", !.got = issued[a] + 1]
  <2>0. op[p].at = "post" /\ a \in Accts /\ Issue(a, {op[p].mem}) /\ UNCHANGED files
    BY <1>1, <1>3, Facts DEF ServerRotates, Local, Shape
  <2>5. /\ issued' \in [Accts -> Nat] /\ live' \in [Accts -> SUBSET Nat]
        /\ issued[a] + 1 \in Nat
    BY <2>0, OtherTypes
  <2>1. r \in Operation
    BY <1>1, <2>5 DEF Operation, Numbers
  <2>2. /\ r.at = "answer" /\ r.tgt = op[p].tgt /\ r.held = op[p].held
        /\ r.mem = op[p].mem /\ r.kind = op[p].kind /\ r.got = issued[a] + 1
    BY <1>1 DEF Operation
  <2>3. op' = [op EXCEPT ![p] = r] /\ app' \in BOOLEAN
    BY <1>1, <1>3 DEF ServerRotates
  <2> HIDE DEF r
  <2> QED BY <2>0, <2>1, <2>2, <2>3, <2>5, MoveKeeps
<1> QED BY <1>2, <1>3
-----------------------------------------------------------------------------
\* A step that writes under the locks L, which no other operation is inside:
\* only accounts of L, the current account and the projection only under the
\* switch lock, the projection also by who has locked the current account.
LEMMA LockedWrite ==
  ASSUME IInv, NEW p \in Procs, NEW r \in Operation, NEW L,
         op' = [op EXCEPT ![p] = r],
         \A q \in Procs \ {p} : L \cap op[q].held = {},
         \A q \in Procs \ {p} : r.held \cap op[q].held = {},
         vault' \in [Accts -> Numbers], reauth' \in [Accts -> BOOLEAN],
         cur' \in Accts \cup {None}, auth' \in Official, proj' \in Projection,
         app' \in BOOLEAN, UNCHANGED server,
         Honest(proj'),
         \A a \in Accts \ L : vault'[a] = vault[a],
         cur' = cur \/ SwitchLock \in L,
         proj' = proj \/ SwitchLock \in L \/ cur \in L,
         Local(r, vault', cur', proj')
  PROVE  IInv'
<1>1. TypeOK'
  BY DEF IInv, TypeOK, server
<1>2. op'[p] = r /\ \A q \in Procs \ {p} : op'[q] = op[q]
  BY DEF IInv, TypeOK
<1>3. \A q \in Procs \ {p} : \A a \in op[q].held \cap Accts : vault'[a] = vault[a]
  <2> TAKE q \in Procs \ {p}
  <2> TAKE a \in op[q].held \cap Accts
  <2>1. a \notin L
    OBVIOUS
  <2> QED BY <2>1
<1>4. \A q \in Procs \ {p} : SwitchLock \in op[q].held => cur' = cur
  <2> SUFFICES ASSUME NEW q \in Procs \ {p}, SwitchLock \in op[q].held PROVE SwitchLock \notin L
    OBVIOUS
  <2> QED OBVIOUS
<1>5. \A q \in Procs \ {p} : SwitchLock \in op[q].held /\ cur \in op[q].held => proj' = proj
  <2> SUFFICES ASSUME NEW q \in Procs \ {p}, SwitchLock \in op[q].held, cur \in op[q].held
               PROVE  SwitchLock \notin L /\ cur \notin L
    OBVIOUS
  <2> QED OBVIOUS
<1>6. Local(op'[p], vault', cur', proj') /\ \A q \in Procs \ {p} : op'[p].held \cap op[q].held = {}
  BY <1>2
<1> QED BY <1>1, <1>2, <1>3, <1>4, <1>5, <1>6, GuardedStep

\* Idle holds nothing and satisfies the local conditions for whatever files.
LEMMA IdleLocal ==
  /\ Idle \in Operation
  /\ \A q \in Procs : Idle.held \cap op[q].held = {}
  /\ Local(Idle, vault, cur, proj)
  /\ Local(Idle, vault', cur', proj')
<1>1. Idle \in Operation
  BY ConstantsAssumption DEF Idle, Operation, LockKeys, Numbers, Capture
<1>2. \A q \in Procs : Idle.held \cap op[q].held = {}
  BY DEF Idle
<1>3. Local(Idle, vault, cur, proj) /\ Local(Idle, vault', cur', proj')
  BY DEF Local, Shape, CopyFresh, Isolated, Idle, CopyPlaces, SwitchKinds, RefreshKinds
<1> QED BY <1>1, <1>2, <1>3

\* The files have their types.
LEMMA FileTypes ==
  ASSUME IInv
  PROVE  /\ vault \in [Accts -> Numbers] /\ reauth \in [Accts -> BOOLEAN]
         /\ cur \in Accts \cup {None} /\ auth \in Official /\ proj \in Projection
         /\ Honest(proj) /\ None \in Numbers /\ Nat \subseteq Numbers
         /\ (Managed => cur \in Accts /\ vault[cur] \in Nat)
         /\ (\A a \in Accts : vault[a] # None => vault[a] \in Nat)
         /\ (IsToken(auth) => auth.acct \in Accts /\ auth.num \in Nat /\ auth \in AnyToken)
BY DEF IInv, TypeOK, Numbers, Managed, IsToken, Official, AnyToken

\* Bringing the files of the current account up to date in place.
LEMMA SettleWrites ==
  ASSUME IInv, NEW a \in Accts, cur = a, Managed, AuthStatus = "aligned", SettleInPlace(a)
  PROVE  /\ vault' \in [Accts -> Numbers] /\ reauth' \in [Accts -> BOOLEAN]
         /\ proj' \in Projection /\ Honest(proj')
         /\ \A b \in Accts \ {a} : vault'[b] = vault[b]
<1>1. IsToken(auth) /\ (ProjectionAligned \/ auth.acct = a)
  BY DEF AuthStatus, Managed, IsToken
<1>2. auth \in AnyToken /\ auth.num \in Nat /\ auth.acct \in Accts
  BY <1>1, FileTypes
<1>3. CASE ProjectionAligned \/ auth.num < vault[a]
  BY <1>2, <1>3, FileTypes DEF SettleInPlace
<1>4. CASE ~ (ProjectionAligned \/ auth.num < vault[a])
  <2>1. /\ vault' = [vault EXCEPT ![a] = auth.num]
        /\ reauth' = [reauth EXCEPT ![a] = FALSE]
        /\ proj' = [by |-> a, of |-> auth]
    BY <1>4 DEF SettleInPlace, WriteProjection
  <2>2. auth.acct = a
    BY <1>1, <1>4
  <2> QED BY <1>2, <2>1, <2>2, FileTypes DEF Projection, Honest
<1> QED BY <1>3, <1>4

\* Granted locks are free: the operation may hold them, nobody else does.
LEMMA GrantedLocks ==
  ASSUME IInv, NEW p \in Procs, NEW at, Granted(p, at)
  PROVE  /\ op[p].at = at
         /\ \A q \in Procs \ {p} : op[p].want \cap op[q].held = {}
         /\ \A q \in Procs \ {p} : (op[p].held \cup op[p].want) \cap op[q].held = {}
BY Facts DEF Granted
-----------------------------------------------------------------------------
\* The body of a switch begins: it ends at once, settles in place, or goes on
\* with the copy it loaded.
LEMMA BeginSwitchKeeps ==
  ASSUME IInv, NEW p \in Procs, BeginSwitch(p)
  PROVE  IInv'
<1> DEFINE a == op[p].tgt
<1>1. /\ op[p] \in Operation /\ op \in [Procs -> Operation]
      /\ Local(op[p], vault, cur, proj) /\ op[p].kind \in SwitchKinds
      /\ op[p].at = "wait" /\ UNCHANGED server /\ app' = app
  BY Facts, GrantedLocks DEF BeginSwitch
<1>2. /\ \A q \in Procs \ {p} : op[p].want \cap op[q].held = {}
      /\ \A q \in Procs \ {p} : (op[p].held \cup op[p].want) \cap op[q].held = {}
  BY GrantedLocks DEF BeginSwitch
<1>3. a \in Accts /\ {SwitchLock, a} \subseteq op[p].want
  BY <1>1 DEF Local, Shape
<1>4. CASE Leave(p) /\ UNCHANGED files
  BY <1>1, <1>4, LeaveKeeps, OtherTypes DEF server
<1>5. CASE /\ cur = a /\ Managed /\ AuthStatus = "aligned" /\ SettleInPlace(a)
           /\ Leave(p) /\ UNCHANGED <<cur, auth>>
  <2>1. /\ vault' \in [Accts -> Numbers] /\ reauth' \in [Accts -> BOOLEAN]
        /\ proj' \in Projection /\ Honest(proj')
        /\ \A b \in Accts \ {a} : vault'[b] = vault[b]
    BY <1>3, <1>5, SettleWrites
  <2>2. op' = [op EXCEPT ![p] = Idle]
    BY <1>5 DEF Leave
  <2>3. \A b \in Accts \ op[p].want : vault'[b] = vault[b]
    BY <1>3, <2>1
  <2>4. cur' \in Accts \cup {None} /\ auth' \in Official /\ app' \in BOOLEAN /\ cur' = cur
    BY <1>1, <1>5, FileTypes, OtherTypes
  <2> QED BY <1>1, <1>2, <1>3, <2>1, <2>2, <2>3, <2>4, IdleLocal, LockedWrite
<1>6. CASE Loaded(p) # None /\ Enter(p, "kill", Loaded(p)) /\ UNCHANGED files
  <2> DEFINE r == [op[p] EXCEPT !.at = "kill", !.mem = Loaded(p),
                                !.held = @ \cup op[p].want, !.want = {}]
  <2>1. Loaded(p) \in Nat
        /\ (Loaded(p) = vault[a] \/ (op[p].kind = "signin" /\ vault[a] = None))
    <3>1. CASE vault[a] # None
      BY <1>3, <3>1, FileTypes DEF Loaded
    <3>2. CASE vault[a] = None
      <4>1. Loaded(p) = op[p].mem
        BY <3>2 DEF Loaded
      <4>2. op[p].mem \in Nat
        BY <1>1, <1>6, <4>1 DEF Operation, Numbers
      <4>3. op[p].kind = "signin"
        BY <1>1, <1>6, <4>1 DEF Local, Shape, SwitchKinds
      <4> QED BY <3>2, <4>1, <4>2, <4>3
    <3> QED BY <3>1, <3>2
  <2>2. r \in Operation
    BY <1>1, <2>1 DEF Operation, Numbers
  <2>3. /\ r.at = "kill" /\ r.tgt = a /\ r.kind = op[p].kind /\ r.mem = Loaded(p)
        /\ r.held = op[p].held \cup op[p].want
    BY <1>1 DEF Operation
  <2>4. op' = [op EXCEPT ![p] = r]
    BY <1>1, <1>6 DEF Enter
  <2> HIDE DEF r
  <2>5. Local(r, vault, cur, proj)
    BY <1>1, <1>3, <2>1, <2>3
       DEF Local, Shape, CopyFresh, Isolated, CopyPlaces, SwitchKinds
  <2>6. issued' = issued /\ live' = live
    BY <1>1 DEF server
  <2> QED BY <1>1, <1>2, <1>6, <2>2, <2>3, <2>4, <2>5, <2>6, QuietStep, OtherTypes
<1> QED BY <1>4, <1>5, <1>6 DEF BeginSwitch

\* The capture has its type and an honest projection.
LEMMA CaptureTyped ==
  ASSUME IInv, NEW a \in Accts
  PROVE  Captured(a) \in Capture /\ Honest(Captured(a).proj)
BY FileTypes DEF Captured, Capture

\* The transaction writes under the switch lock and its target's.
LEMMA CommitSwitchKeeps ==
  ASSUME IInv, NEW p \in Procs, CommitSwitch(p)
  PROVE  IInv'
<1> DEFINE a == op[p].tgt
           r == [op[p] EXCEPT !.at = "start", !.snap = Captured(a)]
<1>1. /\ op[p] \in Operation /\ op \in [Procs -> Operation]
      /\ Local(op[p], vault, cur, proj) /\ op[p].at = "kill"
      /\ \A q \in Procs \ {p} : op[p].held \cap op[q].held = {}
  BY Facts DEF CommitSwitch
<1>2. /\ a \in Accts /\ {SwitchLock, a} \subseteq op[p].held
      /\ op[p].mem \in Nat /\ op[p].kind \in SwitchKinds
  BY <1>1 DEF Local, Shape
<1>3. /\ auth' = Tok(a, op[p].mem) /\ proj' = [by |-> a, of |-> Tok(a, op[p].mem)]
      /\ cur' = a /\ vault' = [vault EXCEPT ![a] = op[p].mem]
      /\ reauth' = reauth /\ UNCHANGED server /\ app' = FALSE
  BY DEF CommitSwitch, SwitchFiles, AllWrites
<1>4. r \in Operation /\ op' = [op EXCEPT ![p] = r]
  BY <1>1, <1>2, CaptureTyped DEF Operation, CommitSwitch
<1>5. /\ r.at = "start" /\ r.tgt = a /\ r.kind = op[p].kind /\ r.mem = op[p].mem
      /\ r.held = op[p].held /\ r.snap = Captured(a)
  BY <1>1 DEF Operation
<1>6. Tok(a, op[p].mem) \in AnyToken /\ Tok(a, op[p].mem).acct = a
  BY <1>2 DEF Tok, AnyToken
<1>7. /\ vault' \in [Accts -> Numbers] /\ reauth' \in [Accts -> BOOLEAN]
      /\ cur' \in Accts \cup {None} /\ auth' \in Official /\ proj' \in Projection
      /\ app' \in BOOLEAN /\ Honest(proj')
      /\ \A b \in Accts \ op[p].held : vault'[b] = vault[b]
      /\ vault'[a] = op[p].mem
  BY <1>2, <1>3, <1>6, FileTypes DEF Official, Projection, Honest
<1> HIDE DEF r
<1>8. Local(r, vault', cur', proj')
  BY <1>2, <1>3, <1>5, <1>7, CaptureTyped
     DEF Local, Shape, CopyFresh, Isolated, CopyPlaces, SwitchKinds
<1>9. /\ SwitchLock \in op[p].held /\ UNCHANGED server
      /\ \A q \in Procs \ {p} : r.held \cap op[q].held = {}
  BY <1>1, <1>2, <1>3, <1>5
<1> HIDE DEF a
<1> QED BY <1>1, <1>4, <1>7, <1>8, <1>9, LockedWrite

\* The rollback restores what was captured, under the same locks.
LEMMA StartFailsKeeps ==
  ASSUME IInv, NEW p \in Procs, StartFails(p)
  PROVE  IInv'
<1> DEFINE a == op[p].tgt
           s == op[p].snap
           r == [op[p] EXCEPT !.at = "restart", !.snap = None]
<1>1. /\ op[p] \in Operation /\ op \in [Procs -> Operation]
      /\ Local(op[p], vault, cur, proj) /\ op[p].at = "start"
      /\ \A q \in Procs \ {p} : op[p].held \cap op[q].held = {}
  BY Facts DEF StartFails
<1>2. /\ a \in Accts /\ {SwitchLock, a} \subseteq op[p].held
      /\ op[p].mem \in Nat /\ op[p].kind \in SwitchKinds /\ s \in Capture /\ Honest(s.proj)
  BY <1>1 DEF Local, Shape
<1>3. /\ auth' = s.auth /\ proj' = s.proj /\ cur' = s.cur
      /\ vault' = [vault EXCEPT ![a] = s.num]
      /\ reauth' = reauth /\ UNCHANGED server /\ app' = app
  BY DEF StartFails, RestoredFiles, AllWrites
<1>4. r \in Operation /\ op' = [op EXCEPT ![p] = r]
  BY <1>1 DEF Operation, StartFails
<1>5. /\ r.at = "restart" /\ r.tgt = a /\ r.kind = op[p].kind /\ r.mem = op[p].mem
      /\ r.held = op[p].held
  BY <1>1 DEF Operation
<1>6. s.auth \in Official /\ s.proj \in Projection /\ s.cur \in Accts \cup {None} /\ s.num \in Numbers
  BY <1>2 DEF Capture
<1>7. /\ vault' \in [Accts -> Numbers] /\ reauth' \in [Accts -> BOOLEAN]
      /\ cur' \in Accts \cup {None} /\ auth' \in Official /\ proj' \in Projection
      /\ app' \in BOOLEAN /\ Honest(proj')
      /\ \A b \in Accts \ op[p].held : vault'[b] = vault[b]
  BY <1>2, <1>3, <1>6, FileTypes, OtherTypes
<1> HIDE DEF r, s
<1>8. Local(r, vault', cur', proj')
  BY <1>2, <1>5 DEF Local, Shape, CopyFresh, Isolated, CopyPlaces, SwitchKinds
<1> QED BY <1>1, <1>2, <1>3, <1>4, <1>5, <1>7, <1>8, LockedWrite
-----------------------------------------------------------------------------
\* Saving a login: the account's lock is granted, the record replaced whole.
LEMMA UpsertWrites ==
  ASSUME IInv, NEW p \in Procs, op[p].tgt \in Accts, op[p].mem \in Nat,
         op[p].tgt \in op[p].want, Upsert(p)
  PROVE  /\ vault' \in [Accts -> Numbers] /\ reauth' \in [Accts -> BOOLEAN]
         /\ \A b \in Accts \ op[p].want : vault'[b] = vault[b]
BY FileTypes DEF Upsert

\* The saved login waits for the switch locks, or the operation is over.
LEMMA SaveSignInKeeps ==
  ASSUME IInv, NEW p \in Procs, SaveSignIn(p)
  PROVE  IInv'
<1> DEFINE a == op[p].tgt
<1>1. /\ op[p] \in Operation /\ op \in [Procs -> Operation]
      /\ Local(op[p], vault, cur, proj) /\ op[p].kind = "signin" /\ op[p].at = "save"
      /\ \A q \in Procs \ {p} : op[p].want \cap op[q].held = {}
  BY Facts, GrantedLocks DEF SaveSignIn
<1>2. a \in Accts /\ op[p].mem \in Nat /\ a \in op[p].want /\ op[p].held = {}
  BY <1>1 DEF Local, Shape
<1>3. /\ vault' \in [Accts -> Numbers] /\ reauth' \in [Accts -> BOOLEAN]
      /\ \A b \in Accts \ op[p].want : vault'[b] = vault[b]
      /\ cur' \in Accts \cup {None} /\ auth' \in Official /\ proj' \in Projection
      /\ app' \in BOOLEAN /\ Honest(proj') /\ cur' = cur /\ proj' = proj /\ UNCHANGED server
  BY <1>2, UpsertWrites, FileTypes, OtherTypes DEF SaveSignIn
<1>4. CASE Leave(p)
  <2>1. op' = [op EXCEPT ![p] = Idle]
    BY <1>4 DEF Leave
  <2> QED BY <1>1, <1>3, <2>1, IdleLocal, LockedWrite
<1>5. CASE op' = [op EXCEPT ![p].at = "wait", ![p].want = SwitchLocks(op[p].tgt)]
  <2> DEFINE r == [op[p] EXCEPT !.at = "wait", !.want = SwitchLocks(op[p].tgt)]
  <2>1. SwitchLocks(a) \in SUBSET LockKeys /\ {SwitchLock, a} \subseteq SwitchLocks(a)
    BY <1>2, FileTypes DEF SwitchLocks, LockKeys
  <2>2. r \in Operation
    BY <1>1, <2>1 DEF Operation
  <2>3. /\ r.at = "wait" /\ r.tgt = a /\ r.kind = "signin" /\ r.mem = op[p].mem
        /\ r.held = {} /\ r.want = SwitchLocks(a)
    BY <1>1, <1>2 DEF Operation
  <2>4. op' = [op EXCEPT ![p] = r]
    BY <1>1, <1>5
  <2> HIDE DEF r
  <2>5. Local(r, vault', cur', proj')
    BY <1>2, <2>1, <2>3
       DEF Local, Shape, CopyFresh, Isolated, CopyPlaces, SwitchKinds, RefreshKinds
  <2>6. \A q \in Procs \ {p} : r.held \cap op[q].held = {}
    BY <2>3
  <2> QED BY <1>1, <1>3, <2>2, <2>4, <2>5, <2>6, LockedWrite
<1> QED BY <1>4, <1>5 DEF SaveSignIn

\* Adopting takes the switch lock first, then saves under the account's.
LEMMA AdoptKeeps ==
  ASSUME IInv, NEW p \in Procs, BeginAdopt(p) \/ SaveAdopt(p)
  PROVE  IInv'
<1> DEFINE a == op[p].tgt
<1>0. /\ op[p] \in Operation /\ op \in [Procs -> Operation]
      /\ Local(op[p], vault, cur, proj) /\ op[p].kind = "adopt"
      /\ op[p].at \in {"wait", "save"}
      /\ \A q \in Procs \ {p} : op[p].held \cap op[q].held = {}
  BY Facts, GrantedLocks DEF BeginAdopt, SaveAdopt
<1>1. a \in Accts /\ op[p].mem \in Nat /\ UNCHANGED server /\ app' \in BOOLEAN
      /\ (op[p].at = "wait" => op[p].held = {})
  BY <1>0, OtherTypes DEF Local, Shape, BeginAdopt, SaveAdopt
<1>2. CASE BeginAdopt(p)
  <2> DEFINE r == [op[p] EXCEPT !.at = "save", !.held = {SwitchLock},
                                !.want = {OAuthLock, op[p].tgt}]
  <2>1. r \in Operation
    BY <1>0, <1>1 DEF Operation, LockKeys
  <2>2. /\ r.at = "save" /\ r.tgt = a /\ r.kind = "adopt" /\ r.mem = op[p].mem
        /\ r.held = {SwitchLock} /\ r.want = {OAuthLock, a}
    BY <1>0 DEF Operation
  <2>3. op' = [op EXCEPT ![p] = r] /\ UNCHANGED files
    BY <1>0, <1>2 DEF BeginAdopt
  <2> HIDE DEF r
  <2>4. Local(r, vault, cur, proj)
    BY <1>1, <2>2 DEF Local, Shape, CopyFresh, Isolated, CopyPlaces
  <2>5. \A q \in Procs \ {p} : {SwitchLock} \cap op[q].held = {}
    BY <1>0, <1>2, GrantedLocks DEF BeginAdopt, Local, Shape
  <2>6. issued' = issued /\ live' = live
    BY <1>1 DEF server
  <2> QED BY <1>1, <2>1, <2>2, <2>3, <2>4, <2>5, <2>6, QuietStep, OtherTypes
<1>3. CASE SaveAdopt(p)
  <2> DEFINE r == [op[p] EXCEPT !.at = "point", !.want = {}]
  <2>1. op[p].at = "save" /\ a \in op[p].want /\ SwitchLock \in op[p].held
    BY <1>0, <1>3, GrantedLocks DEF SaveAdopt, Local, Shape
  <2>2. \A q \in Procs \ {p} : op[p].want \cap op[q].held = {}
    BY <1>3, GrantedLocks DEF SaveAdopt
  <2>3. /\ vault' \in [Accts -> Numbers] /\ reauth' \in [Accts -> BOOLEAN]
        /\ \A b \in Accts \ op[p].want : vault'[b] = vault[b]
        /\ cur' \in Accts \cup {None} /\ auth' \in Official /\ proj' \in Projection
        /\ Honest(proj') /\ cur' = cur /\ proj' = proj
    BY <1>1, <1>3, <2>1, UpsertWrites, FileTypes DEF SaveAdopt
  <2>4. r \in Operation
    BY <1>0 DEF Operation
  <2>5. /\ r.at = "point" /\ r.tgt = a /\ r.kind = "adopt" /\ r.mem = op[p].mem
        /\ r.held = op[p].held
    BY <1>0 DEF Operation
  <2>6. op' = [op EXCEPT ![p] = r]
    BY <1>0, <1>3 DEF SaveAdopt
  <2> HIDE DEF r
  <2>7. Local(r, vault', cur', proj')
    BY <1>1, <2>1, <2>5 DEF Local, Shape, CopyFresh, Isolated, CopyPlaces
  <2>8. \A q \in Procs \ {p} : r.held \cap op[q].held = {}
    BY <1>0, <2>5
  <2> QED BY <1>1, <2>2, <2>3, <2>4, <2>6, <2>7, <2>8, LockedWrite
<1> QED BY <1>2, <1>3

\* The adopted login becomes current under the switch lock.
LEMMA PointAdoptKeeps ==
  ASSUME IInv, NEW p \in Procs, PointAdopt(p)
  PROVE  IInv'
<1> DEFINE a == op[p].tgt
<1>1. /\ op[p] \in Operation /\ Local(op[p], vault, cur, proj) /\ op[p].at = "point"
      /\ \A q \in Procs \ {p} : op[p].held \cap op[q].held = {}
  BY Facts DEF PointAdopt
<1>2. a \in Accts /\ op[p].mem \in Nat /\ SwitchLock \in op[p].held
  BY <1>1 DEF Local, Shape
<1>3. proj' = [by |-> a, of |-> Tok(a, op[p].mem)] /\ cur' = a
  BY DEF PointAdopt, WriteProjection
<1>4. proj' \in Projection /\ Honest(proj')
  BY <1>2, <1>3 DEF Projection, Honest, Tok, AnyToken
<1>5. /\ vault' \in [Accts -> Numbers] /\ reauth' \in [Accts -> BOOLEAN]
      /\ auth' \in Official /\ app' \in BOOLEAN /\ UNCHANGED server
      /\ vault' = vault /\ cur' \in Accts \cup {None}
  BY <1>2, <1>3, FileTypes, OtherTypes DEF PointAdopt
<1>6. op' = [op EXCEPT ![p] = Idle]
  BY DEF PointAdopt, Leave
<1> QED BY <1>1, <1>2, <1>4, <1>5, <1>6, IdleLocal, LockedWrite
-----------------------------------------------------------------------------
\* A refresh loads its account under the lock it was granted, or is over.
LEMMA BeginRefreshKeeps ==
  ASSUME IInv, NEW p \in Procs, BeginRefresh(p)
  PROVE  IInv'
<1> DEFINE a == op[p].tgt
<1>1. /\ op[p] \in Operation /\ op \in [Procs -> Operation]
      /\ Local(op[p], vault, cur, proj) /\ op[p].kind \in RefreshKinds /\ op[p].at = "wait"
      /\ UNCHANGED files /\ UNCHANGED server /\ app' = app
      /\ \A q \in Procs \ {p} : op[p].want \cap op[q].held = {}
  BY Facts, GrantedLocks DEF BeginRefresh
<1>2. a \in Accts /\ a \in op[p].want /\ op[p].held = {}
  BY <1>1 DEF Local, Shape
<1>3. CASE Leave(p)
  BY <1>1, <1>3, LeaveKeeps, OtherTypes DEF server
<1>4. CASE /\ vault[a] # None
           /\ \E at \in Places(op[p].kind, reauth[a]) :
                op' = [op EXCEPT ![p].at = at, ![p].mem = vault[a],
                                 ![p].mend = (op[p].kind # "token"),
                                 ![p].held = op[p].want, ![p].want = {}]
  <2>1. PICK at \in {"post", "quota", "settle"} :
           op' = [op EXCEPT ![p].at = at, ![p].mem = vault[a],
                            ![p].mend = (op[p].kind # "token"),
                            ![p].held = op[p].want, ![p].want = {}]
    BY <1>4 DEF Places
  <2> DEFINE r == [op[p] EXCEPT !.at = at, !.mem = vault[a],
                                !.mend = (op[p].kind # "token"),
                                !.held = op[p].want, !.want = {}]
  <2>2. vault[a] \in Nat /\ (op[p].kind # "token") \in BOOLEAN
    BY <1>2, <1>4, FileTypes
  <2>3. r \in Operation
    BY <1>1, <2>2 DEF Operation, Numbers
  <2>4. /\ r.at = at /\ r.tgt = a /\ r.kind = op[p].kind /\ r.mem = vault[a]
        /\ r.held = op[p].want
    BY <1>1 DEF Operation
  <2>5. op' = [op EXCEPT ![p] = r]
    BY <1>1, <2>1
  <2> HIDE DEF r
  <2>6. Local(r, vault, cur, proj)
    BY <1>1, <1>2, <2>2, <2>4 DEF Local, Shape, CopyFresh, Isolated, RefreshKinds
  <2> QED BY <1>1, <2>3, <2>4, <2>5, <2>6, QuietStep, OtherTypes DEF server
<1> QED BY <1>3, <1>4 DEF BeginRefresh

\* The end of the token step writes the account it holds and perhaps, when that
\* account is current, auth.json and the projection.
LEMMA RefreshWrites ==
  ASSUME IInv, NEW p \in Procs, NEW n \in Nat, NEW r \in Operation,
         op[p].at \in {"post", "answer", "quota", "settle"},
         op' = [op EXCEPT ![p] = r],
         vault' = [vault EXCEPT ![op[p].tgt] = n],
         reauth' \in [Accts -> BOOLEAN],
         \/ UNCHANGED <<auth, proj>>
         \/ cur = op[p].tgt /\ WriteAuth(op[p].tgt, n)
         \/ cur = op[p].tgt /\ auth = Tok(cur, n) /\ WriteProjection(cur, auth) /\ auth' = auth,
         cur' = cur, app' = app, UNCHANGED server,
         \/ r = Idle
         \/ /\ r.at \in {"quota", "settle"} /\ r.tgt = op[p].tgt /\ r.kind = op[p].kind
            /\ r.held = op[p].held /\ r.mem = n
  PROVE  IInv'
<1> DEFINE a == op[p].tgt
<1>1. /\ op[p] \in Operation /\ Local(op[p], vault, cur, proj)
      /\ \A q \in Procs \ {p} : op[p].held \cap op[q].held = {}
  BY Facts
<1>2. a \in Accts /\ a \in op[p].held /\ op[p].kind \in RefreshKinds
  BY <1>1 DEF Local, Shape
<1>3. /\ vault' \in [Accts -> Numbers] /\ cur' \in Accts \cup {None} /\ app' \in BOOLEAN
      /\ \A b \in Accts \ op[p].held : vault'[b] = vault[b]
      /\ vault'[a] = n
  BY <1>2, FileTypes, OtherTypes
<1>4. Tok(a, n) \in AnyToken /\ Tok(a, n).acct = a
  BY <1>2 DEF Tok, AnyToken
<1>5. /\ auth' \in Official /\ proj' \in Projection /\ Honest(proj')
      /\ (proj' = proj \/ cur \in op[p].held)
  BY <1>2, <1>4, FileTypes DEF WriteAuth, WriteProjection, Official, Projection, Honest
<1>6. Local(r, vault', cur', proj') /\ \A q \in Procs \ {p} : r.held \cap op[q].held = {}
  <2>1. CASE r = Idle
    BY <2>1, IdleLocal
  <2>2. CASE /\ r.at \in {"quota", "settle"} /\ r.tgt = op[p].tgt /\ r.kind = op[p].kind
             /\ r.held = op[p].held /\ r.mem = n
    <3>1. Shape(r)
      BY <1>2, <2>2 DEF Shape, RefreshKinds
    <3>2. CopyFresh(r, vault') /\ Isolated(r, vault', cur', proj') /\ r.at # "start"
      BY <1>3, <2>2 DEF CopyFresh, Isolated
    <3> QED BY <1>1, <2>2, <3>1, <3>2 DEF Local
  <2> QED BY <2>1, <2>2
<1> HIDE DEF a
<1> QED BY <1>1, <1>3, <1>5, <1>6, LockedWrite

\* What AfterToken makes of an operation.
LEMMA AfterTokenShape ==
  ASSUME IInv, NEW p \in Procs, NEW n \in Nat, NEW at \in {"quota", "settle"},
         AfterToken(p, n, at)
  PROVE  \E r \in Operation :
           /\ op' = [op EXCEPT ![p] = r]
           /\ \/ r = Idle
              \/ /\ r.at = at /\ r.tgt = op[p].tgt /\ r.kind = op[p].kind
                 /\ r.held = op[p].held /\ r.mem = n
<1>1. op[p] \in Operation /\ op \in [Procs -> Operation]
  BY Facts
<1>2. CASE op[p].kind = "token"
  BY <1>2, IdleLocal DEF AfterToken
<1>3. CASE op[p].kind # "token"
  <2> DEFINE r == [op[p] EXCEPT !.at = at, !.mem = n, !.got = None]
  <2>1. r \in Operation
    BY <1>1 DEF Operation, Numbers
  <2>2. /\ r.at = at /\ r.tgt = op[p].tgt /\ r.kind = op[p].kind
        /\ r.held = op[p].held /\ r.mem = n
    BY <1>1 DEF Operation
  <2>3. op' = [op EXCEPT ![p] = r]
    BY <1>1, <1>3 DEF AfterToken
  <2> HIDE DEF r
  <2> QED BY <2>1, <2>2, <2>3
<1> QED BY <1>2, <1>3

\* The three ways a token step ends keep the invariant.
LEMMA TokenStepKeeps ==
  ASSUME IInv, NEW p \in Procs, ReceiveToken(p) \/ RefuseToken(p) \/ LoseAnswer(p)
  PROVE  IInv'
<1> DEFINE a == op[p].tgt
<1>1. Local(op[p], vault, cur, proj) /\ op[p].at \in {"post", "answer"}
  BY Facts DEF ReceiveToken, RefuseToken, LoseAnswer
<1>2. op[p].mem \in Nat /\ a \in Accts /\ (op[p].at = "answer" => op[p].got \in Nat)
  BY <1>1 DEF Local, Shape
<1>3. cur' = cur /\ app' = app /\ UNCHANGED server /\ reauth' \in [Accts -> BOOLEAN]
  BY <1>2, FileTypes DEF ReceiveToken, RefuseToken, LoseAnswer
<1>4. CASE ReceiveToken(p)
  <2>1. op[p].got \in Nat /\ vault' = [vault EXCEPT ![a] = op[p].got]
        /\ SyncCurrentAuth(a, op[p].got) /\ AfterToken(p, op[p].got, "quota")
    BY <1>2, <1>4 DEF ReceiveToken
  <2>2. UNCHANGED <<auth, proj>> \/ (cur = a /\ WriteAuth(a, op[p].got))
    BY <2>1 DEF SyncCurrentAuth
  <2>3. PICK r \in Operation :
          /\ op' = [op EXCEPT ![p] = r]
          /\ \/ r = Idle
             \/ /\ r.at = "quota" /\ r.tgt = a /\ r.kind = op[p].kind
                /\ r.held = op[p].held /\ r.mem = op[p].got
    BY <2>1, AfterTokenShape
  <2> QED BY <1>1, <1>3, <2>1, <2>2, <2>3, RefreshWrites
<1>5. CASE RefuseToken(p) \/ LoseAnswer(p)
  <2>1. /\ vault' = [vault EXCEPT ![a] = op[p].mem] /\ UNCHANGED <<auth, proj>>
        /\ AfterToken(p, op[p].mem, "settle")
    BY <1>5 DEF RefuseToken, LoseAnswer
  <2>2. PICK r \in Operation :
          /\ op' = [op EXCEPT ![p] = r]
          /\ \/ r = Idle
             \/ /\ r.at = "settle" /\ r.tgt = a /\ r.kind = op[p].kind
                /\ r.held = op[p].held /\ r.mem = op[p].mem
    BY <1>2, <2>1, AfterTokenShape
  <2> QED BY <1>1, <1>2, <1>3, <2>1, <2>2, RefreshWrites
<1> QED BY <1>4, <1>5

\* The quota is saved and the background mirror writes, all under the account.
LEMMA FinishQuotaKeeps ==
  ASSUME IInv, NEW p \in Procs, FinishQuota(p)
  PROVE  IInv'
<1> DEFINE a == op[p].tgt
<1>1. Local(op[p], vault, cur, proj) /\ op[p].at \in {"quota", "settle"}
  BY Facts DEF FinishQuota
<1>2. op[p].mem \in Nat
  BY <1>1 DEF Local, Shape
<1>3. /\ vault' = [vault EXCEPT ![a] = op[p].mem] /\ reauth' \in [Accts -> BOOLEAN]
      /\ cur' = cur /\ app' = app /\ UNCHANGED server
      /\ op' = [op EXCEPT ![p] = Idle]
  BY FileTypes DEF FinishQuota, Leave
<1>4. \/ UNCHANGED <<auth, proj>>
      \/ cur = a /\ WriteAuth(a, op[p].mem)
      \/ cur = a /\ auth = Tok(cur, op[p].mem) /\ WriteProjection(cur, auth) /\ auth' = auth
  BY DEF FinishQuota
<1> QED BY <1>1, <1>2, <1>3, <1>4, IdleLocal, RefreshWrites

\* A delete removes an account whose lock it was granted.
LEMMA BeginDeleteKeeps ==
  ASSUME IInv, NEW p \in Procs, BeginDelete(p)
  PROVE  IInv'
<1> DEFINE a == op[p].tgt
<1>1. /\ Local(op[p], vault, cur, proj) /\ op[p].kind = "delete" /\ op[p].at = "wait"
      /\ \A q \in Procs \ {p} : op[p].want \cap op[q].held = {}
  BY Facts, GrantedLocks DEF BeginDelete
<1>2. a \in Accts /\ a \in op[p].want
  BY <1>1 DEF Local, Shape
<1>3. /\ vault' \in [Accts -> Numbers] /\ reauth' \in [Accts -> BOOLEAN]
      /\ \A b \in Accts \ op[p].want : vault'[b] = vault[b]
      /\ cur' \in Accts \cup {None} /\ auth' \in Official /\ proj' \in Projection
      /\ app' \in BOOLEAN /\ Honest(proj') /\ cur' = cur /\ proj' = proj /\ UNCHANGED server
  BY <1>2, FileTypes, OtherTypes DEF BeginDelete
<1>4. op' = [op EXCEPT ![p] = Idle]
  BY DEF BeginDelete, Leave
<1> QED BY <1>1, <1>3, <1>4, IdleLocal, LockedWrite

\* The official app writes auth.json alone, of which the invariant says nothing
\* but its type.
LEMMA OfficialKeeps ==
  ASSUME IInv, OfficialStep
  PROVE  IInv'
<1>1. /\ UNCHANGED <<vault, reauth, cur, proj, op>>
      /\ auth' \in Official /\ app' \in BOOLEAN
      /\ issued' \in [Accts -> Nat] /\ live' \in [Accts -> SUBSET Nat]
  <2>1. CASE OfficialStarts \/ OfficialExits \/ OfficialSignsOut
    BY <2>1, FileTypes, OtherTypes
       DEF OfficialStarts, OfficialExits, OfficialSignsOut, files, server, Official
  <2>2. CASE OfficialRotates
    BY <2>2, FileTypes, OtherTypes DEF OfficialRotates, Official, Tok, AnyToken
  <2>3. ASSUME NEW a \in Accts, OfficialSignsIn(a)
        PROVE  /\ UNCHANGED <<vault, reauth, cur, proj, op>>
               /\ auth' \in Official /\ app' \in BOOLEAN
               /\ issued' \in [Accts -> Nat] /\ live' \in [Accts -> SUBSET Nat]
    BY <2>3, FileTypes, OtherTypes DEF OfficialSignsIn, Official, Tok, AnyToken
  <2> QED BY <2>1, <2>2, <2>3 DEF OfficialStep
<1>2. TypeOK'
  BY <1>1 DEF IInv, TypeOK
<1> QED BY <1>1, <1>2 DEF IInv, Apart

\* A crash ends every operation; whatever was written has its type.
LEMMA AllIdle ==
  ASSUME IInv, Dies, UNCHANGED server, app' \in BOOLEAN,
         vault' \in [Accts -> Numbers], reauth' \in [Accts -> BOOLEAN],
         cur' \in Accts \cup {None}, auth' \in Official, proj' \in Projection, Honest(proj')
  PROVE  IInv'
<1>1. TypeOK'
  BY IdleLocal, OtherTypes DEF TypeOK, Dies, server
<1>2. \A q \in Procs : op'[q] = Idle
  BY DEF Dies
<1>3. Apart'
  BY <1>2 DEF Apart, Idle
<1>4. \A q \in Procs : Local(op'[q], vault', cur', proj')
  BY <1>2, IdleLocal
<1> QED BY <1>1, <1>3, <1>4 DEF IInv

\* A crash between any two steps or two writes.
LEMMA CrashKeeps ==
  ASSUME IInv, CrashStep
  PROVE  IInv'
<1>1. CASE Crash
  BY <1>1, AllIdle, FileTypes, OtherTypes DEF Crash, files
<1>2. ASSUME NEW p \in Procs, CrashInCommit(p) PROVE IInv'
  <2> DEFINE a == op[p].tgt
  <2>1. PICK n \in 0 .. (AllWrites - 1) : SwitchFiles(p, n)
    BY <1>2 DEF CrashInCommit
  <2>2. a \in Accts /\ op[p].mem \in Nat
    BY <1>2, Facts DEF CrashInCommit, Local, Shape
  <2>3. Tok(a, op[p].mem) \in AnyToken /\ Tok(a, op[p].mem).acct = a
    BY <2>2 DEF Tok, AnyToken
  <2>4. /\ auth' \in Official /\ proj' \in Projection /\ Honest(proj')
        /\ cur' \in Accts \cup {None} /\ vault' \in [Accts -> Numbers]
    BY <2>1, <2>2, <2>3, FileTypes DEF SwitchFiles, Official, Projection, Honest
  <2> QED BY <1>2, <2>4, AllIdle, FileTypes DEF CrashInCommit
<1>3. ASSUME NEW p \in Procs, CrashInRollback(p) PROVE IInv'
  <2>1. PICK n \in 0 .. (AllWrites - 1) : RestoredFiles(p, n)
    BY <1>3 DEF CrashInRollback
  <2>2. op[p].tgt \in Accts /\ op[p].snap \in Capture /\ Honest(op[p].snap.proj)
    BY <1>3, Facts DEF CrashInRollback, Local, Shape
  <2>3. /\ auth' \in Official /\ proj' \in Projection /\ Honest(proj')
        /\ cur' \in Accts \cup {None} /\ vault' \in [Accts -> Numbers]
    BY <2>1, <2>2, FileTypes DEF RestoredFiles, Capture
  <2> QED BY <1>3, <2>3, AllIdle, FileTypes, OtherTypes DEF CrashInRollback
<1>4. ASSUME NEW p \in Procs, CrashInPoint(p) PROVE IInv'
  <2>1. op[p].tgt \in Accts
    BY <1>4, Facts DEF CrashInPoint, Local, Shape
  <2> QED BY <1>4, <2>1, AllIdle, FileTypes, OtherTypes DEF CrashInPoint
<1>5. ASSUME NEW p \in Procs, CrashInMirror(p) PROVE IInv'
  <2> DEFINE a == op[p].tgt
  <2>1. /\ a \in Accts /\ op[p].mem \in Nat
        /\ (op[p].at = "answer" => op[p].got \in Nat)
    BY <1>5, Facts DEF CrashInMirror, Local, Shape
  <2>2. PICK n \in Nat : /\ vault' = [vault EXCEPT ![a] = n]
                         /\ auth' = auth \/ auth' = Tok(a, n)
    BY <1>5, <2>1 DEF CrashInMirror
  <2>3. vault' \in [Accts -> Numbers] /\ auth' \in Official
    BY <2>1, <2>2, FileTypes DEF Tok, Official, AnyToken
  <2>4. reauth' \in [Accts -> BOOLEAN]
    BY <1>5, <2>1, FileTypes DEF CrashInMirror
  <2> QED BY <1>5, <2>3, <2>4, AllIdle, FileTypes, OtherTypes DEF CrashInMirror
<1> QED BY <1>1, <1>2, <1>3, <1>4, <1>5 DEF CrashStep
-----------------------------------------------------------------------------
\* The invariant is inductive: one step of the proof per action of Next.
LEMMA Inductive == IInv /\ [Next]_vars => IInv'
<1> SUFFICES ASSUME IInv, [Next]_vars PROVE IInv'
  OBVIOUS
<1>1. CASE UNCHANGED vars
  <2>1. TypeOK'
    BY <1>1 DEF IInv, TypeOK, vars, files, server
  <2> QED BY <1>1, <2>1 DEF IInv, Apart, vars, files, server
<1>2. ASSUME NEW p \in Procs, SwitchStep(p) PROVE IInv'
  BY <1>2, CallsKeep, BeginSwitchKeeps, SwitchWaitsKeep, CommitSwitchKeeps, StartFailsKeeps
     DEF SwitchStep
<1>3. ASSUME NEW p \in Procs, LoginStep(p) PROVE IInv'
  <2>1. CASE CallAdopt(p)
    <3>1. auth.acct \in Accts
      BY <2>1, FileTypes DEF CallAdopt
    <3> QED BY <2>1, <3>1, CallsKeep
  <2> QED BY <1>3, <2>1, CallsKeep, SaveSignInKeeps, AdoptKeeps, PointAdoptKeeps DEF LoginStep
<1>4. ASSUME NEW p \in Procs, RefreshStep(p) PROVE IInv'
  BY <1>4, CallsKeep, BeginRefreshKeeps, RefreshWaitsKeep, TokenStepKeeps, FinishQuotaKeeps
     DEF RefreshStep
<1>5. ASSUME NEW p \in Procs, DeleteStep(p) PROVE IInv'
  BY <1>5, CallsKeep, BeginDeleteKeeps DEF DeleteStep
<1> QED BY <1>1, <1>2, <1>3, <1>4, <1>5, OfficialKeeps, CrashKeeps DEF Next

\* Every reachable state satisfies the inductive invariant.
LEMMA Invariant == Spec => []IInv
<1>1. Init => IInv
  BY InitIInv
<1> QED BY <1>1, Inductive, PTL DEF Spec

\* Every reachable state has the types of TypeOK, for any number of accounts and
\* of operations, with crashes and with the official app acting at any time.
THEOREM TypesCorrect == Spec => []TypeOK
<1>1. IInv => TypeOK
  BY DEF IInv
<1> QED BY <1>1, Invariant, PTL

\* The account locks do their work: an operation that holds a copy of an account
\* across its awaits never saves it over a file another operation changed.
THEOREM NothingLost == Spec => []NoLostUpdate
<1>1. IInv => NoLostUpdate
  BY DEF IInv, Local, CopyFresh, CopyPlaces, NoLostUpdate, HoldsCopy
<1> QED BY <1>1, Invariant, PTL

\* While the switch transaction waits for Codex to start, no operation of the
\* manager moves the current account, its file or the projection.
THEOREM SwitchAlone == Spec => []SwitchIsolated
<1>1. IInv => SwitchIsolated
  BY DEF IInv, Local, Isolated, SwitchIsolated
<1> QED BY <1>1, Invariant, PTL

\* Whenever a refresh or the background mirror may overwrite auth.json, the login
\* there is of the managed current account, whatever crashed before.
THEOREM NeverTakenForOurs == Spec => []AlignedIsTrue
<1>1. IInv => AlignedIsTrue
  BY DEF IInv, Honest, AlignedIsTrue, Managed, CanMirror, ProjectionAligned, Tok, IsToken
<1> QED BY <1>1, Invariant, PTL

\* The login an overwrite by the mirror replaces is the current account's, and so
\* is the one it writes.
LEMMA MirrorKeepsAccount ==
  ASSUME IInv, NEW a \in Accts, NEW n \in Nat, cur = a, CanMirror(n), auth' = Tok(a, n)
  PROVE  OfficialAcct(auth') = OfficialAcct(auth)
<1>1. IsToken(auth) /\ auth.acct = a
  BY DEF IInv, Honest, CanMirror, ProjectionAligned, Tok, IsToken
<1>2. auth' \in AnyToken /\ auth'.acct = a
  BY DEF Tok, AnyToken
<1>3. IsToken(auth')
  BY <1>2, ConstantsAssumption DEF IsToken, AnyToken
<1> QED BY <1>1, <1>2, <1>3 DEF OfficialAcct

\* A step of the official app changes none of the manager's files.
LEMMA OfficialActing == OfficialStep => OfficialActs
BY DEF OfficialStep, OfficialStarts, OfficialExits, OfficialRotates, OfficialSignsIn,
       OfficialSignsOut, OfficialActs, files

\* Every switch is user-initiated: whatever the order of the operations and
\* wherever the manager is killed, only the switch transaction, its rollback and
\* the official app change whose login auth.json is.
THEOREM OnlyUsersSwitch == Spec => NoAutomaticSwitch
<1> DEFINE Allowed == OfficialAcct(auth') # OfficialAcct(auth) => UserSwitching \/ OfficialActs
<1>1. IInv /\ [Next]_vars => [Allowed]_vars
  <2> SUFFICES ASSUME IInv, Next, auth' # auth PROVE Allowed
    BY DEF vars, files, OfficialAcct
  <2>1. CASE OfficialStep
    BY <2>1, OfficialActing
  <2>2. ASSUME NEW p \in Procs, SwitchStep(p) PROVE Allowed
    <3>1. CommitSwitch(p) \/ StartFails(p)
      BY <2>2 DEF SwitchStep, CallSwitch, BeginSwitch, KillFails, CommitFails,
                  StartSucceeds, RestartAfterFailure, files
    <3>2. CASE CommitSwitch(p)
      <4>1. op[p].at = "kill" /\ op'[p].at = "start"
        BY <3>2, Facts DEF CommitSwitch, Operation
      <4> QED BY <4>1 DEF UserSwitching
    <3>3. CASE StartFails(p)
      <4>1. op[p].at = "start" /\ op'[p].at = "restart"
        BY <3>3, Facts DEF StartFails, Operation
      <4> QED BY <4>1 DEF UserSwitching
    <3> QED BY <3>1, <3>2, <3>3
  <2>3. ASSUME NEW p \in Procs, LoginStep(p) \/ DeleteStep(p) PROVE Allowed
    BY <2>3 DEF LoginStep, CallSignIn, SaveSignIn, CallAdopt, BeginAdopt, SaveAdopt,
                PointAdopt, DeleteStep, CallDelete, BeginDelete, files
  <2>4. ASSUME NEW p \in Procs, RefreshStep(p) PROVE Allowed
    <3>1. ReceiveToken(p) \/ FinishQuota(p)
      BY <2>4 DEF RefreshStep, CallRefresh, BeginRefresh, RepairToken, ServerRotates,
                  RefuseToken, LoseAnswer, files
    <3>2. PICK n \in Nat : /\ op[p].tgt \in Accts /\ cur = op[p].tgt
                           /\ CanMirror(n) /\ auth' = Tok(op[p].tgt, n)
      <4>1. CASE ReceiveToken(p)
        BY <4>1, Facts DEF ReceiveToken, SyncCurrentAuth, WriteAuth, Local, Shape
      <4>2. CASE FinishQuota(p)
        BY <4>2, Facts DEF FinishQuota, WriteAuth, Local, Shape
      <4> QED BY <3>1, <4>1, <4>2
    <3> QED BY <3>2, MirrorKeepsAccount
  <2>5. CASE CrashStep
    <3>1. CASE Crash
      BY <3>1 DEF Crash, files
    <3>2. ASSUME NEW p \in Procs, CrashInCommit(p) \/ CrashInRollback(p) PROVE Allowed
      <4>1. op[p].at \in {"kill", "start"} /\ op'[p].at = "idle"
        BY <3>2 DEF CrashInCommit, CrashInRollback, Dies, Idle
      <4> QED BY <4>1 DEF UserSwitching
    <3>3. ASSUME NEW p \in Procs, CrashInPoint(p) PROVE Allowed
      BY <3>3 DEF CrashInPoint
    <3>4. ASSUME NEW p \in Procs, CrashInMirror(p) PROVE Allowed
      <4>1. PICK n \in Nat : /\ op[p].tgt \in Accts /\ cur = op[p].tgt
                             /\ CanMirror(n) /\ auth' = Tok(op[p].tgt, n)
        BY <3>4, Facts DEF CrashInMirror, Local, Shape
      <4> QED BY <4>1, MirrorKeepsAccount
    <3> QED BY <2>5, <3>1, <3>2, <3>3, <3>4 DEF CrashStep
  <2> QED BY <2>1, <2>2, <2>3, <2>4, <2>5 DEF Next
<1> QED BY <1>1, Invariant, PTL DEF Spec, NoAutomaticSwitch
-----------------------------------------------------------------------------
(* Where the tokens go.  Everything the manager has of an account was issued *)
(* for it, and a token that has just been issued to one operation is known   *)
(* to nobody else until that operation saves it: so it still works then.     *)

NumberIssued(a, n, iss) == n # None => n <= iss[a]
LoginIssued(x, iss) == x \in AnyToken => x.num <= iss[x.acct]

FilesIssued(v, u, j, iss) ==
  /\ \A a \in Accts : NumberIssued(a, v[a], iss)
  /\ LoginIssued(u, iss)
  /\ j # None => LoginIssued(j.of, iss)

OpIssued(o, iss) ==
  /\ o.tgt \in Accts => NumberIssued(o.tgt, o.mem, iss)
  /\ o.at = "answer" => o.mem < o.got /\ o.got <= iss[o.tgt]
  /\ o.at = "start" => /\ o.snap.num \in {o.mem, None}
                       /\ LoginIssued(o.snap.auth, iss)
                       /\ o.snap.proj # None => LoginIssued(o.snap.proj.of, iss)

\* The operation has token n of a, as the copy it works on or as the answer.
Holds(o, a, n) == o.tgt = a /\ (o.mem = n \/ (o.at = "answer" /\ o.got = n))

\* Token n of a works, and outside S nothing of the manager could spend it.
Untouched(a, n, S) ==
  /\ n \in live[a]
  /\ vault[a] # n
  /\ \A q \in Procs \ S : ~ Holds(op[q], a, n)

\* Only operation p has token n of a: no file, no capture, no other operation.
Secret(p, a, n) ==
  /\ Untouched(a, n, {p})
  /\ auth # Tok(a, n)
  /\ \A q \in Procs : op[q].at = "start" => op[q].snap.auth # Tok(a, n)

SecretsKept(p) ==
  /\ op[p].at = "answer" => Secret(p, op[p].tgt, op[p].got)
  /\ op[p].at = "save" /\ op[p].kind = "signin" => Secret(p, op[p].tgt, op[p].mem)

TokenInv ==
  /\ FilesIssued(vault, auth, proj, issued)
  /\ \A p \in Procs : OpIssued(op[p], issued)
  /\ \A p \in Procs : SecretsKept(p)

\* What a step of operation o, which is r afterwards, does to the tokens: where
\* the copy it has comes from,
Issues(a, n) ==
  n = issued[a] + 1 /\ n = issued'[a] /\ n \in live'[a] /\ UNCHANGED files
Loads(o, r) ==
  r.tgt \in Accts /\ r.mem # None =>
    \/ Holds(o, r.tgt, r.mem)
    \/ vault[r.tgt] = r.mem
    \/ "adopt" \in Kinds /\ auth = Tok(r.tgt, r.mem)
    \/ Issues(r.tgt, r.mem)
\* what the token endpoint gives it,
Receives(o, r) ==
  /\ r.at = "answer" => r.tgt = o.tgt /\ r.mem = o.mem /\ Issues(r.tgt, r.got)
  /\ r.at = "save" /\ r.kind = "signin" => Issues(r.tgt, r.mem)
\* what it captures,
Captures(o, r) ==
  r.at = "start" => /\ o.at = "kill" /\ r.tgt = o.tgt /\ r.mem = o.mem
                    /\ r.snap = Captured(o.tgt) /\ auth' = Tok(o.tgt, o.mem)
\* which tokens it saves, and which accounts it deletes,
Restores(o) ==
  o.at = "start" /\ auth' = o.snap.auth /\ proj' = o.snap.proj /\ cur' = o.snap.cur
Deletes(a) ==
  vault'[a] = None /\ cur' = cur /\ a # cur /\ \A q \in Procs : a \notin op[q].held
Saves(o) ==
  \A a \in Accts :
    \/ vault'[a] = vault[a]
    \/ Deletes(a)
    \/ Restores(o) /\ a = o.tgt /\ vault'[a] = None /\ o.snap.num = None
    \/ /\ Holds(o, a, vault'[a]) /\ o.at \in CopyPlaces \cup {"save"}
       /\ o.at = "kill" => auth' = Tok(a, vault'[a])
    \/ /\ auth \in AnyToken /\ auth = Tok(a, vault'[a])
       /\ auth' = auth /\ ~ ProjectionAligned /\ ProjectionAligned'
\* which it spends,
Spends(o) ==
  \A a \in Accts : \A n \in live[a] \ live'[a] : o.at = "post" /\ Holds(o, a, n)
\* and what it writes for official Codex: nothing, the token it has, the
\* projection of the login that is there, the capture, or the adopted login.
WritesToken(o) ==
  \E n \in Nat :
    /\ o.tgt \in Accts /\ Holds(o, o.tgt, n) /\ vault'[o.tgt] = n
    /\ auth' = Tok(o.tgt, n) /\ proj' = [by |-> o.tgt, of |-> auth'] /\ cur' = o.tgt
    /\ \/ o.at = "kill"
       \/ /\ o.at \in {"answer", "quota", "settle"}
          /\ cur = o.tgt /\ CanMirror(n)
          /\ o.at = "answer" => n = o.got
Settles ==
  /\ auth' = auth /\ auth \in AnyToken /\ cur' = cur /\ cur = auth.acct
  /\ proj' = [by |-> cur, of |-> auth] /\ vault'[cur] = auth.num
Points(o) ==
  /\ o.at = "point" /\ auth' = auth /\ cur' = o.tgt
  /\ proj' = [by |-> o.tgt, of |-> Tok(o.tgt, o.mem)]
Writes(o) ==
  UNCHANGED <<auth, proj, cur>> \/ WritesToken(o) \/ Settles \/ Restores(o) \/ Points(o)

Moves(p) ==
  /\ \A q \in Procs \ {p} : op'[q] = op[q]
  /\ op'[p].at # op[p].at
  /\ \A a \in Accts : issued[a] <= issued'[a]
  /\ Loads(op[p], op'[p])
  /\ Receives(op[p], op'[p])
  /\ Captures(op[p], op'[p])
  /\ Saves(op[p])
  /\ Spends(op[p])
  /\ Writes(op[p])

\* A step of one operation that changes no file and asks nothing of the server.
LEMMA QuietMoves ==
  ASSUME IInv, NEW p \in Procs, NEW r, op' = [op EXCEPT ![p] = r],
         r.at # op[p].at, UNCHANGED files, UNCHANGED server,
         Loads(op[p], r), r.at \notin {"answer", "start"},
         ~ (r.at = "save" /\ r.kind = "signin")
  PROVE  Moves(p)
<1>1. op'[p] = r /\ \A q \in Procs \ {p} : op'[q] = op[q]
  BY Facts
<1>2. \A a \in Accts : issued[a] <= issued'[a] /\ live'[a] = live[a]
  BY OtherTypes DEF server
<1>3. UNCHANGED <<auth, proj, cur>> /\ vault' = vault
  BY DEF files
<1> QED BY <1>1, <1>2, <1>3
     DEF Moves, Receives, Captures, Saves, Spends, Writes

\* An operation that is over has nothing.
LEMMA IdleHasNothing ==
  /\ Idle.at = "idle" /\ Idle.tgt = None /\ Idle.kind = "none" /\ Idle.mem = None
  /\ None \notin Accts /\ None \notin Nat
BY ConstantsAssumption DEF Idle

\* The calls load nothing, or the login they adopt; a sign-in has a new token.
LEMMA CallsMove ==
  ASSUME IInv, NEW p \in Procs, NEW a \in Accts,
         CallSwitch(p, a) \/ CallSignIn(p, a) \/ CallAdopt(p) \/ CallRefresh(p, a)
           \/ CallDelete(p, a)
  PROVE  Moves(p)
<1>1. op[p].at = "idle"
  BY IdleHasNothing DEF CallSwitch, CallSignIn, CallAdopt, CallRefresh, CallDelete
<1>2. ASSUME NEW kind, NEW want, NEW b, NEW mem,
             op' = [op EXCEPT ![p] = Call(kind, "wait", b, want, mem)],
             UNCHANGED files, UNCHANGED server,
             mem = None \/ ("adopt" \in Kinds /\ auth = Tok(b, mem))
      PROVE  Moves(p)
  <2> DEFINE r == Call(kind, "wait", b, want, mem)
  <2>1. r.at = "wait" /\ r.tgt = b /\ r.mem = mem
    BY DEF Call, Idle
  <2> HIDE DEF r
  <2> QED BY <1>1, <1>2, <2>1, QuietMoves DEF r, Loads
<1>3. CASE CallSwitch(p, a)
  BY <1>2, <1>3 DEF CallSwitch
<1>4. CASE CallRefresh(p, a)
  BY <1>2, <1>4 DEF CallRefresh
<1>5. CASE CallDelete(p, a)
  BY <1>2, <1>5 DEF CallDelete
<1>6. CASE CallAdopt(p)
  <2>1. auth = Tok(auth.acct, auth.num)
    BY <1>6, FileTypes DEF CallAdopt, Tok, AnyToken
  <2> QED BY <1>2, <1>6, <2>1 DEF CallAdopt
<1>7. CASE CallSignIn(p, a)
  <2> DEFINE n == issued[a] + 1
             r == Call("signin", "save", a, {OAuthLock, a}, n)
  <2>1. r.at = "save" /\ r.tgt = a /\ r.mem = n
    BY DEF Call, Idle
  <2>2. /\ issued' = [issued EXCEPT ![a] = @ + 1]
        /\ live' = [live EXCEPT ![a] = (@ \ {}) \cup {n}]
        /\ UNCHANGED files /\ op' = [op EXCEPT ![p] = r]
    BY <1>7 DEF CallSignIn, Issue
  <2> HIDE DEF r
  <2>3. op'[p] = r /\ \A q \in Procs \ {p} : op'[q] = op[q]
    BY <2>2, Facts
  <2>4. \A b \in Accts : issued[b] <= issued'[b] /\ live[b] \subseteq live'[b]
    BY <2>2, OtherTypes
  <2>5. Issues(a, n)
    BY <2>2, OtherTypes DEF Issues
  <2>6. UNCHANGED <<auth, proj, cur>> /\ vault' = vault
    BY <2>2 DEF files
  <2> HIDE DEF n
  <2> QED BY <1>1, <2>1, <2>3, <2>4, <2>5, <2>6
       DEF Moves, Loads, Receives, Captures, Saves, Spends, Writes
<1> QED BY <1>3, <1>4, <1>5, <1>6, <1>7

\* A step that writes files and asks nothing of the server.
LEMMA WriteMoves ==
  ASSUME IInv, NEW p \in Procs, NEW r, op' = [op EXCEPT ![p] = r],
         r.at # op[p].at, UNCHANGED server,
         Loads(op[p], r), Saves(op[p]), Writes(op[p]), Captures(op[p], r),
         r.at # "answer", ~ (r.at = "save" /\ r.kind = "signin")
  PROVE  Moves(p)
<1>1. op'[p] = r /\ \A q \in Procs \ {p} : op'[q] = op[q]
  BY Facts
<1>2. \A a \in Accts : issued[a] <= issued'[a] /\ live'[a] = live[a]
  BY OtherTypes DEF server
<1> QED BY <1>1, <1>2 DEF Moves, Receives, Spends

\* An operation that ends, whatever it wrote.
LEMMA LeaveMoves ==
  ASSUME IInv, NEW p \in Procs, Leave(p), op[p].at # "idle", UNCHANGED server,
         Saves(op[p]), Writes(op[p])
  PROVE  Moves(p)
BY IdleHasNothing, WriteMoves DEF Leave, Loads, Captures

\* No file changes: nothing is saved and nothing is written.
LEMMA NothingWritten ==
  ASSUME IInv, NEW o, UNCHANGED files
  PROVE  Saves(o) /\ Writes(o)
BY DEF Saves, Writes, files

\* The steps of a switch that change no file.
LEMMA SwitchWaitsMove ==
  ASSUME IInv, NEW p \in Procs,
         KillFails(p) \/ CommitFails(p) \/ StartSucceeds(p) \/ RestartAfterFailure(p)
  PROVE  Moves(p)
<1>1. op[p] \in Operation /\ op \in [Procs -> Operation]
  BY Facts
<1>2. CASE KillFails(p) \/ CommitFails(p)
  <2> DEFINE r == [op[p] EXCEPT !.at = "restart"]
  <2>1. r.at = "restart" /\ r.tgt = op[p].tgt /\ r.mem = op[p].mem
    BY <1>1 DEF Operation
  <2>2. op' = [op EXCEPT ![p] = r]
    BY <1>1, <1>2 DEF KillFails, CommitFails, Move
  <2>3. op[p].at = "kill" /\ UNCHANGED files /\ UNCHANGED server
    BY <1>2 DEF KillFails, CommitFails
  <2> HIDE DEF r
  <2>4. Loads(op[p], r)
    BY <2>1 DEF Loads, Holds
  <2> QED BY <2>1, <2>2, <2>3, <2>4, QuietMoves
<1>3. CASE StartSucceeds(p) \/ RestartAfterFailure(p)
  BY <1>3, LeaveMoves, NothingWritten DEF StartSucceeds, RestartAfterFailure
<1> QED BY <1>2, <1>3

\* A switch that settles in place takes the login that is there.
LEMMA SettleMoves ==
  ASSUME IInv, NEW o, NEW a \in Accts, cur = a, Managed, AuthStatus = "aligned",
         SettleInPlace(a), UNCHANGED <<cur, auth>>
  PROVE  Saves(o) /\ Writes(o)
<1>1. auth \in AnyToken /\ (ProjectionAligned \/ auth.acct = a)
  BY FileTypes DEF AuthStatus, Managed, IsToken
<1>2. CASE ProjectionAligned \/ auth.num < vault[a]
  BY <1>2 DEF SettleInPlace, Saves, Writes
<1>3. CASE ~ (ProjectionAligned \/ auth.num < vault[a])
  <2>1. /\ vault' = [vault EXCEPT ![a] = auth.num]
        /\ proj' = [by |-> a, of |-> auth]
    BY <1>3 DEF SettleInPlace, WriteProjection
  <2>2. auth.acct = a /\ auth = Tok(a, auth.num)
    BY <1>1, <1>3 DEF Tok, AnyToken
  <2>3. vault'[a] = auth.num /\ \A b \in Accts : b # a => vault'[b] = vault[b]
    BY <2>1, FileTypes
  <2>4. ProjectionAligned'
    <3>1. proj' \in [by : Accts, of : AnyToken]
      BY <1>1, <2>1
    <3>2. proj' # None
      BY <3>1, ConstantsAssumption DEF AnyToken
    <3> QED BY <2>1, <3>2 DEF ProjectionAligned
  <2>5. Saves(o)
    BY <1>1, <1>3, <2>2, <2>3, <2>4 DEF Saves
  <2>6. Settles
    BY <1>1, <2>1, <2>2, <2>3 DEF Settles
  <2> QED BY <2>5, <2>6 DEF Writes
<1> QED BY <1>2, <1>3

\* The body of a switch begins.
LEMMA BeginSwitchMoves ==
  ASSUME IInv, NEW p \in Procs, BeginSwitch(p)
  PROVE  Moves(p)
<1> DEFINE a == op[p].tgt
<1>1. /\ op[p] \in Operation /\ op \in [Procs -> Operation]
      /\ op[p].at = "wait" /\ UNCHANGED server /\ a \in Accts
  BY Facts DEF BeginSwitch, Granted, Local, Shape
<1>2. CASE Leave(p) /\ UNCHANGED files
  BY <1>1, <1>2, LeaveMoves, NothingWritten
<1>3. CASE /\ cur = a /\ Managed /\ AuthStatus = "aligned" /\ SettleInPlace(a)
           /\ Leave(p) /\ UNCHANGED <<cur, auth>>
  BY <1>1, <1>3, LeaveMoves, SettleMoves
<1>4. CASE Loaded(p) # None /\ Enter(p, "kill", Loaded(p)) /\ UNCHANGED files
  <2> DEFINE r == [op[p] EXCEPT !.at = "kill", !.mem = Loaded(p),
                                !.held = @ \cup op[p].want, !.want = {}]
  <2>1. r.at = "kill" /\ r.tgt = a /\ r.mem = Loaded(p)
    BY <1>1 DEF Operation
  <2>2. op' = [op EXCEPT ![p] = r]
    BY <1>1, <1>4 DEF Enter
  <2> HIDE DEF r
  <2>3. Loads(op[p], r)
    BY <2>1 DEF Loads, Holds, Loaded
  <2> QED BY <1>1, <1>4, <2>1, <2>2, <2>3, QuietMoves
<1> QED BY <1>2, <1>3, <1>4 DEF BeginSwitch

\* The transaction writes the token it has; the rollback what was captured.
LEMMA CommitSwitchMoves ==
  ASSUME IInv, NEW p \in Procs, CommitSwitch(p)
  PROVE  Moves(p)
<1> DEFINE a == op[p].tgt
           n == op[p].mem
           r == [op[p] EXCEPT !.at = "start", !.snap = Captured(a)]
<1>1. /\ op[p] \in Operation /\ op \in [Procs -> Operation]
      /\ op[p].at = "kill" /\ UNCHANGED server /\ a \in Accts /\ n \in Nat
  BY Facts DEF CommitSwitch, Local, Shape
<1>2. /\ auth' = Tok(a, n) /\ proj' = [by |-> a, of |-> Tok(a, n)]
      /\ cur' = a /\ vault' = [vault EXCEPT ![a] = n]
  BY DEF CommitSwitch, SwitchFiles, AllWrites
<1>3. vault'[a] = n /\ \A b \in Accts : b # a => vault'[b] = vault[b]
  BY <1>1, <1>2, FileTypes
<1>4. /\ r.at = "start" /\ r.tgt = a /\ r.mem = n /\ r.snap = Captured(a)
      /\ op' = [op EXCEPT ![p] = r]
  BY <1>1 DEF Operation, CommitSwitch
<1>5. Saves(op[p])
  BY <1>1, <1>2, <1>3 DEF Saves, Holds, CopyPlaces
<1>6. Writes(op[p])
  <2>1. WritesToken(op[p])
    BY <1>1, <1>2, <1>3 DEF WritesToken, Holds
  <2> QED BY <2>1 DEF Writes
<1> HIDE DEF r
<1>7. Loads(op[p], r) /\ Captures(op[p], r)
  BY <1>1, <1>2, <1>4 DEF Loads, Captures, Holds
<1> QED BY <1>1, <1>4, <1>5, <1>6, <1>7, WriteMoves

LEMMA StartFailsMoves ==
  ASSUME IInv, NEW p \in Procs, OpIssued(op[p], issued), StartFails(p)
  PROVE  Moves(p)
<1> DEFINE a == op[p].tgt
           s == op[p].snap
           r == [op[p] EXCEPT !.at = "restart", !.snap = None]
<1>1. /\ op[p] \in Operation /\ op \in [Procs -> Operation]
      /\ op[p].at = "start" /\ UNCHANGED server /\ a \in Accts
      /\ s.num \in {op[p].mem, None}
  BY Facts DEF StartFails, Local, Shape, OpIssued
<1>2. /\ auth' = s.auth /\ proj' = s.proj /\ cur' = s.cur
      /\ vault' = [vault EXCEPT ![a] = s.num]
  BY DEF StartFails, RestoredFiles, AllWrites
<1>3. vault'[a] = s.num /\ \A b \in Accts : b # a => vault'[b] = vault[b]
  BY <1>1, <1>2, FileTypes
<1>4. r.at = "restart" /\ r.tgt = a /\ r.mem = op[p].mem /\ op' = [op EXCEPT ![p] = r]
  BY <1>1 DEF Operation, StartFails
<1> HIDE DEF r
<1>5. Loads(op[p], r) /\ Captures(op[p], r)
  BY <1>4 DEF Loads, Captures, Holds
<1>6. Saves(op[p])
  BY <1>1, <1>2, <1>3 DEF Saves, Holds, CopyPlaces, Restores
<1>7. Writes(op[p])
  BY <1>1, <1>2 DEF Writes, Restores
<1> QED BY <1>1, <1>4, <1>5, <1>6, <1>7, WriteMoves
-----------------------------------------------------------------------------
\* A saved login is the token of the operation that saves it.
LEMMA UpsertSaves ==
  ASSUME IInv, NEW p \in Procs, op[p].at = "save", op[p].tgt \in Accts, Upsert(p)
  PROVE  Saves(op[p])
<1>1. /\ vault'[op[p].tgt] = op[p].mem
      /\ \A b \in Accts : b # op[p].tgt => vault'[b] = vault[b]
  BY FileTypes DEF Upsert
<1> QED BY <1>1 DEF Saves, Holds, CopyPlaces

\* Signing in and adopting.
LEMMA LoginsMove ==
  ASSUME IInv, NEW p \in Procs,
         SaveSignIn(p) \/ BeginAdopt(p) \/ SaveAdopt(p) \/ PointAdopt(p)
  PROVE  Moves(p)
<1>1. /\ op[p] \in Operation /\ op \in [Procs -> Operation]
      /\ UNCHANGED server /\ op[p].at \in {"wait", "save", "point"} /\ op[p].tgt \in Accts
      /\ op[p].mem \in Nat
  BY Facts DEF SaveSignIn, BeginAdopt, SaveAdopt, PointAdopt, Granted, Local, Shape
<1>2. CASE SaveSignIn(p)
  <2>1. op[p].at = "save" /\ Upsert(p) /\ UNCHANGED <<cur, auth, proj>>
    BY <1>2 DEF SaveSignIn, Granted
  <2>2. Saves(op[p]) /\ Writes(op[p])
    BY <1>1, <2>1, UpsertSaves DEF Writes
  <2>3. CASE Leave(p)
    BY <1>1, <2>1, <2>2, <2>3, LeaveMoves
  <2>4. CASE op' = [op EXCEPT ![p].at = "wait", ![p].want = SwitchLocks(op[p].tgt)]
    <3> DEFINE r == [op[p] EXCEPT !.at = "wait", !.want = SwitchLocks(op[p].tgt)]
    <3>1. r.at = "wait" /\ r.tgt = op[p].tgt /\ r.mem = op[p].mem
      BY <1>1 DEF Operation
    <3>2. op' = [op EXCEPT ![p] = r]
      BY <1>1, <2>4
    <3> HIDE DEF r
    <3>3. Loads(op[p], r) /\ Captures(op[p], r)
      BY <3>1 DEF Loads, Captures, Holds
    <3> QED BY <1>1, <2>1, <2>2, <3>1, <3>2, <3>3, WriteMoves
  <2> QED BY <1>2, <2>3, <2>4 DEF SaveSignIn
<1>3. CASE BeginAdopt(p)
  <2> DEFINE r == [op[p] EXCEPT !.at = "save", !.held = {SwitchLock},
                                !.want = {OAuthLock, op[p].tgt}]
  <2>1. r.at = "save" /\ r.kind = "adopt" /\ r.tgt = op[p].tgt /\ r.mem = op[p].mem
    BY <1>1, <1>3 DEF Operation, BeginAdopt
  <2>2. op' = [op EXCEPT ![p] = r] /\ UNCHANGED files /\ op[p].at = "wait"
    BY <1>1, <1>3 DEF BeginAdopt, Granted
  <2> HIDE DEF r
  <2>3. Loads(op[p], r)
    BY <2>1 DEF Loads, Holds
  <2> QED BY <1>1, <2>1, <2>2, <2>3, QuietMoves
<1>4. CASE SaveAdopt(p)
  <2> DEFINE r == [op[p] EXCEPT !.at = "point", !.want = {}]
  <2>1. r.at = "point" /\ r.tgt = op[p].tgt /\ r.mem = op[p].mem
    BY <1>1 DEF Operation
  <2>2. op' = [op EXCEPT ![p] = r]
    BY <1>1, <1>4 DEF SaveAdopt
  <2>3. op[p].at = "save" /\ Upsert(p) /\ UNCHANGED <<cur, auth, proj>>
    BY <1>4 DEF SaveAdopt, Granted
  <2>4. Saves(op[p]) /\ Writes(op[p])
    BY <1>1, <2>3, UpsertSaves DEF Writes
  <2> HIDE DEF r
  <2>5. Loads(op[p], r) /\ Captures(op[p], r)
    BY <2>1 DEF Loads, Captures, Holds
  <2> QED BY <1>1, <2>1, <2>2, <2>3, <2>4, <2>5, WriteMoves
<1>5. CASE PointAdopt(p)
  <2>1. Saves(op[p]) /\ Writes(op[p]) /\ Leave(p) /\ op[p].at = "point"
    BY <1>5 DEF PointAdopt, WriteProjection, Saves, Writes, Points
  <2> QED BY <1>1, <2>1, LeaveMoves
<1> QED BY <1>2, <1>3, <1>4, <1>5
-----------------------------------------------------------------------------
\* A refresh loads the saved token, and the server gives it the next one.
LEMMA RefreshBeginsMove ==
  ASSUME IInv, NEW p \in Procs, BeginRefresh(p) \/ RepairToken(p)
  PROVE  Moves(p)
<1>1. /\ op[p] \in Operation /\ op \in [Procs -> Operation]
      /\ UNCHANGED server /\ op[p].at \in {"wait", "quota"} /\ UNCHANGED files
  BY Facts DEF BeginRefresh, RepairToken, Granted
<1>2. CASE Leave(p)
  BY <1>1, <1>2, LeaveMoves, NothingWritten
<1>3. CASE RepairToken(p)
  <2> DEFINE r == [op[p] EXCEPT !.at = "post", !.mend = FALSE]
  <2>1. r.at = "post" /\ r.tgt = op[p].tgt /\ r.mem = op[p].mem
    BY <1>1 DEF Operation
  <2>2. op' = [op EXCEPT ![p] = r]
    BY <1>1, <1>3 DEF RepairToken
  <2> HIDE DEF r
  <2>3. Loads(op[p], r)
    BY <2>1 DEF Loads, Holds
  <2> QED BY <1>1, <2>1, <2>2, <2>3, QuietMoves
<1>4. CASE BeginRefresh(p) /\ ~ Leave(p)
  <2>1. PICK at \in {"post", "quota", "settle"} :
           op' = [op EXCEPT ![p].at = at, ![p].mem = vault[op[p].tgt],
                            ![p].mend = (op[p].kind # "token"),
                            ![p].held = op[p].want, ![p].want = {}]
    BY <1>4 DEF BeginRefresh, Places
  <2> DEFINE r == [op[p] EXCEPT !.at = at, !.mem = vault[op[p].tgt],
                                !.mend = (op[p].kind # "token"),
                                !.held = op[p].want, !.want = {}]
  <2>2. r.at = at /\ r.tgt = op[p].tgt /\ r.mem = vault[op[p].tgt]
    BY <1>1 DEF Operation
  <2>3. op' = [op EXCEPT ![p] = r] /\ op[p].at = "wait"
    BY <1>1, <1>4, <2>1 DEF BeginRefresh, Granted
  <2> HIDE DEF r
  <2>4. Loads(op[p], r)
    BY <2>2 DEF Loads
  <2> QED BY <1>1, <2>2, <2>3, <2>4, QuietMoves
<1> QED BY <1>2, <1>3, <1>4

LEMMA ServerRotatesMoves ==
  ASSUME IInv, NEW p \in Procs, ServerRotates(p)
  PROVE  Moves(p)
<1> DEFINE a == op[p].tgt
           n == issued[a] + 1
           r == [op[p] EXCEPT !.at = "answer", !.got = n]
<1>1. /\ op[p] \in Operation /\ op \in [Procs -> Operation]
      /\ op[p].at = "post" /\ a \in Accts /\ UNCHANGED files
  BY Facts DEF ServerRotates, Local, Shape
<1>2. /\ issued' = [issued EXCEPT ![a] = @ + 1]
      /\ live' = [live EXCEPT ![a] = (@ \ {op[p].mem}) \cup {n}]
  BY DEF ServerRotates, Issue
<1>3. /\ \A b \in Accts : issued[b] <= issued'[b]
      /\ \A b \in Accts : \A m \in live[b] \ live'[b] : b = a /\ m = op[p].mem
  BY <1>1, <1>2, OtherTypes
<1>4. Issues(a, n)
  BY <1>1, <1>2, OtherTypes DEF Issues
<1>5. r.at = "answer" /\ r.tgt = a /\ r.mem = op[p].mem /\ r.got = n
  BY <1>1 DEF Operation
<1>6. op' = [op EXCEPT ![p] = r]
  BY <1>1 DEF ServerRotates
<1> HIDE DEF r
<1>7. op'[p] = r /\ \A q \in Procs \ {p} : op'[q] = op[q]
  BY <1>6, Facts
<1>8. Saves(op[p]) /\ Writes(op[p])
  BY <1>1, NothingWritten
<1> HIDE DEF n
<1>9. Loads(op[p], r) /\ Receives(op[p], r) /\ Captures(op[p], r) /\ Spends(op[p])
  BY <1>1, <1>3, <1>4, <1>5 DEF Loads, Receives, Captures, Spends, Holds
<1> QED BY <1>1, <1>3, <1>5, <1>7, <1>8, <1>9 DEF Moves

\* What a refresh saves and mirrors is the token it has.
LEMMA MirrorWrites ==
  ASSUME IInv, NEW p \in Procs, NEW n \in Nat, op[p].at \in {"answer", "quota", "settle"},
         op[p].tgt \in Accts, Holds(op[p], op[p].tgt, n), op[p].at = "answer" => n = op[p].got,
         vault' = [vault EXCEPT ![op[p].tgt] = n], cur' = cur,
         \/ UNCHANGED <<auth, proj>>
         \/ cur = op[p].tgt /\ CanMirror(n) /\ WriteAuth(op[p].tgt, n)
         \/ /\ cur = op[p].tgt /\ CanMirror(n) /\ auth = Tok(op[p].tgt, n)
            /\ WriteProjection(op[p].tgt, auth) /\ auth' = auth
  PROVE  Saves(op[p]) /\ Writes(op[p])
<1> DEFINE a == op[p].tgt
<1>1. vault'[a] = n /\ \A b \in Accts : b # a => vault'[b] = vault[b]
  BY FileTypes
<1>2. Saves(op[p])
  BY <1>1 DEF Saves, CopyPlaces
<1>3. CASE UNCHANGED <<auth, proj>>
  BY <1>2, <1>3 DEF Writes
<1>4. CASE /\ cur = a /\ CanMirror(n)
           /\ auth' = Tok(a, n) /\ proj' = [by |-> a, of |-> Tok(a, n)]
  <2>1. WritesToken(op[p])
    BY <1>1, <1>4 DEF WritesToken
  <2> QED BY <1>2, <2>1 DEF Writes
<1> QED BY <1>3, <1>4 DEF WriteAuth, WriteProjection

\* The ends of the token step, and of the quota.
LEMMA TokenStepsMove ==
  ASSUME IInv, NEW p \in Procs, ReceiveToken(p) \/ RefuseToken(p) \/ LoseAnswer(p)
  PROVE  Moves(p)
<1> DEFINE a == op[p].tgt
<1>1. /\ op[p] \in Operation /\ a \in Accts /\ UNCHANGED server /\ cur' = cur
      /\ op[p].mem \in Nat /\ op[p].at \in {"post", "answer"}
      /\ (op[p].at = "answer" => op[p].got \in Nat)
  BY Facts DEF ReceiveToken, RefuseToken, LoseAnswer, Local, Shape
<1>2. ASSUME NEW n \in Nat, NEW at \in {"quota", "settle"}, AfterToken(p, n, at),
             Holds(op[p], a, n), Saves(op[p]), Writes(op[p])
      PROVE  Moves(p)
  <2>1. PICK r \in Operation :
          /\ op' = [op EXCEPT ![p] = r]
          /\ \/ r = Idle
             \/ /\ r.at = at /\ r.tgt = op[p].tgt /\ r.kind = op[p].kind
                /\ r.held = op[p].held /\ r.mem = n
    BY <1>2, AfterTokenShape
  <2>2. CASE r = Idle
    BY <1>1, <1>2, <2>1, <2>2, LeaveMoves DEF Leave
  <2>3. CASE r.at = at /\ r.tgt = a /\ r.mem = n
    <3>1. Loads(op[p], r) /\ Captures(op[p], r)
      BY <1>2, <2>3 DEF Loads, Captures
    <3> QED BY <1>1, <1>2, <2>1, <2>3, <3>1, WriteMoves
  <2> QED BY <2>1, <2>2, <2>3
<1>3. CASE ReceiveToken(p)
  <2>1. op[p].at = "answer" /\ op[p].got \in Nat /\ Holds(op[p], a, op[p].got)
    BY <1>1, <1>3 DEF ReceiveToken, Holds
  <2>2. /\ vault' = [vault EXCEPT ![a] = op[p].got] /\ AfterToken(p, op[p].got, "quota")
        /\ \/ UNCHANGED <<auth, proj>>
           \/ cur = a /\ CanMirror(op[p].got) /\ WriteAuth(a, op[p].got)
    BY <1>3 DEF ReceiveToken, SyncCurrentAuth
  <2>3. Saves(op[p]) /\ Writes(op[p])
    BY <1>1, <2>1, <2>2, MirrorWrites
  <2> QED BY <1>2, <2>1, <2>2, <2>3
<1>4. CASE RefuseToken(p) \/ LoseAnswer(p)
  <2>1. /\ vault' = [vault EXCEPT ![a] = op[p].mem] /\ UNCHANGED <<auth, proj>>
        /\ AfterToken(p, op[p].mem, "settle")
    BY <1>4 DEF RefuseToken, LoseAnswer
  <2>2. vault'[a] = op[p].mem /\ \A b \in Accts : b # a => vault'[b] = vault[b]
    BY <1>1, <2>1, FileTypes
  <2>3. Holds(op[p], a, op[p].mem)
    BY DEF Holds
  <2>4. Saves(op[p]) /\ Writes(op[p])
    BY <1>1, <2>1, <2>2, <2>3 DEF Saves, Writes, CopyPlaces
  <2> QED BY <1>1, <1>2, <2>1, <2>3, <2>4
<1> QED BY <1>3, <1>4

LEMMA FinishQuotaMoves ==
  ASSUME IInv, NEW p \in Procs, FinishQuota(p)
  PROVE  Moves(p)
<1> DEFINE a == op[p].tgt
<1>1. /\ a \in Accts /\ UNCHANGED server /\ cur' = cur
      /\ op[p].mem \in Nat /\ op[p].at \in {"quota", "settle"}
  BY Facts DEF FinishQuota, Local, Shape
<1>2. Holds(op[p], a, op[p].mem)
  BY DEF Holds
<1>3. /\ vault' = [vault EXCEPT ![a] = op[p].mem] /\ Leave(p)
      /\ \/ UNCHANGED <<auth, proj>>
         \/ cur = a /\ CanMirror(op[p].mem) /\ WriteAuth(a, op[p].mem)
         \/ /\ cur = a /\ CanMirror(op[p].mem) /\ auth = Tok(a, op[p].mem)
            /\ WriteProjection(a, auth) /\ auth' = auth
  BY DEF FinishQuota
<1>4. Saves(op[p]) /\ Writes(op[p])
  BY <1>1, <1>2, <1>3, MirrorWrites
<1> QED BY <1>1, <1>3, <1>4, LeaveMoves

\* A delete saves nothing, and deletes what is not current and nobody holds.
LEMMA BeginDeleteMoves ==
  ASSUME IInv, NEW p \in Procs, BeginDelete(p)
  PROVE  Moves(p)
<1> DEFINE a == op[p].tgt
<1>1. a \in Accts /\ op[p].at = "wait" /\ Leave(p) /\ UNCHANGED server /\ cur' = cur
  BY Facts DEF BeginDelete, Granted, Local, Shape
<1>2. \A q \in Procs : a \notin op[q].held
  <2>1. op[p].held = {} /\ a \in op[p].want
    BY <1>1, Facts DEF BeginDelete, Local, Shape
  <2>2. \A q \in Procs \ {p} : op[p].want \cap op[q].held = {}
    BY DEF BeginDelete, Granted
  <2> QED BY <2>1, <2>2
<1>3. \A b \in Accts : vault'[b] = vault[b] \/ (b = a /\ a # cur /\ vault'[a] = None)
  BY <1>1, FileTypes DEF BeginDelete, MayDelete
<1>4. Saves(op[p]) /\ Writes(op[p])
  BY <1>1, <1>2, <1>3 DEF Saves, Deletes, Writes, BeginDelete
<1> QED BY <1>1, <1>4, LeaveMoves

\* Every step of an operation is one of those moves.
OperationStep(p) == SwitchStep(p) \/ LoginStep(p) \/ RefreshStep(p) \/ DeleteStep(p)

LEMMA StepMoves ==
  ASSUME IInv, NEW p \in Procs, OpIssued(op[p], issued), OperationStep(p)
  PROVE  Moves(p)
<1>1. CASE SwitchStep(p)
  BY <1>1, CallsMove, BeginSwitchMoves, SwitchWaitsMove, CommitSwitchMoves, StartFailsMoves
     DEF SwitchStep
<1>2. CASE LoginStep(p)
  <2>1. CASE CallAdopt(p)
    <3>1. auth.acct \in Accts
      BY <2>1, FileTypes DEF CallAdopt
    <3> QED BY <2>1, <3>1, CallsMove
  <2> QED BY <1>2, <2>1, CallsMove, LoginsMove DEF LoginStep
<1>3. CASE RefreshStep(p)
  BY <1>3, CallsMove, RefreshBeginsMove, ServerRotatesMoves, TokenStepsMove, FinishQuotaMoves
     DEF RefreshStep
<1>4. CASE DeleteStep(p)
  BY <1>4, CallsMove, BeginDeleteMoves DEF DeleteStep
<1> QED BY <1>1, <1>2, <1>3, <1>4 DEF OperationStep
-----------------------------------------------------------------------------
\* What was issued stays issued.
LEMMA IssuedStays ==
  ASSUME NEW iss \in [Accts -> Nat], NEW new \in [Accts -> Nat],
         \A a \in Accts : iss[a] <= new[a]
  PROVE  /\ \A a \in Accts : \A n \in Numbers :
              NumberIssued(a, n, iss) => NumberIssued(a, n, new)
         /\ \A x : LoginIssued(x, iss) => LoginIssued(x, new)
<1>1. ASSUME NEW a \in Accts, NEW n \in Numbers, NumberIssued(a, n, iss)
      PROVE  NumberIssued(a, n, new)
  BY <1>1 DEF NumberIssued, Numbers
<1>2. ASSUME NEW x, LoginIssued(x, iss) PROVE LoginIssued(x, new)
  BY <1>2 DEF LoginIssued, AnyToken
<1> QED BY <1>1, <1>2

LEMMA OpIssuedStays ==
  ASSUME NEW iss \in [Accts -> Nat], NEW new \in [Accts -> Nat],
         \A a \in Accts : iss[a] <= new[a],
         NEW o \in Operation, Shape(o), OpIssued(o, iss)
  PROVE  OpIssued(o, new)
<1>1. o.mem \in Numbers /\ (o.at = "answer" => o.tgt \in Accts /\ o.mem \in Nat /\ o.got \in Nat)
  BY DEF Operation, Shape
<1>2. o.tgt \in Accts => NumberIssued(o.tgt, o.mem, new)
  BY <1>1, IssuedStays DEF OpIssued
<1>3. o.at = "answer" => o.mem < o.got /\ o.got <= new[o.tgt]
  BY <1>1 DEF OpIssued
<1>4. o.at = "start" => /\ o.snap.num \in {o.mem, None}
                        /\ LoginIssued(o.snap.auth, new)
                        /\ o.snap.proj # None => LoginIssued(o.snap.proj.of, new)
  BY IssuedStays DEF OpIssued
<1> QED BY <1>2, <1>3, <1>4 DEF OpIssued

\* A number an operation has was issued for its account.
LEMMA HeldIsIssued ==
  ASSUME IInv, TokenInv, NEW p \in Procs, NEW a \in Accts, NEW n, n # None,
         Holds(op[p], a, n)
  PROVE  n \in Nat /\ n <= issued[a]
<1>1. /\ op[p] \in Operation /\ OpIssued(op[p], issued)
      /\ (op[p].at = "answer" => op[p].got \in Nat)
  BY Facts DEF TokenInv, Local, Shape
<1> QED BY <1>1 DEF Holds, OpIssued, NumberIssued, Operation, Numbers

\* The token with a number that was issued.
LEMMA TokenIssued ==
  ASSUME NEW a \in Accts, NEW n \in Nat, NEW iss, n <= iss[a]
  PROVE  Tok(a, n) \in AnyToken /\ LoginIssued(Tok(a, n), iss)
BY DEF Tok, AnyToken, LoginIssued

\* The files after a step of an operation hold tokens that were issued before.
LEMMA FilesStayIssued ==
  ASSUME IInv, TokenInv, NEW p \in Procs, Moves(p)
  PROVE  FilesIssued(vault', auth', proj', issued)
<1>1. FilesIssued(vault, auth, proj, issued) /\ OpIssued(op[p], issued)
  BY DEF TokenInv
<1>2. ASSUME NEW a \in Accts PROVE NumberIssued(a, vault'[a], issued)
  <2>1. CASE vault'[a] \in {vault[a], None}
    BY <1>1, <2>1 DEF FilesIssued, NumberIssued
  <2>2. CASE Holds(op[p], a, vault'[a])
    <3> SUFFICES ASSUME NEW n, n = vault'[a], n # None PROVE n <= issued[a]
      BY DEF NumberIssued
    <3> QED BY <2>2, HeldIsIssued
  <2>3. CASE auth \in AnyToken /\ auth = Tok(a, vault'[a])
    BY <1>1, <2>3 DEF FilesIssued, LoginIssued, NumberIssued, Tok
  <2> QED BY <2>1, <2>2, <2>3 DEF Moves, Saves, Deletes
<1>3. CASE UNCHANGED <<auth, proj, cur>>
  BY <1>1, <1>2, <1>3 DEF FilesIssued
<1>4. CASE WritesToken(op[p])
  <2>1. PICK n \in Nat : /\ op[p].tgt \in Accts /\ Holds(op[p], op[p].tgt, n)
                         /\ auth' = Tok(op[p].tgt, n) /\ proj'.of = auth'
    BY <1>4 DEF WritesToken
  <2>2. n <= issued[op[p].tgt]
    BY <2>1, HeldIsIssued, ConstantsAssumption
  <2>3. LoginIssued(auth', issued)
    BY <2>1, <2>2, TokenIssued
  <2> QED BY <1>2, <2>1, <2>3 DEF FilesIssued
<1>5. CASE Settles
  BY <1>1, <1>2, <1>5 DEF FilesIssued, Settles
<1>6. CASE Restores(op[p])
  BY <1>1, <1>2, <1>6 DEF FilesIssued, Restores, OpIssued
<1>7. CASE Points(op[p])
  <2>1. op[p].tgt \in Accts /\ op[p].mem \in Nat
    BY <1>7, Facts DEF Points, Local, Shape
  <2>2. op[p].mem <= issued[op[p].tgt]
    BY <2>1, HeldIsIssued, ConstantsAssumption DEF Holds
  <2>3. LoginIssued(Tok(op[p].tgt, op[p].mem), issued)
    BY <2>1, <2>2, TokenIssued
  <2> QED BY <1>1, <1>2, <1>7, <2>3 DEF FilesIssued, Points
<1> QED BY <1>3, <1>4, <1>5, <1>6, <1>7 DEF Moves, Writes

\* The operation itself has tokens that were issued, by then.
LEMMA OpStaysIssued ==
  ASSUME IInv, IInv', TokenInv, NEW p \in Procs, Moves(p)
  PROVE  OpIssued(op'[p], issued')
<1> DEFINE r == op'[p]
           o == op[p]
<1>1. /\ issued \in [Accts -> Nat] /\ issued' \in [Accts -> Nat]
      /\ \A a \in Accts : issued[a] <= issued'[a]
  BY OtherTypes DEF Moves, IInv, TypeOK
<1>2. FilesIssued(vault, auth, proj, issued) /\ OpIssued(o, issued)
  BY DEF TokenInv
<1>3. r \in Operation /\ Shape(r)
  BY DEF IInv, TypeOK, Local
<1>4. ASSUME r.tgt \in Accts, r.mem # None PROVE r.mem <= issued'[r.tgt]
  <2> DEFINE a == r.tgt
             n == r.mem
  <2>0. a \in Accts /\ n # None /\ n \in Nat
    BY <1>3, <1>4 DEF Operation, Numbers
  <2> SUFFICES n <= issued[a] \/ n = issued'[a]
    BY <1>1, <2>0
  <2>1. CASE Holds(o, a, n)
    BY <2>0, <2>1, HeldIsIssued
  <2>2. CASE vault[a] = n
    BY <1>2, <2>0, <2>2 DEF FilesIssued, NumberIssued
  <2>3. CASE auth = Tok(a, n)
    <3>1. auth \in AnyToken /\ auth.acct = a /\ auth.num = n
      BY <2>0, <2>3 DEF Tok, AnyToken
    <3> QED BY <1>2, <3>1 DEF FilesIssued, LoginIssued
  <2>4. CASE Issues(a, n)
    BY <2>4 DEF Issues
  <2> QED BY <1>4, <2>1, <2>2, <2>3, <2>4 DEF Moves, Loads
<1>5. r.at = "answer" => r.mem < r.got /\ r.got <= issued'[r.tgt]
  <2> SUFFICES ASSUME r.at = "answer" PROVE r.mem < r.got /\ r.got <= issued'[r.tgt]
    OBVIOUS
  <2>1. r.tgt = o.tgt /\ r.mem = o.mem /\ Issues(r.tgt, r.got)
    BY DEF Moves, Receives
  <2>2. r.tgt \in Accts /\ r.mem \in Nat /\ r.got \in Nat
    BY <1>3 DEF Shape
  <2>3. r.mem <= issued[r.tgt]
    BY <1>2, <2>1, <2>2, ConstantsAssumption DEF OpIssued, NumberIssued
  <2> QED BY <1>1, <2>1, <2>2, <2>3 DEF Issues
<1>6. r.at = "start" => /\ r.snap.num \in {r.mem, None}
                        /\ LoginIssued(r.snap.auth, issued')
                        /\ r.snap.proj # None => LoginIssued(r.snap.proj.of, issued')
  <2> SUFFICES ASSUME r.at = "start"
               PROVE  /\ r.snap.num \in {r.mem, None}
                      /\ LoginIssued(r.snap.auth, issued')
                      /\ r.snap.proj # None => LoginIssued(r.snap.proj.of, issued')
    OBVIOUS
  <2>1. o.at = "kill" /\ r.mem = o.mem /\ r.snap = Captured(o.tgt)
    BY DEF Moves, Captures
  <2>2. r.snap.num = vault[o.tgt] /\ r.snap.auth = auth /\ r.snap.proj = proj
    BY <2>1 DEF Captured
  <2>3. vault[o.tgt] \in {o.mem, None}
    BY <2>1, Facts DEF Local, CopyFresh, CopyPlaces
  <2> QED BY <1>1, <1>2, <2>1, <2>2, <2>3, IssuedStays DEF FilesIssued
<1> QED BY <1>4, <1>5, <1>6 DEF OpIssued, NumberIssued

\* So a step of an operation keeps the numbers of the files and the operations.
LEMMA NumbersKept ==
  ASSUME IInv, IInv', TokenInv, NEW p \in Procs, Moves(p)
  PROVE  /\ FilesIssued(vault', auth', proj', issued')
         /\ \A q \in Procs : OpIssued(op'[q], issued')
<1>1. /\ issued \in [Accts -> Nat] /\ issued' \in [Accts -> Nat]
      /\ \A a \in Accts : issued[a] <= issued'[a]
  BY OtherTypes DEF Moves, IInv, TypeOK
<1>2. FilesIssued(vault', auth', proj', issued')
  <2>1. FilesIssued(vault', auth', proj', issued) /\ vault' \in [Accts -> Numbers]
    BY FilesStayIssued DEF IInv, TypeOK
  <2> QED BY <1>1, <2>1, IssuedStays DEF FilesIssued
<1>3. ASSUME NEW q \in Procs PROVE OpIssued(op'[q], issued')
  <2>1. CASE q = p
    BY <2>1, OpStaysIssued
  <2>2. CASE q # p
    <3>1. op'[q] = op[q] /\ op[q] \in Operation /\ Shape(op[q]) /\ OpIssued(op[q], issued)
      BY <2>2, Facts DEF Moves, Local, TokenInv
    <3> QED BY <1>1, <3>1, OpIssuedStays
  <2> QED BY <2>1, <2>2
<1> QED BY <1>2, <1>3
-----------------------------------------------------------------------------
\* A step of an operation that does not have a token, and does not find it in
\* auth.json either, leaves it working and unknown to all it was unknown to.
LEMMA UntouchedStays ==
  ASSUME IInv, TokenInv, NEW p \in Procs, Moves(p),
         NEW a \in Accts, NEW n \in Nat, NEW S \in SUBSET Procs, p \notin S,
         Untouched(a, n, S), n <= issued[a],
         auth = Tok(a, n) => "adopt" \notin Kinds /\ ~ (auth' = auth /\ ProjectionAligned')
  PROVE  Untouched(a, n, S)'
<1>0. ~ Holds(op[p], a, n) /\ n # None /\ issued[a] \in Nat
  BY OtherTypes, ConstantsAssumption DEF Untouched
<1>1. n \in live'[a]
  BY <1>0 DEF Moves, Spends, Untouched
<1>2. vault'[a] # n
  BY <1>0 DEF Moves, Saves, Deletes, Untouched
<1>3. ~ Issues(a, n)
  BY <1>0 DEF Issues
<1>4. ~ Holds(op'[p], a, n)
  <2>1. op'[p].tgt = a => op'[p].mem # n
    BY <1>0, <1>3 DEF Moves, Loads, Untouched
  <2>2. op'[p].tgt = a /\ op'[p].at = "answer" => op'[p].got # n
    BY <1>3 DEF Moves, Receives
  <2> QED BY <2>1, <2>2 DEF Holds
<1>5. \A q \in Procs \ S : ~ Holds(op'[q], a, n)
  BY <1>4 DEF Moves, Untouched
<1> QED BY <1>1, <1>2, <1>5 DEF Untouched

\* A step writes an operation's token to auth.json, or a capture, or what was there.
LEMMA AuthAfter ==
  ASSUME NEW p \in Procs, Moves(p)
  PROVE  \/ auth' = auth
         \/ \E n \in Nat : Holds(op[p], op[p].tgt, n) /\ auth' = Tok(op[p].tgt, n)
         \/ op[p].at = "start" /\ auth' = op[p].snap.auth
BY DEF Moves, Writes, WritesToken, Settles, Restores, Points

\* What only one operation has stays its secret in the steps of the others.
LEMMA SecretStays ==
  ASSUME IInv, TokenInv, NEW p \in Procs, Moves(p), NEW q \in Procs, q # p,
         NEW a \in Accts, NEW n \in Nat, Secret(q, a, n), n <= issued[a]
  PROVE  Secret(q, a, n)'
<1>1. Untouched(a, n, {q}) /\ auth # Tok(a, n) /\ ~ Holds(op[p], a, n)
  BY DEF Secret, Untouched
<1>2. Untouched(a, n, {q})'
  BY <1>1, UntouchedStays
<1>3. auth' # Tok(a, n)
  <2>1. ASSUME NEW m, Holds(op[p], op[p].tgt, m), auth' = Tok(op[p].tgt, m)
        PROVE  auth' # Tok(a, n)
    BY <1>1, <2>1 DEF Tok
  <2> QED BY <1>1, <2>1, AuthAfter DEF Secret
<1>4. ASSUME NEW s \in Procs, op'[s].at = "start" PROVE op'[s].snap.auth # Tok(a, n)
  <2>1. CASE s = p
    BY <1>1, <1>4, <2>1 DEF Moves, Captures, Captured
  <2>2. CASE s # p
    BY <1>4, <2>2 DEF Moves, Secret
  <2> QED BY <2>1, <2>2
<1> QED BY <1>2, <1>3, <1>4 DEF Secret

\* A number above all that were issued is a secret of who gets it.
LEMMA NewIsSecret ==
  ASSUME IInv, TokenInv, NEW p \in Procs, Moves(p), NEW a \in Accts, NEW n \in Nat,
         Issues(a, n)
  PROVE  Secret(p, a, n)'
<1>1. /\ issued \in [Accts -> Nat] /\ n = issued[a] + 1 /\ n \in live'[a]
      /\ vault' = vault /\ auth' = auth /\ n # None
  BY OtherTypes, ConstantsAssumption DEF Issues, files
<1>2. FilesIssued(vault, auth, proj, issued)
  BY DEF TokenInv
<1>3. vault'[a] # n
  BY <1>1, <1>2, FileTypes DEF FilesIssued, NumberIssued
<1>4. \A x : LoginIssued(x, issued) => x # Tok(a, n)
  <2> SUFFICES ASSUME NEW x, LoginIssued(x, issued), x = Tok(a, n) PROVE FALSE
    OBVIOUS
  <2>1. x \in AnyToken /\ x.num = n /\ x.acct = a
    BY DEF Tok, AnyToken
  <2> QED BY <1>1, <2>1 DEF LoginIssued
<1>5. \A q \in Procs \ {p} : ~ Holds(op'[q], a, n)
  <2> SUFFICES ASSUME NEW q \in Procs \ {p}, Holds(op[q], a, n) PROVE FALSE
    BY DEF Moves
  <2>1. n <= issued[a]
    BY <1>1, HeldIsIssued
  <2> QED BY <1>1, <2>1
<1>6. ASSUME NEW s \in Procs, op'[s].at = "start" PROVE op'[s].snap.auth # Tok(a, n)
  <2>1. CASE s = p
    BY <1>2, <1>4, <1>6, <2>1 DEF Moves, Captures, Captured, FilesIssued
  <2>2. CASE s # p
    BY <1>4, <1>6, <2>2 DEF Moves, TokenInv, OpIssued
  <2> QED BY <2>1, <2>2
<1> QED BY <1>1, <1>2, <1>3, <1>4, <1>5, <1>6 DEF Secret, Untouched, FilesIssued

\* A step of an operation keeps every secret.
LEMMA SecretsStay ==
  ASSUME IInv, IInv', TokenInv, NEW p \in Procs, Moves(p), NEW q \in Procs
  PROVE  SecretsKept(q)'
<1>1. Shape(op'[q]) /\ SecretsKept(q)
  BY DEF IInv, Local, TokenInv
<1>2. ASSUME NEW a \in Accts, NEW n \in Nat, a = op'[q].tgt,
             \/ op'[q].at = "answer" /\ n = op'[q].got
             \/ op'[q].at = "save" /\ op'[q].kind = "signin" /\ n = op'[q].mem
      PROVE  Secret(q, a, n)'
  <2>1. CASE q = p
    BY <1>2, <2>1, NewIsSecret DEF Moves, Receives
  <2>2. CASE q # p
    <3>1. op'[q] = op[q]
      BY <2>2 DEF Moves
    <3>2. Secret(q, a, n) /\ Holds(op[q], a, n)
      BY <1>1, <1>2, <3>1 DEF SecretsKept, Holds
    <3>3. n <= issued[a]
      BY <3>2, HeldIsIssued, ConstantsAssumption
    <3> QED BY <2>2, <3>2, <3>3, SecretStays
  <2> QED BY <2>1, <2>2
<1>3. ASSUME op'[q].at = "answer" PROVE Secret(q, op[q].tgt, op[q].got)'
  <2>1. PICK a \in Accts, n \in Nat : a = op'[q].tgt /\ n = op'[q].got
    BY <1>1, <1>3 DEF Shape
  <2>2. Secret(q, a, n)'
    BY <1>2, <1>3, <2>1
  <2> QED BY <2>1, <2>2 DEF Secret, Untouched
<1>4. ASSUME op'[q].at = "save", op'[q].kind = "signin" PROVE Secret(q, op[q].tgt, op[q].mem)'
  <2>1. PICK a \in Accts, n \in Nat : a = op'[q].tgt /\ n = op'[q].mem
    BY <1>1, <1>4 DEF Shape
  <2>2. Secret(q, a, n)'
    BY <1>2, <1>4, <2>1
  <2> QED BY <2>1, <2>2 DEF Secret, Untouched
<1> QED BY <1>3, <1>4 DEF SecretsKept
-----------------------------------------------------------------------------
\* What the official app does to the tokens: it signs out, or gets a new one,
\* for which it may spend the one it has.
OfficialMoves ==
  /\ UNCHANGED <<vault, cur, proj, op>>
  /\ \/ UNCHANGED server /\ (auth' = auth \/ auth' \in {None, Unsupported})
     \/ \E a \in Accts : \E n \in Nat :
          /\ n = issued[a] + 1 /\ auth' = Tok(a, n) /\ n \in live'[a]
          /\ issued' = [issued EXCEPT ![a] = n]
          /\ \A b \in Accts : \A m \in live[b] \ live'[b] : auth = Tok(b, m)

LEMMA OfficialSteps ==
  ASSUME IInv, OfficialStep
  PROVE  OfficialMoves
<1>1. CASE OfficialStarts \/ OfficialExits \/ OfficialSignsOut
  BY <1>1 DEF OfficialStarts, OfficialExits, OfficialSignsOut, files, OfficialMoves
<1>2. ASSUME NEW a \in Accts, NEW spent, Issue(a, spent), auth' = Tok(a, issued[a] + 1),
             \A m \in spent : auth = Tok(a, m), UNCHANGED <<vault, cur, proj, op>>
      PROVE  OfficialMoves
  <2> DEFINE n == issued[a] + 1
  <2>1. /\ issued' = [issued EXCEPT ![a] = n]
        /\ live' = [live EXCEPT ![a] = (@ \ spent) \cup {n}]
    BY <1>2 DEF Issue
  <2>2. n \in Nat /\ n \in live'[a]
    BY <2>1, OtherTypes
  <2>3. \A b \in Accts : \A m \in live[b] \ live'[b] : auth = Tok(b, m)
    BY <1>2, <2>1, OtherTypes
  <2>4. auth' = Tok(a, n)
    BY <1>2
  <2> HIDE DEF n
  <2> QED BY <1>2, <2>1, <2>2, <2>3, <2>4 DEF OfficialMoves, n
<1>3. CASE OfficialRotates
  <2>1. auth.acct \in Accts /\ auth = Tok(auth.acct, auth.num)
    BY <1>3, FileTypes DEF OfficialRotates, Tok, AnyToken
  <2>2. /\ Issue(auth.acct, {auth.num}) /\ auth' = Tok(auth.acct, issued[auth.acct] + 1)
        /\ UNCHANGED <<vault, cur, proj, op>>
    BY <1>3 DEF OfficialRotates
  <2>3. \A m \in {auth.num} : auth = Tok(auth.acct, m)
    BY <2>1
  <2> QED BY <1>2, <2>1, <2>2, <2>3
<1>4. ASSUME NEW a \in Accts, OfficialSignsIn(a) PROVE OfficialMoves
  <2>1. /\ Issue(a, {}) /\ auth' = Tok(a, issued[a] + 1)
        /\ UNCHANGED <<vault, cur, proj, op>>
    BY <1>4 DEF OfficialSignsIn
  <2> QED BY <1>2, <2>1
<1> QED BY <1>1, <1>2, <1>3, <1>4 DEF OfficialStep

\* The official app takes nothing from the manager's operations.
LEMMA OfficialLeavesAlone ==
  ASSUME IInv, TokenInv, OfficialMoves, NEW a \in Accts, NEW n \in Nat, NEW S \in SUBSET Procs,
         Untouched(a, n, S), auth # Tok(a, n) \/ auth' = auth, n <= issued[a]
  PROVE  /\ Untouched(a, n, S)'
         /\ auth' = Tok(a, n) => auth = Tok(a, n)
<1>1. vault' = vault /\ op' = op
  BY DEF OfficialMoves
<1>2. n \in live'[a]
  BY DEF OfficialMoves, Untouched, server, Tok
<1>3. auth' = Tok(a, n) => auth = Tok(a, n)
  <2>1. CASE auth' \in {None, Unsupported}
    BY <2>1, ConstantsAssumption DEF Tok
  <2>2. ASSUME NEW b \in Accts, auth' = Tok(b, issued[b] + 1), auth' = Tok(a, n) PROVE FALSE
    BY <2>2, OtherTypes DEF Tok
  <2> QED BY <2>1, <2>2 DEF OfficialMoves
<1> QED BY <1>1, <1>2, <1>3 DEF Untouched

LEMMA OfficialKeepsTokens ==
  ASSUME IInv, IInv', TokenInv, OfficialMoves
  PROVE  TokenInv'
<1>1. /\ issued \in [Accts -> Nat] /\ issued' \in [Accts -> Nat]
      /\ \A a \in Accts : issued[a] <= issued'[a]
  <2>1. issued \in [Accts -> Nat] /\ issued' \in [Accts -> Nat]
    BY DEF IInv, TypeOK
  <2> QED BY <2>1 DEF OfficialMoves, server
<1>2. vault' = vault /\ proj' = proj /\ op' = op
  BY DEF OfficialMoves
<1>3. LoginIssued(auth', issued')
  <2>1. CASE auth' = auth
    BY <1>1, <2>1, IssuedStays DEF TokenInv, FilesIssued
  <2>2. CASE auth' \in {None, Unsupported}
    BY <2>2, ConstantsAssumption DEF LoginIssued, AnyToken
  <2>3. ASSUME NEW a \in Accts, NEW n \in Nat, auth' = Tok(a, n),
               issued' = [issued EXCEPT ![a] = n]
        PROVE  LoginIssued(auth', issued')
    BY <1>1, <2>3 DEF LoginIssued, Tok
  <2> QED BY <2>1, <2>2, <2>3 DEF OfficialMoves
<1>4. FilesIssued(vault', auth', proj', issued')
  <2>1. vault \in [Accts -> Numbers]
    BY FileTypes
  <2> QED BY <1>1, <1>2, <1>3, <2>1, IssuedStays DEF TokenInv, FilesIssued
<1>5. \A q \in Procs : OpIssued(op'[q], issued')
  <2> TAKE q \in Procs
  <2>1. op[q] \in Operation /\ Shape(op[q]) /\ OpIssued(op[q], issued)
    BY Facts DEF Local, TokenInv
  <2> QED BY <1>1, <1>2, <2>1, OpIssuedStays
<1>6. ASSUME NEW q \in Procs, NEW a \in Accts, NEW n \in Nat, Secret(q, a, n), Holds(op[q], a, n)
      PROVE  Secret(q, a, n)'
  <2>1. n <= issued[a]
    BY <1>6, HeldIsIssued, ConstantsAssumption
  <2>2. Untouched(a, n, {q})' /\ auth' # Tok(a, n)
    BY <1>6, <2>1, OfficialLeavesAlone DEF Secret
  <2> QED BY <1>2, <1>6, <2>2 DEF Secret
<1>7. ASSUME NEW q \in Procs PROVE SecretsKept(q)'
  <2>1. Shape(op[q]) /\ SecretsKept(q) /\ op' = op
    BY <1>2, Facts DEF Local, TokenInv
  <2>2. ASSUME op[q].at = "answer" PROVE Secret(q, op[q].tgt, op[q].got)'
    <3>1. PICK a \in Accts, n \in Nat : a = op[q].tgt /\ n = op[q].got
      BY <2>1, <2>2 DEF Shape
    <3>2. Secret(q, a, n)'
      BY <1>6, <2>1, <2>2, <3>1 DEF SecretsKept, Holds
    <3> QED BY <2>1, <3>1, <3>2 DEF Secret, Untouched
  <2>3. ASSUME op[q].at = "save", op[q].kind = "signin" PROVE Secret(q, op[q].tgt, op[q].mem)'
    <3>1. PICK a \in Accts, n \in Nat : a = op[q].tgt /\ n = op[q].mem
      BY <2>1, <2>3 DEF Shape
    <3>2. Secret(q, a, n)'
      BY <1>6, <2>1, <2>3, <3>1 DEF SecretsKept, Holds
    <3> QED BY <2>1, <3>1, <3>2 DEF Secret, Untouched
  <2> QED BY <2>1, <2>2, <2>3 DEF SecretsKept
<1> QED BY <1>4, <1>5, <1>7 DEF TokenInv

\* A crash leaves files with tokens that were issued, and nobody with a secret.
LEMMA CrashKeepsTokens ==
  ASSUME IInv, TokenInv, CrashStep
  PROVE  TokenInv'
<1>1. \A q \in Procs : op'[q] = Idle
  BY DEF CrashStep, Crash, CrashInCommit, CrashInRollback, CrashInPoint, CrashInMirror, Dies
<1>2. issued' = issued
  BY DEF CrashStep, Crash, CrashInCommit, CrashInRollback, CrashInPoint, CrashInMirror, server
<1>3. \A q \in Procs : OpIssued(op'[q], issued') /\ SecretsKept(q)'
  BY <1>1, IdleHasNothing DEF OpIssued, SecretsKept
<1>4. FilesIssued(vault, auth, proj, issued) /\ \A p \in Procs : OpIssued(op[p], issued)
  BY DEF TokenInv
<1>5. ASSUME NEW p \in Procs, NEW a \in Accts, NEW n \in Nat, Holds(op[p], a, n)
      PROVE  LoginIssued(Tok(a, n), issued) /\ NumberIssued(a, n, issued)
  <2>1. n <= issued[a]
    BY <1>5, HeldIsIssued, ConstantsAssumption
  <2> QED BY <2>1, TokenIssued DEF NumberIssued
<1>6. ASSUME Crash PROVE FilesIssued(vault', auth', proj', issued')
  BY <1>2, <1>4, <1>6 DEF Crash, files
<1>7. ASSUME NEW p \in Procs, CrashInCommit(p)
      PROVE  FilesIssued(vault', auth', proj', issued')
  <2>1. PICK n \in 0 .. (AllWrites - 1) : SwitchFiles(p, n)
    BY <1>7 DEF CrashInCommit
  <2>2. op[p].tgt \in Accts /\ op[p].mem \in Nat
    BY <1>7, Facts DEF CrashInCommit, Local, Shape
  <2>3. LoginIssued(Tok(op[p].tgt, op[p].mem), issued)
    BY <1>5, <2>2 DEF Holds
  <2>4. vault' = vault
    BY <2>1 DEF SwitchFiles, AllWrites
  <2>5. auth' \in {auth, Tok(op[p].tgt, op[p].mem)}
        /\ (proj' = proj \/ proj'.of = Tok(op[p].tgt, op[p].mem))
    BY <2>1 DEF SwitchFiles
  <2> QED BY <1>2, <1>4, <2>3, <2>4, <2>5 DEF FilesIssued
<1>8. ASSUME NEW p \in Procs, CrashInRollback(p)
      PROVE  FilesIssued(vault', auth', proj', issued')
  <2>1. PICK n \in 0 .. (AllWrites - 1) : RestoredFiles(p, n)
    BY <1>8 DEF CrashInRollback
  <2>2. /\ LoginIssued(op[p].snap.auth, issued)
        /\ op[p].snap.proj # None => LoginIssued(op[p].snap.proj.of, issued)
    BY <1>4, <1>8 DEF CrashInRollback, OpIssued
  <2>3. vault' = vault /\ auth' \in {auth, op[p].snap.auth} /\ proj' \in {proj, op[p].snap.proj}
    BY <2>1 DEF RestoredFiles, AllWrites
  <2> QED BY <1>2, <1>4, <2>2, <2>3 DEF FilesIssued
<1>9. ASSUME NEW p \in Procs, CrashInPoint(p)
      PROVE  FilesIssued(vault', auth', proj', issued')
  BY <1>2, <1>4, <1>9 DEF CrashInPoint
<1>10. ASSUME NEW p \in Procs, CrashInMirror(p)
       PROVE  FilesIssued(vault', auth', proj', issued')
  <2> DEFINE a == op[p].tgt
  <2>1. /\ a \in Accts /\ op[p].mem \in Nat
        /\ (op[p].at = "answer" => op[p].got \in Nat)
    BY <1>10, Facts DEF CrashInMirror, Local, Shape
  <2>2. PICK n \in Nat : /\ Holds(op[p], a, n)
                         /\ vault' = [vault EXCEPT ![a] = n]
                         /\ auth' = auth \/ auth' = Tok(a, n)
    BY <1>10, <2>1 DEF CrashInMirror, Holds
  <2>3. LoginIssued(Tok(a, n), issued) /\ NumberIssued(a, n, issued)
    BY <1>5, <2>1, <2>2
  <2>4. vault'[a] = n /\ \A b \in Accts : b # a => vault'[b] = vault[b]
    BY <2>1, <2>2, FileTypes
  <2>5. proj' = proj
    BY <1>10 DEF CrashInMirror
  <2> HIDE DEF a
  <2> QED BY <1>2, <1>4, <2>2, <2>3, <2>4, <2>5 DEF FilesIssued
<1> QED BY <1>3, <1>6, <1>7, <1>8, <1>9, <1>10 DEF CrashStep, TokenInv

LEMMA InitTokens == Init => TokenInv
<1> SUFFICES ASSUME Init PROVE TokenInv
  OBVIOUS
<1> USE ConstantsAssumption
<1>1. PICK M \in SUBSET Accts : /\ vault = [a \in Accts |-> IF a \in M THEN 1 ELSE None]
                                /\ cur \in M \cup {None}
  BY DEF Init
<1>2. LoginIssued(auth, issued)
  BY <1>1 DEF Init, LoginIssued, Tok, AnyToken
<1>3. FilesIssued(vault, auth, proj, issued)
  BY <1>1, <1>2 DEF Init, FilesIssued, NumberIssued
<1>4. \A p \in Procs : op[p] = Idle
  BY DEF Init
<1>5. \A p \in Procs : OpIssued(op[p], issued) /\ SecretsKept(p)
  BY <1>4, IdleHasNothing DEF OpIssued, SecretsKept
<1> QED BY <1>3, <1>5 DEF TokenInv

LEMMA TokensInductive == IInv /\ IInv' /\ TokenInv /\ [Next]_vars => TokenInv'
<1> SUFFICES ASSUME IInv, IInv', TokenInv, [Next]_vars PROVE TokenInv'
  OBVIOUS
<1>1. CASE UNCHANGED vars
  BY <1>1 DEF vars, files, server, TokenInv, SecretsKept, Secret, Untouched
<1>2. ASSUME NEW p \in Procs, OperationStep(p) PROVE TokenInv'
  <2>1. Moves(p)
    BY <1>2, StepMoves DEF TokenInv
  <2> QED BY <2>1, NumbersKept, SecretsStay DEF TokenInv
<1> QED BY <1>1, <1>2, OfficialSteps, OfficialKeepsTokens, CrashKeepsTokens
        DEF Next, OperationStep

LEMMA TokensInvariant == Spec => [](IInv /\ TokenInv)
<1>1. Init => TokenInv
  BY InitTokens
<1> QED BY <1>1, Invariant, TokensInductive, PTL DEF Spec
-----------------------------------------------------------------------------
\* A mirror writes a token that works, or the vault's over an aligned login.
LEMMA MirrorKeepsLogin ==
  ASSUME IInv, TokenInv, NEW p \in Procs, NEW n \in Nat,
         op[p].at \in {"answer", "quota", "settle"}, op[p].tgt \in Accts,
         cur = op[p].tgt, CanMirror(n), Holds(op[p], cur, n), op[p].at = "answer" => n = op[p].got,
         auth' = Tok(cur, n), auth' # auth
  PROVE  auth'.num > auth.num \/ auth'.num \in live[auth'.acct] \/ Behind
<1>1. auth'.num = n /\ auth'.acct = cur
  BY DEF Tok
<1>2. CASE op[p].at = "answer"
  <2>1. n \in live[cur]
    BY <1>2 DEF TokenInv, SecretsKept, Secret, Untouched
  <2> QED BY <1>1, <2>1
<1>3. CASE op[p].at # "answer"
  <2>1. n = op[p].mem /\ vault[cur] = n
    BY <1>3, Facts DEF Holds, Local, CopyFresh, CopyPlaces
  <2>2. ProjectionAligned /\ IsToken(auth) /\ Managed
    BY <2>1, ConstantsAssumption DEF CanMirror, Managed
  <2>3. auth.num \in Nat /\ auth = Tok(cur, auth.num)
    BY <2>2, FileTypes DEF ProjectionAligned, Honest, Tok, AnyToken
  <2>4. auth.num # n
    BY <2>3
  <2> QED BY <1>1, <2>1, <2>2, <2>3, <2>4 DEF Behind
<1> QED BY <1>2, <1>3

\* A vault that is not behind falls behind only by a login saved late, an adoption
\* or a rollback.
LEMMA FallsBehind ==
  ASSUME IInv, TokenInv, NEW p \in Procs, Moves(p), Behind', ~ Behind
  PROVE  Overtakes
<1> SUFFICES ASSUME op[p].at \notin {"save", "point", "start"} PROVE FALSE
  BY DEF Overtakes, Moves
<1>1. /\ cur' \in Accts \cup {None} /\ cur' # None
      /\ vault'[cur'] # None /\ auth' # None /\ auth' # Unsupported
      /\ ProjectionAligned' /\ vault'[cur'] < auth'.num
  <2>1. IsToken(auth') /\ Managed' /\ ProjectionAligned' /\ vault'[cur'] < auth'.num
    BY DEF Behind, IsToken
  <2>2. cur' \in Accts \cup {None}
    BY FileTypes, Facts DEF Moves, Writes, WritesToken, Settles, Restores, Points, Local, Shape
  <2> QED BY <2>1, <2>2 DEF Managed, IsToken
<1>2. CASE UNCHANGED <<auth, proj, cur>>
  <2>1. ProjectionAligned /\ IsToken(auth) /\ cur \in Accts
    BY <1>1, <1>2 DEF ProjectionAligned, IsToken
  <2>2. auth.num \in Nat
    BY <2>1, FileTypes
  <2>3. vault[cur] # None => ~ (vault[cur] < auth.num)
    BY <1>1, <1>2, <2>1 DEF Behind, Managed
  <2>4. CASE vault'[cur] \in {vault[cur], None}
    BY <1>1, <1>2, <2>3, <2>4
  <2>5. ASSUME NEW n, n = vault'[cur], auth = Tok(cur, n) PROVE FALSE
    <3>1. auth.num = n
      BY <2>5 DEF Tok
    <3> QED BY <1>1, <1>2, <2>2, <2>5, <3>1
  <2>6. ASSUME Holds(op[p], cur, vault'[cur]), op[p].at \in {"post", "answer", "quota", "settle"}
        PROVE  FALSE
    <3>1. /\ op[p].tgt = cur /\ vault[cur] = op[p].mem /\ op[p].mem \in Nat
          /\ (op[p].at = "answer" => op[p].got \in Nat)
      BY <2>6, Facts DEF Holds, Local, CopyFresh, CopyPlaces, Shape
    <3>2. op[p].at = "answer" => op[p].mem < op[p].got
      BY DEF TokenInv, OpIssued
    <3>3. vault'[cur] \in Nat /\ op[p].mem <= vault'[cur]
      BY <2>6, <3>1, <3>2 DEF Holds
    <3> QED BY <1>1, <1>2, <2>2, <2>3, <3>1, <3>3, ConstantsAssumption
  <2> QED BY <1>1, <1>2, <2>1, <2>4, <2>5, <2>6 DEF Moves, Saves, Deletes, CopyPlaces
<1>3. CASE WritesToken(op[p])
  <2>1. PICK n \in Nat : auth'.num = n /\ vault'[cur'] = n
    BY <1>3 DEF WritesToken, Tok
  <2> QED BY <1>1, <2>1
<1>4. CASE Settles
  <2>1. auth'.num \in Nat /\ vault'[cur'] = auth'.num
    BY <1>4 DEF Settles, AnyToken
  <2> QED BY <1>1, <2>1
<1> QED BY <1>2, <1>3, <1>4 DEF Moves, Writes, Restores, Points

\* The official app never makes a login the manager has a projection of.
LEMMA OfficialLeavesUpToDate ==
  ASSUME IInv, TokenInv, OfficialMoves, Behind'
  PROVE  Behind
<1>1. /\ vault' = vault /\ cur' = cur /\ proj' = proj
      /\ proj # None /\ proj.of = auth' /\ proj.of \in AnyToken /\ IsToken(auth')
  BY FileTypes DEF OfficialMoves, Behind, ProjectionAligned, Projection, IsToken
<1>2. auth' = auth
  <2>1. ASSUME NEW a \in Accts, auth' = Tok(a, issued[a] + 1) PROVE FALSE
    <3>1. proj.of.acct = a /\ proj.of.num = issued[a] + 1
      BY <1>1, <2>1 DEF Tok
    <3>2. proj.of.num <= issued[proj.of.acct]
      BY <1>1 DEF TokenInv, FilesIssued, LoginIssued
    <3> QED BY <3>1, <3>2, OtherTypes
  <2> QED BY <1>1, <2>1 DEF OfficialMoves, IsToken
<1> QED BY <1>1, <1>2 DEF Behind, ProjectionAligned, Managed, IsToken

\* Nor does a crash, but in the middle of a rollback or of an adoption.
LEMMA CrashLeavesUpToDate ==
  ASSUME IInv, TokenInv, CrashStep, Behind', ~ Behind
  PROVE  Overtakes
<1>1. \A q \in Procs : op'[q].at = "idle"
  BY IdleHasNothing
     DEF CrashStep, Crash, CrashInCommit, CrashInRollback, CrashInPoint, CrashInMirror, Dies
<1>2. IsToken(auth') /\ Managed' /\ ProjectionAligned' /\ vault'[cur'] < auth'.num
  BY DEF Behind, IsToken
<1>3. CASE Crash
  BY <1>3 DEF Crash, files, Behind, ProjectionAligned, Managed, IsToken
<1>4. ASSUME NEW p \in Procs, CrashInRollback(p) \/ CrashInPoint(p) PROVE Overtakes
  BY <1>1, <1>4 DEF CrashInRollback, CrashInPoint, Overtakes
<1>5. ASSUME NEW p \in Procs, CrashInCommit(p) PROVE FALSE
  <2> DEFINE a == op[p].tgt
             m == op[p].mem
  <2>1. /\ a \in Accts /\ m \in Nat
        /\ vault[a] = m \/ vault[a] = None
    BY <1>5, Facts DEF CrashInCommit, Local, Shape, CopyFresh, CopyPlaces
  <2>2. PICK n \in 0 .. (AllWrites - 1) : SwitchFiles(p, n)
    BY <1>5 DEF CrashInCommit
  <2>3. vault' = vault /\ vault'[cur'] # None
    BY <1>2, <2>2 DEF SwitchFiles, AllWrites, Managed
  <2>4. CASE auth' = Tok(a, m)
    <3>1. auth'.num = m /\ auth'.acct = a
      BY <2>4 DEF Tok
    <3>2. Honest(proj')
      BY <2>2, FileTypes DEF SwitchFiles, Honest, Tok
    <3>3. cur' = a
      BY <1>2, <3>1, <3>2 DEF ProjectionAligned, Honest
    <3> QED BY <1>2, <2>1, <2>3, <3>1, <3>3
  <2>5. CASE auth' = auth /\ proj' = proj /\ cur' = cur
    BY <1>2, <2>3, <2>5 DEF Behind, ProjectionAligned, Managed, IsToken
  <2> QED BY <2>2, <2>4, <2>5 DEF SwitchFiles
<1>6. ASSUME NEW p \in Procs, CrashInMirror(p) PROVE FALSE
  <2> DEFINE a == op[p].tgt
  <2>1. /\ a \in Accts /\ op[p].mem \in Nat /\ vault[a] = op[p].mem
        /\ (op[p].at = "answer" => op[p].got \in Nat /\ op[p].mem < op[p].got)
    BY <1>6, Facts DEF CrashInMirror, Local, Shape, CopyFresh, CopyPlaces, TokenInv, OpIssued
  <2>2. PICK n \in Nat : /\ op[p].mem <= n
                         /\ vault' = [vault EXCEPT ![a] = n]
                         /\ auth' = auth \/ (cur = a /\ auth' = Tok(a, n))
    <3> DEFINE n == IF op[p].at = "answer" THEN op[p].got ELSE op[p].mem
    <3>1. n \in Nat /\ op[p].mem <= n
      BY <2>1
    <3>2. /\ vault' = [vault EXCEPT ![a] = n]
          /\ auth' = auth \/ (cur = a /\ auth' = Tok(a, n))
      BY <1>6 DEF CrashInMirror
    <3> HIDE DEF n
    <3> QED BY <3>1, <3>2
  <2>3. vault'[a] = n /\ \A b \in Accts : b # a => vault'[b] = vault[b]
    BY <2>1, <2>2, FileTypes
  <2>4. cur' = cur /\ proj' = proj /\ cur \in Accts /\ cur # None
    BY <1>2, <1>6, FileTypes DEF CrashInMirror, Managed
  <2>5. auth' # Tok(a, n) \/ cur # a
    <3> SUFFICES ASSUME auth' = Tok(a, n), cur = a PROVE FALSE
      OBVIOUS
    <3>1. auth'.num = n
      BY DEF Tok
    <3> QED BY <1>2, <2>3, <2>4, <3>1
  <2>6. auth' = auth /\ ProjectionAligned /\ IsToken(auth)
    BY <1>2, <2>2, <2>4, <2>5 DEF ProjectionAligned, IsToken
  <2>7. vault[cur] # None => ~ (vault[cur] < auth.num)
    BY <2>4, <2>6 DEF Behind, Managed
  <2>8. auth.num \in Nat
    BY <2>6, FileTypes
  <2>9. CASE cur = a
    BY <1>2, <2>1, <2>2, <2>3, <2>4, <2>6, <2>7, <2>8, <2>9, ConstantsAssumption
  <2>10. CASE cur # a
    BY <1>2, <2>3, <2>4, <2>6, <2>7, <2>10 DEF Managed
  <2> QED BY <2>9, <2>10
<1> QED BY <1>3, <1>4, <1>5, <1>6 DEF CrashStep

\* A refresh or the background mirror, a crash in the middle of it included, puts
\* an older token over a login that works only where the vault had fallen behind
\* what it gave to official Codex, and only a late sign-in, an adoption or a
\* rollback brings that about: whatever official Codex does meanwhile.
THEOREM WorkingLoginSurvives == Spec => LoginSurvivesMirror
<1> DEFINE Survives ==
             Mirrors /\ ~ UserSwitching /\ auth' # auth /\ auth.num \in live[auth.acct]
               => auth'.num > auth.num \/ auth'.num \in live[auth'.acct] \/ Behind
           KeepsUp == Behind' => Behind \/ Overtakes
<1>1. IInv /\ TokenInv /\ [Next]_vars => [Survives /\ KeepsUp]_vars
  <2> SUFFICES ASSUME IInv, TokenInv, Next PROVE Survives /\ KeepsUp
    OBVIOUS
  <2>1. ASSUME NEW p \in Procs, OperationStep(p) PROVE Survives /\ KeepsUp
    <3>1. Moves(p)
      BY <2>1, StepMoves DEF TokenInv
    <3>2. KeepsUp
      BY <3>1, FallsBehind
    <3>3. Survives
      <4> SUFFICES ASSUME ~ UserSwitching, auth' # auth
                   PROVE  auth'.num > auth.num \/ auth'.num \in live[auth'.acct] \/ Behind
        OBVIOUS
      <4>1. op[p].at \notin {"kill", "start"}
        BY <3>1 DEF UserSwitching, Moves
      <4>2. WritesToken(op[p])
        BY <3>1, <4>1 DEF Moves, Writes, Settles, Restores, Points
      <4> QED BY <4>1, <4>2, MirrorKeepsLogin DEF WritesToken
    <3> QED BY <3>2, <3>3
  <2>2. CASE OfficialStep
    <3>1. ~ Mirrors
      BY <2>2, OfficialSteps DEF OfficialMoves, Mirrors
    <3> QED BY <2>2, <3>1, OfficialSteps, OfficialLeavesUpToDate
  <2>3. CASE CrashStep
    <3>1. KeepsUp
      BY <2>3, CrashLeavesUpToDate
    <3>2. Survives
      <4> SUFFICES ASSUME ~ UserSwitching, auth' # auth
                   PROVE  auth'.num > auth.num \/ auth'.num \in live[auth'.acct] \/ Behind
        OBVIOUS
      <4>1. ASSUME NEW p \in Procs, CrashInCommit(p) \/ CrashInRollback(p) PROVE FALSE
        BY <4>1, IdleHasNothing DEF CrashInCommit, CrashInRollback, Dies, UserSwitching
      <4>2. PICK p \in Procs : CrashInMirror(p)
        BY <2>3, <4>1 DEF CrashStep, Crash, CrashInPoint, files
      <4>3. /\ op[p].tgt \in Accts /\ op[p].mem \in Nat
            /\ (op[p].at = "answer" => op[p].got \in Nat)
        BY <4>2, Facts DEF CrashInMirror, Local, Shape
      <4>4. PICK n \in Nat : /\ cur = op[p].tgt /\ CanMirror(n) /\ auth' = Tok(cur, n)
                             /\ Holds(op[p], cur, n)
                             /\ op[p].at \in {"answer", "quota", "settle"}
                             /\ op[p].at = "answer" => n = op[p].got
        BY <4>2, <4>3 DEF CrashInMirror, Holds
      <4> QED BY <4>3, <4>4, MirrorKeepsLogin
    <3> QED BY <3>1, <3>2
  <2> QED BY <2>1, <2>2, <2>3 DEF Next, OperationStep
<1> QED BY <1>1, TokensInvariant, PTL DEF Spec, LoginSurvivesMirror
-----------------------------------------------------------------------------
(* The login official Codex got by itself.  Where the projection is not of   *)
(* the login in auth.json, official Codex made that login, and the manager   *)
(* cannot have spent it: it has not got it.  Adopting a login and a crash    *)
(* between two writes both give the manager a token that the projection does *)
(* not show, so what rests on this is stated without them.                   *)

AlignedWith(c, u, j) == j # None /\ j.by = c /\ j.of = u

\* A login the manager did not write, in auth.json and in a capture.
ForeignLogin ==
  auth \in AnyToken /\ ~ ProjectionAligned => Untouched(auth.acct, auth.num, {})
ForeignCapture(p) ==
  op[p].at = "start" /\ op[p].snap.auth \in AnyToken
    /\ ~ AlignedWith(op[p].snap.cur, op[p].snap.auth, op[p].snap.proj) =>
      /\ Untouched(op[p].snap.auth.acct, op[p].snap.auth.num, {})
      /\ auth # op[p].snap.auth
ForeignInv == ForeignLogin /\ \A p \in Procs : ForeignCapture(p)

LEMMA InitForeign == Init => ForeignInv
<1> SUFFICES ASSUME Init PROVE ForeignInv
  OBVIOUS
<1>1. \A p \in Procs : op[p].at # "start"
  BY IdleHasNothing DEF Init
<1>2. auth \in AnyToken => cur # None /\ proj = [by |-> cur, of |-> auth] /\ cur \in Accts
  BY ConstantsAssumption DEF Init, AnyToken
<1>3. ASSUME auth \in AnyToken PROVE ProjectionAligned
  <2>1. proj \in [by : Accts, of : AnyToken]
    BY <1>2, <1>3
  <2>2. proj # None
    BY <2>1, ConstantsAssumption DEF AnyToken
  <2> QED BY <1>2, <1>3, <2>2 DEF ProjectionAligned
<1> QED BY <1>1, <1>3 DEF ForeignInv, ForeignLogin, ForeignCapture

\* What a step of an operation leaves of a token that the manager has not got.
LEMMA ForeignStays ==
  ASSUME "adopt" \notin Kinds,
         IInv, TokenInv, NEW p \in Procs, Moves(p), NEW a \in Accts, NEW n \in Nat,
         Untouched(a, n, {}), n <= issued[a]
  PROVE  /\ auth # Tok(a, n) \/ ~ (auth' = auth /\ ProjectionAligned') => Untouched(a, n, {})'
         /\ auth' = Tok(a, n) => auth = Tok(a, n) \/ op[p].at = "start"
<1>1. ~ Holds(op[p], a, n)
  BY DEF Untouched
<1>2. auth # Tok(a, n) \/ ~ (auth' = auth /\ ProjectionAligned') => Untouched(a, n, {})'
  BY UntouchedStays
<1>3. ASSUME NEW m, Holds(op[p], op[p].tgt, m), auth' = Tok(op[p].tgt, m)
      PROVE  auth' # Tok(a, n)
  BY <1>1, <1>3 DEF Tok
<1> QED BY <1>2, <1>3, AuthAfter

\* The projection of a step that writes a token, or settles, is of the login.
LEMMA WrittenAligned ==
  ASSUME IInv, IInv', NEW p \in Procs, WritesToken(op[p]) \/ Settles
  PROVE  ProjectionAligned'
<1>1. proj' \in [by : Accts, of : AnyToken] /\ proj'.by = cur' /\ proj'.of = auth'
  <2>1. CASE WritesToken(op[p])
    BY <2>1 DEF WritesToken, Tok, AnyToken
  <2>2. CASE Settles
    BY <2>2 DEF Settles, AnyToken
  <2> QED BY <2>1, <2>2
<1>2. proj' # None
  BY <1>1, ConstantsAssumption DEF AnyToken
<1> QED BY <1>1, <1>2 DEF ProjectionAligned

LEMMA ForeignLoginStays ==
  ASSUME "adopt" \notin Kinds,
         IInv, IInv', TokenInv, ForeignInv, NEW p \in Procs, Moves(p), op[p].kind # "adopt"
  PROVE  ForeignLogin'
<1> SUFFICES ASSUME NEW a \in Accts, NEW n \in Nat, auth' = Tok(a, n), ~ ProjectionAligned'
             PROVE  Untouched(a, n, {})'
  BY DEF ForeignLogin, AnyToken, Tok, Untouched
<1>1. LoginIssued(auth, issued)
  BY DEF TokenInv, FilesIssued
<1>2. CASE UNCHANGED <<auth, proj, cur>>
  <2>1. auth = Tok(a, n) /\ ~ ProjectionAligned
    BY <1>2 DEF ProjectionAligned
  <2>2. Untouched(a, n, {}) /\ n <= issued[a]
    BY <1>1, <2>1 DEF ForeignInv, ForeignLogin, LoginIssued, Tok, AnyToken
  <2> QED BY <2>2, ForeignStays
<1>3. CASE Restores(op[p])
  <2>1. LoginIssued(op[p].snap.auth, issued) /\ op[p].snap.auth = Tok(a, n)
    BY <1>3 DEF Restores, TokenInv, OpIssued
  <2>2. ~ AlignedWith(op[p].snap.cur, op[p].snap.auth, op[p].snap.proj)
    BY <1>3 DEF Restores, AlignedWith, ProjectionAligned
  <2>3. /\ Untouched(a, n, {}) /\ n <= issued[a]
        /\ auth # Tok(a, n)
    BY <1>3, <2>1, <2>2 DEF Restores, ForeignInv, ForeignCapture, LoginIssued, Tok, AnyToken
  <2> QED BY <2>3, ForeignStays
<1>4. ~ Points(op[p])
  BY Facts DEF Points, Local, Shape
<1>5. ~ WritesToken(op[p]) /\ ~ Settles
  BY WrittenAligned
<1> QED BY <1>2, <1>3, <1>4, <1>5 DEF Moves, Writes

LEMMA ForeignCapturesStay ==
  ASSUME "adopt" \notin Kinds,
         IInv, TokenInv, ForeignInv, NEW p \in Procs, Moves(p), NEW q \in Procs
  PROVE  ForeignCapture(q)'
<1> SUFFICES ASSUME NEW a \in Accts, NEW n \in Nat, op'[q].at = "start",
                    op'[q].snap.auth = Tok(a, n),
                    ~ AlignedWith(op'[q].snap.cur, op'[q].snap.auth, op'[q].snap.proj)
             PROVE  Untouched(a, n, {})' /\ auth' # Tok(a, n)
  BY DEF ForeignCapture, AnyToken, Tok, Untouched
<1>1. CASE q = p
  <2>1. /\ op[p].at = "kill" /\ auth = Tok(a, n) /\ ~ ProjectionAligned
        /\ auth' = Tok(op[p].tgt, op[p].mem)
    BY <1>1 DEF Moves, Captures, Captured, AlignedWith, ProjectionAligned
  <2>2. Untouched(a, n, {}) /\ n <= issued[a]
    BY <2>1 DEF ForeignInv, ForeignLogin, TokenInv, FilesIssued, LoginIssued, Tok, AnyToken
  <2>3. auth' # Tok(a, n)
    <3>1. ~ Holds(op[p], a, n)
      BY <2>2 DEF Untouched
    <3> QED BY <2>1, <3>1 DEF Tok, Holds
  <2> QED BY <2>1, <2>2, <2>3, ForeignStays
<1>2. CASE q # p
  <2>1. op'[q] = op[q]
    BY <1>2 DEF Moves
  <2>2. Untouched(a, n, {}) /\ auth # Tok(a, n)
    BY <2>1 DEF ForeignInv, ForeignCapture, Tok, AnyToken
  <2>3. LoginIssued(Tok(a, n), issued)
    BY <2>1 DEF TokenInv, OpIssued
  <2>4. n <= issued[a]
    BY <2>3 DEF LoginIssued, Tok, AnyToken
  <2>5. op[p].at # "start"
    <3> SUFFICES ASSUME op[p].at = "start" PROVE FALSE
      OBVIOUS
    <3>1. SwitchLock \in op[p].held /\ SwitchLock \in op[q].held
      BY <2>1, Facts DEF Local, Shape
    <3> QED BY <1>2, <3>1 DEF IInv, Apart
  <2> QED BY <2>2, <2>4, <2>5, ForeignStays
<1> QED BY <1>1, <1>2

LEMMA OfficialKeepsForeign ==
  ASSUME IInv, TokenInv, ForeignInv, OfficialMoves
  PROVE  ForeignInv'
<1>1. vault' = vault /\ op' = op /\ proj' = proj /\ cur' = cur
  BY DEF OfficialMoves
<1>2. ForeignLogin'
  <2> SUFFICES ASSUME NEW a \in Accts, NEW n \in Nat, auth' = Tok(a, n), ~ ProjectionAligned'
               PROVE  Untouched(a, n, {})'
    BY DEF ForeignLogin, AnyToken, Tok, Untouched
  <2>1. CASE auth' = auth
    <3>1. auth = Tok(a, n) /\ ~ ProjectionAligned
      BY <1>1, <2>1 DEF ProjectionAligned
    <3>2. Untouched(a, n, {}) /\ n <= issued[a]
      BY <3>1 DEF ForeignInv, ForeignLogin, TokenInv, FilesIssued, LoginIssued, Tok, AnyToken
    <3> QED BY <2>1, <3>2, OfficialLeavesAlone
  <2>2. CASE auth' # auth
    <3>1. n = issued[a] + 1 /\ n \in live'[a]
      <4>1. auth' \notin {None, Unsupported}
        BY ConstantsAssumption DEF Tok
      <4> QED BY <2>2, <4>1 DEF OfficialMoves, Tok
    <3>2. vault[a] # n
      <4>1. vault[a] # None => vault[a] <= issued[a]
        BY DEF TokenInv, FilesIssued, NumberIssued
      <4> QED BY <3>1, <4>1, OtherTypes, ConstantsAssumption
    <3>3. \A q \in Procs : ~ Holds(op[q], a, n)
      BY <3>1, HeldIsIssued, OtherTypes, ConstantsAssumption
    <3> QED BY <1>1, <3>1, <3>2, <3>3 DEF Untouched
  <2> QED BY <2>1, <2>2
<1>3. ASSUME NEW q \in Procs PROVE ForeignCapture(q)'
  <2> SUFFICES ASSUME NEW a \in Accts, NEW n \in Nat, op[q].at = "start",
                      op[q].snap.auth = Tok(a, n),
                      ~ AlignedWith(op[q].snap.cur, op[q].snap.auth, op[q].snap.proj)
               PROVE  Untouched(a, n, {})' /\ auth' # Tok(a, n)
    BY <1>1 DEF ForeignCapture, AnyToken, Tok, Untouched
  <2>1. Untouched(a, n, {}) /\ auth # Tok(a, n)
    BY DEF ForeignInv, ForeignCapture, Tok, AnyToken
  <2>2. LoginIssued(Tok(a, n), issued)
    BY DEF TokenInv, OpIssued
  <2>3. n <= issued[a]
    BY <2>2 DEF LoginIssued, Tok, AnyToken
  <2> QED BY <2>1, <2>3, OfficialLeavesAlone
<1> QED BY <1>2, <1>3 DEF ForeignInv
-----------------------------------------------------------------------------
\* What a step makes of the kind of an operation.
Follows(p) == \/ op'[p] = Idle
              \/ op[p] = Idle /\ op'[p].kind \in Kinds
              \/ op[p] # Idle /\ op'[p].kind = op[p].kind

LEMMA CallFollows ==
  ASSUME IInv, NEW p \in Procs, NEW kind \in Kinds, NEW at, NEW a, NEW want, NEW mem,
         op[p] = Idle, op' = [op EXCEPT ![p] = Call(kind, at, a, want, mem)]
  PROVE  Follows(p)
<1> DEFINE r == Call(kind, at, a, want, mem)
<1>1. r.kind = kind
  BY DEF Call, Idle
<1>2. op'[p] = r
  BY Facts
<1> HIDE DEF r
<1> QED BY <1>1, <1>2 DEF Follows

LEMMA StepFollows ==
  ASSUME IInv, NEW p \in Procs, OperationStep(p)
  PROVE  Follows(p)
<1>0. /\ op[p] \in Operation /\ op \in [Procs -> Operation] /\ (op[p].at # "idle" => op[p] # Idle)
  BY Facts, IdleHasNothing
<1>1. ASSUME NEW a \in Accts, CallSwitch(p, a) PROVE Follows(p)
  <2>1. PICK kind \in {"switch", "reapply"} \cap Kinds :
          op' = [op EXCEPT ![p] = Call(kind, "wait", a, SwitchLocks(a), None)]
    BY <1>1 DEF CallSwitch
  <2> QED BY <1>1, <2>1, CallFollows DEF CallSwitch
<1>2. ASSUME NEW a \in Accts, CallSignIn(p, a) PROVE Follows(p)
  BY <1>2, CallFollows DEF CallSignIn
<1>3. ASSUME CallAdopt(p) PROVE Follows(p)
  BY <1>3, CallFollows DEF CallAdopt
<1>4. ASSUME NEW a \in Accts, CallRefresh(p, a) PROVE Follows(p)
  <2>1. PICK kind \in RefreshKinds \cap Kinds :
          op' = [op EXCEPT ![p] = Call(kind, "wait", a, RefreshLocks(kind, a), None)]
    BY <1>4 DEF CallRefresh
  <2> QED BY <1>4, <2>1, CallFollows DEF CallRefresh
<1>5. ASSUME NEW a \in Accts, CallDelete(p, a) PROVE Follows(p)
  BY <1>5, CallFollows DEF CallDelete
<1>6. ASSUME Leave(p) PROVE Follows(p)
  BY <1>0, <1>6 DEF Leave, Follows
<1>7. ASSUME Enter(p, "kill", Loaded(p)), op[p].at = "wait" PROVE Follows(p)
  BY <1>0, <1>7 DEF Enter, Operation, Follows
<1>8. ASSUME BeginSwitch(p) PROVE Follows(p)
  BY <1>6, <1>7, <1>8 DEF BeginSwitch, Granted
<1>9. ASSUME KillFails(p) \/ CommitFails(p) PROVE Follows(p)
  BY <1>0, <1>9 DEF KillFails, CommitFails, Move, Operation, Follows
<1>10. ASSUME CommitSwitch(p) \/ StartFails(p) PROVE Follows(p)
  BY <1>0, <1>10 DEF CommitSwitch, StartFails, Operation, Follows
<1>11. ASSUME SaveSignIn(p) PROVE Follows(p)
  <2>1. ASSUME op' = [op EXCEPT ![p].at = "wait", ![p].want = SwitchLocks(op[p].tgt)]
        PROVE  op'[p].kind = op[p].kind
    BY <1>0, <2>1 DEF Operation
  <2> QED BY <1>0, <1>6, <1>11, <2>1 DEF SaveSignIn, Granted, Follows
<1>12. ASSUME BeginAdopt(p) \/ SaveAdopt(p) PROVE Follows(p)
  BY <1>0, <1>12 DEF BeginAdopt, SaveAdopt, Granted, Operation, Follows
<1>13. ASSUME BeginRefresh(p), ~ Leave(p) PROVE Follows(p)
  <2>1. PICK at \in {"post", "quota", "settle"} :
           op' = [op EXCEPT ![p].at = at, ![p].mem = vault[op[p].tgt],
                            ![p].mend = (op[p].kind # "token"),
                            ![p].held = op[p].want, ![p].want = {}]
    BY <1>13 DEF BeginRefresh, Places
  <2>2. op'[p].kind = op[p].kind
    BY <1>0, <2>1 DEF Operation
  <2> QED BY <1>0, <1>13, <2>2 DEF Follows, BeginRefresh, Granted
<1>14. ASSUME RepairToken(p) \/ ServerRotates(p) PROVE Follows(p)
  BY <1>0, <1>14 DEF RepairToken, ServerRotates, Operation, Follows
<1>15. ASSUME ReceiveToken(p) \/ RefuseToken(p) \/ LoseAnswer(p) PROVE Follows(p)
  <2>1. \E n \in Nat : \E at \in {"quota", "settle"} : AfterToken(p, n, at)
    BY <1>15, Facts DEF ReceiveToken, RefuseToken, LoseAnswer, Local, Shape
  <2>2. op'[p] = Idle \/ op'[p].kind = op[p].kind
    BY <2>1, Facts, AfterTokenShape
  <2>3. op[p].at # "idle"
    BY <1>15 DEF ReceiveToken, RefuseToken, LoseAnswer
  <2> QED BY <1>0, <2>2, <2>3 DEF Follows
<1>16. CASE SwitchStep(p)
  BY <1>1, <1>6, <1>8, <1>9, <1>10, <1>16
     DEF SwitchStep, StartSucceeds, RestartAfterFailure
<1>17. CASE LoginStep(p)
  BY <1>2, <1>3, <1>6, <1>11, <1>12, <1>17 DEF LoginStep, PointAdopt
<1>18. CASE RefreshStep(p)
  BY <1>4, <1>6, <1>13, <1>14, <1>15, <1>18 DEF RefreshStep, FinishQuota
<1>19. CASE DeleteStep(p)
  BY <1>5, <1>6, <1>19 DEF DeleteStep, BeginDelete
<1> QED BY <1>16, <1>17, <1>18, <1>19 DEF OperationStep

\* Nobody adopts where that may not be called.
NoAdoption == \A p \in Procs : op[p].kind # "adopt"

LEMMA NoAdoptionKept ==
  ASSUME "adopt" \notin Kinds, IInv, TokenInv, NoAdoption, NEW p \in Procs, OperationStep(p)
  PROVE  NoAdoption'
<1>1. op'[p].kind # "adopt"
  BY StepFollows, IdleHasNothing DEF Follows, NoAdoption
<1>2. \A q \in Procs \ {p} : op'[q] = op[q]
  BY StepMoves DEF Moves, TokenInv
<1> QED BY <1>1, <1>2 DEF NoAdoption

LEMMA ForeignInductive ==
  ASSUME "adopt" \notin Kinds, "crash" \notin Outside,
         IInv, IInv', TokenInv, ForeignInv, NoAdoption, [Next]_vars
  PROVE  ForeignInv' /\ NoAdoption'
<1>1. CASE UNCHANGED vars
  BY <1>1 DEF NoAdoption, ForeignInv, ForeignLogin, ForeignCapture, Untouched, ProjectionAligned,
              vars, files, server
<1>2. ASSUME NEW p \in Procs, OperationStep(p) PROVE ForeignInv' /\ NoAdoption'
  <2>1. Moves(p)
    BY <1>2, StepMoves DEF TokenInv
  <2>2. op[p].kind # "adopt"
    BY DEF NoAdoption
  <2>3. ForeignLogin'
    BY <2>1, <2>2, ForeignLoginStays
  <2>4. \A q \in Procs : ForeignCapture(q)'
    BY <2>1, ForeignCapturesStay
  <2> QED BY <1>2, <2>3, <2>4, NoAdoptionKept DEF ForeignInv
<1>3. CASE OfficialStep
  <2>1. OfficialMoves
    BY <1>3, OfficialSteps
  <2> QED BY <2>1, OfficialKeepsForeign DEF NoAdoption, OfficialMoves
<1> QED BY <1>1, <1>2, <1>3 DEF Next, OperationStep, CrashStep

\* The invariant of the runs without adoptions and without crashes.
LEMMA ForeignInvariant ==
  ASSUME "adopt" \notin Kinds, "crash" \notin Outside
  PROVE  Spec => [](IInv /\ TokenInv /\ ForeignInv /\ NoAdoption)
<1>1. Init => ForeignInv
  BY InitForeign
<1>2. Init => NoAdoption
  BY IdleHasNothing DEF Init, NoAdoption
<1>3. IInv /\ IInv' /\ TokenInv /\ ForeignInv /\ NoAdoption /\ [Next]_vars
        => ForeignInv' /\ NoAdoption'
  BY ForeignInductive
<1> QED BY <1>1, <1>2, <1>3, TokensInvariant, PTL DEF Spec
-----------------------------------------------------------------------------
\* What a crash leaves of a working token: the crash in the middle of a mirror has
\* saved the answer, or the copy that is the file.
LEMMA CrashKeepsWorking ==
  ASSUME IInv, TokenInv, CrashStep, NEW a \in Accts,
         vault[a] \in live[a], vault'[a] # vault[a], vault'[a] # None
  PROVE  vault'[a] \in live[a]
<1>1. vault[a] # None /\ vault \in [Accts -> Numbers]
  BY OtherTypes, FileTypes, ConstantsAssumption
<1>2. ASSUME NEW p \in Procs, CrashInCommit(p) \/ CrashInRollback(p) PROVE vault' = vault
  BY <1>2 DEF CrashInCommit, CrashInRollback, SwitchFiles, RestoredFiles, AllWrites
<1>3. PICK p \in Procs : CrashInMirror(p)
  BY <1>2 DEF CrashStep, Crash, CrashInPoint, files
<1>4. op[p].at \in CopyPlaces /\ op[p].tgt \in Accts /\ vault[op[p].tgt] = op[p].mem
  BY <1>3, Facts DEF CrashInMirror, CopyPlaces, Local, Shape, CopyFresh
<1>5. a = op[p].tgt /\ op[p].at = "answer" /\ vault'[a] = op[p].got
  BY <1>1, <1>3, <1>4 DEF CrashInMirror
<1> QED BY <1>5 DEF TokenInv, SecretsKept, Secret, Untouched

\* The token that an operation saves over one that works, works; unless the operation
\* adopts, or finds the token in auth.json.
LEMMA SaveKeepsWorking ==
  ASSUME IInv, TokenInv, NEW p \in Procs, OperationStep(p), NEW a \in Accts,
         vault[a] \in live[a], vault'[a] # vault[a], vault'[a] # None
  PROVE  \/ vault'[a] \in live[a]
         \/ Adopts(p)
         \/ SettlesOn(a) /\ auth \in AnyToken /\ ~ ProjectionAligned
<1> DEFINE n == vault'[a]
<1>1. Moves(p) /\ SecretsKept(p) /\ op'[p] # op[p]
  BY StepMoves DEF TokenInv, Moves
<1>2. vault[a] # None
  BY OtherTypes, ConstantsAssumption
<1>3. ASSUME Holds(op[p], a, n), op[p].at \in CopyPlaces PROVE n \in live[a]
  <2>1. op[p].tgt = a /\ op[p].mem = vault[a]
    BY <1>2, <1>3, Facts DEF Holds, Local, CopyFresh
  <2>2. op[p].at = "answer" /\ op[p].got = n
    BY <1>3, <2>1 DEF Holds
  <2> QED BY <1>1, <2>1, <2>2 DEF SecretsKept, Secret, Untouched
<1>4. ASSUME Holds(op[p], a, n), op[p].at = "save" PROVE n \in live[a] \/ Adopts(p)
  <2>1. op[p].kind \in {"signin", "adopt"} /\ op[p].tgt = a /\ op[p].mem = n
    BY <1>4, Facts DEF Holds, Local, Shape
  <2> QED BY <1>1, <1>4, <2>1 DEF SecretsKept, Secret, Untouched, Adopts
<1> QED BY <1>1, <1>3, <1>4 DEF Moves, Saves, Deletes, SettlesOn

\* A working token in the vault is replaced only by one that works, for any accounts and
\* operations and with crashes anywhere, unless the user takes over what official Codex
\* has; and that does not replace one either, where nobody adopts and nothing crashes.
THEOREM VaultKeepsWorking == Spec => WorkingTokenKept
<1> DEFINE Replaced(a) == vault[a] \in live[a] /\ vault'[a] \notin {vault[a], None}
           Undisturbed == "adopt" \notin Kinds /\ "crash" \notin Outside
           Known == Undisturbed => ForeignInv
           Kept == \A a \in Accts : Replaced(a) =>
                     \/ vault'[a] \in live[a]
                     \/ \E p \in Procs : Adopts(p)
                     \/ ("adopt" \in Kinds \/ "crash" \in Outside) /\ SettlesOn(a)
<1>1. IInv /\ TokenInv /\ Known /\ [Next]_vars => [Kept]_vars
  <2> SUFFICES ASSUME IInv, TokenInv, Known, Next, NEW a \in Accts, Replaced(a)
               PROVE  \/ vault'[a] \in live[a]
                      \/ \E p \in Procs : Adopts(p)
                      \/ ("adopt" \in Kinds \/ "crash" \in Outside) /\ SettlesOn(a)
    OBVIOUS
  <2>1. ASSUME SettlesOn(a), auth \in AnyToken, ~ ProjectionAligned, Undisturbed
        PROVE  vault'[a] \in live[a]
    BY <2>1 DEF ForeignInv, ForeignLogin, Untouched, Tok, SettlesOn
  <2>2. CASE \E p \in Procs : OperationStep(p)
    BY <2>1, <2>2, SaveKeepsWorking
  <2>3. CASE OfficialStep
    BY <2>3, OfficialSteps DEF OfficialMoves
  <2>4. CASE CrashStep
    BY <2>4, CrashKeepsWorking
  <2> QED BY <2>2, <2>3, <2>4 DEF Next, OperationStep
<1>2. Spec => []Known
  <2>1. CASE Undisturbed
    BY <2>1, ForeignInvariant, PTL
  <2>2. CASE ~ Undisturbed
    BY <2>2, PTL
  <2> QED BY <2>1, <2>2
<1> QED BY <1>1, <1>2, TokensInvariant, PTL DEF Spec, WorkingTokenKept
-----------------------------------------------------------------------------
\* A conflict is an official login of another account beside a managed one, which
\* the projection does not explain.
Conflict ==
  auth \in AnyToken /\ cur # None /\ vault[cur] # None /\ ~ ProjectionAligned /\ auth.acct # cur

LEMMA ConflictMeans ==
  ASSUME IInv, IInv'
  PROVE  /\ AuthStatus = "conflict" <=> Conflict
         /\ AuthStatus' = "conflict" <=> Conflict'
<1>1. auth \in Official /\ auth' \in Official
  BY DEF IInv, TypeOK
<1>2. None \notin AnyToken /\ Unsupported \notin AnyToken /\ Unsupported # None
  BY ConstantsAssumption DEF AnyToken
<1>3. AuthStatus = "conflict" <=> Conflict
  BY <1>1, <1>2 DEF AuthStatus, Conflict, Managed, IsToken, Official
<1>4. AuthStatus' = "conflict" <=> Conflict'
  BY <1>1, <1>2 DEF AuthStatus, Conflict, Managed, IsToken, Official
<1> QED BY <1>3, <1>4

\* A switch that waits for Codex goes on without a write, or rolls back.
LEMMA StartStep ==
  ASSUME IInv, NEW p \in Procs, OperationStep(p), op[p].at = "start"
  PROVE  UNCHANGED files \/ op'[p].at = "restart"
<1>1. Shape(op[p]) /\ op[p].kind \in SwitchKinds
  BY Facts DEF Local, Shape
<1>2. CASE SwitchStep(p)
  <2>1. StartSucceeds(p) \/ StartFails(p)
    BY <1>2, IdleHasNothing
       DEF SwitchStep, CallSwitch, BeginSwitch, Granted, KillFails, CommitSwitch, CommitFails,
           RestartAfterFailure
  <2>2. StartFails(p) => op'[p].at = "restart"
    BY Facts DEF StartFails, Operation
  <2> QED BY <2>1, <2>2 DEF StartSucceeds
<1>3. ~ LoginStep(p)
  BY IdleHasNothing DEF LoginStep, CallSignIn, SaveSignIn, CallAdopt, BeginAdopt, SaveAdopt,
     PointAdopt, Granted
<1>4. ~ RefreshStep(p)
  BY IdleHasNothing DEF RefreshStep, CallRefresh, BeginRefresh, RepairToken, ServerRotates,
     ReceiveToken, RefuseToken, LoseAnswer, FinishQuota, Granted
<1>5. ~ DeleteStep(p)
  BY IdleHasNothing DEF DeleteStep, CallDelete, BeginDelete, Granted
<1> QED BY <1>2, <1>3, <1>4, <1>5 DEF OperationStep

LEMMA ConflictFrom ==
  ASSUME IInv, IInv', TokenInv, NEW p \in Procs, OperationStep(p), Conflict', ~ Conflict
  PROVE  CurrentReturns \/ RestoresConflict(p) \/ AdoptsTooLate(p)
<1>1. Moves(p)
  BY StepMoves DEF TokenInv
<1>2. auth' \in AnyToken /\ cur' # None /\ ~ ProjectionAligned' /\ auth'.acct # cur'
  BY DEF Conflict
<1>3. CASE UNCHANGED <<auth, proj, cur>>
  BY <1>2, <1>3 DEF Conflict, ProjectionAligned, CurrentReturns
<1>4. ASSUME Points(op[p]) PROVE AdoptsTooLate(p)
  <2>1. auth # Tok(op[p].tgt, op[p].mem)
    BY <1>2, <1>4 DEF Points, Tok
  <2> QED BY <1>1, <1>4, <2>1 DEF Points, Moves, AdoptsTooLate
<1>5. ASSUME Restores(op[p]), ~ UNCHANGED <<auth, proj, cur>> PROVE RestoresConflict(p)
  <2>1. op[p].at = "start" /\ op'[p].at = "restart"
    BY <1>5, StartStep DEF Restores, files
  <2>2. OfficialAcct(op[p].snap.auth) # op[p].snap.cur
    BY <1>2, <1>5, ConstantsAssumption DEF Restores, OfficialAcct, IsToken, AnyToken
  <2> QED BY <2>1, <2>2 DEF RestoresConflict
<1> QED BY <1>1, <1>2, <1>3, <1>4, <1>5, WrittenAligned DEF Moves, Writes

\* Whoever is killed was at something.
LEMMA CrashKills == IInv /\ CrashStep => Dying
<1> SUFFICES ASSUME IInv, CrashStep PROVE Dying
  OBVIOUS
<1>1. Dies => \A p \in Procs : op'[p] = Idle
  BY DEF Dies
<1>2. \A p \in Procs : op[p].at # "idle" => op[p] # Idle
  BY IdleHasNothing
<1> QED BY <1>1, <1>2 DEF CrashStep, Crash, CrashInCommit, CrashInRollback, CrashInPoint,
                          CrashInMirror, Dying

\* No step of the manager brings about a conflict between official Codex and the managed
\* account, but the rollback of a switch to files that were in one, an adoption that
\* official Codex has overtaken, a crash, or the return of a current account that was
\* deleted: for any accounts and operations.
THEOREM ConflictsComeFromOutside == Spec => NoHomemadeConflict
<1> DEFINE Outer == AuthStatus # "conflict" /\ AuthStatus' = "conflict" =>
             \/ OfficialActs \/ Dying \/ CurrentReturns
             \/ \E p \in Procs : RestoresConflict(p) \/ AdoptsTooLate(p)
<1>1. IInv /\ IInv' /\ TokenInv /\ [Next]_vars => [Outer]_vars
  <2> SUFFICES ASSUME IInv, IInv', TokenInv, Next, ~ Conflict, Conflict'
               PROVE  \/ OfficialActs \/ Dying \/ CurrentReturns
                      \/ \E p \in Procs : RestoresConflict(p) \/ AdoptsTooLate(p)
    BY ConflictMeans
  <2>1. CASE \E p \in Procs : OperationStep(p)
    BY <2>1, ConflictFrom
  <2>2. CASE OfficialStep
    BY <2>2, OfficialActing
  <2>3. CASE CrashStep
    BY <2>3, CrashKills
  <2> QED BY <2>1, <2>2, <2>3 DEF Next, OperationStep
<1> QED BY <1>1, TokensInvariant, PTL DEF Spec, NoHomemadeConflict
=============================================================================
