----------------------- MODULE AccountFileStoreProofs -----------------------
(***************************************************************************)
(* The account files, for any accounts, versions and worlds of trouble.    *)
(*                                                                         *)
(* What an operation will still do is the sequence of its writes, so the   *)
(* invariants speak of every write that is due, and of what is on disk     *)
(* when the ones before it are done or have failed:                        *)
(*   TypeInv    what files, writes and operations look like;               *)
(*   VaultInv   an account file, and each value due for one, holds the     *)
(*              newest version, or nothing where the account is gone;      *)
(*   ForgetInv  no file, .bak, index or copy in memory names an account    *)
(*              that was deleted, but for an index about to be replaced;   *)
(*   MendsInv   a damaged account is put aside only together with the      *)
(*              write of its .bak in its place;                            *)
(*   RowsInv    an index in memory, or due to be written, has the rows and *)
(*              the current account of the one that can be read on disk.   *)
(***************************************************************************)
EXTENDS AccountFileStore, SequenceTheorems, TLAPS

\* What a file may hold.
Content(f) == (IF f = Index THEN Listing ELSE Nat) \cup {None, Torn}

Pending == {x \in [to : {"live", "bak"}, file : Files, val : Nat \cup Listing \cup {None, Torn},
                   fails : {"throw", "ignored", "abandoned", "rebuild"}] :
              x.val \in Content(x.file)}

AcctContent == Nat \cup {None, Torn}

Undo == {<<>>} \cup (AcctContent \X AcctContent \X (Listing \cup {None, Torn}))

OnAccount == {"save", "upsert", "load", "point", "delete", "drop"}

Operation == [kind : OnAccount \cup {"none", "read", "peek", "sync"}, acct : Accts \cup {None},
              phase : {"index", "reconcile", "check", "rebuild", "act", "listing", "done"},
              idx : Listing, left : SUBSET Accts, seen : SUBSET Accts, missed : BOOLEAN,
              listed : SUBSET Accts, skip : BOOLEAN, undo : Undo]

TypedFiles == /\ live \in [Files -> Nat \cup Listing \cup {None, Torn}]
              /\ bak \in [Files -> Nat \cup Listing \cup {None, Torn}]
              /\ \A f \in Files : live[f] \in Content(f) /\ bak[f] \in Content(f)

Shape(o) == /\ o \in Operation
            /\ o.kind \in OnAccount => o.acct \in Accts
            /\ o.undo # <<>> => o.kind \in {"delete", "drop"}

TypeInv == /\ world \in Worlds
           /\ TypedFiles
           /\ todo \in Seq(Pending)
           /\ Shape(op)
           /\ newest \in [Accts -> Nat] /\ gone \in SUBSET Accts
           /\ Idle => todo = <<>> /\ op = NoOp
-----------------------------------------------------------------------------
(* Sequences of writes                                                     *)

LEMMA JoinOneOne ==
  ASSUME NEW a, NEW b
  PROVE  <<a>> \o <<b>> = <<a, b>>
<1> DEFINE S == {a, b}
<1>1. <<a>> \in Seq(S) /\ <<b>> \in Seq(S) /\ <<a, b>> \in Seq(S)
  OBVIOUS
<1>2. Len(<<a>>) = 1 /\ Len(<<b>>) = 1 /\ Len(<<a, b>>) = 2
  OBVIOUS
<1>3. /\ <<a>> \o <<b>> \in Seq(S) /\ Len(<<a>> \o <<b>>) = 2
      /\ (<<a>> \o <<b>>)[1] = a /\ (<<a>> \o <<b>>)[2] = b
  <2> HIDE DEF S
  <2>1. /\ <<a>> \o <<b>> \in Seq(S) /\ Len(<<a>> \o <<b>>) = 1 + 1
        /\ \A i \in 1..1 + 1 : (<<a>> \o <<b>>)[i] = IF i <= 1 THEN <<a>>[i] ELSE <<b>>[i - 1]
    BY <1>1, <1>2, ConcatProperties
  <2> QED
    BY <2>1
<1>4. \A i \in 1..2 : (<<a>> \o <<b>>)[i] = <<a, b>>[i]
  BY <1>3
<1> QED
  <2> HIDE DEF S
  <2> QED BY <1>1, <1>2, <1>3, <1>4, SeqEqual

LEMMA JoinTwoOne ==
  ASSUME NEW a, NEW b, NEW c
  PROVE  <<a, b>> \o <<c>> = <<a, b, c>>
<1> DEFINE S == {a, b, c}
<1>1. <<a, b>> \in Seq(S) /\ <<c>> \in Seq(S) /\ <<a, b, c>> \in Seq(S)
  OBVIOUS
<1>2. Len(<<a, b>>) = 2 /\ Len(<<c>>) = 1 /\ Len(<<a, b, c>>) = 3
  OBVIOUS
<1>3. /\ <<a, b>> \o <<c>> \in Seq(S) /\ Len(<<a, b>> \o <<c>>) = 3
      /\ (<<a, b>> \o <<c>>)[1] = a /\ (<<a, b>> \o <<c>>)[2] = b /\ (<<a, b>> \o <<c>>)[3] = c
  <2> HIDE DEF S
  <2>1. /\ <<a, b>> \o <<c>> \in Seq(S) /\ Len(<<a, b>> \o <<c>>) = 2 + 1
        /\ \A i \in 1..2 + 1 : (<<a, b>> \o <<c>>)[i] = IF i <= 2 THEN <<a, b>>[i] ELSE <<c>>[i - 2]
    BY <1>1, <1>2, ConcatProperties
  <2> QED
    BY <2>1
<1>4. \A i \in 1..3 : (<<a, b>> \o <<c>>)[i] = <<a, b, c>>[i]
  BY <1>3
<1> QED
  <2> HIDE DEF S
  <2> QED BY <1>1, <1>2, <1>3, <1>4, SeqEqual

LEMMA JoinTwoTwo ==
  ASSUME NEW a, NEW b, NEW c, NEW d
  PROVE  <<a, b>> \o <<c, d>> = <<a, b, c, d>>
<1> DEFINE S == {a, b, c, d}
<1>1. <<a, b>> \in Seq(S) /\ <<c, d>> \in Seq(S) /\ <<a, b, c, d>> \in Seq(S)
  OBVIOUS
<1>2. Len(<<a, b>>) = 2 /\ Len(<<c, d>>) = 2 /\ Len(<<a, b, c, d>>) = 4
  OBVIOUS
<1>3. /\ <<a, b>> \o <<c, d>> \in Seq(S) /\ Len(<<a, b>> \o <<c, d>>) = 4
      /\ (<<a, b>> \o <<c, d>>)[1] = a /\ (<<a, b>> \o <<c, d>>)[2] = b
      /\ (<<a, b>> \o <<c, d>>)[3] = c /\ (<<a, b>> \o <<c, d>>)[4] = d
  <2> HIDE DEF S
  <2>1. /\ <<a, b>> \o <<c, d>> \in Seq(S) /\ Len(<<a, b>> \o <<c, d>>) = 2 + 2
        /\ \A i \in 1..2 + 2 : (<<a, b>> \o <<c, d>>)[i] = IF i <= 2 THEN <<a, b>>[i] ELSE <<c, d>>[i - 2]
    BY <1>1, <1>2, ConcatProperties
  <2> QED
    BY <2>1
<1>4. \A i \in 1..4 : (<<a, b>> \o <<c, d>>)[i] = <<a, b, c, d>>[i]
  BY <1>3
<1> QED
  <2> HIDE DEF S
  <2> QED BY <1>1, <1>2, <1>3, <1>4, SeqEqual

\* A file is copied to its .bak, if it is there, and then replaced.
LEMMA PutIs ==
  ASSUME NEW f, NEW v
  PROVE  Put(f, v) = IF live[f] = None THEN <<Write("live", f, v, "throw")>>
                     ELSE <<Write("bak", f, live[f], "throw"), Write("live", f, v, "throw")>>
<1> DEFINE B == Write("bak", f, live[f], "throw")
           W == Write("live", f, v, "throw")
<1> HIDE DEF B, W
<1>1. <<>> \o <<W>> = <<W>>
  OBVIOUS
<1>2. <<B>> \o <<W>> = <<B, W>>
  BY JoinOneOne
<1> QED
  BY <1>1, <1>2 DEF Put, Backup, B, W

\* The writes of a deletion.
LEMMA RemovalIs ==
  ASSUME NEW a, NEW v
  PROVE  LET L == Write("live", a, None, "throw")
             K == Write("bak", a, None, "throw")
             B == Write("bak", Index, live[Index], "throw")
             W == Write("live", Index, v, "throw")
         IN <<L, K>> \o Put(Index, v) = IF live[Index] = None THEN <<L, K, W>> ELSE <<L, K, B, W>>
<1> DEFINE L == Write("live", a, None, "throw")
           K == Write("bak", a, None, "throw")
           B == Write("bak", Index, live[Index], "throw")
           W == Write("live", Index, v, "throw")
<1>1. Put(Index, v) = IF live[Index] = None THEN <<W>> ELSE <<B, W>>
  BY PutIs
<1> HIDE DEF L, K, B, W
<1>2. <<L, K>> \o Put(Index, v) = IF live[Index] = None THEN <<L, K, W>> ELSE <<L, K, B, W>>
  BY <1>1, JoinTwoOne, JoinTwoTwo
<1> QED
  BY <1>2 DEF L, K, B, W

\* When the first write is made, the others move up.
LEMMA MovedUp ==
  ASSUME todo \in Seq(Pending), todo # <<>>
  PROVE  /\ w \in Pending /\ w = todo[1] /\ Len(todo) \in Nat \ {0}
         /\ Tail(todo) \in Seq(Pending)
         /\ Len(Tail(todo)) = Len(todo) - 1
         /\ \A i \in 1..Len(Tail(todo)) : i + 1 \in 1..Len(todo) /\ Tail(todo)[i] = todo[i + 1]
<1>1. Len(todo) \in Nat \ {0}
  BY EmptySeq
<1>2. /\ w \in Pending /\ Tail(todo) \in Seq(Pending) /\ Len(Tail(todo)) = Len(todo) - 1
      /\ \A i \in 1..Len(Tail(todo)) : Tail(todo)[i] = todo[i + 1]
  BY HeadTailProperties DEF w
<1>3. w = todo[1]
  BY DEF w
<1> QED
  BY <1>1, <1>2, <1>3
-----------------------------------------------------------------------------
(* The types                                                               *)

LEMMA NoFileTyped ==
  ASSUME NEW f
  PROVE  None \in Content(f)
  BY DEF Content

LEMMA WriteTyped ==
  ASSUME NEW to \in {"live", "bak"}, NEW f \in Files, NEW v \in Content(f),
         NEW fails \in {"throw", "ignored", "abandoned", "rebuild"}
  PROVE  Write(to, f, v, fails) \in Pending
  BY DEF Write, Pending, Content

LEMMA OneWriteTyped ==
  ASSUME NEW a \in Pending
  PROVE  <<>> \in Seq(Pending) /\ <<a>> \in Seq(Pending) /\ \A b \in Pending : <<a, b>> \in Seq(Pending)
<1> HIDE DEF Pending
<1> QED OBVIOUS

LEMMA PutTyped ==
  ASSUME TypedFiles, NEW f \in Files, NEW v \in Content(f)
  PROVE  Put(f, v) \in Seq(Pending)
<1>1. live[f] \in Content(f)
  BY DEF TypedFiles
<1>2. Write("live", f, v, "throw") \in Pending /\ Write("bak", f, live[f], "throw") \in Pending
  BY <1>1, WriteTyped
<1> QED
  BY <1>2, PutIs, OneWriteTyped

LEMMA RestoreTyped ==
  ASSUME TypedFiles, NEW f \in Files, NEW fails \in {"throw", "ignored", "abandoned", "rebuild"}
  PROVE  /\ <<Quarantine(f)>> \in Seq(Pending)
         /\ Restore(f, fails) \in Seq(Pending)
<1>1. bak[f] \in Content(f)
  BY DEF TypedFiles
<1>2. Write("live", f, None, "ignored") \in Pending /\ Write("live", f, bak[f], fails) \in Pending
  BY <1>1, WriteTyped, NoFileTyped
<1> QED
  BY <1>2, OneWriteTyped DEF Restore, Quarantine

LEMMA RemovalTyped ==
  ASSUME TypedFiles, NEW a \in Accts, NEW v \in Content(Index)
  PROVE  <<Write("live", a, None, "throw"), Write("bak", a, None, "throw")>> \o Put(Index, v) \in Seq(Pending)
<1> DEFINE L == Write("live", a, None, "throw")
           K == Write("bak", a, None, "throw")
<1>1. L \in Pending /\ K \in Pending
  BY WriteTyped, NoFileTyped DEF Files
<1>2. Put(Index, v) \in Seq(Pending)
  BY PutTyped DEF Files
<1> HIDE DEF L, K, Pending
<1>3. <<L, K>> \in Seq(Pending)
  BY <1>1
<1>4. <<L, K>> \o Put(Index, v) \in Seq(Pending)
  BY <1>2, <1>3, ConcatProperties
<1> QED
  BY <1>4 DEF L, K

LEMMA NoOpShape == Shape(NoOp)
  BY DEF Shape, NoOp, Operation, Undo, Listing, emptyIndex, OnAccount

\* An operation begins.
LEMMA BeginTyped ==
  ASSUME TypeInv, UNCHANGED world, NEW kind \in OnAccount \cup {"read", "peek", "sync"},
         NEW a \in Accts \cup {None}, kind \in OnAccount => a \in Accts,
         NEW phase \in {"index", "listing", "done"}, NEW writes \in Seq(Pending),
         Begin(kind, a, phase, writes)
  PROVE  TypeInv'
<1> DEFINE undo == IF kind \in {"delete", "drop"} THEN <<live[a], bak[a], live[Index]>> ELSE <<>>
           left == IF phase = "listing" THEN Present ELSE {}
<1>1. op' = [NoOp EXCEPT !.kind = kind, !.acct = a, !.phase = phase, !.left = left, !.undo = undo]
  BY DEF Begin
<1>2. undo \in Undo /\ (undo # <<>> => kind \in {"delete", "drop"})
  <2>1. CASE kind \in {"delete", "drop"}
    <3>1. a \in Accts /\ a # Index
      BY <2>1, StoreAssumption DEF OnAccount
    <3>2. live[a] \in AcctContent /\ bak[a] \in AcctContent /\ live[Index] \in Listing \cup {None, Torn}
      BY <3>1 DEF TypeInv, TypedFiles, Content, AcctContent, Files
    <3> QED
      BY <2>1, <3>2 DEF Undo
  <2>2. CASE kind \notin {"delete", "drop"}
    BY <2>2 DEF Undo
  <2> QED
    BY <2>1, <2>2
<1>3. left \in SUBSET Accts
  BY DEF Present
<1> HIDE DEF undo, left
<1>4. Shape(op') /\ op'.kind # "none"
  BY <1>1, <1>2, <1>3, NoOpShape DEF Shape, Operation, NoOp, OnAccount
<1> QED
  BY <1>4 DEF Begin, TypeInv, TypedFiles, Idle, history

LEMMA BeginsTyped ==
  ASSUME TypeInv, UNCHANGED world, BeginRead \/ \E a \in Accts : BeginSave(a) \/ BeginLoad(a) \/ BeginOnIndex(a)
  PROVE  TypeInv'
<1>0. TypedFiles /\ <<>> \in Seq(Pending)
  BY DEF TypeInv
<1>1. CASE BeginRead
  BY <1>0, <1>1, BeginTyped, Zenon DEF BeginRead, OnAccount
<1>2. ASSUME NEW a \in Accts, BeginSave(a) PROVE TypeInv'
  <2>1. newest[a] + 1 \in Content(a) /\ a \in Files
    BY StoreAssumption DEF TypeInv, Content, Files
  <2>2. Put(a, newest[a] + 1) \in Seq(Pending)
    BY <1>0, <2>1, PutTyped
  <2> QED
    BY <1>2, <2>2, BeginTyped, Zenon DEF BeginSave, OnAccount
<1>3. ASSUME NEW a \in Accts, BeginLoad(a) PROVE TypeInv'
  <2>1. <<Quarantine(a)>> \in Seq(Pending) /\ Restore(a, "abandoned") \in Seq(Pending)
    BY <1>0, RestoreTyped DEF Files
  <2>2. PICK writes \in Seq(Pending) : Begin("load", a, "done", writes)
    BY <1>3, <2>1 DEF BeginLoad
  <2> QED
    BY <2>2, BeginTyped, Zenon DEF OnAccount
<1>4. ASSUME NEW a \in Accts, BeginOnIndex(a) PROVE TypeInv'
  <2>1. PICK kind \in {"point", "delete", "drop"} : Begin(kind, a, "index", <<>>)
    BY <1>4 DEF BeginOnIndex
  <2> QED
    BY <1>0, <2>1, BeginTyped, Zenon DEF OnAccount
<1> QED
  BY <1>1, <1>2, <1>3, <1>4

\* The operation goes on: its kind, its account and what it captured stay.
Continues(o, n) ==
  /\ n.kind = o.kind /\ n.acct = o.acct
  /\ n.undo \in {o.undo, <<>>}

LEMMA ThrowsTyped ==
  ASSUME TypeInv, Throws
  PROVE  /\ todo' \in Seq(Pending) /\ Shape(op') /\ Continues(op, op')
<1>1. Shape(op)
  BY DEF TypeInv
<1>2. Shape(op') /\ Continues(op, op')
  BY <1>1 DEF Throws, Shape, Operation, Undo, Continues
<1>3. todo' \in Seq(Pending)
  <2>1. CASE op.undo = <<>>
    BY <2>1 DEF Throws
  <2>2. CASE op.undo # <<>>
    <3>1. op.acct \in Accts /\ op.undo \in AcctContent \X AcctContent \X (Listing \cup {None, Torn})
      BY <1>1, <2>2 DEF Shape, Operation, Undo, OnAccount
    <3>2. /\ op.undo[1] \in Content(op.acct) /\ op.undo[2] \in Content(op.acct)
          /\ op.undo[3] \in Content(Index) /\ op.acct \in Files /\ Index \in Files
      BY <3>1, StoreAssumption DEF Content, AcctContent, Files
    <3> DEFINE A == Write("live", op.acct, op.undo[1], "ignored")
               B == Write("bak", op.acct, op.undo[2], "ignored")
               C == Write("live", Index, op.undo[3], "ignored")
    <3>3. A \in Pending /\ B \in Pending /\ C \in Pending
      BY <3>2, WriteTyped
    <3>4. todo' = <<A, B, C>>
      BY <2>2 DEF Throws
    <3> HIDE DEF A, B, C, Pending
    <3> QED
      BY <3>3, <3>4
  <2> QED
    BY <2>1, <2>2
<1> QED
  BY <1>2, <1>3

\* A turn: the files stay, the operation goes on.
LEMMA TurnTyped ==
  ASSUME TypeInv, UNCHANGED world, UNCHANGED <<live, bak, history>>, ~ Idle,
         todo' \in Seq(Pending), Shape(op'), op'.kind = op.kind
  PROVE  TypeInv'
  BY DEF TypeInv, TypedFiles, Idle, history

LEMMA GoToTyped ==
  ASSUME TypeInv, NEW phase \in {"reconcile", "check", "rebuild", "act", "done"},
         NEW idx \in Listing, NEW writes \in Seq(Pending),
         GoTo(phase, idx, writes) \/ Scan(idx, writes)
  PROVE  todo' \in Seq(Pending) /\ Shape(op') /\ Continues(op, op')
<1>1. Shape(op) /\ Present \subseteq Accts
  BY DEF TypeInv, Present
<1>2. CASE GoTo(phase, idx, writes)
  BY <1>1, <1>2 DEF GoTo, Shape, Operation, Continues
<1>3. CASE Scan(idx, writes)
  BY <1>1, <1>3 DEF Scan, Shape, Operation, Continues
<1> QED
  BY <1>2, <1>3

Turns == \/ ReadIndex \/ Reconcile \/ Check \/ Rebuild \/ Listed \/ Act
         \/ \E a \in Accts : ScanOne(a)

LEMMA ReadIndexTyped ==
  ASSUME TypeInv, ReadIndex
  PROVE  todo' \in Seq(Pending) /\ Shape(op') /\ Continues(op, op')
<1>1. TypedFiles /\ Index \in Files /\ <<>> \in Seq(Pending) /\ emptyIndex \in Listing
  BY DEF TypeInv, Files, emptyIndex, Listing
<1>2. /\ Sound(live[Index]) => live[Index] \in Listing
      /\ Sound(bak[Index]) => bak[Index] \in Listing
  BY <1>1 DEF TypedFiles, Content, Sound
<1>3. Reads \in {"act", "check"}
  BY DEF Reads
<1>4. <<Quarantine(Index)>> \in Seq(Pending) /\ Restore(Index, "rebuild") \in Seq(Pending)
  BY <1>1, RestoreTyped
<1>5. CASE Throws
  BY <1>5, ThrowsTyped
<1>6. CASE Sound(live[Index]) /\ GoTo(Reads, live[Index], <<>>)
  BY <1>1, <1>2, <1>3, <1>6, GoToTyped
<1>7. CASE GoTo(Reads, emptyIndex, <<>>)
  BY <1>1, <1>3, <1>7, GoToTyped
<1>8. ASSUME NEW good \in BackupReads(Index),
             IF good THEN GoTo("reconcile", bak[Index], Restore(Index, "rebuild"))
                     ELSE Scan(emptyIndex, <<Quarantine(Index)>>)
      PROVE  todo' \in Seq(Pending) /\ Shape(op') /\ Continues(op, op')
  <2>1. CASE good
    <3>1. Sound(bak[Index])
      BY <2>1 DEF BackupReads
    <3>2. GoTo("reconcile", bak[Index], Restore(Index, "rebuild"))
      BY <1>8, <2>1
    <3> QED
      BY <1>2, <1>4, <3>1, <3>2, GoToTyped
  <2>2. CASE ~ good
    <3>1. Scan(emptyIndex, <<Quarantine(Index)>>)
      BY <1>8, <2>2
    <3> QED
      BY <1>1, <1>4, <3>1, GoToTyped
  <2> QED
    BY <2>1, <2>2
<1> QED
  BY <1>5, <1>6, <1>7, <1>8 DEF ReadIndex

LEMMA IndexTurnsTyped ==
  ASSUME TypeInv, Reconcile \/ Check \/ Rebuild
  PROVE  todo' \in Seq(Pending) /\ Shape(op') /\ Continues(op, op')
<1>1. /\ TypedFiles /\ Index \in Files /\ <<>> \in Seq(Pending)
      /\ op.idx \in Listing /\ op.seen \subseteq Accts /\ Listing \subseteq Content(Index)
  BY DEF TypeInv, Files, Shape, Operation, Content
<1>2. CASE Reconcile
  <2>1. Reconciled(op.idx) \in Listing /\ Reads \in {"act", "check"}
    BY <1>1 DEF Reconciled, Listing, Reads
  <2>2. Put(Index, Reconciled(op.idx)) \in Seq(Pending)
    BY <1>1, <2>1, PutTyped
  <2> QED
    BY <1>1, <1>2, <2>1, <2>2, GoToTyped DEF Reconcile
<1>3. CASE Check
  BY <1>1, <1>3, GoToTyped DEF Check
<1>4. CASE Rebuild
  <2>1. CASE GoTo("act", op.idx, <<>>)
    BY <1>1, <2>1, GoToTyped
  <2>2. ASSUME NEW cur \in RebuiltCurrent,
               GoTo("act", [ids |-> op.seen, cur |-> cur], Put(Index, [ids |-> op.seen, cur |-> cur]))
        PROVE  todo' \in Seq(Pending) /\ Shape(op') /\ Continues(op, op')
    <3> DEFINE idx == [ids |-> op.seen, cur |-> cur]
    <3>1. cur \in Accts \cup {None}
      BY <1>1 DEF RebuiltCurrent, Listing
    <3>2. idx \in Listing
      BY <1>1, <3>1 DEF Listing
    <3>3. Put(Index, idx) \in Seq(Pending)
      BY <1>1, <3>2, PutTyped
    <3> QED
      BY <2>2, <3>2, <3>3, GoToTyped
  <2> QED
    BY <1>4, <2>1, <2>2 DEF Rebuild
<1> QED
  BY <1>2, <1>3, <1>4

LEMMA ActTyped ==
  ASSUME TypeInv, Act
  PROVE  todo' \in Seq(Pending) /\ Shape(op') /\ Continues(op, op')
<1>1. /\ TypedFiles /\ Index \in Files /\ <<>> \in Seq(Pending) /\ Shape(op)
      /\ op.idx \in Listing /\ op.listed \subseteq Accts /\ Listing \subseteq Content(Index)
  BY DEF TypeInv, Files, Shape, Operation, Content
<1>2. ASSUME NEW idx \in Listing PROVE Put(Index, idx) \in Seq(Pending)
  BY <1>1, PutTyped
<1>3. PICK writes : Throws \/ (writes \in Seq(Pending) /\ GoTo("done", op.idx, writes))
  <2>1. CASE op.kind = "upsert" /\ GoTo("done", op.idx, Put(Index, [op.idx EXCEPT !.ids = @ \cup {op.acct}]))
    <3>1. [op.idx EXCEPT !.ids = @ \cup {op.acct}] \in Listing
      BY <1>1, <2>1 DEF Shape, OnAccount, Listing
    <3> QED BY <1>2, <2>1, <3>1
  <2>2. CASE op.kind = "point" /\ GoTo("done", op.idx, Put(Index, [op.idx EXCEPT !.cur = op.acct]))
    <3>1. [op.idx EXCEPT !.cur = op.acct] \in Listing
      BY <1>1, <2>2 DEF Shape, OnAccount, Listing
    <3> QED BY <1>2, <2>2, <3>1
  <2>3. CASE op.kind = "delete" /\ op.idx.cur = op.acct /\ Throws
    BY <2>3
  <2>4. CASE /\ op.kind \in {"delete", "drop"}
             /\ GoTo("done", op.idx,
                <<Write("live", op.acct, None, "throw"), Write("bak", op.acct, None, "throw")>>
                  \o Put(Index, [ids |-> op.idx.ids \ {op.acct},
                                 cur |-> IF op.idx.cur = op.acct THEN None ELSE op.idx.cur]))
    <3>1. op.acct \in Accts
      BY <1>1, <2>4 DEF Shape, OnAccount
    <3>2. [ids |-> op.idx.ids \ {op.acct}, cur |-> IF op.idx.cur = op.acct THEN None ELSE op.idx.cur] \in Listing
      BY <1>1 DEF Listing
    <3> QED
      BY <1>1, <2>4, <3>1, <3>2, RemovalTyped
  <2>5. CASE op.kind = "read" /\ GoTo("done", op.idx, <<>>)
    BY <1>1, <2>5
  <2>6. CASE /\ op.kind = "sync"
             /\ GoTo("done", op.idx,
                     IF MaySync /\ op.idx.ids # op.listed
                     THEN Put(Index, [ids |-> op.listed,
                                      cur |-> IF op.idx.cur \in op.listed THEN op.idx.cur ELSE None])
                     ELSE <<>>)
    <3>1. [ids |-> op.listed, cur |-> IF op.idx.cur \in op.listed THEN op.idx.cur ELSE None] \in Listing
      BY <1>1 DEF Listing
    <3> QED
      BY <1>1, <1>2, <2>6, <3>1
  <2> QED
    BY <2>1, <2>2, <2>3, <2>4, <2>5, <2>6 DEF Act
<1> QED
  BY <1>1, <1>3, ThrowsTyped, GoToTyped

LEMMA ScanTyped ==
  ASSUME TypeInv, Listed \/ \E a \in Accts : ScanOne(a)
  PROVE  todo' \in Seq(Pending) /\ Shape(op') /\ Continues(op, op')
<1>1. TypedFiles /\ Shape(op) /\ <<>> \in Seq(Pending) /\ todo \in Seq(Pending)
  BY DEF TypeInv
<1>2. CASE Listed
  BY <1>1, <1>2 DEF Listed, Shape, Operation, Continues
<1>3. ASSUME NEW a \in Accts, ScanOne(a)
      PROVE  todo' \in Seq(Pending) /\ Shape(op') /\ Continues(op, op')
  <2>1. /\ op' = [op EXCEPT !.left = @ \ {a}, !.seen = @ \cup {a}]
           \/ op' = [op EXCEPT !.left = @ \ {a}, !.missed = TRUE]
           \/ op' = [op EXCEPT !.left = @ \ {a}]
        /\ todo' \in {todo, Restore(a, "abandoned"), <<Quarantine(a)>>}
    BY <1>3 DEF ScanOne
  <2>2. Restore(a, "abandoned") \in Seq(Pending) /\ <<Quarantine(a)>> \in Seq(Pending)
    BY <1>1, RestoreTyped DEF Files
  <2>3. Shape(op') /\ Continues(op, op')
    <3>1. CASE op' = [op EXCEPT !.left = @ \ {a}, !.seen = @ \cup {a}]
      BY <1>1, <3>1 DEF Shape, Operation, Continues
    <3>2. CASE op' = [op EXCEPT !.left = @ \ {a}, !.missed = TRUE]
      BY <1>1, <3>2 DEF Shape, Operation, Continues
    <3>3. CASE op' = [op EXCEPT !.left = @ \ {a}]
      BY <1>1, <3>3 DEF Shape, Operation, Continues
    <3> QED
      BY <2>1, <3>1, <3>2, <3>3
  <2> QED
    BY <1>1, <2>1, <2>2, <2>3
<1> QED
  BY <1>2, <1>3

\* Every turn of an operation keeps the types.
LEMMA TurnsTyped ==
  ASSUME TypeInv, UNCHANGED world, Turns
  PROVE  TypeInv' /\ Continues(op, op')
<1>1. UNCHANGED <<live, bak, history>> /\ ~ Idle
  BY DEF Turns, ReadIndex, Reconcile, Check, Rebuild, Listed, Act, ScanOne, Turn
<1>2. todo' \in Seq(Pending) /\ Shape(op') /\ Continues(op, op')
  BY ReadIndexTyped, IndexTurnsTyped, ActTyped, ScanTyped DEF Turns
<1> QED
  BY <1>1, <1>2, TurnTyped DEF Continues

LEMMA WriteDoneTyped ==
  ASSUME TypeInv, UNCHANGED world, WriteDone
  PROVE  TypeInv'
<1>1. todo \in Seq(Pending) /\ todo # <<>> /\ TypedFiles /\ ~ Idle
  BY DEF TypeInv, WriteDone
<1>2. w \in Pending /\ Tail(todo) \in Seq(Pending)
  BY <1>1, MovedUp
<1>3. w.file \in Files /\ w.val \in Content(w.file) /\ w.val \in Nat \cup Listing \cup {None, Torn}
  BY <1>2 DEF Pending
<1>4. TypedFiles'
  <2>1. CASE w.to = "live"
    BY <1>1, <1>3, <2>1 DEF WriteDone, TypedFiles, Content
  <2>2. CASE w.to # "live"
    BY <1>1, <1>3, <2>2 DEF WriteDone, TypedFiles, Content
  <2> QED BY <2>1, <2>2
<1>5. newest' \in [Accts -> Nat] /\ gone' \in SUBSET Accts
  <2>1. CASE w.to = "live" /\ w.file \in Accts /\ Sound(w.val)
    <3>1. w.val \in Nat
      BY <1>3, <2>1, StoreAssumption DEF Content, Sound
    <3> QED
      BY <2>1, <3>1 DEF WriteDone, TypeInv
  <2>2. CASE ~ (w.to = "live" /\ w.file \in Accts /\ Sound(w.val))
    BY <2>2 DEF WriteDone, TypeInv, history
  <2> QED
    BY <2>1, <2>2
<1> QED
  BY <1>1, <1>2, <1>4, <1>5 DEF WriteDone, TypeInv, Idle

LEMMA HalfCopiedTyped ==
  ASSUME TypeInv, todo # <<>>, HalfCopied, UNCHANGED live
  PROVE  TypedFiles'
<1>1. TypedFiles /\ w \in Pending
  BY MovedUp DEF TypeInv
<1> QED
  BY <1>1 DEF HalfCopied, TypedFiles, Content, Pending

LEMMA WriteFailsTyped ==
  ASSUME TypeInv, UNCHANGED world, WriteFails
  PROVE  TypeInv' /\ Continues(op, op')
<1>1. todo \in Seq(Pending) /\ todo # <<>> /\ TypedFiles /\ ~ Idle /\ Shape(op)
  BY DEF TypeInv, WriteFails
<1>2. w \in Pending /\ Tail(todo) \in Seq(Pending)
  BY <1>1, MovedUp
<1>3. TypedFiles'
  BY <1>1, HalfCopiedTyped DEF WriteFails
<1>4. todo' \in Seq(Pending) /\ Shape(op') /\ Continues(op, op')
  <2>1. CASE w.fails = "ignored" /\ todo' = Tail(todo) /\ UNCHANGED op
    BY <1>1, <1>2, <2>1 DEF Continues
  <2>2. CASE Throws
    BY <2>2, ThrowsTyped
  <2>3. CASE op' = [op EXCEPT !.seen = @ \ {w.file}] /\ todo' = <<Quarantine(w.file)>>
    <3>1. <<Quarantine(w.file)>> \in Seq(Pending)
      BY <1>1, <1>2, RestoreTyped DEF Pending
    <3>2. Shape(op') /\ Continues(op, op')
      BY <1>1, <2>3 DEF Shape, Operation, Continues
    <3> QED BY <2>3, <3>1, <3>2
  <2>4. CASE Scan(emptyIndex, <<Quarantine(Index)>>)
    <3>1. <<Quarantine(Index)>> \in Seq(Pending) /\ emptyIndex \in Listing
      BY <1>1, RestoreTyped DEF Files, emptyIndex, Listing
    <3> QED
      BY <2>4, <3>1, GoToTyped
  <2> QED
    BY <2>1, <2>2, <2>3, <2>4 DEF WriteFails
<1> QED
  BY <1>1, <1>3, <1>4 DEF WriteFails, TypeInv, Idle, Continues, history

\* The operation is over, or the program is, or a file is damaged between two of them.
LEMMA OthersTyped ==
  ASSUME TypeInv, UNCHANGED world, End \/ Crash \/ \E f \in world.tearable : Tear(f)
  PROVE  TypeInv'
<1>1. TypedFiles /\ todo \in Seq(Pending) /\ Shape(op) /\ <<>> \in Seq(Pending) /\ Shape(NoOp) /\ NoOp.kind = "none"
  BY NoOpShape DEF TypeInv, NoOp
<1>2. CASE End
  <2>1. op.undo = <<>> \/ op.acct \in Accts
    BY <1>1 DEF Shape, OnAccount
  <2> QED
    BY <1>1, <1>2, <2>1 DEF End, TypeInv, TypedFiles, Idle
<1>3. CASE Crash
  <2>1. TypedFiles'
    <3>1. CASE todo = <<>>
      BY <1>1, <1>3, <3>1 DEF Crash, TypedFiles
    <3>2. CASE todo # <<>>
      BY <1>3, <3>2, HalfCopiedTyped DEF Crash
    <3> QED BY <3>1, <3>2
  <2> QED
    BY <1>1, <1>3, <2>1 DEF Crash, TypeInv, Idle, history
<1>4. ASSUME NEW f \in world.tearable, Tear(f) PROVE TypeInv'
  <2>1. f \in Files
    BY StoreAssumption DEF TypeInv
  <2>2. TypedFiles'
    BY <1>1, <1>4, <2>1 DEF Tear, TypedFiles, Content
  <2> QED
    BY <1>4, <2>2 DEF Tear, TypeInv, Idle, history
<1> QED
  BY <1>2, <1>3, <1>4

LEMMA TypeInit == Init => TypeInv
<1> SUFFICES ASSUME Init PROVE TypeInv
  OBVIOUS
<1>1. TypedFiles
  BY DEF Init, TypedFiles, Content
<1>2. Shape(op) /\ op = NoOp /\ todo = <<>> /\ todo \in Seq(Pending)
  BY NoOpShape DEF Init
<1> QED
  BY <1>1, <1>2 DEF Init, TypeInv

LEMMA TypeStep == TypeInv /\ [Next]_vars => TypeInv'
<1> SUFFICES ASSUME TypeInv, [Next]_vars PROVE TypeInv'
  OBVIOUS
<1>1. CASE UNCHANGED vars
  BY <1>1 DEF vars, TypeInv, TypedFiles, Idle
<1>2. CASE Next
  BY <1>2, BeginsTyped, TurnsTyped, WriteDoneTyped, WriteFailsTyped, OthersTyped DEF Next, Step, Turns
<1> QED
  BY <1>1, <1>2

\* The files, the writes to come and the operation keep their types.
THEOREM StoreTypes == Spec => []TypeInv
  BY TypeInit, TypeStep, PTL DEF Spec
-----------------------------------------------------------------------------
(* Where only the index may be damaged, the account files are an AccountVault *)

Stored(a, v) == v = None \/ (v = newest[a] /\ v > 0)

\* The writes to the files of accounts are those of a save or of a deletion.
Planned ==
  \A i \in 1..Len(todo) :
    /\ todo[i].fails # "abandoned"
    /\ todo[i].to = "live" /\ todo[i].file \in Accts =>
         /\ todo[i].file = op.acct
         /\ IF Deleting THEN Stored(op.acct, todo[i].val)
            ELSE i = Len(todo) /\ todo[i].val = newest[op.acct] + 1 /\ newest[op.acct] < MaxVersion

VaultInv ==
  FilesAreSafe => /\ \A a \in Accts : Stored(a, live[a])
                  /\ op.undo # <<>> => Stored(op.acct, op.undo[1])
                  /\ Planned

LEMMA Elements ==
  ASSUME NEW a, NEW b, NEW c, NEW d
  PROVE  /\ Len(<<>>) = 0 /\ Len(<<a>>) = 1 /\ Len(<<a, b>>) = 2 /\ Len(<<a, b, c>>) = 3 /\ Len(<<a, b, c, d>>) = 4
         /\ <<a>>[1] = a
         /\ <<a, b>>[1] = a /\ <<a, b>>[2] = b
         /\ <<a, b, c>>[1] = a /\ <<a, b, c>>[2] = b /\ <<a, b, c>>[3] = c
         /\ <<a, b, c, d>>[1] = a /\ <<a, b, c, d>>[2] = b /\ <<a, b, c, d>>[3] = c /\ <<a, b, c, d>>[4] = d
  OBVIOUS

LEMMA NoElement == \A i \in 1..Len(<<>>) : FALSE
  OBVIOUS

\* The writes of Put.
LEMMA PutElements ==
  ASSUME NEW f, NEW v
  PROVE  /\ Len(Put(f, v)) \in {1, 2}
         /\ \A i \in 1..Len(Put(f, v)) :
              LET x == Put(f, v)[i] IN
              /\ x.file = f /\ x.fails = "throw" /\ x.to \in {"live", "bak"}
              /\ x.to = "live" <=> i = Len(Put(f, v))
              /\ x.to = "live" => x.val = v
              /\ x.to = "bak" => x.val = live[f] /\ live[f] # None
<1> DEFINE B == Write("bak", f, live[f], "throw")
           W == Write("live", f, v, "throw")
<1>1. /\ B.file = f /\ B.fails = "throw" /\ B.to = "bak" /\ B.val = live[f]
      /\ W.file = f /\ W.fails = "throw" /\ W.to = "live" /\ W.val = v
  BY DEF Write
<1>2. Put(f, v) = IF live[f] = None THEN <<W>> ELSE <<B, W>>
  BY PutIs
<1> HIDE DEF B, W
<1> QED
  BY <1>1, <1>2

\* The writes of a deletion.
Removal(a, v) == <<Write("live", a, None, "throw"), Write("bak", a, None, "throw")>> \o Put(Index, v)

LEMMA RemovalElements ==
  ASSUME NEW a, NEW v
  PROVE  LET s == Removal(a, v) IN
         /\ Len(s) \in {3, 4}
         /\ \A i \in 1..Len(s) :
              /\ s[i].fails = "throw" /\ s[i].to \in {"live", "bak"}
              /\ i = 1 => s[i].file = a /\ s[i].to = "live" /\ s[i].val = None
              /\ i = 2 => s[i].file = a /\ s[i].to = "bak" /\ s[i].val = None
              /\ i > 2 => s[i].file = Index
              /\ i > 2 /\ s[i].to = "live" => i = Len(s) /\ s[i].val = v
         /\ s[Len(s)].to = "live" /\ s[Len(s)].file = Index /\ s[Len(s)].val = v
<1> DEFINE L == Write("live", a, None, "throw")
           K == Write("bak", a, None, "throw")
           B == Write("bak", Index, live[Index], "throw")
           W == Write("live", Index, v, "throw")
           s == Removal(a, v)
<1>1. /\ L.file = a /\ L.fails = "throw" /\ L.to = "live" /\ L.val = None
      /\ K.file = a /\ K.fails = "throw" /\ K.to = "bak" /\ K.val = None
      /\ B.file = Index /\ B.fails = "throw" /\ B.to = "bak"
      /\ W.file = Index /\ W.fails = "throw" /\ W.to = "live" /\ W.val = v
  BY DEF Write
<1>2. s = IF live[Index] = None THEN <<L, K, W>> ELSE <<L, K, B, W>>
  BY RemovalIs DEF Removal
<1> HIDE DEF L, K, B, W, s
<1>3. \/ Len(s) = 3 /\ s[1] = L /\ s[2] = K /\ s[3] = W
      \/ Len(s) = 4 /\ s[1] = L /\ s[2] = K /\ s[3] = B /\ s[4] = W
  BY <1>2, Elements
<1>4. \A i \in 1..Len(s) : i = 1 \/ i = 2 \/ i = 3 \/ (i = 4 /\ Len(s) = 4)
  <2>1. Len(s) = 3 \/ Len(s) = 4
    BY <1>3
  <2>2. CASE Len(s) = 3
    BY <2>2
  <2>3. CASE Len(s) = 4
    BY <2>3
  <2> QED
    BY <2>1, <2>2, <2>3
<1>5. /\ Len(s) \in {3, 4}
      /\ \A i \in 1..Len(s) :
           /\ s[i].fails = "throw" /\ s[i].to \in {"live", "bak"}
           /\ i = 1 => s[i].file = a /\ s[i].to = "live" /\ s[i].val = None
           /\ i = 2 => s[i].file = a /\ s[i].to = "bak" /\ s[i].val = None
           /\ i > 2 => s[i].file = Index
           /\ i > 2 /\ s[i].to = "live" => i = Len(s) /\ s[i].val = v
      /\ s[Len(s)].to = "live" /\ s[Len(s)].file = Index /\ s[Len(s)].val = v
  <2> QED
    BY <1>1, <1>3, <1>4
<1> QED
  BY <1>5 DEF s

\* What a failed deletion puts back, when an operation throws.
LEMMA ThrowsElements ==
  ASSUME Throws
  PROVE  /\ op.undo = <<>> => todo' = <<>>
         /\ op.undo # <<>> =>
              /\ Len(todo') = 3
              /\ \A i \in 1..3 : todo'[i].fails = "ignored"
              /\ todo'[1].to = "live" /\ todo'[1].file = op.acct /\ todo'[1].val = op.undo[1]
              /\ todo'[2].to = "bak" /\ todo'[2].file = op.acct /\ todo'[2].val = op.undo[2]
              /\ todo'[3].to = "live" /\ todo'[3].file = Index /\ todo'[3].val = op.undo[3]
<1> DEFINE A == Write("live", op.acct, op.undo[1], "ignored")
           B == Write("bak", op.acct, op.undo[2], "ignored")
           C == Write("live", Index, op.undo[3], "ignored")
<1>1. /\ A.to = "live" /\ A.file = op.acct /\ A.val = op.undo[1] /\ A.fails = "ignored"
      /\ B.to = "bak" /\ B.file = op.acct /\ B.val = op.undo[2] /\ B.fails = "ignored"
      /\ C.to = "live" /\ C.file = Index /\ C.val = op.undo[3] /\ C.fails = "ignored"
  BY DEF Write
<1>2. todo' = IF op.undo = <<>> THEN <<>> ELSE <<A, B, C>>
  BY DEF Throws
<1> HIDE DEF A, B, C
<1> QED
  BY <1>1, <1>2

\* The writes of a repair.
LEMMA QuarantineIs ==
  ASSUME NEW f
  PROVE  /\ Quarantine(f).to = "live" /\ Quarantine(f).file = f
         /\ Quarantine(f).val = None /\ Quarantine(f).fails = "ignored"
  BY DEF Quarantine, Write

LEMMA RestoreElements ==
  ASSUME NEW f, NEW fails
  PROVE  /\ Len(Restore(f, fails)) = 2 /\ Restore(f, fails)[1] = Quarantine(f)
         /\ Restore(f, fails)[2].to = "live" /\ Restore(f, fails)[2].file = f
         /\ Restore(f, fails)[2].val = bak[f] /\ Restore(f, fails)[2].fails = fails
<1> DEFINE Q == Quarantine(f)
           R == Write("live", f, bak[f], fails)
<1>1. R.to = "live" /\ R.file = f /\ R.val = bak[f] /\ R.fails = fails
  BY DEF Write
<1>2. Restore(f, fails) = <<Q, R>>
  BY DEF Restore
<1> HIDE DEF Q, R
<1>3. /\ Len(<<Q, R>>) = 2 /\ <<Q, R>>[1] = Q
      /\ <<Q, R>>[2].to = "live" /\ <<Q, R>>[2].file = f /\ <<Q, R>>[2].val = bak[f] /\ <<Q, R>>[2].fails = fails
  BY <1>1, Elements
<1> QED
  BY <1>2, <1>3 DEF Q

\* What a repair of an account writes.
Repairs(a) == {Restore(a, "abandoned"), <<Quarantine(a)>>}

LEMMA RepairFiles ==
  ASSUME NEW a, NEW s \in Repairs(a)
  PROVE  \A i \in 1..Len(s) : s[i].file = a /\ s[i].to = "live"
<1>1. Quarantine(a).file = a /\ Quarantine(a).to = "live"
  BY QuarantineIs
<1>2. CASE s = Restore(a, "abandoned")
  <2>1. Len(s) = 2 /\ s[1] = Quarantine(a) /\ s[2].file = a /\ s[2].to = "live"
    BY <1>2, RestoreElements
  <2> HIDE <1>2
  <2>2. \A i \in 1..Len(s) : i = 1 \/ i = 2
    BY <2>1
  <2> QED
    BY <1>1, <2>1, <2>2
<1>3. CASE s = <<Quarantine(a)>>
  <2>1. Len(s) = 1 /\ s[1] = Quarantine(a)
    BY <1>3, Elements
  <2>2. \A i \in 1..Len(s) : i = 1
    BY <2>1
  <2> QED
    BY <1>1, <2>1, <2>2
<1> QED
  BY <1>2, <1>3 DEF Repairs

OnlyIndex(s) == \A i \in 1..Len(s) : s[i].file = Index /\ s[i].fails # "abandoned"

\* What the turns of an operation leave to be written.
LEMMA TurnWrites ==
  ASSUME TypeInv, Turns
  PROVE  \/ OnlyIndex(todo')
         \/ Throws
         \/ \E a \in Accts : NeedsRestore(a) /\ ScanOne(a)
         \/ /\ Deleting /\ op.kind \in {"delete", "drop"} /\ op' = [op EXCEPT !.phase = "done", !.idx = op.idx]
            /\ \E v : todo' = Removal(op.acct, v)
<1>1. OnlyIndex(<<>>) /\ \A v : OnlyIndex(Put(Index, v))
  <2>1. OnlyIndex(<<>>)
    BY NoElement DEF OnlyIndex
  <2>2. ASSUME NEW v PROVE OnlyIndex(Put(Index, v))
    <3> DEFINE s == Put(Index, v)
    <3>1. \A i \in 1..Len(s) : s[i].file = Index /\ s[i].fails = "throw"
      BY PutElements
    <3> QED
      BY <3>1 DEF OnlyIndex
  <2> QED
    BY <2>1, <2>2
<1>2. OnlyIndex(<<Quarantine(Index)>>) /\ OnlyIndex(Restore(Index, "rebuild"))
  <2>1. OnlyIndex(<<Quarantine(Index)>>)
    <3> DEFINE Q == Quarantine(Index)
    <3>1. Q.file = Index /\ Q.fails = "ignored"
      BY QuarantineIs
    <3> HIDE DEF Q
    <3>2. \A i \in 1..Len(<<Q>>) : i = 1 /\ <<Q>>[i] = Q
      BY Elements
    <3>3. OnlyIndex(<<Q>>)
      BY <3>1, <3>2 DEF OnlyIndex
    <3> QED
      BY <3>3 DEF Q
  <2>2. OnlyIndex(Restore(Index, "rebuild"))
    <3> DEFINE s == Restore(Index, "rebuild")
    <3>1. /\ Len(s) = 2 /\ s[1].file = Index /\ s[1].fails = "ignored"
          /\ s[2].file = Index /\ s[2].fails = "rebuild"
      BY RestoreElements, QuarantineIs
    <3> HIDE DEF s
    <3>2. \A i \in 1..Len(s) : i = 1 \/ i = 2
      BY <3>1
    <3>3. OnlyIndex(s)
      BY <3>1, <3>2 DEF OnlyIndex
    <3> QED
      BY <3>3 DEF s
  <2> QED
    BY <2>1, <2>2
<1>3. CASE ReadIndex
  BY <1>1, <1>2, <1>3 DEF ReadIndex, GoTo, Scan
<1>4. CASE Reconcile
  BY <1>1, <1>4 DEF Reconcile, GoTo
<1>5. CASE Check
  BY <1>1, <1>5 DEF Check, GoTo, Scan
<1>6. CASE Rebuild
  BY <1>1, <1>6 DEF Rebuild, GoTo
<1>7. CASE Listed
  BY <1>1, <1>7 DEF Listed, Turn
<1>8. CASE \E a \in Accts : ScanOne(a)
  <2>1. PICK a \in Accts : ScanOne(a)
    BY <1>8
  <2>2. todo' = <<>> \/ NeedsRestore(a)
    BY <2>1 DEF ScanOne, Turn
  <2> QED
    BY <1>1, <2>1, <2>2
<1>9. CASE Act
  BY <1>1, <1>9 DEF Act, GoTo, Deleting, Removal
<1> QED
  BY <1>3, <1>4, <1>5, <1>6, <1>7, <1>8, <1>9 DEF Turns

LEMMA OnlyIndexPlanned ==
  ASSUME NEW s, OnlyIndex(s), todo' = s
  PROVE  Planned'
<1>1. Index \notin Accts
  BY StoreAssumption
<1> QED
  BY <1>1 DEF Planned, OnlyIndex

\* An account that is stored is not damaged.
LEMMA StoredIsSound ==
  ASSUME TypeInv, NEW a \in Accts, Stored(a, live[a])
  PROVE  ~ NeedsRestore(a)
  BY StoreAssumption DEF Stored, NeedsRestore, TypeInv

LEMMA VaultBegins ==
  ASSUME TypeInv, TypeInv', VaultInv, UNCHANGED world, FilesAreSafe,
         BeginRead \/ \E a \in Accts : BeginSave(a) \/ BeginLoad(a) \/ BeginOnIndex(a)
  PROVE  VaultInv'
<1>1. UNCHANGED <<live, bak, history>> /\ \A a \in Accts : Stored(a, live[a])'
  BY DEF BeginRead, BeginSave, BeginLoad, BeginOnIndex, Begin, VaultInv, Stored, history
<1>2. ASSUME op'.undo # <<>> PROVE Stored(op.acct, op.undo[1])'
  <2>1. op'.acct \in Accts
    BY <1>2 DEF TypeInv, Shape, OnAccount
  <2>2. PICK kind, a, phase, writes : Begin(kind, a, phase, writes)
    BY DEF BeginRead, BeginSave, BeginLoad, BeginOnIndex
  <2>3. op'.acct = a /\ op'.undo = IF kind \in {"delete", "drop"} THEN <<live[a], bak[a], live[Index]>> ELSE <<>>
    BY <2>2 DEF Begin, NoOp
  <2>4. op'.undo[1] = live[a]
    BY <1>2, <2>3
  <2> QED
    BY <1>1, <2>1, <2>3, <2>4 DEF Stored
<1>3. Planned'
  <2>1. CASE todo' = <<>>
    BY <2>1, NoElement DEF Planned
  <2>2. ASSUME NEW a \in Accts, BeginSave(a) PROVE Planned'
    <3>1. newest[a] < MaxVersion /\ todo' = Put(a, newest[a] + 1) /\ op'.kind \in {"save", "upsert"} /\ op'.acct = a
      BY <2>2 DEF BeginSave, Begin, NoOp
    <3>2. newest' = newest
      BY <1>1 DEF history
    <3> DEFINE s == Put(a, newest[a] + 1)
    <3>3. \A i \in 1..Len(s) : /\ s[i].file = a /\ s[i].fails = "throw"
                               /\ s[i].to = "live" => i = Len(s) /\ s[i].val = newest[a] + 1
      BY PutElements
    <3> HIDE DEF s
    <3>4. todo' = s
      BY <3>1 DEF s
    <3> QED
      BY <3>1, <3>2, <3>3, <3>4 DEF Planned, Deleting
  <2>3. ASSUME NEW a \in Accts, BeginLoad(a) PROVE FALSE
    BY <2>3, StoredIsSound DEF BeginLoad, VaultInv
  <2> QED
    BY <2>1, <2>2, <2>3 DEF BeginRead, BeginOnIndex, Begin
<1> QED
  BY <1>1, <1>2, <1>3 DEF VaultInv

LEMMA VaultThrows ==
  ASSUME TypeInv, VaultInv, FilesAreSafe, Throws, UNCHANGED <<live, history>>
  PROVE  Planned' /\ op'.undo = <<>>
<1>1. op.undo # <<>> => Deleting /\ op.acct \in Accts /\ Stored(op.acct, op.undo[1])
  BY DEF TypeInv, Shape, OnAccount, Deleting, VaultInv
<1>2. op'.kind = op.kind /\ op'.acct = op.acct /\ op'.undo = <<>>
  BY ThrowsTyped DEF Throws, Continues, TypeInv, Shape, Operation
<1>3. CASE op.undo = <<>>
  <2>1. todo' = <<>>
    BY <1>3, ThrowsElements
  <2> QED
    BY <1>2, <2>1, NoElement DEF Planned
<1>4. CASE op.undo # <<>>
  <2>1. /\ Len(todo') = 3 /\ \A i \in 1..3 : todo'[i].fails = "ignored"
        /\ todo'[1].file = op.acct /\ todo'[1].val = op.undo[1]
        /\ todo'[2].to = "bak" /\ todo'[3].file = Index
    BY <1>4, ThrowsElements
  <2>2. ASSUME NEW i \in 1..Len(todo')
        PROVE  /\ todo'[i].fails # "abandoned"
               /\ todo'[i].to = "live" /\ todo'[i].file \in Accts => todo'[i].file = op.acct /\ todo'[i].val = op.undo[1]
    <3>1. i = 1 \/ i = 2 \/ i = 3
      BY <2>1
    <3> QED
      BY <2>1, <3>1, StoreAssumption
  <2>3. newest' = newest /\ Stored(op.acct, op.undo[1]) /\ Deleting
    BY <1>1, <1>4 DEF history
  <2> QED
    BY <1>2, <2>2, <2>3 DEF Planned, Stored, Deleting
<1> QED
  BY <1>3, <1>4

LEMMA VaultTurns ==
  ASSUME TypeInv, TypeInv', VaultInv, UNCHANGED world, FilesAreSafe, Turns
  PROVE  VaultInv'
<1>1. UNCHANGED <<live, bak, history>>
  BY DEF Turns, ReadIndex, Reconcile, Check, Rebuild, Listed, Act, ScanOne, Turn
<1>2. Continues(op, op')
  BY TurnsTyped
<1>3. /\ \A a \in Accts : Stored(a, live[a])'
      /\ op'.undo # <<>> => Stored(op.acct, op.undo[1])'
  BY <1>1, <1>2 DEF VaultInv, Stored, Continues, history
<1>4. Planned'
  <2>1. CASE OnlyIndex(todo')
    BY <2>1, OnlyIndexPlanned
  <2>2. CASE Throws
    BY <1>1, <2>2, VaultThrows
  <2>3. ASSUME NEW a \in Accts, NeedsRestore(a) PROVE FALSE
    BY <2>3, StoredIsSound DEF VaultInv
  <2>4. ASSUME Deleting, NEW v,
               todo' = Removal(op.acct, v)
        PROVE  Planned'
    <3> DEFINE s == Removal(op.acct, v)
    <3>1. \A i \in 1..Len(s) :
             /\ s[i].fails = "throw"
             /\ s[i].to = "live" /\ s[i].file # Index => s[i].file = op.acct /\ s[i].val = None
      <4>1. \A i \in 1..Len(s) :
              /\ s[i].fails = "throw"
              /\ i = 1 => s[i].file = op.acct /\ s[i].val = None
              /\ i = 2 => s[i].to = "bak"
              /\ i > 2 => s[i].file = Index
        BY RemovalElements
      <4>2. Len(s) \in {3, 4}
        BY RemovalElements
      <4> HIDE DEF s
      <4> QED
        BY <4>1, <4>2
    <3> HIDE DEF s
    <3>2. todo' = s
      BY <2>4 DEF s
    <3> QED
      BY <1>2, <2>4, <3>1, <3>2, StoreAssumption DEF Planned, Stored, Deleting, Continues
  <2> QED
    BY <2>1, <2>2, <2>3, <2>4, TurnWrites
<1> QED
  BY <1>3, <1>4 DEF VaultInv

\* A write to the file of an account, where only the index may be damaged: the account
\* is saved anew, or the deletion takes it away or puts it back.
LEMMA PlannedWrite ==
  ASSUME TypeInv, VaultInv, FilesAreSafe, WriteDone, w.to = "live", w.file \in Accts
  PROVE  /\ w.file = op.acct
         /\ live' = [live EXCEPT ![w.file] = w.val]
         /\ Deleting => Stored(w.file, w.val) /\ newest' = newest
         /\ ~ Deleting => /\ todo' = <<>>
                          /\ w.val = newest[w.file] + 1 /\ newest[w.file] < MaxVersion
                          /\ newest' = [newest EXCEPT ![w.file] = @ + 1]
<1>1. /\ w = todo[1] /\ Len(todo) \in Nat \ {0} /\ Len(Tail(todo)) = Len(todo) - 1 /\ 1 \in 1..Len(todo)
      /\ Tail(todo) \in Seq(Pending) /\ todo' = Tail(todo) /\ newest \in [Accts -> Nat]
  BY MovedUp DEF WriteDone, TypeInv
<1>2. /\ w.file = op.acct
      /\ IF Deleting THEN Stored(op.acct, w.val)
         ELSE 1 = Len(todo) /\ w.val = newest[op.acct] + 1 /\ newest[op.acct] < MaxVersion
  BY <1>1 DEF VaultInv, Planned
<1>3. CASE Deleting
  <2>1. newest' = newest
    BY <1>1, <1>2, <1>3, StoreAssumption DEF WriteDone, Stored, Sound, history
  <2> QED
    BY <1>2, <1>3, <2>1 DEF WriteDone
<1>4. CASE ~ Deleting
  <2>1. w.val \in Nat /\ w.val > newest[w.file] /\ Sound(w.val)
    BY <1>1, <1>2, <1>4, StoreAssumption DEF Sound
  <2>2. newest' = [newest EXCEPT ![w.file] = @ + 1]
    BY <1>2, <1>4, <2>1 DEF WriteDone
  <2>3. todo' = <<>>
    BY <1>1, <1>2, <1>4, EmptySeq
  <2> QED
    BY <1>2, <1>4, <2>2, <2>3 DEF WriteDone
<1> QED
  BY <1>3, <1>4

\* The first of the planned writes is made, or is given up.
LEMMA PlannedOn ==
  ASSUME TypeInv, todo # <<>>, Planned, todo' = Tail(todo), newest' = newest,
         op'.kind = op.kind, op'.acct = op.acct
  PROVE  Planned'
<1>1. /\ Len(todo) \in Nat \ {0} /\ Len(todo') = Len(todo) - 1
      /\ \A i \in 1..Len(todo') : i + 1 \in 1..Len(todo) /\ todo'[i] = todo[i + 1]
  BY MovedUp DEF TypeInv
<1>2. ASSUME NEW i \in 1..Len(todo')
      PROVE  /\ todo'[i].fails # "abandoned"
             /\ todo'[i].to = "live" /\ todo'[i].file \in Accts =>
                  /\ todo'[i].file = op.acct
                  /\ IF Deleting THEN Stored(op.acct, todo'[i].val)
                     ELSE i = Len(todo') /\ todo'[i].val = newest[op.acct] + 1 /\ newest[op.acct] < MaxVersion
  <2>1. i + 1 \in 1..Len(todo) /\ todo'[i] = todo[i + 1]
    BY <1>1
  <2>2. i + 1 = Len(todo) => i = Len(todo')
    <3> DEFINE n == Len(todo)
               m == Len(todo')
    <3>1. n \in Nat \ {0} /\ m = n - 1 /\ i \in 1..m
      BY <1>1
    <3> HIDE DEF n, m
    <3>2. i + 1 = n => i = m
      BY <3>1
    <3> QED
      BY <3>2 DEF n, m
  <2> QED
    BY <2>1, <2>2 DEF Planned
<1> QED
  BY <1>2 DEF Planned, Deleting, Stored

LEMMA VaultWrites ==
  ASSUME TypeInv, TypeInv', VaultInv, UNCHANGED world, FilesAreSafe, WriteDone
  PROVE  VaultInv'
<1>1. /\ w = todo[1] /\ w \in Pending /\ Len(todo) \in Nat \ {0} /\ Len(todo') = Len(todo) - 1
      /\ \A i \in 1..Len(todo') : i + 1 \in 1..Len(todo) /\ todo'[i] = todo[i + 1]
      /\ newest \in [Accts -> Nat] /\ op' = op /\ todo # <<>>
  BY MovedUp DEF WriteDone, TypeInv
<1>2. CASE w.to = "live" /\ w.file \in Accts
  <2>1. CASE Deleting
    <3>1. newest' = newest /\ live' = [live EXCEPT ![w.file] = w.val] /\ Stored(w.file, w.val)
      BY <1>2, <2>1, PlannedWrite
    <3>2. \A a \in Accts : Stored(a, live[a])'
      BY <3>1 DEF VaultInv, Stored, TypeInv, TypedFiles, Files
    <3>3. op'.undo # <<>> => Stored(op.acct, op.undo[1])'
      BY <1>1, <3>1 DEF VaultInv, Stored
    <3>4. Planned'
      BY <1>1, <3>1, PlannedOn DEF VaultInv, WriteDone
    <3> QED
      BY <3>2, <3>3, <3>4 DEF VaultInv
  <2>2. CASE ~ Deleting
    <3>1. /\ todo' = <<>> /\ w.val = newest[w.file] + 1
          /\ newest' = [newest EXCEPT ![w.file] = @ + 1] /\ live' = [live EXCEPT ![w.file] = w.val]
      BY <1>2, <2>2, PlannedWrite
    <3>2. \A a \in Accts : Stored(a, live[a])'
      BY <1>1, <1>2, <3>1 DEF VaultInv, Stored, TypeInv, TypedFiles, Files
    <3>3. op'.undo = <<>>
      BY <1>1, <2>2 DEF TypeInv, Shape, Deleting
    <3>4. Planned'
      BY <3>1, NoElement DEF Planned
    <3> QED
      BY <3>2, <3>3, <3>4 DEF VaultInv
  <2> QED
    BY <2>1, <2>2
<1>3. CASE ~ (w.to = "live" /\ w.file \in Accts)
  <2>1. newest' = newest /\ \A a \in Accts : live'[a] = live[a]
    BY <1>1, <1>3, StoreAssumption DEF WriteDone, history, Files, TypeInv, TypedFiles
  <2>2. Planned'
    BY <1>1, <2>1, PlannedOn DEF VaultInv, WriteDone
  <2> QED
    BY <1>1, <2>1, <2>2 DEF VaultInv, Stored
<1> QED
  BY <1>2, <1>3

LEMMA VaultWriteFails ==
  ASSUME TypeInv, TypeInv', VaultInv, UNCHANGED world, FilesAreSafe, WriteFails
  PROVE  VaultInv'
<1>1. w = todo[1] /\ 1 \in 1..Len(todo) /\ todo # <<>>
  <2>1. todo \in Seq(Pending) /\ todo # <<>>
    BY DEF WriteFails, TypeInv
  <2>2. w = todo[1] /\ Len(todo) \in Nat \ {0}
    BY <2>1, MovedUp
  <2> QED
    BY <2>1, <2>2
<1>2. UNCHANGED <<live, history>> /\ Continues(op, op')
  BY WriteFailsTyped DEF WriteFails
<1>3. w.fails # "abandoned"
  BY <1>1 DEF VaultInv, Planned
<1>4. Planned'
  <2>1. CASE todo' = Tail(todo)
    BY <1>1, <1>2, <2>1, PlannedOn DEF VaultInv, Continues, history
  <2>2. CASE Throws
    BY <1>2, <2>2, VaultThrows
  <2>3. CASE todo' = <<Quarantine(Index)>>
    <3> DEFINE Q == Quarantine(Index)
    <3>1. Q.file = Index /\ Q.fails = "ignored"
      BY QuarantineIs
    <3> HIDE DEF Q
    <3>2. \A i \in 1..Len(<<Q>>) : <<Q>>[i] = Q
      BY Elements
    <3> QED
      BY <2>3, <3>1, <3>2, OnlyIndexPlanned DEF OnlyIndex, Q
  <2> QED
    BY <1>3, <2>1, <2>2, <2>3 DEF WriteFails, Scan
<1> QED
  BY <1>2, <1>4 DEF VaultInv, Stored, Continues, history

LEMMA VaultOthers ==
  ASSUME TypeInv, TypeInv', VaultInv, UNCHANGED world, FilesAreSafe,
         End \/ Crash \/ \E f \in world.tearable : Tear(f)
  PROVE  VaultInv'
<1>1. todo' = <<>> /\ op' = NoOp /\ newest' = newest /\ \A a \in Accts : live'[a] = live[a]
  BY StoreAssumption DEF End, Crash, Tear, Idle, TypeInv, TypedFiles, Files, FilesAreSafe, history
<1>2. Planned'
  BY <1>1, NoElement DEF Planned
<1> QED
  BY <1>1, <1>2 DEF VaultInv, Stored, NoOp

LEMMA VaultInit == Init => VaultInv
  BY NoElement DEF Init, VaultInv, Stored, Planned, NoOp, Files

LEMMA VaultStep == TypeInv /\ TypeInv' /\ VaultInv /\ [Next]_vars => VaultInv'
<1> SUFFICES ASSUME TypeInv, TypeInv', VaultInv, [Next]_vars, FilesAreSafe' PROVE VaultInv'
  BY DEF VaultInv
<1>1. CASE UNCHANGED vars
  BY <1>1 DEF vars, VaultInv, Stored, Planned, Deleting, FilesAreSafe
<1>2. CASE Next
  <2>1. UNCHANGED world /\ FilesAreSafe
    BY <1>2 DEF Next, FilesAreSafe
  <2> QED
    BY <1>2, <2>1, VaultBegins, VaultTurns, VaultWrites, VaultWriteFails, VaultOthers DEF Next, Step, Turns
<1> QED
  BY <1>1, <1>2
-----------------------------------------------------------------------------
(* The refinement                                                          *)

content == [a \in Accts |-> IF FilesAreSafe THEN live[a] ELSE None]
stored == [a \in Accts |-> IF FilesAreSafe THEN newest[a] ELSE 0]
doomed == IF FilesAreSafe /\ Deleting THEN op.acct ELSE None

Abstract == <<content, stored, doomed>>

\* The files and the account being deleted are the same.
LEMMA VaultStutters ==
  ASSUME UNCHANGED world, FilesAreSafe => UNCHANGED <<newest, doomed>> /\ \A a \in Accts : live'[a] = live[a]
  PROVE  UNCHANGED Abstract
<1>1. FilesAreSafe' <=> FilesAreSafe
  BY DEF FilesAreSafe
<1>2. CASE FilesAreSafe
  <2>1. content' = content
    BY <1>1, <1>2 DEF content
  <2>2. stored' = stored
    BY <1>1, <1>2 DEF stored
  <2> QED
    BY <1>2, <2>1, <2>2 DEF Abstract
<1>3. CASE ~ FilesAreSafe
  BY <1>1, <1>3 DEF Abstract, content, stored, doomed
<1> QED
  BY <1>2, <1>3

LEMMA VaultInitMaps == Init => Vault!Init
<1> SUFFICES ASSUME Init PROVE Vault!Init
  OBVIOUS
<1>1. \A a \in Accts : live[a] = None /\ newest[a] = 0
  BY DEF Init, Files
<1>2. ~ Deleting
  BY DEF Init, NoOp, Deleting
<1> QED
  BY <1>1, <1>2 DEF Vault!Init

LEMMA VaultStepMaps == TypeInv /\ TypeInv' /\ VaultInv /\ [Next]_vars => [Vault!Next]_Abstract
<1> SUFFICES ASSUME TypeInv, TypeInv', VaultInv, [Next]_vars PROVE Vault!Next \/ UNCHANGED Abstract
  OBVIOUS
<1>1. CASE UNCHANGED vars
  BY <1>1, VaultStutters DEF vars, doomed, Deleting, FilesAreSafe
<1>2. CASE Next /\ ~ FilesAreSafe
  BY <1>2, VaultStutters DEF Next
<1>3. ASSUME Next, FilesAreSafe PROVE Vault!Next \/ UNCHANGED Abstract
  <2>0. UNCHANGED world /\ FilesAreSafe /\ FilesAreSafe'
    BY <1>3 DEF Next, FilesAreSafe
  <2>1. CASE BeginRead \/ \E a \in Accts : BeginSave(a) \/ BeginLoad(a) \/ BeginOnIndex(a)
    <3>1. UNCHANGED <<live, history>> /\ Idle /\ ~ Deleting /\ doomed = None
      BY <2>1 DEF BeginRead, BeginSave, BeginLoad, BeginOnIndex, Begin, Idle, Deleting, doomed
    <3>2. content' = content /\ stored' = stored
      BY <2>0, <3>1 DEF content, stored, history
    <3>3. CASE Deleting'
      <4>1. op'.acct \in Accts /\ doomed' = op'.acct
        BY <2>0, <3>3 DEF TypeInv, Shape, OnAccount, Deleting, doomed
      <4> QED
        BY <3>1, <3>2, <4>1 DEF Vault!Next, Vault!Doom, content, stored, doomed
    <3>4. CASE ~ Deleting'
      BY <3>1, <3>2, <3>4 DEF Abstract, doomed
    <3> QED BY <3>3, <3>4
  <2>2. CASE Turns \/ WriteFails
    <3>1. UNCHANGED <<live, newest>> /\ Continues(op, op')
      BY <2>0, <2>2, TurnsTyped, WriteFailsTyped
      DEF Turns, ReadIndex, Reconcile, Check, Rebuild, Listed, Act, ScanOne, Turn, WriteFails, history
    <3> QED
      BY <2>0, <3>1, VaultStutters DEF Continues, doomed, Deleting, FilesAreSafe
  <2>3. CASE End \/ Crash \/ \E f \in world.tearable : Tear(f)
    <3>1. op' = NoOp /\ newest' = newest /\ \A a \in Accts : live'[a] = live[a]
      BY <2>0, <2>3, StoreAssumption DEF End, Crash, Tear, Idle, TypeInv, TypedFiles, Files, FilesAreSafe, history
    <3>2. doomed' = None
      BY <3>1 DEF NoOp, doomed, Deleting
    <3>3. content' = content /\ stored' = stored
      BY <2>0, <3>1 DEF content, stored
    <3>4. CASE doomed # None
      BY <3>2, <3>3, <3>4 DEF Vault!Next, Vault!Settle, content, stored, doomed
    <3>5. CASE doomed = None
      BY <3>2, <3>3, <3>5 DEF Abstract
    <3> QED
      BY <3>4, <3>5
  <2>4. CASE WriteDone
    <3>1. w \in Pending /\ op' = op /\ doomed' = doomed
      BY <2>0, <2>4, MovedUp DEF WriteDone, TypeInv, doomed, Deleting
    <3>2. CASE ~ (w.to = "live" /\ w.file \in Accts)
      <4>1. newest' = newest /\ \A a \in Accts : live'[a] = live[a]
        BY <2>4, <3>1, <3>2, StoreAssumption DEF WriteDone, history, Files, TypeInv, TypedFiles
      <4> QED
        BY <2>0, <3>1, <4>1, VaultStutters
    <3>3. CASE w.to = "live" /\ w.file \in Accts /\ Deleting
      <4> DEFINE a == w.file
      <4>1. newest' = newest /\ live' = [live EXCEPT ![a] = w.val] /\ Stored(a, w.val) /\ a = op.acct /\ a \in Accts
        BY <1>3, <2>4, <3>3, PlannedWrite
      <4>2. doomed = a
        BY <2>0, <3>3, <4>1 DEF doomed
      <4>3. stored' = stored
        BY <2>0, <4>1 DEF stored
      <4> HIDE DEF a
      <4>4. content' = [content EXCEPT ![a] = w.val]
        BY <2>0, <4>1 DEF content, TypeInv, TypedFiles, Files
      <4>5. CASE w.val = None
        BY <3>1, <4>1, <4>2, <4>3, <4>4, <4>5 DEF Vault!Next, Vault!Remove, content, stored, doomed
      <4>6. CASE w.val = newest[a] /\ w.val > 0
        <5>1. stored[a] = newest[a]
          BY <2>0, <4>1 DEF stored
        <5> QED
          BY <3>1, <4>1, <4>2, <4>3, <4>4, <4>6, <5>1 DEF Vault!Next, Vault!PutBack, content, stored, doomed
      <4> QED
        BY <4>1, <4>5, <4>6 DEF Stored
    <3>4. CASE w.to = "live" /\ w.file \in Accts /\ ~ Deleting
      <4> DEFINE a == w.file
      <4>1. /\ newest' = [newest EXCEPT ![a] = @ + 1] /\ live' = [live EXCEPT ![a] = w.val]
            /\ w.val = newest[a] + 1 /\ newest[a] < MaxVersion /\ a \in Accts
        BY <1>3, <2>4, <3>4, PlannedWrite
      <4> HIDE DEF a
      <4>2. doomed = None
        BY <3>4 DEF doomed
      <4>3. stored' = [stored EXCEPT ![a] = @ + 1] /\ stored'[a] = newest[a] + 1 /\ stored[a] = newest[a]
        BY <2>0, <4>1 DEF stored, TypeInv
      <4>4. content' = [content EXCEPT ![a] = w.val]
        BY <2>0, <4>1 DEF content, TypeInv, TypedFiles, Files
      <4> QED
        BY <3>1, <4>1, <4>2, <4>3, <4>4 DEF Vault!Next, Vault!Save, content, stored, doomed
    <3> QED
      BY <3>2, <3>3, <3>4
  <2> QED
    BY <1>3, <2>1, <2>2, <2>3, <2>4 DEF Next, Step, Turns
<1> QED
  BY <1>1, <1>2, <1>3

\* Where only the index may be damaged, the account files are an AccountVault: whatever
\* write fails and wherever the program is killed, an account is there in its newest
\* version or not at all, and only a deletion takes it away.
THEOREM StoreIsAVault == Spec => VaultSpec
<1>1. Spec => [](TypeInv /\ VaultInv)
  <2>1. Init => TypeInv /\ VaultInv
    BY TypeInit, VaultInit
  <2>2. TypeInv /\ VaultInv /\ [Next]_vars => (TypeInv /\ VaultInv)'
    BY TypeStep, VaultStep
  <2> QED
    BY <2>1, <2>2, PTL DEF Spec
<1>2. (TypeInv /\ VaultInv) /\ (TypeInv /\ VaultInv)' /\ [Next]_vars => [Vault!Next]_(Vault!vars)
  <2>1. Vault!vars = Abstract
    BY DEF Vault!vars, Abstract, content, stored, doomed
  <2> QED
    BY <2>1, VaultStepMaps DEF Vault!vars, Abstract, content, stored, doomed
<1> QED
  BY <1>1, <1>2, VaultInitMaps, PTL DEF Spec, VaultSpec, Vault!Spec
-----------------------------------------------------------------------------
(* What is deleted is forgotten                                            *)

\* The accounts that are deleted, the one among them that is being deleted.
Forgotten == gone \cup (IF op.phase = "done" /\ op.undo # <<>> THEN {op.acct} ELSE {})

\* An index that names none of these, and a file that holds no other.
Names(x, S) == x.ids \cap S # {} \/ x.cur \in S
Clean(x, S) == Sound(x) => ~ Names(x, S)

OfIndex(x) == x.to = "live" /\ x.file = Index
LastOfIndex == todo # <<>> /\ OfIndex(todo[Len(todo)])

\* No deleted account has a file; that of the account being deleted goes next.
FilesGone ==
  /\ \A a \in gone : live[a] = None
  /\ op.phase = "done" /\ op.undo # <<>> =>
       live[op.acct] = None \/ (todo # <<>> /\ todo[1].to = "live" /\ todo[1].file = op.acct)

\* What a deletion captured names none.
CapturedClean ==
  op.undo # <<>> => /\ op.acct \in gone => op.undo[1] = None
                    /\ Clean(op.undo[3], gone)
                    /\ op.phase # "listing"

\* Neither does what the operation has in memory.
MemoryClean ==
  /\ op.phase \in {"check", "rebuild", "act"} => ~ Names(op.idx, gone)
  /\ op.seen \cap gone = {} /\ op.listed \cap gone = {}
  /\ op.kind = "point" => op.acct \notin gone
  /\ op.kind = "upsert" /\ (op.phase # "index" \/ todo = <<>>) => op.acct \notin gone
  /\ op.kind = "upsert" /\ op.phase = "index" /\ todo # <<>> =>
       LET x == todo[Len(todo)] IN x.to = "live" /\ x.file = op.acct /\ Sound(x.val)

\* Nor what it is about to write, but for the index that comes from the .bak.
WritesClean ==
  \A i \in 1..Len(todo) : todo[i].to = "live" =>
    /\ todo[i].file \in Forgotten => todo[i].val = None \/ (Sound(todo[i].val) /\ op.undo = <<>>)
    /\ todo[i].file = Index /\ op.phase # "reconcile" => Clean(todo[i].val, Forgotten)

\* The index on disk names none, or is written before it is read again.
IndexClean ==
  /\ Clean(live[Index], Forgotten) \/ op.phase = "reconcile" \/ LastOfIndex
  /\ op.phase = "reconcile" =>
       IF todo = <<>> THEN live[Index] = op.idx ELSE LastOfIndex /\ todo[Len(todo)].val = op.idx

Forgets == FilesGone /\ CapturedClean /\ MemoryClean /\ WritesClean /\ IndexClean

ForgetInv == world.trouble = {} => Forgets

\* The index on disk names none when nothing is about to be written.
LEMMA IndexIsClean ==
  ASSUME Forgets, todo = <<>>, op.phase # "reconcile"
  PROVE  Clean(live[Index], Forgotten)
  BY DEF Forgets, IndexClean, LastOfIndex

LEMMA NoneIsClean ==
  ASSUME NEW S
  PROVE  /\ Clean(None, S) /\ Clean(Torn, S)
         /\ TypeInv /\ S \subseteq Accts => ~ Names(emptyIndex, S)
  BY StoreAssumption DEF Clean, Names, Sound, emptyIndex, Files

LEMMA ForgottenAccts ==
  ASSUME TypeInv
  PROVE  Forgotten \subseteq Accts /\ Index \notin Forgotten /\ None \notin Forgotten
  BY StoreAssumption DEF TypeInv, Shape, Forgotten, OnAccount, Files

\* After a turn.
LEMMA ForgetsOn ==
  ASSUME TypeInv, TypeInv', Forgets, todo = <<>>, UNCHANGED <<live, history>>,
         op'.kind = op.kind, op'.acct = op.acct, op'.undo \in {op.undo, <<>>},
         op'.phase = "done" /\ op'.undo # <<>> =>
           todo' # <<>> /\ todo'[1].to = "live" /\ todo'[1].file = op.acct,
         op'.phase \in {"check", "rebuild", "act"} => ~ Names(op'.idx, gone),
         op'.seen \cap gone = {}, op'.listed \cap gone = {},
         op'.phase = "listing" => op.phase = "listing",
         op'.phase = "index" => todo' = <<>>,
         \A i \in 1..Len(todo') : todo'[i].to = "live" =>
           /\ todo'[i].file \in Forgotten' => todo'[i].val = None
           /\ todo'[i].file = Index /\ op'.phase # "reconcile" => Clean(todo'[i].val, Forgotten'),
         Clean(live[Index], Forgotten') \/ op'.phase = "reconcile" \/ LastOfIndex',
         op'.phase = "reconcile" => LastOfIndex' /\ todo'[Len(todo')].val = op'.idx
  PROVE  Forgets'
<1>1. FilesGone'
  BY DEF Forgets, FilesGone, history
<1>2. CapturedClean'
  BY DEF Forgets, CapturedClean, history, Clean
<1>3. MemoryClean'
  BY DEF Forgets, MemoryClean, history, Clean
<1>4. WritesClean'
  BY DEF WritesClean, Clean
<1>5. IndexClean'
  BY DEF IndexClean, Clean, LastOfIndex
<1> QED
  BY <1>1, <1>2, <1>3, <1>4, <1>5 DEF Forgets

LEMMA GoToIs ==
  ASSUME Shape(op), NEW phase, NEW idx, NEW writes, GoTo(phase, idx, writes)
  PROVE  /\ todo' = writes /\ op'.phase = phase /\ op'.idx = idx
         /\ op'.kind = op.kind /\ op'.acct = op.acct /\ op'.undo = op.undo /\ op'.left = op.left
         /\ op'.seen = op.seen /\ op'.missed = op.missed /\ op'.listed = op.listed /\ op'.skip = op.skip
  BY DEF GoTo, Shape, Operation

LEMMA ScanIs ==
  ASSUME Shape(op), NEW idx, NEW writes, Scan(idx, writes)
  PROVE  /\ todo' = writes /\ op'.phase = "rebuild" /\ op'.idx = idx
         /\ op'.kind = op.kind /\ op'.acct = op.acct /\ op'.undo = op.undo /\ op'.left = Present
         /\ op'.seen = {} /\ op'.missed = FALSE /\ op'.listed = op.listed /\ op'.skip = op.skip
  BY DEF Scan, Shape, Operation

\* An index is put in its place.
LEMMA PutIndexWrites ==
  ASSUME NEW v, todo' = Put(Index, v)
  PROVE  /\ LastOfIndex' /\ todo'[Len(todo')].val = v /\ Len(todo') \in {1, 2}
         /\ \A i \in 1..Len(todo') : /\ todo'[i].file = Index /\ todo'[i].fails = "throw"
                                     /\ todo'[i].to = "live" => todo'[i].val = v
<1> DEFINE s == Put(Index, v)
<1>1. /\ Len(s) \in {1, 2}
      /\ \A i \in 1..Len(s) : /\ s[i].file = Index /\ s[i].fails = "throw"
                              /\ s[i].to = "live" <=> i = Len(s)
                              /\ s[i].to = "live" => s[i].val = v
  BY PutElements
<1> HIDE DEF s
<1>2. todo' = s
  BY DEF s
<1>3. Len(s) \in 1..Len(s) /\ s # <<>>
  BY <1>1, Elements
<1> QED
  BY <1>1, <1>2, <1>3 DEF LastOfIndex, OfIndex

LEMMA NoWrites ==
  ASSUME NEW s, s = <<>>
  PROVE  Len(s) = 0 /\ \A i \in 1..Len(s) : FALSE
  BY NoElement, Elements

LEMMA ReadIndexForgets ==
  ASSUME TypeInv, TypeInv', world.trouble = {}, Forgets, ReadIndex
  PROVE  Forgets'
<1>1. /\ todo = <<>> /\ op.phase = "index" /\ UNCHANGED <<live, bak, history>> /\ Shape(op)
      /\ Forgotten = gone /\ gone' = gone /\ Clean(live[Index], gone)
      /\ op.seen \cap gone = {} /\ op.listed \cap gone = {}
  <2>1. todo = <<>> /\ op.phase = "index" /\ UNCHANGED <<live, bak, history>> /\ Shape(op)
    BY DEF ReadIndex, Turn, TypeInv
  <2>2. Forgotten = gone
    BY <2>1 DEF Forgotten
  <2> QED
    BY <2>1, <2>2, IndexIsClean DEF Forgets, MemoryClean, history
<1>2. Reads \in {"act", "check"} /\ ~ Names(emptyIndex, gone)
  BY NoneIsClean DEF Reads, TypeInv
<1>3. ASSUME NEW idx, ~ Names(idx, gone), GoTo(Reads, idx, <<>>) PROVE Forgets'
  <2>1. /\ todo' = <<>> /\ op'.phase = Reads /\ op'.idx = idx
        /\ op'.kind = op.kind /\ op'.acct = op.acct /\ op'.undo = op.undo
        /\ op'.seen = op.seen /\ op'.listed = op.listed
    BY <1>1, <1>3, GoToIs
  <2>2. Forgotten' = gone
    BY <1>1, <1>2, <2>1 DEF Forgotten
  <2> QED
    BY <1>1, <1>2, <1>3, <2>1, <2>2, NoWrites, ForgetsOn
<1>4. CASE GoTo("reconcile", bak[Index], Restore(Index, "rebuild"))
  <2>1. /\ todo' = Restore(Index, "rebuild") /\ op'.phase = "reconcile" /\ op'.idx = bak[Index]
        /\ op'.kind = op.kind /\ op'.acct = op.acct /\ op'.undo = op.undo
        /\ op'.seen = op.seen /\ op'.listed = op.listed
    BY <1>1, <1>4, GoToIs
  <2>2. /\ Len(todo') = 2 /\ todo'[1].file = Index /\ todo'[2].file = Index /\ todo'[2].to = "live"
        /\ todo'[2].val = bak[Index]
    BY <2>1, RestoreElements, QuarantineIs
  <2>3. Forgotten' = gone /\ Index \notin gone
    BY <1>1, <2>1, ForgottenAccts DEF Forgotten
  <2>4. LastOfIndex' /\ todo'[Len(todo')].val = op'.idx
    BY <2>1, <2>2, Elements DEF LastOfIndex, OfIndex
  <2>5. \A i \in 1..Len(todo') : todo'[i].file \notin Forgotten'
    <3>1. \A i \in 1..Len(todo') : i = 1 \/ i = 2
      BY <2>2
    <3> QED
      BY <2>2, <2>3, <3>1
  <2> QED
    BY <1>1, <2>1, <2>4, <2>5, ForgetsOn
<1>5. CASE Scan(emptyIndex, <<Quarantine(Index)>>)
  <2>1. /\ todo' = <<Quarantine(Index)>> /\ op'.phase = "rebuild" /\ op'.idx = emptyIndex
        /\ op'.kind = op.kind /\ op'.acct = op.acct /\ op'.undo = op.undo
        /\ op'.seen = {} /\ op'.listed = op.listed
    BY <1>1, <1>5, ScanIs
  <2>2. Len(todo') = 1 /\ todo'[1] = Quarantine(Index)
    BY <2>1, Elements
  <2>3. todo'[1].to = "live" /\ todo'[1].file = Index /\ todo'[1].val = None
    BY <2>2, QuarantineIs
  <2>4. Forgotten' = gone /\ Index \notin gone
    BY <1>1, <2>1, ForgottenAccts DEF Forgotten
  <2>5. LastOfIndex'
    BY <2>2, <2>3, Elements DEF LastOfIndex, OfIndex
  <2>6. \A i \in 1..Len(todo') : todo'[i].file \notin Forgotten' /\ Clean(todo'[i].val, Forgotten')
    <3>1. \A i \in 1..Len(todo') : i = 1
      BY <2>2
    <3> QED
      BY <2>3, <2>4, <3>1, NoneIsClean
  <2> QED
    BY <1>1, <1>2, <2>1, <2>5, <2>6, ForgetsOn
<1> QED
  BY <1>1, <1>2, <1>3, <1>4, <1>5 DEF ReadIndex, Clean

\* No deleted account is present.
LEMMA PresentIsClean ==
  ASSUME TypeInv, Forgets
  PROVE  Present \cap gone = {} /\ \A a \in gone : ~ Sound(live[a]) /\ ~ NeedsRestore(a)
  BY StoreAssumption DEF Forgets, FilesGone, Present, Sound, NeedsRestore

LEMMA IndexTurnsForget ==
  ASSUME TypeInv, TypeInv', world.trouble = {}, Forgets, Reconcile \/ Check \/ Rebuild
  PROVE  Forgets'
<1>1. /\ todo = <<>> /\ op.phase \in {"reconcile", "check", "rebuild"} /\ UNCHANGED <<live, bak, history>>
      /\ Shape(op) /\ gone' = gone /\ gone \subseteq Accts /\ None \notin gone
      /\ op.seen \cap gone = {} /\ op.listed \cap gone = {} /\ Reads \in {"act", "check"}
  BY StoreAssumption DEF Reconcile, Check, Rebuild, Turn, TypeInv, Forgets, MemoryClean, history, Reads, Files
<1>2. Forgotten = gone
  BY <1>1 DEF Forgotten
<1>3. ASSUME NEW phase \in {"check", "act"}, NEW idx, NEW writes, GoTo(phase, idx, writes), ~ Names(idx, gone),
             \/ writes = <<>> /\ Clean(live[Index], gone)
             \/ writes = Put(Index, idx)
      PROVE  Forgets'
  <2>1. /\ todo' = writes /\ op'.phase = phase /\ op'.idx = idx
        /\ op'.kind = op.kind /\ op'.acct = op.acct /\ op'.undo = op.undo
        /\ op'.seen = op.seen /\ op'.listed = op.listed
    BY <1>1, <1>3, GoToIs
  <2>2. Forgotten' = gone /\ Index \notin gone
    BY <1>1, <2>1, StoreAssumption DEF Forgotten
  <2>3. \A i \in 1..Len(todo') : todo'[i].to = "live" =>
           /\ todo'[i].file \notin Forgotten'
           /\ Clean(todo'[i].val, Forgotten')
    <3>1. CASE writes = <<>>
      BY <2>1, <3>1, NoWrites
    <3>2. CASE writes = Put(Index, idx)
      BY <1>3, <2>1, <2>2, <3>2, PutIndexWrites DEF Clean
    <3> QED BY <1>3, <3>1, <3>2
  <2>4. Clean(live[Index], Forgotten') \/ LastOfIndex'
    BY <1>3, <2>1, <2>2, PutIndexWrites
  <2> QED
    BY <1>1, <1>3, <2>1, <2>3, <2>4, ForgetsOn
<1>4. CASE Reconcile
  <2> DEFINE idx == Reconciled(op.idx)
  <2>1. live[Index] = op.idx /\ op.idx \in Listing
    BY <1>1, <1>4 DEF Reconcile, Turn, Forgets, IndexClean, Shape, Operation
  <2>2. ~ Names(idx, gone)
    BY <1>1, PresentIsClean DEF Reconciled, Names
  <2>3. GoTo(Reads, idx, IF idx = op.idx THEN <<>> ELSE Put(Index, idx))
    BY <1>4 DEF Reconcile
  <2> HIDE DEF idx
  <2>4. CASE idx = op.idx
    BY <1>1, <1>3, <2>1, <2>2, <2>3, <2>4 DEF Clean
  <2>5. CASE idx # op.idx
    BY <1>1, <1>3, <2>2, <2>3, <2>5
  <2> QED
    BY <2>4, <2>5
<1>5. CASE Check
  <2>1. Clean(live[Index], gone) /\ ~ Names(op.idx, gone)
    BY <1>2, <1>5, IndexIsClean DEF Check, Turn, Forgets, MemoryClean
  <2>2. CASE GoTo("act", op.idx, <<>>)
    BY <1>3, <2>1, <2>2
  <2>3. CASE Scan(op.idx, <<>>)
    <3>1. /\ todo' = <<>> /\ op'.phase = "rebuild" /\ op'.idx = op.idx
          /\ op'.kind = op.kind /\ op'.acct = op.acct /\ op'.undo = op.undo
          /\ op'.seen = {} /\ op'.listed = op.listed
      BY <1>1, <2>3, ScanIs
    <3>2. Forgotten' = gone
      BY <1>1, <3>1 DEF Forgotten
    <3> QED
      BY <1>1, <2>1, <3>1, <3>2, NoWrites, ForgetsOn
  <2> QED
    BY <1>5, <2>2, <2>3 DEF Check
<1>6. CASE Rebuild
  <2>1. Clean(live[Index], gone) /\ ~ Names(op.idx, gone)
    BY <1>2, <1>6, IndexIsClean DEF Rebuild, Turn, Forgets, MemoryClean
  <2>2. CASE GoTo("act", op.idx, <<>>)
    BY <1>3, <2>1, <2>2
  <2>3. ASSUME NEW cur \in RebuiltCurrent,
               GoTo("act", [ids |-> op.seen, cur |-> cur], Put(Index, [ids |-> op.seen, cur |-> cur]))
        PROVE  Forgets'
    <3> DEFINE idx == [ids |-> op.seen, cur |-> cur]
    <3>1. cur \notin gone
      BY <1>1 DEF RebuiltCurrent
    <3>2. ~ Names(idx, gone)
      BY <1>1, <3>1 DEF Names
    <3> HIDE DEF idx
    <3>3. GoTo("act", idx, Put(Index, idx))
      BY <2>3 DEF idx
    <3> QED
      BY <1>3, <3>2, <3>3
  <2> QED
    BY <1>6, <2>2, <2>3 DEF Rebuild
<1> QED
  BY <1>4, <1>5, <1>6

LEMMA ScanForgets ==
  ASSUME TypeInv, TypeInv', world.trouble = {}, Forgets, Listed \/ \E a \in Accts : ScanOne(a)
  PROVE  Forgets'
<1>1. /\ todo = <<>> /\ op.phase \in {"listing", "rebuild"} /\ UNCHANGED <<live, bak, history>>
      /\ Shape(op) /\ gone' = gone /\ gone \subseteq Accts
      /\ op.seen \cap gone = {} /\ op.listed \cap gone = {}
      /\ op.phase = "rebuild" => ~ Names(op.idx, gone)
      /\ op.phase = "listing" => op.undo = <<>>
  BY DEF Listed, ScanOne, Turn, TypeInv, Forgets, MemoryClean, CapturedClean, history
<1>2. Forgotten = gone /\ Clean(live[Index], gone)
  BY <1>1, IndexIsClean DEF Forgotten
<1>3. CASE Listed
  <2>1. /\ op' = [op EXCEPT !.phase = IF op.kind = "sync" THEN "index" ELSE "done",
                            !.listed = op.seen, !.skip = op.missed]
        /\ todo' = <<>> /\ op.phase = "listing"
    BY <1>1, <1>3 DEF Listed, Turn
  <2>2. /\ op'.phase \in {"index", "done"} /\ op'.listed = op.seen /\ op'.seen = op.seen
        /\ op'.kind = op.kind /\ op'.acct = op.acct /\ op'.undo = op.undo
    BY <1>1, <2>1 DEF Shape, Operation
  <2>3. Forgotten' = gone
    BY <1>1, <2>1, <2>2 DEF Forgotten
  <2> QED
    BY <1>1, <1>2, <2>1, <2>2, <2>3, NoWrites, ForgetsOn
<1>4. ASSUME NEW a \in Accts, ScanOne(a) PROVE Forgets'
  <2>1. a # Index
    BY StoreAssumption
  <2>2. /\ op'.kind = op.kind /\ op'.acct = op.acct /\ op'.undo = op.undo /\ op'.phase = op.phase
        /\ op'.idx = op.idx /\ op'.listed = op.listed
        /\ op'.seen \in {op.seen, op.seen \cup {a}}
        /\ a \in gone => op'.seen = op.seen
    <3>1. a \in gone => ~ Sound(live[a]) /\ ~ NeedsRestore(a)
      BY PresentIsClean
    <3>2. CASE Sound(live[a]) /\ op' = [op EXCEPT !.left = @ \ {a}, !.seen = @ \cup {a}]
      BY <1>1, <3>1, <3>2 DEF Shape, Operation
    <3>3. CASE NeedsRestore(a) /\ op' = [op EXCEPT !.left = @ \ {a}, !.seen = @ \cup {a}]
      BY <1>1, <3>1, <3>3 DEF Shape, Operation
    <3>4. CASE op' = [op EXCEPT !.left = @ \ {a}]
      BY <1>1, <3>4 DEF Shape, Operation
    <3> QED
      BY <1>4, <3>2, <3>3, <3>4 DEF ScanOne
  <2>3. todo' = <<>> \/ (a \notin gone /\ todo' \in Repairs(a))
    BY <1>1, <1>4, PresentIsClean DEF ScanOne, Repairs
  <2>4. Forgotten' = gone
    BY <1>1, <2>2 DEF Forgotten
  <2>5. \A i \in 1..Len(todo') : a \notin gone /\ todo'[i].file = a
    <3>1. CASE todo' = <<>>
      BY <3>1, NoWrites
    <3>2. CASE a \notin gone /\ todo' \in Repairs(a)
      BY <3>2, RepairFiles
    <3> QED
      BY <2>3, <3>1, <3>2
  <2> QED
    BY <1>1, <1>2, <2>1, <2>2, <2>4, <2>5, ForgetsOn
<1> QED
  BY <1>3, <1>4

\* The last turn of an operation, in which it writes an index, or nothing.
LEMMA EndsClean ==
  ASSUME TypeInv, TypeInv', Forgets, Turn("act"), op.undo = <<>>, NEW writes,
         GoTo("done", op.idx, writes),
         writes = <<>> \/ \E v : ~ Names(v, gone) /\ writes = Put(Index, v)
  PROVE  Forgets'
<1>1. /\ todo = <<>> /\ op.phase = "act" /\ UNCHANGED <<live, bak, history>>
      /\ Shape(op) /\ gone' = gone
      /\ op.seen \cap gone = {} /\ op.listed \cap gone = {}
  BY DEF Turn, TypeInv, Forgets, MemoryClean, history
<1>2. /\ todo' = writes /\ op'.phase = "done" /\ op'.kind = op.kind /\ op'.acct = op.acct
      /\ op'.undo = <<>> /\ op'.seen = op.seen /\ op'.listed = op.listed
  BY <1>1, GoToIs
<1>3. Forgotten = gone /\ Forgotten' = gone /\ Clean(live[Index], gone) /\ Index \notin gone
  BY <1>1, <1>2, IndexIsClean, StoreAssumption DEF Forgotten, TypeInv
<1>4. CASE writes = <<>>
  BY <1>1, <1>2, <1>3, <1>4, NoWrites, ForgetsOn
<1>5. ASSUME NEW v, ~ Names(v, gone), writes = Put(Index, v) PROVE Forgets'
  <2>1. /\ LastOfIndex'
        /\ \A i \in 1..Len(todo') : todo'[i].file = Index /\ (todo'[i].to = "live" => todo'[i].val = v)
    BY <1>2, <1>5, PutIndexWrites
  <2> QED
    BY <1>1, <1>2, <1>3, <1>5, <2>1, ForgetsOn DEF Clean
<1> QED
  BY <1>4, <1>5

LEMMA ActForgets ==
  ASSUME TypeInv, TypeInv', world.trouble = {}, Forgets, Act
  PROVE  Forgets'
<1>1. /\ todo = <<>> /\ op.phase = "act" /\ UNCHANGED <<live, bak, history>> /\ Turn("act")
      /\ Shape(op) /\ gone' = gone /\ gone \subseteq Accts /\ None \notin gone /\ Index \notin gone
      /\ op.seen \cap gone = {} /\ op.listed \cap gone = {}
      /\ ~ Names(op.idx, gone) /\ op.idx \in Listing
      /\ op.kind \in {"point", "upsert"} => op.acct \notin gone
  BY StoreAssumption DEF Act, Turn, TypeInv, Shape, Operation, Forgets, MemoryClean, history, Files
<1>2. Forgotten = gone /\ Clean(live[Index], gone)
  BY <1>1, IndexIsClean DEF Forgotten
<1>3. op.kind \notin {"delete", "drop"} => op.undo = <<>>
  BY <1>1 DEF Shape
<1>4. CASE op.kind = "upsert" /\ GoTo("done", op.idx, Put(Index, [op.idx EXCEPT !.ids = @ \cup {op.acct}]))
  <2>1. ~ Names([op.idx EXCEPT !.ids = @ \cup {op.acct}], gone)
    BY <1>1, <1>4 DEF Names, Listing
  <2> QED
    BY <1>1, <1>3, <1>4, <2>1, EndsClean
<1>5. CASE op.kind = "point" /\ GoTo("done", op.idx, Put(Index, [op.idx EXCEPT !.cur = op.acct]))
  <2>1. ~ Names([op.idx EXCEPT !.cur = op.acct], gone)
    BY <1>1, <1>5 DEF Names, Listing
  <2> QED
    BY <1>1, <1>3, <1>5, <2>1, EndsClean
<1>6. CASE op.kind = "read" /\ GoTo("done", op.idx, <<>>)
  BY <1>1, <1>3, <1>6, EndsClean
<1>7. CASE /\ op.kind = "sync"
           /\ GoTo("done", op.idx,
                   IF MaySync /\ op.idx.ids # op.listed
                   THEN Put(Index, [ids |-> op.listed,
                                    cur |-> IF op.idx.cur \in op.listed THEN op.idx.cur ELSE None])
                   ELSE <<>>)
  <2> DEFINE idx == [ids |-> op.listed, cur |-> IF op.idx.cur \in op.listed THEN op.idx.cur ELSE None]
  <2>1. ~ Names(idx, gone)
    BY <1>1 DEF Names
  <2> HIDE DEF idx
  <2>2. GoTo("done", op.idx, IF MaySync /\ op.idx.ids # op.listed THEN Put(Index, idx) ELSE <<>>)
    BY <1>7 DEF idx
  <2>3. CASE MaySync /\ op.idx.ids # op.listed
    BY <1>1, <1>3, <1>7, <2>1, <2>2, <2>3, EndsClean
  <2>4. CASE ~ (MaySync /\ op.idx.ids # op.listed)
    BY <1>1, <1>3, <1>7, <2>2, <2>4, EndsClean
  <2> QED
    BY <2>3, <2>4
<1>8. CASE op.kind = "delete" /\ Throws
  <2>1. /\ op'.kind = op.kind /\ op'.acct = op.acct /\ op'.undo = <<>> /\ op'.phase = "done"
        /\ op'.seen = op.seen /\ op'.listed = op.listed
    BY <1>1, <1>8 DEF Throws, Shape, Operation
  <2>2. Forgotten' = gone
    BY <1>1, <2>1 DEF Forgotten
  <2>3. CASE op.undo = <<>>
    <3>1. todo' = <<>>
      BY <1>8, <2>3, ThrowsElements
    <3> QED
      BY <1>1, <1>2, <2>1, <2>2, <3>1, NoWrites, ForgetsOn
  <2>4. CASE op.undo # <<>>
    <3>1. /\ Len(todo') = 3
          /\ todo'[1].file = op.acct /\ todo'[1].val = op.undo[1]
          /\ todo'[2].to = "bak"
          /\ todo'[3].to = "live" /\ todo'[3].file = Index /\ todo'[3].val = op.undo[3]
      BY <1>8, <2>4, ThrowsElements
    <3>2. /\ op.acct \in gone => op.undo[1] = None
          /\ Clean(op.undo[3], gone)
          /\ op.acct # Index
      BY <1>1, <2>4, StoreAssumption DEF Forgets, CapturedClean, Shape, OnAccount
    <3>3. LastOfIndex'
      BY <3>1, Elements DEF LastOfIndex, OfIndex
    <3>4. ASSUME NEW i \in 1..Len(todo'), todo'[i].to = "live"
          PROVE  /\ todo'[i].file \in Forgotten' => todo'[i].val = None
                 /\ todo'[i].file = Index => Clean(todo'[i].val, Forgotten')
      <4>1. i = 1 \/ i = 2 \/ i = 3
        BY <3>1
      <4> QED
        BY <1>1, <2>2, <3>1, <3>2, <3>4, <4>1
    <3> QED
      BY <1>1, <2>1, <2>2, <3>3, <3>4, ForgetsOn
  <2> QED
    BY <2>3, <2>4
<1>9. CASE /\ op.kind \in {"delete", "drop"}
           /\ GoTo("done", op.idx, Removal(op.acct, [ids |-> op.idx.ids \ {op.acct},
                                                     cur |-> IF op.idx.cur = op.acct THEN None ELSE op.idx.cur]))
  <2> DEFINE idx == [ids |-> op.idx.ids \ {op.acct}, cur |-> IF op.idx.cur = op.acct THEN None ELSE op.idx.cur]
  <2>1. op.acct \in Accts /\ op.acct # Index /\ op.acct # None
    BY <1>1, <1>9, StoreAssumption DEF Shape, OnAccount, Files
  <2>2. ~ Names(idx, gone \cup {op.acct})
    BY <1>1, <2>1, StoreAssumption DEF Names, Listing
  <2> HIDE DEF idx
  <2>3. GoTo("done", op.idx, Removal(op.acct, idx))
    BY <1>9 DEF idx
  <2>4. /\ todo' = Removal(op.acct, idx) /\ op'.phase = "done"
        /\ op'.kind = op.kind /\ op'.acct = op.acct /\ op'.undo = op.undo
        /\ op'.seen = op.seen /\ op'.listed = op.listed
    BY <1>1, <2>3, GoToIs
  <2>5. Forgotten' \subseteq gone \cup {op.acct}
    BY <1>1, <2>4 DEF Forgotten
  <2> DEFINE s == Removal(op.acct, idx)
  <2>6. /\ Len(s) \in {3, 4}
        /\ \A i \in 1..Len(s) :
             /\ s[i].fails = "throw" /\ s[i].to \in {"live", "bak"}
             /\ i = 1 => s[i].file = op.acct /\ s[i].to = "live" /\ s[i].val = None
             /\ i = 2 => s[i].file = op.acct /\ s[i].to = "bak" /\ s[i].val = None
             /\ i > 2 => s[i].file = Index
             /\ i > 2 /\ s[i].to = "live" => i = Len(s) /\ s[i].val = idx
        /\ s[Len(s)].to = "live" /\ s[Len(s)].file = Index /\ s[Len(s)].val = idx
    BY RemovalElements
  <2> HIDE DEF s
  <2>7. todo' = s
    BY <2>4 DEF s
  <2>8. s # <<>> /\ 1 \in 1..Len(s) /\ \A i \in 1..Len(s) : i = 1 \/ i = 2 \/ i > 2
    BY <2>6, Elements
  <2>9. LastOfIndex' /\ todo' # <<>> /\ todo'[1].to = "live" /\ todo'[1].file = op.acct
    BY <2>6, <2>7, <2>8 DEF LastOfIndex, OfIndex
  <2>10. ASSUME NEW i \in 1..Len(todo'), todo'[i].to = "live"
         PROVE  /\ todo'[i].file \in Forgotten' => todo'[i].val = None
                /\ todo'[i].file = Index => Clean(todo'[i].val, Forgotten')
    <3>1. Index \notin Forgotten' /\ Clean(idx, Forgotten')
      BY <1>1, <2>1, <2>2, <2>5 DEF Clean, Names
    <3> QED
      BY <2>1, <2>6, <2>7, <2>8, <2>10, <3>1
  <2> QED
    BY <1>1, <2>4, <2>9, <2>10, ForgetsOn
<1> QED
  BY <1>4, <1>5, <1>6, <1>7, <1>8, <1>9 DEF Act, Removal

LEMMA TurnsForget ==
  ASSUME TypeInv, TypeInv', world.trouble = {}, Forgets, Turns
  PROVE  Forgets'
  BY ReadIndexForgets, IndexTurnsForget, ScanForgets, ActForgets DEF Turns

LEMMA BeginsForget ==
  ASSUME TypeInv, TypeInv', world.trouble = {}, Forgets,
         BeginRead \/ \E a \in Accts : BeginSave(a) \/ BeginLoad(a) \/ BeginOnIndex(a)
  PROVE  Forgets'
<1>1. /\ todo = <<>> /\ op = NoOp /\ UNCHANGED <<live, bak, history>> /\ gone' = gone
      /\ Index \notin Accts /\ gone \subseteq Accts
  BY StoreAssumption DEF BeginRead, BeginSave, BeginLoad, BeginOnIndex, Begin, TypeInv, Idle, history
<1>2. Forgotten = gone /\ Clean(live[Index], gone)
  BY <1>1, IndexIsClean DEF Forgotten, NoOp
<1>3. ASSUME NEW kind, NEW a, NEW phase \in {"index", "listing", "done"}, NEW writes,
             Begin(kind, a, phase, writes),
             phase = "done" => kind \notin {"delete", "drop"},
             phase = "listing" => kind \notin {"delete", "drop", "upsert"},
             kind = "point" => a \notin gone,
             kind \in {"delete", "drop"} => a \in Accts,
             kind = "upsert" /\ phase # "index" => a \notin gone,
             kind = "upsert" /\ phase = "index" =>
               writes # <<>> /\ LET x == writes[Len(writes)] IN x.to = "live" /\ x.file = a /\ Sound(x.val),
             \A i \in 1..Len(writes) : writes[i].to = "live" =>
               /\ writes[i].file \in gone => Sound(writes[i].val) /\ kind \notin {"delete", "drop"}
               /\ writes[i].file # Index
      PROVE  Forgets'
  <2>1. /\ op'.kind = kind /\ op'.acct = a /\ op'.phase = phase /\ todo' = writes
        /\ op'.seen = {} /\ op'.listed = {}
        /\ op'.undo = IF kind \in {"delete", "drop"} THEN <<live[a], bak[a], live[Index]>> ELSE <<>>
    BY <1>3 DEF Begin, NoOp
  <2>2. Forgotten' = gone
    BY <1>1, <1>3, <2>1 DEF Forgotten
  <2>3. FilesGone'
    BY <1>1, <1>3, <2>1 DEF Forgets, FilesGone
  <2>4. CapturedClean'
    <3>1. CASE kind \in {"delete", "drop"}
      <4>1. op'.undo[1] = live[a] /\ op'.undo[3] = live[Index]
        BY <2>1, <3>1
      <4> QED
        BY <1>1, <1>2, <1>3, <2>1, <3>1, <4>1 DEF CapturedClean, Forgets, FilesGone, Clean, Names
    <3>2. CASE kind \notin {"delete", "drop"}
      BY <2>1, <3>2 DEF CapturedClean
    <3> QED
      BY <3>1, <3>2
  <2>5. MemoryClean'
    BY <1>1, <1>3, <2>1 DEF MemoryClean
  <2>6. WritesClean'
    BY <1>3, <2>1, <2>2 DEF WritesClean
  <2>7. IndexClean'
    BY <1>1, <1>2, <1>3, <2>1, <2>2 DEF IndexClean, Clean, Names
  <2> QED
    BY <2>3, <2>4, <2>5, <2>6, <2>7 DEF Forgets
<1>4. CASE BeginRead
  BY <1>3, <1>4, NoWrites DEF BeginRead
<1>5. ASSUME NEW a \in Accts, BeginSave(a) PROVE Forgets'
  <2> DEFINE s == Put(a, newest[a] + 1)
  <2>1. /\ Len(s) \in {1, 2}
        /\ \A i \in 1..Len(s) : /\ s[i].file = a
                                /\ s[i].to = "live" <=> i = Len(s)
                                /\ s[i].to = "live" => s[i].val = newest[a] + 1
    BY PutElements
  <2>2. Sound(newest[a] + 1) /\ a # Index
    <3>1. newest[a] + 1 \in Nat
      BY DEF TypeInv
    <3> QED
      BY <3>1, StoreAssumption DEF Sound
  <2>3. Begin("save", a, "done", s) \/ Begin("upsert", a, "index", s)
    BY <1>5 DEF BeginSave
  <2> HIDE DEF s
  <2>4. s # <<>> /\ Len(s) \in 1..Len(s)
    BY <2>1, Elements
  <2>5. \A i \in 1..Len(s) : s[i].file # Index /\ (s[i].to = "live" => Sound(s[i].val))
    BY <2>1, <2>2
  <2>6. s[Len(s)].to = "live" /\ s[Len(s)].file = a /\ Sound(s[Len(s)].val)
    BY <2>1, <2>2, <2>4
  <2>7. CASE Begin("save", a, "done", s)
    BY <1>3, <2>5, <2>7
  <2>8. CASE Begin("upsert", a, "index", s)
    <3>1. s # <<>> /\ LET x == s[Len(s)] IN x.to = "live" /\ x.file = a /\ Sound(x.val)
      BY <2>4, <2>6
    <3>2. \A i \in 1..Len(s) : s[i].to = "live" =>
            /\ s[i].file \in gone => Sound(s[i].val) /\ "upsert" \notin {"delete", "drop"}
            /\ s[i].file # Index
      BY <2>5
    <3> QED
      BY <1>3, <2>8, <3>1, <3>2, Zenon
  <2> QED
    BY <2>3, <2>7, <2>8
<1>6. ASSUME NEW a \in Accts, BeginLoad(a) PROVE Forgets'
  <2>1. a \notin gone /\ a # Index
    BY <1>1, <1>6, PresentIsClean DEF BeginLoad
  <2>2. PICK writes \in Repairs(a) : Begin("load", a, "done", writes)
    BY <1>6 DEF BeginLoad, Repairs
  <2>3. \A i \in 1..Len(writes) : writes[i].file = a
    BY RepairFiles
  <2> QED
    BY <1>3, <2>1, <2>2, <2>3
<1>7. ASSUME NEW a \in Accts, BeginOnIndex(a) PROVE Forgets'
  <2>1. CASE Sound(live[a]) /\ Begin("point", a, "index", <<>>)
    <3>1. a \notin gone
      BY <2>1, PresentIsClean
    <3> QED
      BY <1>3, <2>1, <3>1, NoWrites
  <2>2. ASSUME NEW kind \in {"delete", "drop"}, Begin(kind, a, "index", <<>>) PROVE Forgets'
    BY <1>3, <2>2, NoWrites
  <2> QED
    BY <1>7, <2>1, <2>2 DEF BeginOnIndex
<1> QED
  BY <1>4, <1>5, <1>6, <1>7

\* The last of the writes stays the last.
LEMMA LastStays ==
  ASSUME TypeInv, todo # <<>>, todo' = Tail(todo)
  PROVE  /\ todo' = <<>> => w = todo[Len(todo)]
         /\ todo' # <<>> => todo'[Len(todo')] = todo[Len(todo)]
<1> DEFINE n == Len(todo)
           m == Len(todo')
<1>1. /\ w = todo[1] /\ n \in Nat \ {0} /\ m = n - 1 /\ todo' \in Seq(Pending)
      /\ \A i \in 1..m : todo'[i] = todo[i + 1]
  BY MovedUp DEF TypeInv
<1>2. todo' = <<>> => m = 0
  BY Elements
<1>3. todo' # <<>> => m \in Nat \ {0}
  BY <1>1, EmptySeq
<1> HIDE DEF n, m
<1>4. todo' = <<>> => n = 1
  BY <1>1, <1>2
<1>5. todo' # <<>> => m \in 1..m /\ m + 1 = n
  BY <1>1, <1>3
<1>6. todo' # <<>> => todo'[m] = todo[n]
  BY <1>1, <1>5
<1> QED
  BY <1>1, <1>4, <1>6 DEF n, m

LEMMA WritesForget ==
  ASSUME TypeInv, TypeInv', world.trouble = {}, Forgets, WriteDone
  PROVE  Forgets'
<1>1. /\ w = todo[1] /\ w \in Pending /\ 1 \in 1..Len(todo)
      /\ \A i \in 1..Len(todo') : i + 1 \in 1..Len(todo) /\ todo'[i] = todo[i + 1]
      /\ todo # <<>> /\ todo' = Tail(todo) /\ op' = op /\ Len(todo) \in Nat
  <2>1. todo \in Seq(Pending) /\ todo # <<>> /\ todo' = Tail(todo) /\ op' = op
    BY DEF WriteDone, TypeInv
  <2>2. Len(todo) \in Nat \ {0}
    BY <2>1, MovedUp
  <2> QED
    BY <2>1, <2>2, MovedUp
<1>2. /\ gone' \subseteq gone
      /\ w.to = "live" /\ w.file \in Accts /\ Sound(w.val) => w.file \notin gone'
  BY DEF WriteDone, history
<1>3. Forgotten' \subseteq Forgotten
  BY <1>1, <1>2 DEF Forgotten
<1>4. w.to = "live" => live' = [live EXCEPT ![w.file] = w.val]
  BY DEF WriteDone
<1>5. w.to # "live" => live' = live
  BY DEF WriteDone
<1>6. live \in [Files -> Nat \cup Listing \cup {None, Torn}] /\ w.file \in Files
  BY <1>1 DEF TypeInv, TypedFiles, Pending
<1>7. w.to = "live" =>
        /\ w.file \in Forgotten => w.val = None \/ (Sound(w.val) /\ op.undo = <<>>)
        /\ w.file = Index /\ op.phase # "reconcile" => Clean(w.val, Forgotten)
  BY <1>1 DEF Forgets, WritesClean
<1>8. FilesGone'
  <2>1. ASSUME NEW a \in gone' PROVE live'[a] = None
    <3>1. a \in gone /\ a \in Accts /\ a \in Files /\ live[a] = None /\ a \in Forgotten
      BY <1>2 DEF Forgets, FilesGone, TypeInv, Files, Forgotten
    <3>2. CASE w.to = "live" /\ w.file = a
      BY <1>2, <1>4, <1>6, <1>7, <3>1, <3>2
    <3>3. CASE ~ (w.to = "live" /\ w.file = a)
      BY <1>4, <1>5, <1>6, <3>1, <3>3
    <3> QED
      BY <3>2, <3>3
  <2>2. ASSUME op.phase = "done", op.undo # <<>> PROVE live'[op.acct] = None
    <3>1. op.acct \in Forgotten /\ op.acct \in Files
      BY <2>2 DEF Forgotten, TypeInv, Shape, OnAccount, Files
    <3>2. CASE w.to = "live" /\ w.file = op.acct
      BY <1>4, <1>6, <1>7, <2>2, <3>1, <3>2
    <3>3. CASE ~ (w.to = "live" /\ w.file = op.acct)
      <4>1. live[op.acct] = None
        BY <1>1, <2>2, <3>3 DEF Forgets, FilesGone
      <4> QED
        BY <1>4, <1>5, <1>6, <3>1, <3>3, <4>1
    <3> QED
      BY <3>2, <3>3
  <2> QED
    BY <1>1, <2>1, <2>2 DEF FilesGone
<1>9. CapturedClean'
  BY <1>1, <1>2 DEF Forgets, CapturedClean, Clean, Names
<1>10. MemoryClean'
  <2>1. /\ op'.phase \in {"check", "rebuild", "act"} => ~ Names(op'.idx, gone')
        /\ op'.seen \cap gone' = {} /\ op'.listed \cap gone' = {}
        /\ op'.kind = "point" => op'.acct \notin gone'
    BY <1>1, <1>2 DEF Forgets, MemoryClean, Names
  <2>2. ASSUME op'.kind = "upsert", op'.phase # "index" \/ todo' = <<>> PROVE op'.acct \notin gone'
    <3>1. CASE op.phase # "index"
      BY <1>1, <1>2, <2>2, <3>1 DEF Forgets, MemoryClean
    <3>2. CASE op.phase = "index"
      <4>1. w = todo[Len(todo)] /\ op.acct \in Accts
        BY <1>1, <2>2, <3>2, LastStays DEF TypeInv, Shape, OnAccount
      <4> QED
        BY <1>1, <1>2, <2>2, <3>2, <4>1 DEF Forgets, MemoryClean
    <3> QED
      BY <3>1, <3>2
  <2>3. ASSUME op'.kind = "upsert", op'.phase = "index", todo' # <<>>
        PROVE  LET x == todo'[Len(todo')] IN x.to = "live" /\ x.file = op'.acct /\ Sound(x.val)
    BY <1>1, <2>3, LastStays DEF Forgets, MemoryClean
  <2> QED
    BY <2>1, <2>2, <2>3 DEF MemoryClean
<1>11. WritesClean'
  BY <1>1, <1>3 DEF Forgets, WritesClean, Clean, Names
<1>12. IndexClean'
  <2>1. Index \in Files
    BY DEF Files
  <2>2. ASSUME op.phase # "reconcile", ~ LastOfIndex' PROVE Clean(live'[Index], Forgotten')
    <3>1. Clean(w.val, Forgotten) => Clean(w.val, Forgotten')
      BY <1>3 DEF Clean, Names
    <3>2. Clean(live[Index], Forgotten) => Clean(live[Index], Forgotten')
      BY <1>3 DEF Clean, Names
    <3>3. CASE OfIndex(w)
      BY <1>4, <1>6, <1>7, <2>2, <3>1, <3>3 DEF OfIndex
    <3>4. CASE ~ OfIndex(w)
      <4>1. live'[Index] = live[Index]
        BY <1>4, <1>5, <1>6, <2>1, <3>4 DEF OfIndex
      <4>2. ~ LastOfIndex
        BY <1>1, <2>2, <3>4, LastStays DEF LastOfIndex
      <4>3. Clean(live[Index], Forgotten)
        BY <2>2, <4>2 DEF Forgets, IndexClean
      <4> QED
        BY <3>2, <4>1, <4>3
    <3> QED
      BY <3>3, <3>4
  <2>3. ASSUME op.phase = "reconcile"
        PROVE  IF todo' = <<>> THEN live'[Index] = op.idx ELSE LastOfIndex' /\ todo'[Len(todo')].val = op.idx
    <3>1. OfIndex(todo[Len(todo)]) /\ todo[Len(todo)].val = op.idx
      BY <1>1, <2>3 DEF Forgets, IndexClean, LastOfIndex
    <3>2. CASE todo' = <<>>
      BY <1>1, <1>4, <1>6, <3>1, <3>2, LastStays DEF OfIndex
    <3>3. CASE todo' # <<>>
      BY <1>1, <3>1, <3>3, LastStays DEF LastOfIndex
    <3> QED
      BY <3>2, <3>3
  <2> QED
    BY <1>1, <2>2, <2>3 DEF IndexClean
<1> QED
  BY <1>8, <1>9, <1>10, <1>11, <1>12 DEF Forgets

LEMMA OthersForget ==
  ASSUME TypeInv, TypeInv', world.trouble = {}, Forgets, End \/ \E f \in world.tearable : Tear(f)
  PROVE  Forgets'
<1>1. /\ op' = NoOp /\ todo' = <<>> /\ op.phase = "done" /\ todo = <<>>
      /\ gone' = Forgotten
  BY DEF End, Tear, Idle, TypeInv, NoOp, Forgotten, history
<1>2. Forgotten' = gone'
  BY <1>1 DEF Forgotten, NoOp
<1>3. \A a \in Forgotten : live[a] = None
  BY <1>1 DEF Forgets, FilesGone, Forgotten
<1>4. /\ \A a \in Forgotten : live'[a] = None
      /\ Clean(live'[Index], Forgotten)
  <2>1. Clean(live[Index], Forgotten)
    BY <1>1, IndexIsClean
  <2>2. CASE End
    BY <1>3, <2>1, <2>2 DEF End
  <2>3. ASSUME NEW f \in world.tearable, Tear(f) PROVE /\ \A a \in Forgotten : live'[a] = None
                                                       /\ Clean(live'[Index], Forgotten)
    <3>1. /\ live' = [live EXCEPT ![f] = Torn] /\ Sound(live[f]) /\ Index \in Files /\ Forgotten \subseteq Files
          /\ live \in [Files -> Nat \cup Listing \cup {None, Torn}]
      BY <2>3, ForgottenAccts DEF Tear, TypeInv, TypedFiles, Files
    <3>2. f \notin Forgotten
      BY <1>3, <3>1 DEF Sound
    <3>3. live'[Index] = Torn \/ live'[Index] = live[Index]
      BY <3>1
    <3> QED
      BY <1>3, <2>1, <3>1, <3>2, <3>3, NoneIsClean
  <2> QED
    BY <2>2, <2>3
<1>5. op'.undo = <<>> /\ op'.phase = "done" /\ op'.kind = "none" /\ op'.seen = {} /\ op'.listed = {}
  BY <1>1 DEF NoOp
<1>6. FilesGone' /\ CapturedClean' /\ MemoryClean'
  BY <1>1, <1>4, <1>5 DEF FilesGone, CapturedClean, MemoryClean
<1>7. WritesClean'
  BY <1>1, NoWrites DEF WritesClean
<1>8. IndexClean'
  BY <1>1, <1>2, <1>4, <1>5 DEF IndexClean, Clean, Names
<1> QED
  BY <1>6, <1>7, <1>8 DEF Forgets

LEMMA ForgetInit == Init => ForgetInv
<1> SUFFICES ASSUME Init PROVE Forgets
  BY DEF ForgetInv
<1>1. /\ op.undo = <<>> /\ op.phase = "done" /\ op.kind = "none" /\ op.seen = {} /\ op.listed = {}
      /\ todo = <<>> /\ gone = {} /\ live[Index] = None
  BY DEF Init, NoOp, Files
<1>2. Forgotten = {} /\ Clean(live[Index], {})
  BY <1>1, NoneIsClean DEF Forgotten
<1>3. FilesGone /\ CapturedClean /\ MemoryClean
  BY <1>1 DEF FilesGone, CapturedClean, MemoryClean
<1>4. WritesClean
  BY <1>1, NoWrites DEF WritesClean
<1>5. IndexClean
  BY <1>1, <1>2 DEF IndexClean
<1> QED
  BY <1>3, <1>4, <1>5 DEF Forgets

LEMMA ForgetStep == TypeInv /\ TypeInv' /\ ForgetInv /\ [Next]_vars => ForgetInv'
<1> SUFFICES ASSUME TypeInv, TypeInv', ForgetInv, [Next]_vars, world'.trouble = {} PROVE Forgets'
  BY DEF ForgetInv
<1>1. CASE UNCHANGED vars
  BY <1>1 DEF vars, ForgetInv, Forgets, FilesGone, CapturedClean, MemoryClean, WritesClean, IndexClean,
              LastOfIndex, Forgotten, Clean, Names
<1>2. CASE Next
  <2>1. world.trouble = {} /\ Forgets
    BY <1>2 DEF Next, ForgetInv
  <2>2. ~ Crash /\ ~ WriteFails
    BY <2>1 DEF Crash, WriteFails
  <2> QED
    BY <1>2, <2>1, <2>2, BeginsForget, TurnsForget, WritesForget, OthersForget DEF Next, Step, Turns
<1> QED
  BY <1>1, <1>2

\* An account that the user has deleted is in no index that is read later, however old
\* the .bak was that the index was restored from, if the index can be written.
THEOREM DeletedStaysForgotten == Spec => []DeletedIsForgotten
<1>1. Init => TypeInv /\ ForgetInv
  BY TypeInit, ForgetInit
<1>2. TypeInv /\ ForgetInv /\ [Next]_vars => (TypeInv /\ ForgetInv)'
  BY TypeStep, ForgetStep
<1>3. TypeInv /\ ForgetInv => DeletedIsForgotten
  <2> SUFFICES ASSUME TypeInv, ForgetInv, Idle, world.trouble = {}, Sound(live[Index]), NEW a \in gone
               PROVE  a \notin live[Index].ids /\ a # live[Index].cur
    BY DEF DeletedIsForgotten
  <2>1. Forgets /\ todo = <<>> /\ op = NoOp
    BY DEF ForgetInv, TypeInv
  <2>2. Clean(live[Index], Forgotten) /\ a \in Forgotten
    BY <2>1, IndexIsClean DEF NoOp, Forgotten
  <2> QED
    BY <2>2 DEF Clean, Names
<1> QED
  BY <1>1, <1>2, <1>3, PTL DEF Spec
-----------------------------------------------------------------------------
(* Only a listing, a failure or a kill loses an account                    *)

\* A world in which a repair may be refused or fail.
Troubled == world.trouble \cap {"fail", "lock"} # {}

\* The next write puts a version of this account in its place.
Mends(i, a) == i < Len(todo) /\ todo[i + 1].to = "live" /\ todo[i + 1].file = a /\ Sound(todo[i + 1].val)

\* The file may be put aside for good: its .bak is not good either, or it is not asked for,
\* or could not be read or put in its place.
PutAside(i, a) ==
  /\ i = 1 /\ Len(todo) = 1 /\ todo[i].to = "live"
  /\ op.phase = "listing" \/ Troubled \/ (live[a] = Torn /\ ~ Sound(bak[a]))

\* The write stores an account, or the next one does, or it puts an account aside; but for
\* a deletion.  Only a file that cannot be read is put aside.
Mending(i) ==
  LET a == todo[i].file IN
  a \in Accts /\ ~ (Deleting /\ op.acct = a) =>
    \/ todo[i].to = "live" /\ Sound(todo[i].val)
    \/ /\ todo[i].to = "live" => i = 1 /\ ~ Sound(live[a])
       /\ Mends(i, a) \/ PutAside(i, a)

\* A write that is given up for putting the file aside again comes after it was put aside.
Abandonable(i) ==
  todo[i].fails = "abandoned" =>
    /\ todo[i].file \in Accts /\ ~ Sound(live[todo[i].file])
    /\ i = 1 \/ (i = 2 /\ todo[1] = Quarantine(todo[i].file))

MendsInv == \A i \in 1..Len(todo) : Mending(i) /\ Abandonable(i)

\* What comes after damage was found: the .bak takes its place, or the file is put aside.
LEMMA RepairMends ==
  ASSUME NEW a \in Accts, NeedsRestore(a), UNCHANGED <<live, bak>>,
         \/ todo' = Restore(a, "abandoned") /\ Sound(bak[a])
         \/ /\ todo' = <<Quarantine(a)>>
            /\ op'.phase = "listing" \/ Troubled' \/ ~ Sound(bak[a])
  PROVE  MendsInv'
<1>1. /\ Quarantine(a).to = "live" /\ Quarantine(a).file = a /\ Quarantine(a).val = None
      /\ Quarantine(a).fails = "ignored"
  BY QuarantineIs
<1>2. live'[a] = Torn /\ bak' = bak /\ ~ Sound(live'[a])
  BY DEF NeedsRestore, Sound
<1>3. CASE todo' = Restore(a, "abandoned") /\ Sound(bak[a])
  <2>1. /\ Len(todo') = 2 /\ todo'[1] = Quarantine(a)
        /\ todo'[2].to = "live" /\ todo'[2].file = a /\ todo'[2].val = bak[a]
    BY <1>3, RestoreElements
  <2>2. \A i \in 1..Len(todo') : i = 1 \/ i = 2
    BY <2>1
  <2>3. Mends(1, a)'
    BY <1>3, <2>1 DEF Mends, Sound
  <2>4. Mending(1)' /\ Mending(2)'
    BY <1>1, <1>2, <1>3, <2>1, <2>3 DEF Mending, Sound
  <2>5. Abandonable(1)' /\ Abandonable(2)'
    <3>1. Quarantine(a)' = Quarantine(a)
      BY DEF Quarantine, Write
    <3> QED
      BY <1>1, <1>2, <2>1, <3>1 DEF Abandonable, Sound
  <2> QED
    BY <2>2, <2>4, <2>5 DEF MendsInv
<1>4. CASE todo' = <<Quarantine(a)>> /\ (op'.phase = "listing" \/ Troubled' \/ ~ Sound(bak[a]))
  <2>1. Len(todo') = 1 /\ todo'[1] = Quarantine(a)
    BY <1>4, Elements
  <2>2. \A i \in 1..Len(todo') : i = 1
    BY <2>1
  <2>3. PutAside(1, a)'
    BY <1>1, <1>2, <1>4, <2>1 DEF PutAside, Sound
  <2>4. Mending(1)' /\ Abandonable(1)'
    BY <1>1, <1>2, <2>1, <2>3 DEF Mending, Abandonable, Sound
  <2> QED
    BY <2>2, <2>4 DEF MendsInv
<1> QED
  BY <1>3, <1>4

\* No write, or none to an account and none that may be given up so.
LEMMA NothingToMend ==
  ASSUME \/ todo' = <<>>
         \/ OnlyIndex(todo')
         \/ \A i \in 1..Len(todo') : /\ todo'[i].fails # "abandoned"
                                     /\ todo'[i].file = Index \/ (Deleting' /\ todo'[i].file = op'.acct)
  PROVE  MendsInv'
<1>1. CASE todo' = <<>>
  BY <1>1, NoWrites DEF MendsInv
<1>2. CASE OnlyIndex(todo')
  BY <1>2, StoreAssumption DEF OnlyIndex, MendsInv, Mending, Abandonable
<1>3. CASE \A i \in 1..Len(todo') : /\ todo'[i].fails # "abandoned"
                                    /\ todo'[i].file = Index \/ (Deleting' /\ todo'[i].file = op'.acct)
  BY <1>3, StoreAssumption DEF MendsInv, Mending, Abandonable
<1> QED
  BY <1>1, <1>2, <1>3

LEMMA BeginsMend ==
  ASSUME TypeInv, TypeInv', UNCHANGED world,
         BeginRead \/ \E a \in Accts : BeginSave(a) \/ BeginLoad(a) \/ BeginOnIndex(a)
  PROVE  MendsInv'
<1>1. ASSUME NEW a \in Accts, BeginSave(a) PROVE MendsInv'
  <2> DEFINE s == Put(a, newest[a] + 1)
  <2>1. /\ Len(s) \in {1, 2}
        /\ \A i \in 1..Len(s) : /\ s[i].file = a /\ s[i].fails = "throw"
                                /\ s[i].to = "live" <=> i = Len(s)
                                /\ s[i].to = "live" => s[i].val = newest[a] + 1
    BY PutElements
  <2>2. Sound(newest[a] + 1)
    <3>1. newest[a] + 1 \in Nat
      BY DEF TypeInv
    <3> QED
      BY <3>1, StoreAssumption DEF Sound
  <2>3. todo' = s
    BY <1>1 DEF BeginSave, Begin
  <2> HIDE DEF s
  <2>4. ASSUME NEW i \in 1..Len(s) PROVE Mending(i)' /\ Abandonable(i)'
    <3>1. CASE i = Len(s)
      BY <2>1, <2>2, <2>3, <2>4, <3>1 DEF Mending, Sound, Abandonable
    <3>2. CASE i # Len(s)
      <4>1. i = 1 /\ Len(s) = 2
        BY <2>1, <3>2
      <4>2. /\ s[2].to = "live" /\ s[2].file = a /\ s[2].val = newest[a] + 1
            /\ s[1].file = a /\ s[1].to # "live" /\ s[1].fails = "throw"
        BY <2>1, <4>1
      <4>3. Mends(1, a)'
        BY <2>2, <2>3, <4>1, <4>2 DEF Mends, Sound
      <4> QED
        BY <2>3, <4>1, <4>2, <4>3 DEF Mending, Abandonable
    <3> QED
      BY <3>1, <3>2
  <2> QED
    BY <2>3, <2>4 DEF MendsInv
<1>2. ASSUME NEW a \in Accts, BeginLoad(a) PROVE MendsInv'
  <2>1. /\ NeedsRestore(a) /\ UNCHANGED <<live, bak>>
        /\ \/ todo' = Restore(a, "abandoned") /\ Sound(bak[a])
           \/ todo' = <<Quarantine(a)>> /\ (Troubled \/ ~ Sound(bak[a]))
    BY <1>2 DEF BeginLoad, Begin, BackupReads, Troubled
  <2>2. Troubled' <=> Troubled
    BY DEF Troubled
  <2> QED
    BY <2>1, <2>2, RepairMends
<1> QED
  BY <1>1, <1>2, NothingToMend DEF BeginRead, BeginOnIndex, Begin

LEMMA TurnsMend ==
  ASSUME TypeInv, TypeInv', UNCHANGED world, Turns
  PROVE  MendsInv'
<1>1. UNCHANGED <<live, bak, history>> /\ Shape(op) /\ todo = <<>>
  BY DEF Turns, ReadIndex, Reconcile, Check, Rebuild, Listed, Act, ScanOne, Turn, TypeInv
<1>2. op'.kind = op.kind /\ op'.acct = op.acct /\ (Deleting' <=> Deleting)
  BY TurnsTyped DEF Continues, Deleting
<1>3. ASSUME Throws, op.undo # <<>> PROVE MendsInv'
  <2>1. /\ Deleting /\ Len(todo') = 3 /\ \A i \in 1..3 : todo'[i].fails = "ignored"
        /\ todo'[1].file = op.acct /\ todo'[2].file = op.acct /\ todo'[3].file = Index
    BY <1>1, <1>3, ThrowsElements DEF Shape, Deleting
  <2>2. \A i \in 1..Len(todo') : i = 1 \/ i = 2 \/ i = 3
    BY <2>1
  <2> QED
    BY <1>2, <2>1, <2>2, NothingToMend
<1>4. ASSUME Throws, op.undo = <<>> PROVE MendsInv'
  BY <1>4, ThrowsElements, NothingToMend
<1>5. ASSUME NEW a \in Accts, NeedsRestore(a), ScanOne(a) PROVE MendsInv'
  <2>1. ~ Sound(live[a]) /\ op'.phase = op.phase
    BY <1>1, <1>5 DEF ScanOne, NeedsRestore, Sound, Shape, Operation
  <2>2. \/ todo' = <<>>
        \/ todo' = Restore(a, "abandoned") /\ Sound(bak[a])
        \/ todo' = <<Quarantine(a)>> /\ (op.phase = "listing" \/ Troubled \/ ~ Sound(bak[a]))
    BY <1>1, <1>5, <2>1 DEF ScanOne, BackupReads, AllowRestore, Troubled
  <2>3. Troubled' <=> Troubled
    BY DEF Troubled
  <2> QED
    BY <1>1, <1>5, <2>1, <2>2, <2>3, RepairMends, NothingToMend
<1>6. ASSUME Deleting, NEW v, todo' = Removal(op.acct, v) PROVE MendsInv'
  <2> DEFINE s == Removal(op.acct, v)
  <2>1. /\ Len(s) \in {3, 4}
        /\ \A i \in 1..Len(s) : /\ s[i].fails = "throw"
                                /\ i = 1 => s[i].file = op.acct
                                /\ i = 2 => s[i].file = op.acct
                                /\ i > 2 => s[i].file = Index
    BY RemovalElements
  <2> HIDE DEF s
  <2>2. \A i \in 1..Len(s) : s[i].fails # "abandoned" /\ (s[i].file = op.acct \/ s[i].file = Index)
    BY <2>1
  <2>3. todo' = s
    BY <1>6 DEF s
  <2> QED
    BY <1>2, <1>6, <2>2, <2>3, NothingToMend
<1> QED
  BY <1>3, <1>4, <1>5, <1>6, TurnWrites, NothingToMend

\* The first write is made, or passed over: the others move up.
LEMMA MovesUpMend ==
  ASSUME TypeInv, MendsInv, todo # <<>>, todo' = Tail(todo), op' = op,
         \A a \in Accts : Sound(live[a]) \/ ~ Sound(live'[a]) \/ (w.to = "live" /\ w.file = a /\ Sound(w.val))
  PROVE  MendsInv'
<1> DEFINE n == Len(todo)
           m == Len(todo')
<1>1. /\ n \in Nat \ {0} /\ m = n - 1 /\ w = todo[1]
      /\ \A i \in 1..m : i + 1 \in 1..n /\ todo'[i] = todo[i + 1]
  BY MovedUp DEF TypeInv
<1> HIDE DEF n, m
<1> SUFFICES ASSUME NEW i \in 1..m PROVE Mending(i)' /\ Abandonable(i)'
  BY <1>1 DEF MendsInv, m
<1>2. i + 1 \in 1..n /\ todo'[i] = todo[i + 1] /\ i + 1 # 1 /\ i \in Nat
  <2>1. i \in Nat /\ i + 1 # 1
    BY <1>1
  <2> QED
    BY <1>1, <2>1
<1>3. PICK a : a = todo[i + 1].file
  OBVIOUS
<1>4. Mending(i + 1) /\ Abandonable(i + 1)
  BY <1>2 DEF MendsInv, n
<1>5. ASSUME Mends(i + 1, a) PROVE Mends(i, a)'
  <2>1. /\ i + 1 < n /\ todo[i + 1 + 1].to = "live" /\ todo[i + 1 + 1].file = a
        /\ Sound(todo[i + 1 + 1].val)
    BY <1>5 DEF Mends, n
  <2>2. i < m /\ i + 1 \in 1..m
    BY <1>1, <1>2, <2>1
  <2>3. todo'[i + 1] = todo[i + 1 + 1]
    BY <1>1, <2>2
  <2> QED
    BY <2>1, <2>2, <2>3 DEF Mends, Sound, m
<1>6. Mending(i)'
  <2> SUFFICES ASSUME a \in Accts, ~ (Deleting /\ op.acct = a), ~ (todo[i + 1].to = "live" /\ Sound(todo[i + 1].val))
               PROVE  todo[i + 1].to # "live" /\ Mends(i, a)'
    <3>1. todo'[i].file = a /\ todo'[i].to = todo[i + 1].to /\ todo'[i].val = todo[i + 1].val
      BY <1>2, <1>3
    <3> QED
      BY <3>1 DEF Mending, Deleting, Sound
  <2>1. todo[i + 1].to # "live" /\ (Mends(i + 1, a) \/ PutAside(i + 1, a))
    BY <1>2, <1>3, <1>4 DEF Mending
  <2>2. Mends(i + 1, a)
    BY <1>2, <2>1 DEF PutAside
  <2> QED
    BY <1>5, <2>1, <2>2
<1>7. Abandonable(i)'
  <2> SUFFICES ASSUME todo[i + 1].fails = "abandoned"
               PROVE  a \in Accts /\ ~ Sound(live'[a]) /\ i = 1
    BY <1>2, <1>3 DEF Abandonable, Sound
  <2>1. a \in Accts /\ ~ Sound(live[a]) /\ i + 1 = 2 /\ todo[1] = Quarantine(a)
    BY <1>2, <1>3, <1>4 DEF Abandonable
  <2>2. ~ Sound(w.val)
    BY <1>1, <2>1, QuarantineIs DEF Sound
  <2> QED
    BY <1>2, <2>1, <2>2
<1> QED
  BY <1>6, <1>7

LEMMA WritesMend ==
  ASSUME TypeInv, MendsInv, WriteDone
  PROVE  MendsInv'
<1>1. todo # <<>> /\ todo' = Tail(todo) /\ op' = op /\ TypedFiles
  BY DEF WriteDone, TypeInv
<1>2. ASSUME NEW a \in Accts
      PROVE  Sound(live[a]) \/ ~ Sound(live'[a]) \/ (w.to = "live" /\ w.file = a /\ Sound(w.val))
  BY <1>1 DEF WriteDone, TypedFiles, Sound, Files
<1> QED
  BY <1>1, <1>2, MovesUpMend

LEMMA FailuresMend ==
  ASSUME TypeInv, MendsInv, UNCHANGED world, WriteFails
  PROVE  MendsInv'
<1>1. live' = live /\ todo # <<>> /\ Shape(op) /\ w = todo[1] /\ 1 \in 1..Len(todo)
  BY MovedUp DEF WriteFails, TypeInv
<1>2. Troubled'
  BY DEF WriteFails, Troubled
<1>3. CASE todo' = Tail(todo) /\ UNCHANGED op
  <2>1. \A a \in Accts : Sound(live[a]) \/ ~ Sound(live'[a])
    BY <1>1
  <2> QED
    BY <1>1, <1>3, <2>1, MovesUpMend
<1>4. CASE Throws
  <2>1. CASE op.undo = <<>>
    BY <1>4, <2>1, ThrowsElements, NothingToMend
  <2>2. CASE op.undo # <<>>
    <3>1. /\ Deleting /\ Len(todo') = 3 /\ \A i \in 1..3 : todo'[i].fails = "ignored"
          /\ todo'[1].file = op.acct /\ todo'[2].file = op.acct /\ todo'[3].file = Index
      BY <1>1, <1>4, <2>2, ThrowsElements DEF Shape, Deleting
    <3>2. \A i \in 1..Len(todo') : i = 1 \/ i = 2 \/ i = 3
      BY <3>1
    <3>3. op'.acct = op.acct /\ (Deleting' <=> Deleting)
      BY <1>1, <1>4 DEF Throws, Shape, Operation, Deleting
    <3> QED
      BY <3>1, <3>2, <3>3, NothingToMend
  <2> QED
    BY <2>1, <2>2
<1>5. CASE w.fails = "abandoned" /\ todo' = <<Quarantine(w.file)>>
  <2>1. PICK a : a = w.file
    OBVIOUS
  <2> DEFINE Q == Quarantine(a)
  <2>2. a \in Accts /\ ~ Sound(live'[a])
    BY <1>1, <1>5, <2>1 DEF MendsInv, Abandonable
  <2>3. Q.to = "live" /\ Q.file = a /\ Q.val = None /\ Q.fails = "ignored"
    BY QuarantineIs
  <2>4. Len(todo') = 1 /\ todo'[1] = Q
    BY <1>5, <2>1, Elements
  <2> HIDE DEF Q
  <2>5. \A i \in 1..Len(todo') : i = 1
    BY <2>4
  <2>6. PutAside(1, a)'
    BY <1>2, <2>3, <2>4 DEF PutAside
  <2>7. Mending(1)' /\ Abandonable(1)'
    <3>1. todo'[1].to = "live" /\ todo'[1].file = a /\ todo'[1].fails # "abandoned"
      BY <2>3, <2>4
    <3> QED
      BY <2>2, <2>6, <3>1 DEF Mending, Abandonable, Sound
  <2> QED
    BY <2>5, <2>7 DEF MendsInv
<1>6. CASE Scan(emptyIndex, <<Quarantine(Index)>>)
  <2> DEFINE Q == Quarantine(Index)
  <2>1. Q.file = Index /\ Q.fails = "ignored"
    BY QuarantineIs
  <2>2. Len(todo') = 1 /\ todo'[1] = Q
    BY <1>6, Elements DEF Scan
  <2> HIDE DEF Q
  <2>3. OnlyIndex(todo')
    <3>1. \A i \in 1..Len(todo') : i = 1
      BY <2>2
    <3> QED
      BY <2>1, <2>2, <3>1 DEF OnlyIndex
  <2> QED
    BY <2>3, NothingToMend
<1> QED
  BY <1>3, <1>4, <1>5, <1>6 DEF WriteFails

LEMMA MendsInit == Init => MendsInv
  BY NoWrites DEF Init, MendsInv

LEMMA MendsStep == TypeInv /\ TypeInv' /\ MendsInv /\ [Next]_vars => MendsInv'
<1> SUFFICES ASSUME TypeInv, TypeInv', MendsInv, [Next]_vars PROVE MendsInv'
  OBVIOUS
<1>1. CASE UNCHANGED vars
  BY <1>1 DEF vars, MendsInv, Mending, Mends, PutAside, Abandonable, Quarantine, Write, Deleting,
              Sound, Troubled
<1>2. CASE Next
  <2>1. CASE End \/ Crash \/ \E f \in world.tearable : Tear(f)
    <3>1. todo' = <<>>
      BY <2>1 DEF End, Crash, Tear, Idle, TypeInv
    <3> QED
      BY <3>1, NothingToMend
  <2> QED
    BY <1>2, <2>1, BeginsMend, TurnsMend, WritesMend, FailuresMend DEF Next, Step, Turns
<1> QED
  BY <1>1, <1>2

\* An account that is lost could not be read, and a listing, a failure or a kill loses it.
LEMMA HowItIsLost ==
  ASSUME TypeInv, TypeInv', MendsInv, Next, NEW a \in Accts, Loses(a)
  PROVE  /\ ~ Sound(live[a])
         /\ \/ op.phase = "listing"
            \/ live'[a] = live[a] /\ "crash" \in world.trouble
            \/ world.trouble \cap {"fail", "lock"} # {}
<1>1. a \in Files /\ Recoverable(a) /\ live'[a] # Torn /\ ~ (Deleting /\ op.acct = a) /\ ~ Recoverable(a)'
  BY DEF Files, Loses
<1>2. ASSUME UNCHANGED <<live, bak>>, todo = <<>> PROVE FALSE
  <2>1. DOMAIN todo = {}
    BY <1>2
  <2> QED
    BY <1>1, <1>2, <2>1 DEF Recoverable, Sound
<1>3. ASSUME NEW f \in world.tearable, Tear(f) PROVE FALSE
  <2>1. /\ todo = <<>> /\ bak' = bak /\ live' = [live EXCEPT ![f] = Torn]
        /\ live \in [Files -> Nat \cup Listing \cup {None, Torn}]
    BY <1>3 DEF Tear, TypeInv, TypedFiles
  <2>2. live'[a] = live[a]
    BY <1>1, <2>1
  <2>3. DOMAIN todo = {}
    BY <2>1
  <2> QED
    BY <1>1, <2>1, <2>2, <2>3 DEF Recoverable, Sound
<1>4. CASE WriteDone
  <2>1. todo \in Seq(Pending) /\ todo # <<>> /\ todo' = Tail(todo) /\ op' = op
    BY <1>4 DEF TypeInv, WriteDone
  <2>2. /\ w \in Pending /\ w = todo[1] /\ Len(todo) \in Nat \ {0} /\ Len(todo') = Len(todo) - 1
        /\ \A i \in 1..Len(todo') : i + 1 \in 1..Len(todo) /\ todo'[i] = todo[i + 1]
    BY <2>1, MovedUp
  <2>3. DOMAIN todo = 1..Len(todo) /\ DOMAIN todo' = 1..Len(todo')
    BY <2>1 DEF TypeInv
  <2>4. /\ w.to = "live" => live' = [live EXCEPT ![w.file] = w.val] /\ bak' = bak
        /\ w.to # "live" => live' = live /\ bak' = [bak EXCEPT ![w.file] = w.val]
        /\ live \in [Files -> Nat \cup Listing \cup {None, Torn}]
        /\ bak \in [Files -> Nat \cup Listing \cup {None, Torn}]
    BY <1>4 DEF WriteDone, TypeInv, TypedFiles
  <2>5. ASSUME NEW i \in 1..Len(todo), i # 1,
               todo[i].to = "live", todo[i].file = a, Sound(todo[i].val)
        PROVE  Recoverable(a)'
    <3> DEFINE n == Len(todo)
               m == Len(todo')
    <3>1. n \in Nat \ {0} /\ m = n - 1 /\ i \in 1..n
      BY <2>2
    <3> HIDE DEF n, m
    <3>2. i - 1 \in 1..m /\ (i - 1) + 1 = i
      BY <2>5, <3>1
    <3>3. todo'[i - 1] = todo[i]
      BY <2>2, <3>2 DEF m
    <3> QED
      BY <2>3, <2>5, <3>2, <3>3 DEF Recoverable, Sound, m
  <2>6. ASSUME w.to = "live", w.file = a, Sound(w.val) PROVE Recoverable(a)'
    BY <1>1, <2>4, <2>6 DEF Recoverable, Sound
  <2>7. CASE \E i \in DOMAIN todo : todo[i].to = "live" /\ todo[i].file = a /\ Sound(todo[i].val)
    BY <1>1, <2>2, <2>3, <2>5, <2>6, <2>7
  <2>8. CASE (Sound(live[a]) \/ (live[a] = Torn /\ Sound(bak[a]))) /\ w.file # a
    <3>1. live'[a] = live[a] /\ bak'[a] = bak[a]
      BY <1>1, <2>4, <2>8
    <3> QED
      BY <1>1, <2>8, <3>1 DEF Recoverable, Sound
  <2>9. CASE (Sound(live[a]) \/ (live[a] = Torn /\ Sound(bak[a]))) /\ w.file = a
    <3>1. 1 \in 1..Len(todo)
      BY <2>2
    <3>2. ASSUME Mends(1, a) PROVE Recoverable(a)'
      <4>1. 2 \in 1..Len(todo) /\ todo[2].to = "live" /\ todo[2].file = a /\ Sound(todo[2].val)
        BY <2>2, <3>2 DEF Mends
      <4> QED
        BY <2>5, <4>1
    <3>3. ~ (w.to = "live" /\ Sound(w.val)) /\ ~ Mends(1, a)
      BY <1>1, <2>6, <2>9, <3>2
    <3>4. Mending(1)
      BY <3>1 DEF MendsInv
    <3>5. PutAside(1, a) /\ ~ Sound(live[a])
      BY <1>1, <2>2, <2>9, <3>3, <3>4 DEF Mending, PutAside
    <3> QED
      BY <2>9, <3>5 DEF PutAside, Troubled
  <2> QED
    BY <1>1, <2>7, <2>8, <2>9 DEF Recoverable
<1>5. ASSUME live' = live, "crash" \in world.trouble \/ "fail" \in world.trouble
      PROVE  /\ ~ Sound(live[a])
             /\ \/ live'[a] = live[a] /\ "crash" \in world.trouble
                \/ world.trouble \cap {"fail", "lock"} # {}
  BY <1>1, <1>5 DEF Recoverable, Sound
<1>6. CASE Crash \/ WriteFails
  BY <1>5, <1>6 DEF Crash, WriteFails
<1>7. CASE BeginRead \/ \E x \in Accts : BeginSave(x) \/ BeginLoad(x) \/ BeginOnIndex(x)
  BY <1>2, <1>7 DEF BeginRead, BeginSave, BeginLoad, BeginOnIndex, Begin, TypeInv
<1>8. CASE Turns \/ End
  BY <1>2, <1>8 DEF Turns, ReadIndex, Reconcile, Check, Rebuild, Listed, Act, ScanOne, Turn, End
<1> QED
  BY <1>3, <1>4, <1>6, <1>7, <1>8 DEF Next, Step, Turns

\* Whatever is damaged, fails, is locked or is killed, and whatever is called, however many
\* accounts there are: an account that can be read is taken away only by the user's
\* deletion, and a damaged one whose .bak is good is lost only by a listing without secrets,
\* by a kill in the middle of its repair, or where writes fail or a file is locked.
THEOREM OthersLoseNothing == Spec => OnlyListingsLose
<1> DEFINE Excused == \A a \in Accts : Loses(a) =>
             /\ ~ Sound(live[a])
             /\ \/ op.phase = "listing"
                \/ live'[a] = live[a] /\ "crash" \in world.trouble
                \/ world.trouble \cap {"fail", "lock"} # {}
<1>1. Init => TypeInv /\ MendsInv
  BY TypeInit, MendsInit
<1>2. TypeInv /\ MendsInv /\ [Next]_vars => (TypeInv /\ MendsInv)'
  BY TypeStep, MendsStep
<1>3. TypeInv /\ TypeInv' /\ MendsInv /\ [Next]_vars => [Excused]_vars
  BY HowItIsLost
<1> QED
  BY <1>1, <1>2, <1>3, PTL DEF Spec, OnlyListingsLose
-----------------------------------------------------------------------------
(* The index keeps its rows and its current account                        *)

\* The repair of a damaged account does not fail.
RepairsSucceed == FilesAreSafe \/ "fail" \notin world.trouble

\* The new index keeps the rows of these accounts, and one of them as the current one.
Extends(old, new, S) ==
  Sound(old) => old.ids \cap S \subseteq new.ids /\ (old.cur \in S => new.cur = old.cur)

\* The same for the index on disk, but for a switch.
Follows(new) ==
  Sound(live[Index]) => /\ live[Index].ids \cap Present \subseteq new.ids
                        /\ live[Index].cur \in Present /\ op.kind # "point" => new.cur = live[Index].cur

Scanning == op.phase \in {"listing", "rebuild"}

\* A scan comes across every account that has a file.
ScanComplete ==
  Scanning /\ ~ op.missed =>
    \A a \in Present \ (op.left \cup op.seen) :
      "fail" \notin world.trouble /\ todo # <<>> /\ todo[1] = Quarantine(a)

\* So does the listing that the index is brought in line with.
ListingComplete ==
  op.kind = "sync" /\ op.phase \notin {"listing", "done"} /\ ~ op.skip => Present \cup op.seen \subseteq op.listed

\* Accounts are written by a save, a load, or the repair of one that the scan has seen.
AccountWrites ==
  \A i \in 1..Len(todo) : todo[i].to = "live" /\ todo[i].file \in Accts =>
    IF Scanning THEN todo[i].val = None \/ todo[i].file \in op.seen
    ELSE op.kind \in {"save", "upsert", "load"} /\ op.phase \in {"index", "done"}

\* The index in memory comes from the .bak, and is on disk before it is looked at.
Restoring ==
  /\ op.phase = "reconcile" =>
       IF todo = <<>> THEN live[Index] = op.idx
       ELSE /\ ~ Sound(live[Index]) /\ LastOfIndex
            /\ todo[Len(todo)].val = op.idx /\ todo[Len(todo)].fails = "rebuild"
            /\ \A i \in 1..Len(todo) : OfIndex(todo[i])
  /\ \A i \in 1..Len(todo) : todo[i].fails = "rebuild" => op.phase = "reconcile"

\* The index in memory has what the one on disk has.
InMemory ==
  /\ op.phase \in {"check", "act"} =>
       /\ Extends(live[Index], op.idx, Present)
       /\ \A i \in 1..Len(todo) : todo[i].file = Index /\ (todo[i].to = "live" => todo[i].val = op.idx)
  /\ op.phase = "rebuild" => Extends(live[Index], op.idx, Present \cup op.seen)

\* An index is the last write of its turn, and has what the one it replaces has.
IndexWrites ==
  \A i \in 1..Len(todo) : OfIndex(todo[i]) =>
    /\ Sound(todo[i].val) => i = Len(todo) /\ op.phase # "rebuild" /\ Follows(todo[i].val)
    /\ \A j \in 1..Len(todo) : todo[j].to = "bak" \/ todo[j].file = Index

Keeps == ScanComplete /\ ListingComplete /\ AccountWrites /\ Restoring /\ InMemory /\ IndexWrites

RowsInv == RepairsSucceed /\ ~ Deleting => Keeps

\* After a turn that writes nothing, or an index that follows the one on disk.
LEMMA TurnKeeps ==
  ASSUME UNCHANGED <<live, bak, history>>, UNCHANGED world, NEW v,
         todo' = <<>> \/ todo' = Put(Index, v),
         todo' # <<>> => /\ Follows(v) /\ op'.phase \in {"check", "act", "done"}
                         /\ op'.phase # "done" => op'.idx = v,
         op'.kind = op.kind, op'.phase # "reconcile",
         Scanning' /\ ~ op'.missed => Present \subseteq op'.left \cup op'.seen,
         op'.kind = "sync" /\ op'.phase \notin {"listing", "done"} /\ ~ op'.skip =>
           Present \cup op'.seen \subseteq op'.listed,
         op'.phase \in {"check", "act"} => Extends(live[Index], op'.idx, Present),
         op'.phase = "rebuild" => Extends(live[Index], op'.idx, Present \cup op'.seen)
  PROVE  Keeps'
<1>1. Present' = Present /\ live'[Index] = live[Index] /\ Index \notin Accts
  BY StoreAssumption DEF Present
<1>2. \/ todo' = <<>> /\ \A i \in 1..Len(todo') : FALSE
      \/ /\ todo' # <<>> /\ Follows(v) /\ op'.phase \in {"check", "act", "done"} /\ (op'.phase # "done" => op'.idx = v)
         /\ \A i \in 1..Len(todo') : /\ todo'[i].file = Index /\ todo'[i].fails = "throw"
                                     /\ todo'[i].to = "live" => todo'[i].val = v /\ i = Len(todo')
  <2>1. CASE todo' = <<>>
    BY <2>1, NoWrites
  <2>2. CASE todo' # <<>>
    <3> DEFINE s == Put(Index, v)
    <3>1. \A i \in 1..Len(s) : /\ s[i].file = Index /\ s[i].fails = "throw"
                               /\ s[i].to = "live" <=> i = Len(s)
                               /\ s[i].to = "live" => s[i].val = v
      BY PutElements
    <3>2. todo' = s
      BY <2>2
    <3> HIDE DEF s
    <3> QED
      BY <2>2, <3>1, <3>2
  <2> QED
    BY <2>1, <2>2
<1>3. ScanComplete' /\ ListingComplete'
  BY <1>1 DEF ScanComplete, ListingComplete
<1>4. AccountWrites'
  BY <1>1, <1>2 DEF AccountWrites
<1>5. Restoring'
  BY <1>2 DEF Restoring
<1>6. InMemory'
  BY <1>1, <1>2 DEF InMemory, Extends, Sound
<1>7. IndexWrites'
  BY <1>1, <1>2 DEF IndexWrites, OfIndex, Follows, Sound
<1> QED
  BY <1>3, <1>4, <1>5, <1>6, <1>7 DEF Keeps

\* The index on disk is put aside, and every account is read.
LEMMA RescanKeeps ==
  ASSUME UNCHANGED live, UNCHANGED world, ~ Sound(live[Index]),
         todo' = <<Quarantine(Index)>>, op'.phase = "rebuild", op'.left = Present, op'.seen = {},
         op'.kind = "sync" /\ ~ op'.skip => Present \subseteq op'.listed
  PROVE  Keeps'
<1>1. Present' = Present /\ Index \notin Accts
  BY StoreAssumption DEF Present
<1>2. Len(todo') = 1 /\ todo'[1] = Quarantine(Index)
  BY Elements
<1>3. todo'[1].to = "live" /\ todo'[1].file = Index /\ todo'[1].val = None /\ todo'[1].fails = "ignored"
  BY <1>2, QuarantineIs
<1>4. \A i \in 1..Len(todo') : i = 1
  BY <1>2
<1>5. ScanComplete' /\ ListingComplete'
  BY <1>1 DEF ScanComplete, ListingComplete
<1>6. AccountWrites' /\ Restoring' /\ InMemory'
  BY <1>1, <1>3, <1>4 DEF AccountWrites, Restoring, InMemory, Extends, Sound
<1>7. IndexWrites'
  BY <1>3, <1>4 DEF IndexWrites, Sound
<1> QED
  BY <1>5, <1>6, <1>7 DEF Keeps

LEMMA ReadIndexKeeps ==
  ASSUME TypeInv, UNCHANGED world, ~ Deleting, Keeps, ReadIndex
  PROVE  Keeps'
<1>1. /\ todo = <<>> /\ op.phase = "index" /\ UNCHANGED <<live, bak, history>> /\ Shape(op)
      /\ op.kind = "sync" /\ ~ op.skip => Present \cup op.seen \subseteq op.listed
  BY DEF ReadIndex, Turn, TypeInv, Keeps, ListingComplete
<1>2. Reads \in {"act", "check"}
  BY DEF Reads
<1>3. CASE Throws
  <2>1. op.undo = <<>>
    BY <1>1 DEF Shape, Deleting
  <2>2. todo' = <<>> /\ op'.phase = "done" /\ op'.kind = op.kind
    BY <1>1, <1>3, <2>1, ThrowsElements DEF Throws, Shape, Operation
  <2> QED
    BY <1>1, <2>2, TurnKeeps DEF Scanning
<1>4. ASSUME NEW idx, Extends(live[Index], idx, Present), GoTo(Reads, idx, <<>>) PROVE Keeps'
  <2>1. /\ todo' = <<>> /\ op'.phase = Reads /\ op'.idx = idx /\ op'.kind = op.kind
        /\ op'.seen = op.seen /\ op'.listed = op.listed /\ op'.skip = op.skip
    BY <1>1, <1>4, GoToIs
  <2> QED
    BY <1>1, <1>2, <1>4, <2>1, TurnKeeps DEF Scanning
<1>5. CASE NeedsRestore(Index) /\ GoTo("reconcile", bak[Index], Restore(Index, "rebuild"))
  <2>1. /\ todo' = Restore(Index, "rebuild") /\ op'.phase = "reconcile" /\ op'.idx = bak[Index]
        /\ op'.kind = op.kind /\ op'.seen = op.seen /\ op'.listed = op.listed /\ op'.skip = op.skip
    BY <1>1, <1>5, GoToIs
  <2>2. /\ Len(todo') = 2
        /\ todo'[1].to = "live" /\ todo'[1].file = Index /\ todo'[1].val = None /\ todo'[1].fails = "ignored"
        /\ todo'[2].to = "live" /\ todo'[2].file = Index /\ todo'[2].val = bak[Index] /\ todo'[2].fails = "rebuild"
    BY <2>1, RestoreElements, QuarantineIs
  <2>3. \A i \in 1..Len(todo') : i = 1 \/ i = 2
    BY <2>2
  <2>4. todo' # <<>> /\ ~ Sound(live'[Index]) /\ Present' = Present /\ Index \notin Accts
    BY <1>1, <1>5, <2>2, Elements, StoreAssumption DEF NeedsRestore, Sound, Present
  <2>5. ScanComplete' /\ ListingComplete' /\ AccountWrites' /\ InMemory'
    BY <1>1, <2>1, <2>2, <2>3, <2>4 DEF ScanComplete, Scanning, ListingComplete, AccountWrites, InMemory
  <2>6. Restoring'
    BY <2>1, <2>2, <2>3, <2>4 DEF Restoring, LastOfIndex, OfIndex
  <2>7. IndexWrites'
    BY <2>1, <2>2, <2>3, <2>4 DEF IndexWrites, Follows, Sound
  <2> QED
    BY <2>5, <2>6, <2>7 DEF Keeps
<1>6. CASE NeedsRestore(Index) /\ Scan(emptyIndex, <<Quarantine(Index)>>)
  <2>1. /\ todo' = <<Quarantine(Index)>> /\ op'.phase = "rebuild" /\ op'.left = Present /\ op'.seen = {}
        /\ op'.kind = op.kind /\ op'.listed = op.listed /\ op'.skip = op.skip
    BY <1>1, <1>6, ScanIs
  <2> QED
    BY <1>1, <1>6, <2>1, RescanKeeps DEF NeedsRestore, Sound
<1> QED
  BY <1>3, <1>4, <1>5, <1>6 DEF ReadIndex, Extends

LEMMA IndexTurnsKeep ==
  ASSUME TypeInv, UNCHANGED world, ~ Deleting, Keeps, Reconcile \/ Check \/ Rebuild
  PROVE  Keeps'
<1>1. /\ todo = <<>> /\ op.phase \in {"reconcile", "check", "rebuild"} /\ UNCHANGED <<live, bak, history>>
      /\ Shape(op) /\ Reads \in {"act", "check"}
      /\ op.kind = "sync" /\ ~ op.skip => Present \cup op.seen \subseteq op.listed
  BY DEF Reconcile, Check, Rebuild, Turn, TypeInv, Keeps, ListingComplete, Reads
<1>2. ASSUME NEW phase \in {"check", "act"}, NEW idx, NEW writes, GoTo(phase, idx, writes),
             Extends(live[Index], idx, Present), writes = <<>> \/ writes = Put(Index, idx)
      PROVE  Keeps'
  <2>1. /\ todo' = writes /\ op'.phase = phase /\ op'.idx = idx /\ op'.kind = op.kind
        /\ op'.seen = op.seen /\ op'.listed = op.listed /\ op'.skip = op.skip
    BY <1>1, <1>2, GoToIs
  <2>2. Follows(idx)
    BY <1>2 DEF Follows, Extends
  <2> QED
    BY <1>1, <1>2, <2>1, <2>2, TurnKeeps DEF Scanning
<1>3. CASE Reconcile
  <2> DEFINE idx == Reconciled(op.idx)
  <2>1. live[Index] = op.idx
    BY <1>3 DEF Reconcile, Turn, Keeps, Restoring
  <2>2. Extends(live[Index], idx, Present)
    BY <2>1 DEF Reconciled, Extends
  <2>3. GoTo(Reads, idx, IF idx = op.idx THEN <<>> ELSE Put(Index, idx))
    BY <1>3 DEF Reconcile
  <2> HIDE DEF idx
  <2> QED
    BY <1>1, <1>2, <2>2, <2>3
<1>4. CASE Check
  <2>1. Extends(live[Index], op.idx, Present)
    BY <1>4 DEF Check, Turn, Keeps, InMemory
  <2>2. CASE GoTo("act", op.idx, <<>>)
    BY <1>2, <2>1, <2>2
  <2>3. CASE Scan(op.idx, <<>>)
    <3>1. /\ todo' = <<>> /\ op'.phase = "rebuild" /\ op'.idx = op.idx /\ op'.kind = op.kind
          /\ op'.left = Present /\ op'.seen = {} /\ op'.listed = op.listed /\ op'.skip = op.skip
      BY <1>1, <2>3, ScanIs
    <3>2. Extends(live[Index], op'.idx, Present \cup op'.seen)
      BY <2>1, <3>1 DEF Extends
    <3> QED
      BY <1>1, <3>1, <3>2, TurnKeeps
  <2> QED
    BY <1>4, <2>2, <2>3 DEF Check
<1>5. CASE Rebuild
  <2>1. Extends(live[Index], op.idx, Present \cup op.seen) /\ op.left = {}
    BY <1>5 DEF Rebuild, Turn, Keeps, InMemory
  <2>2. CASE GoTo("act", op.idx, <<>>)
    <3>1. Extends(live[Index], op.idx, Present)
      BY <2>1 DEF Extends
    <3> QED
      BY <1>2, <2>2, <3>1
  <2>3. ASSUME ~ op.missed, NEW cur \in RebuiltCurrent,
               GoTo("act", [ids |-> op.seen, cur |-> cur], Put(Index, [ids |-> op.seen, cur |-> cur]))
        PROVE  Keeps'
    <3> DEFINE idx == [ids |-> op.seen, cur |-> cur]
    <3>1. Present \subseteq op.seen
      BY <1>1, <1>5, <2>1, <2>3 DEF Rebuild, Turn, Keeps, ScanComplete, Scanning
    <3>2. Extends(live[Index], idx, Present)
      BY <2>1, <3>1 DEF Extends, RebuiltCurrent
    <3> HIDE DEF idx
    <3>3. GoTo("act", idx, Put(Index, idx))
      BY <2>3 DEF idx
    <3> QED
      BY <1>2, <3>2, <3>3
  <2> QED
    BY <1>5, <2>2, <2>3 DEF Rebuild
<1> QED
  BY <1>3, <1>4, <1>5

LEMMA ScanKeeps ==
  ASSUME TypeInv, VaultInv, UNCHANGED world, RepairsSucceed, Keeps, Listed \/ \E a \in Accts : ScanOne(a)
  PROVE  Keeps'
<1>1. /\ todo = <<>> /\ op.phase \in {"listing", "rebuild"} /\ UNCHANGED <<live, bak, history>>
      /\ Shape(op) /\ Scanning /\ Index \notin Accts
      /\ ~ op.missed => Present \subseteq op.left \cup op.seen
      /\ op.phase = "rebuild" /\ op.kind = "sync" /\ ~ op.skip => Present \cup op.seen \subseteq op.listed
      /\ op.phase = "rebuild" => Extends(live[Index], op.idx, Present \cup op.seen)
  BY StoreAssumption DEF Listed, ScanOne, Turn, TypeInv, Keeps, ScanComplete, ListingComplete, InMemory, Scanning
<1>2. CASE Listed
  <2>1. /\ op' = [op EXCEPT !.phase = IF op.kind = "sync" THEN "index" ELSE "done",
                            !.listed = op.seen, !.skip = op.missed]
        /\ todo' = <<>> /\ op.left = {}
    BY <1>1, <1>2 DEF Listed
  <2>2. /\ op'.phase \in {"index", "done"} /\ op'.kind = op.kind
        /\ op'.listed = op.seen /\ op'.seen = op.seen /\ op'.skip = op.missed
    BY <1>1, <2>1 DEF Shape, Operation
  <2> QED
    BY <1>1, <2>1, <2>2, TurnKeeps DEF Scanning
<1>3. ASSUME NEW a \in Accts, ScanOne(a) PROVE Keeps'
  <2>1. CASE Sound(live[a]) /\ op' = [op EXCEPT !.left = @ \ {a}, !.seen = @ \cup {a}] /\ UNCHANGED todo
    <3>1. /\ op'.phase = op.phase /\ op'.kind = op.kind /\ op'.missed = op.missed /\ op'.idx = op.idx
          /\ op'.left = op.left \ {a} /\ op'.seen = op.seen \cup {a} /\ op'.listed = op.listed /\ op'.skip = op.skip
      BY <1>1, <2>1 DEF Shape, Operation
    <3>2. a \in Present /\ todo' = <<>>
      BY <1>1, <2>1 DEF Present, Sound
    <3>3. Present \cup op'.seen = Present \cup op.seen /\ op'.left \cup op'.seen = op.left \cup op'.seen
      BY <3>1, <3>2
    <3> QED
      BY <1>1, <3>1, <3>2, <3>3, TurnKeeps
  <2>2. CASE op' = [op EXCEPT !.left = @ \ {a}, !.missed = TRUE] /\ UNCHANGED todo
    <3>1. /\ op'.phase = op.phase /\ op'.kind = op.kind /\ op'.missed = TRUE /\ op'.idx = op.idx
          /\ op'.seen = op.seen /\ op'.listed = op.listed /\ op'.skip = op.skip /\ todo' = <<>>
      BY <1>1, <2>2 DEF Shape, Operation
    <3> QED
      BY <1>1, <3>1, TurnKeeps
  <2>3. ASSUME NeedsRestore(a), NEW s \in {{}, {a}},
               op' = [op EXCEPT !.left = @ \ {a}, !.seen = @ \cup s],
               IF s = {a} THEN todo' = Restore(a, "abandoned") ELSE todo' = <<Quarantine(a)>>
        PROVE  Keeps'
    <3>1. /\ op'.phase = op.phase /\ op'.kind = op.kind /\ op'.missed = op.missed /\ op'.idx = op.idx
          /\ op'.left = op.left \ {a} /\ op'.seen = op.seen \cup s /\ op'.listed = op.listed /\ op'.skip = op.skip
      BY <1>1, <2>3 DEF Shape, Operation
    <3>2. a \in Present /\ a # Index /\ Present' = Present /\ live' = live
      BY <1>1, <2>3, StoreAssumption DEF Present, NeedsRestore
    <3>3. "fail" \notin world.trouble
      BY <2>3, StoredIsSound DEF VaultInv, RepairsSucceed
    <3>4. /\ todo' # <<>> /\ todo'[1] = Quarantine(a)
          /\ \A i \in 1..Len(todo') : /\ todo'[i].file = a /\ todo'[i].fails # "rebuild"
                                      /\ todo'[i].val = None \/ s = {a}
      <4>1. Quarantine(a).file = a /\ Quarantine(a).val = None /\ Quarantine(a).fails = "ignored"
        BY QuarantineIs
      <4>2. CASE s = {a}
        <5>1. Len(todo') = 2 /\ todo'[1] = Quarantine(a) /\ todo'[2].file = a /\ todo'[2].fails = "abandoned"
          BY <2>3, <4>2, RestoreElements
        <5>2. \A i \in 1..Len(todo') : i = 1 \/ i = 2
          BY <5>1
        <5> QED
          BY <4>1, <4>2, <5>1, <5>2, Elements
      <4>3. CASE s # {a}
        <5>1. Len(todo') = 1 /\ todo'[1] = Quarantine(a)
          BY <2>3, <4>3, Elements
        <5>2. \A i \in 1..Len(todo') : i = 1
          BY <5>1
        <5> QED
          BY <4>1, <5>1, <5>2, Elements
      <4> QED
        BY <4>2, <4>3
    <3>5. ScanComplete'
      BY <1>1, <2>3, <3>1, <3>2, <3>3, <3>4 DEF ScanComplete, Scanning
    <3>6. ListingComplete' /\ InMemory'
      <4>1. Present' \cup op'.seen = Present \cup op.seen
        BY <2>3, <3>1, <3>2
      <4> QED
        BY <1>1, <3>1, <3>2, <4>1 DEF ListingComplete, InMemory, Extends, Sound
    <3>7. AccountWrites' /\ Restoring' /\ IndexWrites'
      BY <1>1, <2>3, <3>1, <3>2, <3>4 DEF AccountWrites, Restoring, IndexWrites, OfIndex, Scanning
    <3> QED
      BY <3>5, <3>6, <3>7 DEF Keeps
  <2>4. \/ Sound(live[a]) /\ op' = [op EXCEPT !.left = @ \ {a}, !.seen = @ \cup {a}] /\ UNCHANGED todo
        \/ op' = [op EXCEPT !.left = @ \ {a}, !.missed = TRUE] /\ UNCHANGED todo
        \/ NeedsRestore(a) /\ op' = [op EXCEPT !.left = @ \ {a}, !.seen = @ \cup {a}] /\ todo' = Restore(a, "abandoned")
        \/ NeedsRestore(a) /\ op' = [op EXCEPT !.left = @ \ {a}] /\ todo' = <<Quarantine(a)>>
    BY <1>3 DEF ScanOne
  <2>5. op' = [op EXCEPT !.left = @ \ {a}] => op' = [op EXCEPT !.left = @ \ {a}, !.seen = @ \cup {}]
    BY <1>1 DEF Shape, Operation
  <2>6. {} # {a}
    OBVIOUS
  <2> QED
    BY <2>1, <2>2, <2>3, <2>4, <2>5, <2>6
<1> QED
  BY <1>2, <1>3

LEMMA ActKeeps ==
  ASSUME TypeInv, UNCHANGED world, ~ Deleting, Keeps, Act
  PROVE  Keeps'
<1>1. /\ todo = <<>> /\ op.phase = "act" /\ UNCHANGED <<live, bak, history>> /\ Shape(op)
      /\ Extends(live[Index], op.idx, Present)
      /\ op.kind = "sync" /\ ~ op.skip => Present \cup op.seen \subseteq op.listed
  BY DEF Act, Turn, TypeInv, Keeps, InMemory, ListingComplete
<1>2. ASSUME NEW idx, NEW v, NEW writes, GoTo("done", idx, writes),
             writes = <<>> \/ (writes = Put(Index, v) /\ Follows(v))
      PROVE  Keeps'
  <2>1. todo' = writes /\ op'.phase = "done" /\ op'.kind = op.kind
    BY <1>1, <1>2, GoToIs
  <2> QED
    BY <1>1, <1>2, <2>1, TurnKeeps DEF Scanning
<1>3. CASE op.kind = "upsert" /\ GoTo("done", op.idx, Put(Index, [op.idx EXCEPT !.ids = @ \cup {op.acct}]))
  <2> DEFINE v == [op.idx EXCEPT !.ids = @ \cup {op.acct}]
  <2>1. Follows(v)
    BY <1>1 DEF Follows, Extends, Shape, Operation, Listing
  <2> HIDE DEF v
  <2>2. GoTo("done", op.idx, Put(Index, v))
    BY <1>3 DEF v
  <2> QED
    BY <1>2, <2>1, <2>2
<1>4. CASE op.kind = "point" /\ GoTo("done", op.idx, Put(Index, [op.idx EXCEPT !.cur = op.acct]))
  <2> DEFINE v == [op.idx EXCEPT !.cur = op.acct]
  <2>1. Follows(v)
    BY <1>1, <1>4 DEF Follows, Extends, Shape, Operation, Listing
  <2> HIDE DEF v
  <2>2. GoTo("done", op.idx, Put(Index, v))
    BY <1>4 DEF v
  <2> QED
    BY <1>2, <2>1, <2>2
<1>5. CASE op.kind = "read" /\ GoTo("done", op.idx, <<>>)
  BY <1>2, <1>5
<1>6. CASE /\ op.kind = "sync"
           /\ GoTo("done", op.idx,
                   IF MaySync /\ op.idx.ids # op.listed
                   THEN Put(Index, [ids |-> op.listed,
                                    cur |-> IF op.idx.cur \in op.listed THEN op.idx.cur ELSE None])
                   ELSE <<>>)
  <2> DEFINE v == [ids |-> op.listed, cur |-> IF op.idx.cur \in op.listed THEN op.idx.cur ELSE None]
  <2>1. MaySync => Follows(v)
    BY <1>1, <1>6 DEF Follows, Extends, MaySync
  <2> HIDE DEF v
  <2>2. GoTo("done", op.idx, IF MaySync /\ op.idx.ids # op.listed THEN Put(Index, v) ELSE <<>>)
    BY <1>6 DEF v
  <2>3. CASE MaySync /\ op.idx.ids # op.listed
    BY <1>2, <2>1, <2>2, <2>3
  <2>4. CASE ~ (MaySync /\ op.idx.ids # op.listed)
    BY <1>2, <2>2, <2>4
  <2> QED
    BY <2>3, <2>4
<1> QED
  BY <1>3, <1>4, <1>5, <1>6 DEF Act, Deleting

LEMMA BeginsKeep ==
  ASSUME TypeInv, UNCHANGED world,
         BeginRead \/ \E a \in Accts : BeginSave(a) \/ BeginLoad(a) \/ BeginOnIndex(a)
  PROVE  Keeps'
<1>1. PICK kind, a, phase, writes : Begin(kind, a, phase, writes)
  BY DEF BeginRead, BeginSave, BeginLoad, BeginOnIndex
<1>2. /\ op'.kind = kind /\ op'.phase = phase /\ op'.left = (IF phase = "listing" THEN Present ELSE {})
      /\ op'.seen = {} /\ todo' = writes /\ Present' = Present
  BY <1>1 DEF Begin, NoOp, Present
<1>3. /\ op'.phase \in {"index", "listing", "done"}
      /\ op'.kind = "sync" => op'.phase = "listing"
      /\ \/ todo' = <<>>
         \/ /\ op'.kind \in {"save", "upsert", "load"} /\ op'.phase \in {"index", "done"}
            /\ \A i \in 1..Len(todo') : todo'[i].file # Index /\ todo'[i].fails # "rebuild"
  <2>1. CASE BeginRead
    BY <2>1 DEF BeginRead, Begin, NoOp
  <2>2. ASSUME NEW x \in Accts, BeginSave(x)
        PROVE  /\ op'.kind \in {"save", "upsert"} /\ op'.phase \in {"index", "done"}
               /\ \A i \in 1..Len(todo') : todo'[i].file = x /\ todo'[i].fails # "rebuild"
    <3> DEFINE s == Put(x, newest[x] + 1)
    <3>1. \A i \in 1..Len(s) : s[i].file = x /\ s[i].fails = "throw"
      BY PutElements
    <3>2. todo' = s
      BY <2>2 DEF BeginSave, Begin
    <3>3. op'.kind \in {"save", "upsert"} /\ op'.phase \in {"index", "done"}
      BY <2>2 DEF BeginSave, Begin, NoOp
    <3> HIDE DEF s
    <3> QED
      BY <3>1, <3>2, <3>3
  <2>3. ASSUME NEW x \in Accts, BeginLoad(x)
        PROVE  /\ op'.kind = "load" /\ op'.phase = "done"
               /\ \A i \in 1..Len(todo') : todo'[i].file = x /\ todo'[i].fails # "rebuild"
    <3>1. todo' \in Repairs(x) /\ op'.kind = "load" /\ op'.phase = "done"
      BY <2>3 DEF BeginLoad, Begin, Repairs, NoOp
    <3>2. \A i \in 1..Len(todo') : todo'[i].file = x /\ todo'[i].fails # "rebuild"
      <4>1. Quarantine(x).file = x /\ Quarantine(x).fails = "ignored"
        BY QuarantineIs
      <4>2. CASE todo' = Restore(x, "abandoned")
        <5>1. Len(todo') = 2 /\ todo'[1] = Quarantine(x) /\ todo'[2].file = x /\ todo'[2].fails = "abandoned"
          BY <4>2, RestoreElements
        <5>2. \A i \in 1..Len(todo') : i = 1 \/ i = 2
          BY <5>1
        <5> QED
          BY <4>1, <5>1, <5>2
      <4>3. CASE todo' = <<Quarantine(x)>>
        <5>1. Len(todo') = 1 /\ todo'[1] = Quarantine(x)
          BY <4>3, Elements
        <5>2. \A i \in 1..Len(todo') : i = 1
          BY <5>1
        <5> QED
          BY <4>1, <5>1, <5>2
      <4> QED
        BY <3>1, <4>2, <4>3 DEF Repairs
    <3> QED
      BY <3>1, <3>2
  <2>4. ASSUME NEW x \in Accts, BeginOnIndex(x)
        PROVE  todo' = <<>> /\ op'.phase = "index" /\ op'.kind \in {"point", "delete", "drop"}
    BY <2>4 DEF BeginOnIndex, Begin, NoOp
  <2> QED
    BY <2>1, <2>2, <2>3, <2>4, StoreAssumption
<1>4. ScanComplete' /\ ListingComplete'
  BY <1>2, <1>3 DEF ScanComplete, Scanning, ListingComplete
<1>5. CASE todo' = <<>>
  <2>1. \A i \in 1..Len(todo') : FALSE
    BY <1>5, NoWrites
  <2>2. AccountWrites' /\ Restoring' /\ InMemory' /\ IndexWrites'
    BY <1>3, <2>1 DEF AccountWrites, Restoring, InMemory, IndexWrites
  <2> QED
    BY <1>4, <2>2 DEF Keeps
<1>6. CASE todo' # <<>>
  <2>1. AccountWrites' /\ Restoring' /\ InMemory' /\ IndexWrites'
    BY <1>3, <1>6 DEF AccountWrites, Scanning, Restoring, InMemory, IndexWrites, OfIndex
  <2> QED
    BY <1>4, <2>1 DEF Keeps
<1> QED
  BY <1>5, <1>6

\* The writes move up by one.
LEMMA Shifts ==
  ASSUME TypeInv, todo # <<>>, todo' = Tail(todo)
  PROVE  /\ w \in Pending /\ w = todo[1] /\ 1 \in 1..Len(todo)
         /\ todo' = <<>> <=> Len(todo) = 1
         /\ \A i \in 1..Len(todo') : /\ i + 1 \in 1..Len(todo) /\ todo'[i] = todo[i + 1]
                                     /\ i + 1 = Len(todo) <=> i = Len(todo')
                                     /\ Len(todo) # 1
<1> DEFINE n == Len(todo)
           m == Len(todo')
<1>1. /\ w \in Pending /\ w = todo[1] /\ n \in Nat \ {0} /\ m = n - 1 /\ todo' \in Seq(Pending)
      /\ \A i \in 1..m : i + 1 \in 1..n /\ todo'[i] = todo[i + 1]
  BY MovedUp DEF TypeInv
<1>2. todo' = <<>> <=> m = 0
  BY <1>1, EmptySeq, Elements
<1> HIDE DEF n, m
<1>3. /\ 1 \in 1..n /\ (m = 0 <=> n = 1)
      /\ \A i \in 1..m : (i + 1 = n <=> i = m) /\ n # 1
  BY <1>1
<1> QED
  BY <1>1, <1>2, <1>3 DEF n, m

\* The first write leaves the index and the accounts as they are.
LEMMA OtherWriteKeeps ==
  ASSUME TypeInv, UNCHANGED world, Keeps, todo # <<>>, todo' = Tail(todo), op' = op,
         live' = live, w.to = "bak" \/ ("fail" \in world.trouble /\ w.fails = "ignored")
  PROVE  Keeps'
<1>1. /\ w = todo[1] /\ 1 \in 1..Len(todo) /\ (todo' = <<>> <=> Len(todo) = 1)
      /\ \A i \in 1..Len(todo') : /\ i + 1 \in 1..Len(todo) /\ todo'[i] = todo[i + 1]
                                  /\ i + 1 = Len(todo) <=> i = Len(todo')
  BY Shifts
<1>2. Present' = Present
  BY DEF Present
<1>3. ScanComplete'
  <2>1. ASSUME NEW a, w = Quarantine(a) PROVE "fail" \in world.trouble
    BY <2>1, QuarantineIs
  <2> QED
    BY <1>1, <1>2, <2>1 DEF Keeps, ScanComplete, Scanning
<1>4. ListingComplete' /\ AccountWrites'
  BY <1>1, <1>2 DEF Keeps, ListingComplete, AccountWrites, Scanning
<1>5. Restoring'
  <2>1. op.phase = "reconcile" => todo' # <<>>
    BY <1>1 DEF Keeps, Restoring, OfIndex
  <2>2. op.phase = "reconcile" => LastOfIndex' /\ todo'[Len(todo')] = todo[Len(todo)]
    BY <2>1, LastStays DEF Keeps, Restoring, LastOfIndex, OfIndex
  <2> QED
    BY <1>1, <2>1, <2>2 DEF Keeps, Restoring, OfIndex, Sound
<1>6. InMemory'
  BY <1>1, <1>2 DEF Keeps, InMemory, Extends, Sound
<1>7. IndexWrites'
  <2>1. ASSUME NEW i \in 1..Len(todo'), OfIndex(todo'[i])
        PROVE  /\ Sound(todo'[i].val) => i = Len(todo') /\ op.phase # "rebuild" /\ Follows(todo'[i].val)
               /\ \A j \in 1..Len(todo') : todo'[j].to = "bak" \/ todo'[j].file = Index
    BY <1>1, <2>1 DEF Keeps, IndexWrites
  <2> QED
    BY <1>2, <2>1 DEF IndexWrites, Follows, OfIndex, Sound
<1> QED
  BY <1>3, <1>4, <1>5, <1>6, <1>7 DEF Keeps

\* An account is written.
LEMMA AccountWriteKeeps ==
  ASSUME TypeInv, UNCHANGED world, Keeps, WriteDone, w.to = "live", w.file \in Accts
  PROVE  Keeps'
<1>0. todo # <<>> /\ todo' = Tail(todo) /\ op' = op
  BY DEF WriteDone
<1>1. /\ w = todo[1] /\ 1 \in 1..Len(todo)
      /\ \A i \in 1..Len(todo') : i + 1 \in 1..Len(todo) /\ todo'[i] = todo[i + 1]
  BY <1>0, Shifts
<1>2. /\ live' = [live EXCEPT ![w.file] = w.val] /\ live \in [Files -> Nat \cup Listing \cup {None, Torn}]
      /\ Index \notin Accts /\ Accts \subseteq Files /\ Index \in Files
  BY StoreAssumption DEF WriteDone, TypeInv, TypedFiles, Files
<1>3. live'[Index] = live[Index] /\ \A a \in Accts : a # w.file => live'[a] = live[a]
  BY <1>2
<1>4. \A i \in 1..Len(todo) : ~ OfIndex(todo[i])
  BY <1>1, <1>2 DEF Keeps, IndexWrites
<1>5. IndexWrites'
  BY <1>1, <1>4 DEF IndexWrites, OfIndex
<1>6. AccountWrites'
  BY <1>0, <1>1 DEF Keeps, AccountWrites, Scanning
<1>7. \/ Scanning /\ (w.val = None \/ w.file \in op.seen)
      \/ ~ Scanning /\ op.kind \in {"save", "upsert", "load"} /\ op.phase \in {"index", "done"}
  BY <1>1 DEF Keeps, AccountWrites
<1>8. Restoring'
  <2>1. op.phase # "reconcile"
    BY <1>7 DEF Scanning
  <2> QED
    BY <1>0, <1>1, <2>1 DEF Keeps, Restoring
<1>9. CASE Scanning
  <2>1. Present' \subseteq Present \cup op.seen
    BY <1>2, <1>3, <1>7, <1>9 DEF Present
  <2>2. ASSUME ~ op.missed, NEW a \in Present', a \notin op.left \cup op.seen PROVE FALSE
    <3>1. a \in Present \ (op.left \cup op.seen)
      BY <2>1, <2>2
    <3>2. w = Quarantine(a)
      BY <1>1, <1>9, <2>2, <3>1 DEF Keeps, ScanComplete
    <3>3. w.file = a /\ w.val = None
      BY <3>2, QuarantineIs
    <3>4. live'[a] = None
      BY <1>2, <3>3
    <3> QED
      BY <2>2, <3>4 DEF Present
  <2>3. ScanComplete'
    BY <1>0, <2>2 DEF ScanComplete, Scanning
  <2>4. ListingComplete'
    BY <1>0, <1>9, <2>1 DEF Keeps, ListingComplete
  <2>5. InMemory'
    <3>1. op.phase \notin {"check", "act"}
      BY <1>9 DEF Scanning
    <3> QED
      BY <1>0, <1>3, <2>1, <3>1 DEF Keeps, InMemory, Extends, Sound
  <2> QED
    BY <1>5, <1>6, <1>8, <2>3, <2>4, <2>5 DEF Keeps
<1>10. CASE ~ Scanning
  <2>1. ScanComplete' /\ ListingComplete' /\ InMemory'
    BY <1>0, <1>7, <1>10 DEF ScanComplete, ListingComplete, InMemory, Scanning
  <2> QED
    BY <1>5, <1>6, <1>8, <2>1 DEF Keeps
<1> QED
  BY <1>9, <1>10

\* The index is written.
LEMMA IndexWriteKeeps ==
  ASSUME TypeInv, UNCHANGED world, Keeps, WriteDone, OfIndex(w)
  PROVE  Keeps'
<1>0. todo # <<>> /\ todo' = Tail(todo) /\ op' = op
  BY DEF WriteDone
<1>1. /\ w = todo[1] /\ 1 \in 1..Len(todo) /\ (todo' = <<>> <=> Len(todo) = 1)
      /\ \A i \in 1..Len(todo') : /\ i + 1 \in 1..Len(todo) /\ todo'[i] = todo[i + 1]
                                  /\ i + 1 = Len(todo) <=> i = Len(todo')
                                  /\ Len(todo) # 1
  BY <1>0, Shifts
<1>2. /\ live' = [live EXCEPT ![Index] = w.val] /\ live \in [Files -> Nat \cup Listing \cup {None, Torn}]
      /\ Index \notin Accts /\ Accts \subseteq Files /\ Index \in Files
  BY StoreAssumption DEF WriteDone, TypeInv, TypedFiles, Files, OfIndex
<1>3. live'[Index] = w.val /\ Present' = Present
  BY <1>2 DEF Present
<1>4. Sound(w.val) => Len(todo) = 1 /\ op.phase # "rebuild"
  BY <1>1 DEF Keeps, IndexWrites
<1>5. ScanComplete'
  <2>1. \A a \in Accts : w # Quarantine(a)
    BY <1>2, QuarantineIs DEF OfIndex
  <2> QED
    BY <1>0, <1>1, <1>3, <2>1 DEF Keeps, ScanComplete, Scanning, Present
<1>6. ListingComplete' /\ AccountWrites'
  BY <1>0, <1>1, <1>3 DEF Keeps, ListingComplete, AccountWrites, Scanning
<1>7. Restoring'
  <2>1. op.phase = "reconcile" => todo[Len(todo)].val = op.idx /\ LastOfIndex
                                  /\ todo[Len(todo)].fails = "rebuild"
    BY <1>0 DEF Keeps, Restoring
  <2>2. op.phase = "reconcile" /\ todo' # <<>> => todo'[Len(todo')] = todo[Len(todo)] /\ LastOfIndex'
    BY <1>0, <2>1, LastStays DEF LastOfIndex, OfIndex
  <2>3. op.phase = "reconcile" /\ todo' = <<>> => live'[Index] = op.idx
    BY <1>1, <1>3, <2>1
  <2>4. op.phase = "reconcile" /\ todo' # <<>> => ~ Sound(live'[Index])
    BY <1>1, <1>3, <1>4
  <2>5. \A i \in 1..Len(todo') : /\ op.phase = "reconcile" => OfIndex(todo'[i])
                                 /\ todo'[i].fails = "rebuild" => op.phase = "reconcile"
    BY <1>0, <1>1 DEF Keeps, Restoring
  <2> QED
    BY <1>0, <2>1, <2>2, <2>3, <2>4, <2>5 DEF Restoring, OfIndex, Sound
<1>8. InMemory'
  <2>1. op.phase \in {"check", "act"} => live'[Index] = op.idx
    BY <1>1, <1>3 DEF Keeps, InMemory, OfIndex
  <2>2. op.phase = "rebuild" => ~ Sound(live'[Index])
    BY <1>3, <1>4
  <2> QED
    BY <1>0, <1>1, <2>1, <2>2 DEF Keeps, InMemory, Extends, Sound
<1>9. IndexWrites'
  <2>1. ASSUME NEW i \in 1..Len(todo'), OfIndex(todo'[i])
        PROVE  /\ Sound(todo'[i].val) => i = Len(todo') /\ op.phase # "rebuild"
               /\ ~ Sound(live'[Index])
               /\ \A j \in 1..Len(todo') : todo'[j].to = "bak" \/ todo'[j].file = Index
    BY <1>1, <1>3, <1>4, <2>1 DEF Keeps, IndexWrites
  <2> QED
    BY <1>0, <2>1 DEF IndexWrites, Follows, OfIndex, Sound
<1> QED
  BY <1>5, <1>6, <1>7, <1>8, <1>9 DEF Keeps

LEMMA WritesKeep ==
  ASSUME TypeInv, UNCHANGED world, Keeps, WriteDone
  PROVE  Keeps'
<1>1. w \in Pending /\ todo # <<>> /\ todo' = Tail(todo) /\ op' = op
  BY MovedUp DEF WriteDone, TypeInv
<1>2. CASE w.to = "bak"
  BY <1>1, <1>2, OtherWriteKeeps DEF WriteDone
<1>3. CASE w.to = "live" /\ w.file \in Accts
  BY <1>3, AccountWriteKeeps
<1>4. CASE w.to = "live" /\ w.file = Index
  BY <1>4, IndexWriteKeeps DEF OfIndex
<1> QED
  BY <1>1, <1>2, <1>3, <1>4 DEF Pending, Files

LEMMA FailuresKeep ==
  ASSUME TypeInv, VaultInv, UNCHANGED world, RepairsSucceed, ~ Deleting, Keeps, WriteFails
  PROVE  Keeps'
<1>1. /\ "fail" \in world.trouble /\ FilesAreSafe /\ todo # <<>> /\ UNCHANGED <<live, history>>
      /\ Shape(op) /\ todo \in Seq(Pending)
  BY DEF WriteFails, RepairsSucceed, TypeInv
<1>2. w = todo[1] /\ 1 \in 1..Len(todo)
  <2>1. w = todo[1] /\ Len(todo) \in Nat \ {0}
    BY <1>1, MovedUp
  <2> QED
    BY <2>1
<1>3. w.fails # "abandoned"
  BY <1>1, <1>2 DEF VaultInv, Planned
<1>4. Present' = Present
  BY <1>1 DEF Present
<1>5. CASE w.fails = "ignored" /\ todo' = Tail(todo) /\ UNCHANGED op
  BY <1>1, <1>5, OtherWriteKeeps
<1>6. CASE Throws
  <2>1. op.undo = <<>>
    BY <1>1 DEF Shape, Deleting
  <2>2. todo' = <<>> /\ op'.phase = "done"
    BY <1>1, <1>6, <2>1, ThrowsElements DEF Throws, Shape, Operation
  <2>3. \A i \in 1..Len(todo') : FALSE
    BY <2>2, NoWrites
  <2>4. ScanComplete' /\ ListingComplete' /\ AccountWrites' /\ Restoring' /\ InMemory' /\ IndexWrites'
    BY <2>2, <2>3 DEF ScanComplete, Scanning, ListingComplete, AccountWrites, Restoring, InMemory, IndexWrites
  <2> QED
    BY <2>4 DEF Keeps
<1>7. CASE w.fails = "rebuild" /\ Scan(emptyIndex, <<Quarantine(Index)>>)
  <2>1. op.phase = "reconcile" /\ ~ Sound(live[Index])
    BY <1>1, <1>2, <1>7 DEF Keeps, Restoring
  <2>2. op.kind = "sync" /\ ~ op.skip => Present \cup op.seen \subseteq op.listed
    BY <2>1 DEF Keeps, ListingComplete
  <2>3. /\ todo' = <<Quarantine(Index)>> /\ op'.phase = "rebuild" /\ op'.left = Present /\ op'.seen = {}
        /\ op'.kind = op.kind /\ op'.listed = op.listed /\ op'.skip = op.skip
    BY <1>1, <1>7, ScanIs
  <2> QED
    BY <1>1, <2>1, <2>2, <2>3, RescanKeeps
<1> QED
  BY <1>3, <1>5, <1>6, <1>7 DEF WriteFails

LEMMA IdleKeeps ==
  ASSUME op = NoOp, todo = <<>>
  PROVE  Keeps
<1>1. op.phase = "done" /\ \A i \in 1..Len(todo) : FALSE
  BY NoWrites DEF NoOp
<1> QED
  BY <1>1 DEF Keeps, ScanComplete, Scanning, ListingComplete, AccountWrites, Restoring, InMemory, IndexWrites

LEMMA RowsInit == Init => RowsInv
  BY IdleKeeps DEF Init, RowsInv

LEMMA RowsStep == TypeInv /\ TypeInv' /\ VaultInv /\ RowsInv /\ [Next]_vars => RowsInv'
<1> SUFFICES ASSUME TypeInv, TypeInv', VaultInv, RowsInv, [Next]_vars, RepairsSucceed', ~ Deleting'
             PROVE  Keeps'
  BY DEF RowsInv
<1>1. CASE UNCHANGED vars
  <2>1. Keeps
    BY <1>1 DEF vars, RowsInv, RepairsSucceed, FilesAreSafe, Deleting
  <2> QED
    BY <1>1, <2>1 DEF vars, Keeps, ScanComplete, Scanning, ListingComplete, AccountWrites, Restoring, InMemory,
                      IndexWrites, LastOfIndex, OfIndex, Extends, Follows, Sound, Present
<1>2. CASE Next
  <2>1. UNCHANGED world /\ RepairsSucceed
    BY <1>2 DEF Next, RepairsSucceed, FilesAreSafe
  <2>2. CASE BeginRead \/ \E a \in Accts : BeginSave(a) \/ BeginLoad(a) \/ BeginOnIndex(a)
    BY <2>1, <2>2, BeginsKeep
  <2>3. CASE End \/ Crash \/ \E f \in world.tearable : Tear(f)
    <3>1. op' = NoOp /\ todo' = <<>>
      BY <2>3 DEF End, Crash, Tear, Idle, TypeInv
    <3> QED
      <4>1. (op = NoOp /\ todo = <<>> => Keeps)'
        BY IdleKeeps, PTL
      <4> QED
        BY <3>1, <4>1
  <2>4. CASE Turns \/ WriteDone \/ WriteFails
    <3>1. ~ Deleting
      <4>1. op'.kind = op.kind
        BY <2>1, <2>4, TurnsTyped, WriteFailsTyped DEF Continues, WriteDone
      <4> QED
        BY <4>1 DEF Deleting
    <3>2. Keeps
      BY <2>1, <3>1 DEF RowsInv
    <3> QED
      BY <2>1, <2>4, <3>1, <3>2, ReadIndexKeeps, IndexTurnsKeep, ScanKeeps, ActKeeps, WritesKeep, FailuresKeep
      DEF Turns
  <2> QED
    BY <1>2, <2>2, <2>3, <2>4 DEF Next, Step, Turns
<1> QED
  BY <1>1, <1>2

\* An index that can be read keeps the rows of the accounts that have a file, and its
\* current account, unless the user deletes or switches, however many accounts there are,
\* wherever the program is killed, whatever is locked and whatever was restored from a
\* .bak.  Where accounts may be damaged, their repair must not fail: one that is given
\* up halfway leaves the account out of the index that is rebuilt.
THEOREM IndexKeepsItsRows ==
  ASSUME \A v \in Worlds : v.tearable \subseteq {Index} \/ "fail" \notin v.trouble
  PROVE  Spec => RowsAndCurrentStay
<1> DEFINE Stay == LET old == live[Index]
                       new == live'[Index]
                   IN Sound(old) /\ Sound(new) /\ ~ Deleting =>
                        /\ old.ids \cap Present \subseteq new.ids
                        /\ old.cur \in Present /\ op.kind # "point" => new.cur = old.cur
<1>1. Init => TypeInv /\ VaultInv /\ RowsInv
  BY TypeInit, VaultInit, RowsInit
<1>2. TypeInv /\ VaultInv /\ RowsInv /\ [Next]_vars => (TypeInv /\ VaultInv /\ RowsInv)'
  BY TypeStep, VaultStep, RowsStep
<1>3. TypeInv /\ VaultInv /\ RowsInv /\ [Next]_vars => Stay
  <2> SUFFICES ASSUME TypeInv, RowsInv, [Next]_vars, Sound(live[Index]), Sound(live'[Index]), ~ Deleting
               PROVE  /\ live[Index].ids \cap Present \subseteq live'[Index].ids
                      /\ live[Index].cur \in Present /\ op.kind # "point" => live'[Index].cur = live[Index].cur
    OBVIOUS
  <2>1. Keeps
    BY DEF TypeInv, RowsInv, RepairsSucceed, FilesAreSafe
  <2>2. live \in [Files -> Nat \cup Listing \cup {None, Torn}] /\ Index \in Files
    BY DEF TypeInv, TypedFiles, Files
  <2>3. CASE live'[Index] = live[Index]
    BY <2>3
  <2>4. CASE WriteDone /\ OfIndex(w)
    <3>1. w = todo[1] /\ 1 \in 1..Len(todo) /\ live'[Index] = w.val
      <4>1. todo # <<>> /\ todo' = Tail(todo) /\ live' = [live EXCEPT ![Index] = w.val]
        BY <2>4 DEF WriteDone, OfIndex
      <4> QED
        BY <2>2, <4>1, Shifts
    <3> QED
      BY <2>1, <2>4, <3>1 DEF Keeps, IndexWrites, Follows
  <2>5. CASE WriteDone /\ ~ OfIndex(w)
    <3>1. live'[Index] = live[Index]
      BY <2>2, <2>5 DEF WriteDone, OfIndex
    <3> QED BY <3>1
  <2>6. CASE \E f \in world.tearable : Tear(f)
    <3>1. live'[Index] = live[Index] \/ live'[Index] = Torn
      BY <2>2, <2>6 DEF Tear
    <3> QED
      BY <3>1 DEF Sound
  <2>7. CASE UNCHANGED live
    BY <2>3, <2>7
  <2> QED
    BY <2>3, <2>4, <2>5, <2>6, <2>7
    DEF vars, Next, Step, BeginRead, BeginSave, BeginLoad, BeginOnIndex, Begin, End, Crash, WriteFails, ReadIndex,
        Reconcile, Check, Rebuild, Listed, Act, ScanOne, Turn
<1>4. TypeInv /\ VaultInv /\ RowsInv /\ [Next]_vars => [Stay]_vars
  BY <1>3
<1> QED
  BY <1>1, <1>2, <1>4, PTL DEF Spec, RowsAndCurrentStay
=====
