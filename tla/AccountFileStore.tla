-------------------------- MODULE AccountFileStore --------------------------
(***************************************************************************)
(* engine/account-file-store.js over engine/atomic-file.js: the account    *)
(* files and the index of one product, each with its .bak.                 *)
(*                                                                         *)
(* An operation has no await: nothing else runs between its file system    *)
(* calls.  It is a sequence of turns; each turn reads the files, decides,  *)
(* and leaves the writes to come in `todo`, which are made one by one.     *)
(* Between any two of them the program may be killed, and each may fail.   *)
(*                                                                         *)
(*   index -> reconcile -> check -> rebuild -> act -> done                 *)
(*                                                                         *)
(* A write through a temporary file and a rename is one write; copying a   *)
(* file to its .bak may be left half done.                                 *)
(***************************************************************************)
EXTENDS Naturals, Sequences, SequencesExt

CONSTANTS Accts,       \* account ids
          Index,       \* the index file
          MaxVersion,  \* bound: versions of one account
          Worlds,      \* bound: what is called and what may happen, one of these
          None,        \* no file, no account
          Torn         \* a file that is not JSON

Files == Accts \cup {Index}

ASSUME StoreAssumption ==
  /\ MaxVersion \in Nat \ {0}
  /\ Index \notin Accts /\ None \notin Files
  /\ {None, Torn} \cap Nat = {} /\ None # Torn
  /\ \A w \in Worlds : /\ w.tearable \subseteq Files
                       /\ w.trouble \subseteq {"crash", "fail", "lock"}

VARIABLES world,   \* kinds: the operations that are called; trouble: what may go wrong;
                   \* tearable: the files that another program or the disk may damage
          live,    \* live[f]: the content of file f
          bak,     \* bak[f]: the content of f.bak
          todo,    \* writes of the current turn still to be made
          op,      \* the operation in progress
          newest,  \* newest[a]: how many versions of a have been stored
          gone     \* accounts that have been deleted and not saved again

vars == <<world, live, bak, todo, op, newest, gone>>
history == <<newest, gone>>

Versions == 1..MaxVersion
Listing == [ids : SUBSET Accts, cur : Accts \cup {None}]
emptyIndex == [ids |-> {}, cur |-> None]

Sound(v) == v \notin {None, Torn}

\* readdir: the accounts that have a file, readable or not.
Present == {a \in Accts : live[a] # None}

\* idx: the index in memory; left, seen, missed: a scan under way; listed, skip: what
\* a listing has seen and whether it missed something; undo: what a deletion
\* captured of the account, its .bak and the index.
NoOp == [kind |-> "none", acct |-> None, phase |-> "done", idx |-> emptyIndex,
         left |-> {}, seen |-> {}, missed |-> FALSE, listed |-> {}, skip |-> FALSE,
         undo |-> <<>>]

Init ==
  /\ world \in Worlds
  /\ live = [f \in Files |-> None] /\ bak = [f \in Files |-> None]
  /\ todo = <<>> /\ op = NoOp
  /\ newest = [a \in Accts |-> 0] /\ gone = {}
-----------------------------------------------------------------------------
(* Writes                                                                  *)

\* fails: what a failure of the write leads to.
Write(to, f, v, fails) == [to |-> to, file |-> f, val |-> v, fails |-> fails]

Backup(f) == IF live[f] = None THEN <<>> ELSE <<Write("bak", f, live[f], "throw")>>

\* writeTextAtomic
Put(f, v) == Backup(f) \o <<Write("live", f, v, "throw")>>

\* quarantineFile, in a try with an empty catch
Quarantine(f) == Write("live", f, None, "ignored")

\* Mutant: a missing file is restored as well.
NeedsRestoreMissing(f) == ~ Sound(live[f])

\* A file that is not JSON is replaced by its .bak; one that is missing is not.
NeedsRestore(f) == live[f] = Torn

\* Mutant: the damaged file is put aside after its .bak was read, and not replaced.
RestoreNothing(f, fails) == <<Quarantine(f)>>

\* The .bak of f is good: quarantine, then restoreBackup.
Restore(f, fails) == <<Quarantine(f), Write("live", f, bak[f], fails)>>

\* Can the .bak be read (and, for an account, be decrypted)?
BackupReads(f) == {b \in BOOLEAN : IF b THEN Sound(bak[f])
                                        ELSE ~ Sound(bak[f]) \/ "lock" \in world.trouble}
-----------------------------------------------------------------------------
(* Beginning and ending an operation                                       *)

Idle == op.kind = "none"

Begin(kind, a, phase, writes) ==
  /\ Idle /\ kind \in world.kinds
  /\ op' = [NoOp EXCEPT !.kind = kind, !.acct = a, !.phase = phase,
              !.left = IF phase = "listing" THEN Present ELSE {},
              !.undo = IF kind \in {"delete", "drop"}
                       THEN <<live[a], bak[a], live[Index]>> ELSE <<>>]
  /\ todo' = writes
  /\ UNCHANGED <<live, bak, history>>

\* saveAcct of a refresh, and saveAcct and upsertIndex of a login.
BeginSave(a) ==
  /\ newest[a] < MaxVersion
  /\ \/ live[a] # None /\ Begin("save", a, "done", Put(a, newest[a] + 1))
     \/ Begin("upsert", a, "index", Put(a, newest[a] + 1))

\* loadAcct, which changes something only if the file is damaged.
BeginLoad(a) ==
  /\ NeedsRestore(a)
  /\ \E good \in BackupReads(a) :
       Begin("load", a, "done", IF good THEN Restore(a, "abandoned") ELSE <<Quarantine(a)>>)

\* setCurrentAccountId and the saveIdx of a switch, for an account that was loaded;
\* deleteAcct by the user, and with allowCurrent when duplicates are folded.
BeginOnIndex(a) ==
  \/ Sound(live[a]) /\ Begin("point", a, "index", <<>>)
  \/ Present # {} /\ \E kind \in {"delete", "drop"} : Begin(kind, a, "index", <<>>)

\* loadIdx, listAccts without secrets, and the same with syncIndex (at startup).
BeginRead ==
  \/ Begin("read", None, "index", <<>>)
  \/ \E kind \in {"peek", "sync"} : Begin(kind, None, "listing", <<>>)

\* The operation throws; a deletion first puts its three files back, and only logs
\* what cannot be put back.
Throws ==
  /\ op' = [op EXCEPT !.phase = "done", !.undo = <<>>]
  /\ todo' = IF op.undo = <<>> THEN <<>>
             ELSE <<Write("live", op.acct, op.undo[1], "ignored"),
                    Write("bak", op.acct, op.undo[2], "ignored"),
                    Write("live", Index, op.undo[3], "ignored")>>

End ==
  /\ ~ Idle /\ todo = <<>> /\ op.phase = "done"
  /\ op' = NoOp
  /\ gone' = IF op.undo = <<>> THEN gone ELSE gone \cup {op.acct}
  /\ UNCHANGED <<live, bak, todo, newest>>
-----------------------------------------------------------------------------
(* The turns of an operation                                               *)

Turn(phase) == todo = <<>> /\ ~ Idle /\ op.phase = phase /\ UNCHANGED <<live, bak, history>>

GoTo(phase, idx, writes) ==
  /\ op' = [op EXCEPT !.phase = phase, !.idx = idx]
  /\ todo' = writes

\* rebuildIndex with this fallback: every account file is loaded.
Scan(idx, writes) ==
  /\ op' = [op EXCEPT !.phase = "rebuild", !.idx = idx,
              !.left = Present, !.seen = {}, !.missed = FALSE]
  /\ todo' = writes

\* upsertIndex reads the index by readIndexOrEmpty, which does not scan.
Reads == IF op.kind = "upsert" THEN "act" ELSE "check"

\* tryReadJsonWithBackup.  The index may be held by another program, which makes
\* the operation throw.
ReadIndex ==
  /\ Turn("index")
  /\ \/ "lock" \in world.trouble /\ live[Index] # None /\ Throws
     \/ Sound(live[Index]) /\ GoTo(Reads, live[Index], <<>>)
     \/ ~ Sound(live[Index]) /\ ~ NeedsRestore(Index) /\ GoTo(Reads, emptyIndex, <<>>)
     \/ /\ NeedsRestore(Index)
        /\ \E good \in BackupReads(Index) :
             IF good THEN GoTo("reconcile", bak[Index], Restore(Index, "rebuild"))
                     ELSE Scan(emptyIndex, <<Quarantine(Index)>>)

\* Mutant: the restored index is taken as it is.
ReconciledNot(idx) == idx

\* An older index may name accounts that are deleted by now.
Reconciled(idx) == [ids |-> idx.ids \cap Present,
                    cur |-> IF idx.cur \in Present THEN idx.cur ELSE None]

\* reconcileRestoredIndex
Reconcile ==
  /\ Turn("reconcile")
  /\ LET idx == Reconciled(op.idx) IN
     GoTo(Reads, idx, IF idx = op.idx THEN <<>> ELSE Put(Index, idx))

\* loadIdx: an index without accounts is rebuilt if there are account files.
Check ==
  /\ Turn("check")
  /\ IF op.idx.ids = {} /\ Present # {} THEN Scan(op.idx, <<>>)
                                        ELSE GoTo("act", op.idx, <<>>)

\* Is the .bak of a damaged account used?  Not by listAccts without secrets
\* (allowRestore: secrets).
AllowRestore == op.phase = "rebuild"

\* loadAccountPath, in a scan: the account is read, or is locked or cannot be
\* decrypted, or is damaged.
ScanOne(a) ==
  /\ op.phase \in {"listing", "rebuild"} /\ Turn(op.phase)
  /\ a \in op.left
  /\ \/ /\ Sound(live[a])
        /\ op' = [op EXCEPT !.left = @ \ {a}, !.seen = @ \cup {a}]
        /\ UNCHANGED todo
     \/ /\ "lock" \in world.trouble
        /\ op' = [op EXCEPT !.left = @ \ {a}, !.missed = TRUE]
        /\ UNCHANGED todo
     \/ /\ NeedsRestore(a)
        /\ \E good \in BackupReads(a) :
             IF good /\ AllowRestore
             THEN /\ op' = [op EXCEPT !.left = @ \ {a}, !.seen = @ \cup {a}]
                  /\ todo' = Restore(a, "abandoned")
             ELSE /\ op' = [op EXCEPT !.left = @ \ {a}]
                  /\ todo' = <<Quarantine(a)>>

\* pickRebuiltCurrentId: the current account of the fallback if it is there, else
\* one of those seen (the last used), unless the caller must not invent one.
RebuiltCurrent ==
  IF op.idx.cur \in op.seen THEN {op.idx.cur}
  ELSE IF op.kind \in {"delete", "drop", "upsert"} \/ op.seen = {} THEN {None}
  ELSE op.seen

\* The scan is over: no index is written if an account could not be read.
Rebuild ==
  /\ Turn("rebuild") /\ op.left = {}
  /\ IF op.missed THEN GoTo("act", op.idx, <<>>)
     ELSE \E cur \in RebuiltCurrent :
            LET idx == [ids |-> op.seen, cur |-> cur] IN GoTo("act", idx, Put(Index, idx))

\* listAccts returns, or goes on to the index.
Listed ==
  /\ Turn("listing") /\ op.left = {}
  /\ op' = [op EXCEPT !.phase = IF op.kind = "sync" THEN "index" ELSE "done",
                      !.listed = op.seen, !.skip = op.missed]
  /\ UNCHANGED todo

\* Mutant: the accounts that could not be read are dropped.
MaySyncAnyhow == TRUE

MaySync == ~ op.skip

\* What is done with the index.
Act ==
  /\ Turn("act")
  /\ \/ op.kind = "upsert" /\ GoTo("done", op.idx, Put(Index, [op.idx EXCEPT !.ids = @ \cup {op.acct}]))
     \/ op.kind = "point"  /\ GoTo("done", op.idx, Put(Index, [op.idx EXCEPT !.cur = op.acct]))
     \/ op.kind = "delete" /\ op.idx.cur = op.acct /\ Throws
     \/ /\ op.kind \in {"delete", "drop"}
        /\ op.kind = "delete" => op.idx.cur # op.acct
        /\ GoTo("done", op.idx,
                <<Write("live", op.acct, None, "throw"), Write("bak", op.acct, None, "throw")>>
                  \o Put(Index, [ids |-> op.idx.ids \ {op.acct},
                                 cur |-> IF op.idx.cur = op.acct THEN None ELSE op.idx.cur]))
     \/ op.kind = "read" /\ GoTo("done", op.idx, <<>>)
     \/ /\ op.kind = "sync"
        /\ GoTo("done", op.idx,
                IF MaySync /\ op.idx.ids # op.listed
                THEN Put(Index, [ids |-> op.listed,
                                 cur |-> IF op.idx.cur \in op.listed THEN op.idx.cur ELSE None])
                ELSE <<>>)
-----------------------------------------------------------------------------
(* The file system                                                         *)

w == Head(todo)

\* The first of the writes is made.
WriteDone ==
  /\ todo # <<>>
  /\ todo' = Tail(todo)
  /\ IF w.to = "live"
     THEN /\ live' = [live EXCEPT ![w.file] = w.val]
          /\ UNCHANGED bak
     ELSE /\ bak' = [bak EXCEPT ![w.file] = w.val]
          /\ UNCHANGED live
  /\ IF w.to = "live" /\ w.file \in Accts /\ Sound(w.val)
     THEN /\ newest' = [newest EXCEPT ![w.file] = IF w.val > @ THEN w.val ELSE @]
          /\ gone' = gone \ {w.file}
     ELSE UNCHANGED history
  /\ UNCHANGED op

\* A copy to a .bak is left half done.
HalfCopied ==
  \/ UNCHANGED bak
  \/ w.to = "bak" /\ w.val # None /\ bak' = [bak EXCEPT ![w.file] = Torn]

\* The write fails.  A file that could not be restored is put aside once more.
WriteFails ==
  /\ "fail" \in world.trouble /\ todo # <<>>
  /\ HalfCopied
  /\ \/ w.fails = "ignored" /\ todo' = Tail(todo) /\ UNCHANGED op
     \/ w.fails = "throw" /\ Throws
     \/ /\ w.fails = "abandoned"
        /\ op' = [op EXCEPT !.seen = @ \ {w.file}]
        /\ todo' = <<Quarantine(w.file)>>
     \/ w.fails = "rebuild" /\ Scan(emptyIndex, <<Quarantine(Index)>>)
  /\ UNCHANGED <<live, history>>

\* The program is killed.
Crash ==
  /\ "crash" \in world.trouble /\ ~ Idle
  /\ op' = NoOp /\ todo' = <<>>
  /\ IF todo = <<>> THEN UNCHANGED bak ELSE HalfCopied
  /\ UNCHANGED <<live, history>>

\* A file is damaged, by another program or by the disk.
Tear(f) ==
  /\ Idle /\ Sound(live[f])
  /\ live' = [live EXCEPT ![f] = Torn]
  /\ UNCHANGED <<bak, todo, op, history>>
-----------------------------------------------------------------------------
Step ==
  \/ \E a \in Accts : BeginSave(a) \/ BeginLoad(a) \/ BeginOnIndex(a) \/ ScanOne(a)
  \/ BeginRead \/ End
  \/ ReadIndex \/ Reconcile \/ Check \/ Rebuild \/ Listed \/ Act
  \/ WriteDone \/ WriteFails \/ Crash
  \/ \E f \in world.tearable : Tear(f)

Next == Step /\ UNCHANGED world

Spec == Init /\ [][Next]_vars
-----------------------------------------------------------------------------
FilesAreSafe == world.tearable \subseteq {Index}
Deleting == op.kind \in {"delete", "drop"}

\* Where only the index may be damaged, the files of the accounts are an AccountVault:
\* kills and failures leave the old version or the new one, a deleted account does
\* not come back, and what a failed deletion puts back is the version it took.
Vault == INSTANCE AccountVault WITH
           content <- [a \in Accts |-> IF FilesAreSafe THEN live[a] ELSE None],
           newest <- [a \in Accts |-> IF FilesAreSafe THEN newest[a] ELSE 0],
           doomed <- IF FilesAreSafe /\ Deleting THEN op.acct ELSE None

VaultSpec == Vault!Spec

\* An index that can be read keeps the rows of the accounts that have a file, and its
\* current account, unless the user deletes or switches: an account that is locked
\* or cannot be decrypted is not forgotten.
RowsAndCurrentStay ==
  [][LET old == live[Index]
         new == live'[Index]
     IN Sound(old) /\ Sound(new) /\ ~ Deleting =>
          /\ old.ids \cap Present \subseteq new.ids
          /\ old.cur \in Present /\ op.kind # "point" => new.cur = old.cur]_vars

\* The account can be read, or its .bak can, or is just being put in its place.
Recoverable(a) ==
  \/ Sound(live[a])
  \/ live[a] = Torn /\ Sound(bak[a])
  \/ \E i \in DOMAIN todo :
       todo[i].to = "live" /\ todo[i].file = a /\ Sound(todo[i].val)

\* A damaged account whose .bak is good is not lost by the operations that come across
\* it, if their writes succeed: docs/troubleshooting.en.md:164-165 says that malformed
\* JSON is restored from the .bak.  The listings without secrets break this.
Loses(a) == Recoverable(a) /\ live'[a] # Torn /\ ~ (Deleting /\ op.acct = a) /\ ~ Recoverable(a)'
NothingVanishes == [][world.trouble = {} => \A a \in Accts : ~ Loses(a)]_vars

\* Nothing else loses an account: but for a deletion by the user, one that can be read
\* stays or is replaced, and one that is damaged is lost only by a listing without
\* secrets, by a repair that is killed or cannot write, or for a .bak that is locked.
OnlyListingsLose ==
  [][\A a \in Accts : Loses(a) =>
       /\ ~ Sound(live[a])
       /\ \/ op.phase = "listing"
          \/ live'[a] = live[a] /\ "crash" \in world.trouble
          \/ world.trouble \cap {"fail", "lock"} # {}]_vars

\* An account that the user has deleted is in no index that is read later, however
\* old the .bak was that the index was restored from, if the index can be written.
DeletedIsForgotten ==
  \A a \in gone : Idle /\ world.trouble = {} /\ Sound(live[Index]) => a \notin live[Index].ids /\ a # live[Index].cur
=============================================================================
