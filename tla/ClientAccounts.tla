--------------------------- MODULE ClientAccounts ---------------------------
(***************************************************************************)
(* Who is signed in to an official client that keeps its login in a store  *)
(* of its own: Cursor and the Antigravity IDE in a database the client     *)
(* writes too (state.vscdb), the Antigravity Hub in a credential of the    *)
(* operating system.  One behaviour is one of the three products.          *)
(*                                                                         *)
(*   accounts/<id>.json  saved: the token, prof: the profile kept with it  *)
(*   <client>-accounts.json  cur: the managed current account              *)
(*   db, cred            login: who is signed in there, with which token,  *)
(*                       and whose profile and team session lie beside it  *)
(*                                                                         *)
(* An operation is a record in op.  What happens between two awaits is one *)
(* step; the locks of one call (module OperationLocks) are granted         *)
(* together, in the step that runs the body.                               *)
(***************************************************************************)
EXTENDS Naturals

CONSTANTS Accts,      \* identities that can sign in to the client
          Procs,      \* operations that may be in progress together
          Users,      \* those of Procs that carry the user's own operations
          Kinds,      \* the kinds of operation that may be called
          Products,   \* the products to choose from: "cursor", "ide", "hub"
          Outside,    \* what happens around it: "signin", "signout", "crash"
          SwitchLock, UpsertLock,   \* the keys __<client>_switch__, __<client>_oauth_upsert__
          MaxToken,   \* bound: tokens issued for one account
          None,       \* no account, no token, no login
          Unread      \* a credential that could not be read

ASSUME ConstantsAssumption ==
  /\ None \notin Accts \cup Nat
  /\ Unread # None
  /\ {None, Unread} \cap [who : Accts, num : Nat, prof : Accts] = {}
  /\ {SwitchLock, UpsertLock} \cap Accts = {}
  /\ Users \subseteq Procs
  /\ Products \subseteq {"cursor", "ide", "hub"}
  /\ MaxToken \in Nat

VARIABLES product,  \* the client this behaviour is about
          saved,    \* saved[a]: number of the token saved for a, or None without a file
          prof,     \* prof[a]: whose profile is kept with a, or None
          cur,      \* the current account of the index, or None
          login,    \* login[s]: the login in the store s, or None
          issued,   \* (server) how many tokens were issued for an account
          app,      \* is the official client running
          op        \* the operations in progress

files == <<saved, prof, cur>>
vars == <<product, files, login, issued, app, op>>

Stores == {"db", "cred"}
Logins == [who : Accts, num : Nat, prof : Accts]
LoginOf(a, n, b) == [who |-> a, num |-> n, prof |-> b]

\* The store the client uses: the credential is the Hub's (usesWindowsSystemCredential).
Store == IF product = "hub" THEN "cred" ELSE "db"
Official == login[Store]
Write(x) == login' = [login EXCEPT ![Store] = x]

LockKeys == Accts \cup {SwitchLock, UpsertLock}

\* An operation: its account, the locks it asks for and holds, the copy of the
\* account it loaded (token mem, profile keep), the login it has read, the login
\* and current account captured by a switch, and what became stale: fresh, no
\* switch has written the login since it began to read; still, nor did the client.
Idle == [kind |-> "none", at |-> "idle", tgt |-> None, want |-> {}, held |-> {},
         mem |-> None, keep |-> None, got |-> None, snap |-> None, was |-> None,
         fresh |-> TRUE, still |-> TRUE]

\* The error was answered; of a switch that could not put the login back, too, for
\* that error is only logged.
Failed == [Idle EXCEPT !.at = "failed"]
Stuck == [Idle EXCEPT !.at = "stuck"]

Ended == {Idle, Failed, Stuck}
Free(p) == op[p] \in Ended

Call(kind, at, a, want, mem) ==
  [Idle EXCEPT !.kind = kind, !.at = at, !.tgt = a, !.want = want, !.mem = mem]

\* The body may run: no operation inside its own locks holds a key asked for.
Granted(p, kinds, at) ==
  /\ op[p].kind \in kinds /\ op[p].at = at
  /\ \A q \in Procs \ {p} : op[p].want \cap op[q].held = {}

Entered(p, at) ==
  [op[p] EXCEPT !.at = at, !.held = @ \cup op[p].want, !.want = {}]

Leave(p) == op' = [op EXCEPT ![p] = Idle]
Fail(p) == op' = [op EXCEPT ![p] = Failed]

\* A switch has written or restored the login: what the others read is stale.
Stale(f) == [q \in Procs |-> IF f[q] \in Ended THEN f[q] ELSE [f[q] EXCEPT !.fresh = FALSE]]

Init ==
  /\ product \in Products
  /\ \E M \in SUBSET Accts :
       /\ saved = [a \in Accts |-> IF a \in M THEN 1 ELSE None]
       /\ cur \in M \cup {None}
  /\ prof = [a \in Accts |-> None]
  /\ \E x \in {LoginOf(a, 1, a) : a \in Accts} \cup {None} :
       login = [s \in Stores |-> IF s = "db" THEN x ELSE None]   \* the Hub signs in later
  /\ issued = [a \in Accts |-> 1]
  /\ app \in BOOLEAN
  /\ op = [p \in Procs |-> Idle]
-----------------------------------------------------------------------------
(* Profiles (cursor-local.js): the team session of the official client is  *)
(* kept with its account, and given back to the client by a switch         *)

\* persistOfficialCursorState and mergeCursorSession: a session that names no
\* team leaves the kept one.
Keepable(a, b) == IF product # "cursor" THEN {prof[a]}
                  ELSE IF prof[a] = None THEN {b} ELSE {prof[a], b}

\* The profile a switch gives back: the kept one, or the account's own stub
\* (sessionFromAccount, stubScopedProfile).
Given(a, kept) == IF product = "cursor" /\ kept # None THEN kept ELSE a
-----------------------------------------------------------------------------
(* Switching (doCursorSwitch, doAntigravitySwitch and their handlers)      *)

\* Mutant: the account switched to is free for others.
SwitchLocksNoTarget(a) == {SwitchLock}

\* The handler asks for the current account as the index names it when called.
SwitchLocks(a) == {SwitchLock, a} \cup ({cur} \ {None})

CallSwitch(p, a) ==
  /\ "switch" \in Kinds /\ p \in Users /\ Free(p)
  /\ saved[a] # None
  /\ op' = [op EXCEPT ![p] = Call("switch", "wait", a, SwitchLocks(a), None)]
  /\ UNCHANGED <<product, files, login, issued, app>>

BeginSwitch(p) == LET a == op[p].tgt IN
  /\ Granted(p, {"switch"}, "wait")
  /\ \/ Fail(p)    \* incomplete, needs the user, or the client is not installed
     \/ /\ saved[a] # None
        /\ op' = [op EXCEPT ![p] = [Entered(p, "kill") EXCEPT !.mem = saved[a], !.keep = prof[a],
                                                              !.still = TRUE]]
  /\ UNCHANGED <<product, files, login, issued, app>>

\* The client is closed, its lock files are gone and its database is writable.
ClientCloses(p) ==
  /\ op[p].kind = "switch" /\ op[p].at = "kill"
  /\ app' = FALSE
  /\ op' = [op EXCEPT ![p].at = "closed", ![p].was = [login |-> Official, cur |-> cur],
                      ![p].still = TRUE]
  /\ UNCHANGED <<product, files, login, issued>>

\* It would not exit, or the processes could not be listed before or after that:
\* killCursor throws before the path to launch again is known.
ClientStays(p) ==
  /\ op[p].kind = "switch" /\ op[p].at = "kill"
  /\ app' \in IF product = "cursor" THEN {app, FALSE} ELSE {TRUE}
  /\ Fail(p)
  /\ UNCHANGED <<product, files, login, issued>>

\* The database stayed busy or the store refused the write: nothing was written.
NothingWritten(p) ==
  /\ op[p].kind = "switch" /\ op[p].at \in {"closed", "write"}
  /\ app' = TRUE
  /\ Fail(p)
  /\ UNCHANGED <<product, files, login, issued>>

\* buildWrite takes over the profile of the client's account, if it is saved.
Captured ==
  {prof} \cup IF Official = None THEN {}
             ELSE LET a == Official.who IN
                  IF saved[a] = None THEN {}
                  ELSE {[prof EXCEPT ![a] = b] : b \in Keepable(a, Official.prof)}

\* The transaction took the client's profile, wrote the login and was committed;
\* account, index and launch follow in the same turn.
CursorSwitches(p) == LET a == op[p].tgt IN
  /\ product = "cursor" /\ op[p].kind = "switch" /\ op[p].at = "closed"
  /\ \E kept \in Captured :
       LET mine == Given(a, IF kept[a] # None THEN kept[a] ELSE op[p].keep)
       IN /\ Write(LoginOf(a, op[p].mem, mine))
          /\ prof' = [kept EXCEPT ![a] = mine]
  /\ saved' = [saved EXCEPT ![a] = op[p].mem]
  /\ cur' = a
  /\ app' = TRUE
  /\ op' = Stale([op EXCEPT ![p] = Idle])
  /\ UNCHANGED <<product, issued>>

\* The login was not the one written, or a file could not be saved: database,
\* account file and index are restored in the same turn.
CursorSwitchFails(p) ==
  /\ product = "cursor" /\ op[p].kind = "switch" /\ op[p].at = "closed"
  /\ prof' \in Captured
  /\ app' = TRUE
  /\ Fail(p)
  /\ UNCHANGED <<product, saved, cur, login, issued>>

\* Antigravity: the login about to be replaced is read first.
CaptureLogin(p) ==
  /\ product # "cursor" /\ op[p].kind = "switch" /\ op[p].at = "closed"
  /\ \E x \in {Official} \cup (IF product = "hub" THEN {Unread} ELSE {}) :
       op' = [op EXCEPT ![p].at = "write", ![p].snap = x]
  /\ UNCHANGED <<product, files, login, issued, app>>

WriteLogin(p) ==
  /\ op[p].kind = "switch" /\ op[p].at = "write"
  /\ Write(LoginOf(op[p].tgt, op[p].mem, op[p].tgt))
  /\ op' = Stale([op EXCEPT ![p].at = "check"])
  /\ UNCHANGED <<product, files, issued, app>>

\* The process that writes the credential is stopped after eight seconds, when
\* it had already written: the switch takes it for a write that failed.
WriteTimesOut(p) ==
  /\ product = "hub" /\ op[p].kind = "switch" /\ op[p].at = "write"
  /\ Write(LoginOf(op[p].tgt, op[p].mem, op[p].tgt))
  /\ app' = TRUE
  /\ op' = Stale([op EXCEPT ![p] = Failed])
  /\ UNCHANGED <<product, files, issued>>

\* Read back and found to be the target's (or busy, and taken for it; a Hub
\* credential that could not be read before is not read back either).
FinishSwitch(p) == LET a == op[p].tgt IN
  /\ op[p].kind = "switch" /\ op[p].at = "check"
  /\ saved' = [saved EXCEPT ![a] = op[p].mem]
  /\ cur' = a
  /\ app' = TRUE
  /\ Leave(p)
  /\ UNCHANGED <<product, prof, login, issued>>

\* Mutant: the rollback leaves the login.
RestoredNothing(p) == Official

\* restoreVscdbSnapshot; restoreWindowsAntigravityCredential leaves a credential
\* alone that was not read.
Restored(p) == IF op[p].snap = Unread THEN Official ELSE op[p].snap

\* The login is put back, or cannot be.
PutsBack(p) ==
  /\ \/ Write(Restored(p)) /\ op' = Stale([op EXCEPT ![p] = Failed])
     \/ UNCHANGED login /\ op' = Stale([op EXCEPT ![p] = Stuck])
  /\ app' = TRUE

\* Another login was found, or a file could not be saved: the login is restored,
\* and account file and index are in the same turn.
SwitchRollsBack(p) ==
  /\ op[p].kind = "switch" /\ op[p].at = "check"
  /\ PutsBack(p)
  /\ UNCHANGED <<product, files, issued>>

\* The Hub: a file could not be saved, but the index may already name the account,
\* and does until the process that restores the credential has ended.
SavesHalf(p) == LET a == op[p].tgt IN
  /\ product = "hub" /\ op[p].kind = "switch" /\ op[p].at = "check"
  /\ saved' = [saved EXCEPT ![a] = op[p].mem]
  /\ cur' \in {cur, a}
  /\ op' = [op EXCEPT ![p].at = "undo"]
  /\ UNCHANGED <<product, prof, login, issued, app>>

HubRollsBack(p) ==
  /\ op[p].kind = "switch" /\ op[p].at = "undo"
  /\ PutsBack(p)
  /\ cur' = op[p].was.cur
  /\ UNCHANGED <<product, saved, prof, issued>>
-----------------------------------------------------------------------------
(* Reading the client's login: the sync with it (list, current, snapshot)  *)
(* and the import of its account                                           *)

\* A recent sync or one in flight answers the caller; a new one is begun when
\* none is in flight, or (Cursor) when a switch made that one stale.
CallSync(p) ==
  /\ "sync" \in Kinds /\ Free(p)
  /\ \A q \in Procs : op[q].kind = "sync" => product = "cursor" /\ ~ op[q].fresh
  /\ op' = [op EXCEPT ![p] = Call("sync", "read", None, {}, None)]
  /\ UNCHANGED <<product, files, login, issued, app>>

CallImport(p) ==
  /\ "import" \in Kinds /\ p \in Users /\ Free(p)
  /\ op' = [op EXCEPT ![p] = Call("import", "wait", None, {SwitchLock}, None)]
  /\ UNCHANGED <<product, files, login, issued, app>>

BeginImport(p) ==
  /\ Granted(p, {"import"}, "wait")
  /\ op' = [op EXCEPT ![p] = Entered(p, "read")]
  /\ UNCHANGED <<product, files, login, issued, app>>

\* What the first read may return: Cursor the login keys, the Hub the credential
\* or nothing when it cannot be read (readCredentialIfRelevant).
FirstRead == CASE product = "cursor" -> {login["db"]}
               [] product = "ide" -> {None}
               [] product = "hub" -> {login["cred"], None}

ReadFirst(p) ==
  /\ op[p].kind \in {"sync", "import"} /\ op[p].at = "read"
  /\ \E x \in FirstRead :
       op' = [op EXCEPT ![p].at = "second", ![p].got = x, ![p].still = TRUE]
  /\ UNCHANGED <<product, files, login, issued, app>>

\* The second read: Cursor's team session, which is put beside the login read
\* before; Antigravity's database, used when there is no credential.
SecondRead(p) ==
  IF product = "cursor"
  THEN IF op[p].got = None \/ login["db"] = None THEN op[p].got
       ELSE [op[p].got EXCEPT !.prof = login["db"].prof]
  ELSE IF op[p].got # None THEN op[p].got ELSE login["db"]

\* Mutant: a sync never looks whether a switch has been at work.
StillCurrentAlways(p) == TRUE

\* The generation a Cursor sync remembers (officialCursorGeneration).
StillCurrent(p) == product = "cursor" => op[p].fresh

\* The sync goes to the switch lock; the import has it, and goes to the locks of
\* upsert.
ReadSecond(p) == LET x == SecondRead(p) IN
  /\ op[p].kind \in {"sync", "import"} /\ op[p].at = "second"
  /\ \/ Leave(p)     \* not found, or it could not be read
     \/ /\ x # None
        /\ op[p].kind = "sync" => StillCurrent(p)
        /\ op' = [op EXCEPT ![p].at = IF op[p].kind = "sync" THEN "wait" ELSE "save",
                            ![p].tgt = x.who, ![p].mem = x.num, ![p].got = x,
                            ![p].want = IF op[p].kind = "sync" THEN {SwitchLock}
                                        ELSE {UpsertLock, x.who}]
  /\ UNCHANGED <<product, files, login, issued, app>>

\* A saved account is the one signed in: it becomes the current one, and Cursor's
\* profile is kept with it.
FinishSync(p) == LET a == op[p].tgt IN
  /\ Granted(p, {"sync"}, "wait")
  /\ IF StillCurrent(p) /\ saved[a] # None
     THEN /\ cur' = a
          /\ \E b \in Keepable(a, op[p].got.prof) : prof' = [prof EXCEPT ![a] = b]
     ELSE UNCHANGED <<cur, prof>>
  /\ Leave(p)
  /\ UNCHANGED <<product, saved, login, issued, app>>

\* upsert: the account file; its locks are released, the switch lock is not.
SaveImport(p) == LET a == op[p].tgt IN
  /\ Granted(p, {"import"}, "save")
  /\ saved' = [saved EXCEPT ![a] = op[p].mem]
  /\ \E b \in Keepable(a, op[p].got.prof) : prof' = [prof EXCEPT ![a] = b]
  /\ op' = [op EXCEPT ![p].at = "point", ![p].want = {}]
  /\ UNCHANGED <<product, cur, login, issued, app>>

PointImport(p) ==
  /\ op[p].kind = "import" /\ op[p].at = "point"
  /\ cur' = op[p].tgt
  /\ Leave(p)
  /\ UNCHANGED <<product, saved, prof, login, issued, app>>
-----------------------------------------------------------------------------
(* Signing in (finishCursorLogin, finishAntigravityLogin)                  *)

Issue(a) == /\ issued[a] < MaxToken
            /\ issued' = [issued EXCEPT ![a] = @ + 1]

\* The tokens have arrived from the browser's login.
CallLogin(p, a) ==
  /\ "login" \in Kinds /\ p \in Users /\ Free(p)
  /\ Issue(a)
  /\ op' = [op EXCEPT ![p] = Call("login", "wait", a, {SwitchLock}, issued[a] + 1)]
  /\ UNCHANGED <<product, files, login, app>>

BeginLogin(p) ==
  /\ Granted(p, {"login"}, "wait")
  /\ op' = [op EXCEPT ![p] = [Entered(p, "save") EXCEPT !.want = {UpsertLock, op[p].tgt}]]
  /\ UNCHANGED <<product, files, login, issued, app>>

\* Cursor then asks for the profile of the account, outside its locks.
SaveLogin(p) == LET a == op[p].tgt IN
  /\ Granted(p, {"login"}, "save")
  /\ saved' = [saved EXCEPT ![a] = op[p].mem]
  /\ IF product = "cursor"
     THEN op' = [op EXCEPT ![p].at = "meta", ![p].want = {}, ![p].held = {}]
     ELSE op' = [op EXCEPT ![p].at = "point", ![p].want = {}]
  /\ UNCHANGED <<product, prof, cur, login, issued, app>>

\* Antigravity: the first account to be saved becomes the current one.
PointLogin(p) ==
  /\ op[p].kind = "login" /\ op[p].at = "point"
  /\ cur' = IF cur = None THEN op[p].tgt ELSE cur
  /\ Leave(p)
  /\ UNCHANGED <<product, saved, prof, login, issued, app>>

MetaArrives(p) ==
  /\ op[p].kind = "login" /\ op[p].at = "meta"
  /\ \/ Leave(p)
     \/ op' = [op EXCEPT ![p].at = "named", ![p].want = {SwitchLock, op[p].tgt}]
  /\ UNCHANGED <<product, files, login, issued, app>>

\* The saved account gets its name; one deleted meanwhile is saved again.
SaveMeta(p) == LET a == op[p].tgt IN
  /\ Granted(p, {"login"}, "named")
  /\ saved' = [saved EXCEPT ![a] = IF @ = None THEN op[p].mem ELSE @]
  /\ Leave(p)
  /\ UNCHANGED <<product, prof, cur, login, issued, app>>
-----------------------------------------------------------------------------
(* Refreshing token and quota, and deleting                                *)

\* Mutant: refreshing all accounts takes no lock.
RefreshLocksNone(kind, a) == IF kind = "refresh" THEN {SwitchLock, a} ELSE {}

\* One account asked for (withFreshCursorAccount), or all of them, each under
\* its own lock.
RefreshLocks(kind, a) == IF kind = "refresh" THEN {SwitchLock, a} ELSE {a}

CallRefresh(p, a) ==
  /\ Free(p)
  /\ saved[a] # None
  /\ \E kind \in {"refresh", "refreshAll"} \cap Kinds :
       op' = [op EXCEPT ![p] = Call(kind, "wait", a, RefreshLocks(kind, a), None)]
  /\ UNCHANGED <<product, files, login, issued, app>>

RefreshKinds == {"refresh", "refreshAll"}

BeginRefresh(p) == LET a == op[p].tgt IN
  /\ Granted(p, RefreshKinds, "wait")
  /\ \/ Leave(p)      \* gone, needs the user, still fresh
     \/ /\ saved[a] # None
        /\ op' = [op EXCEPT ![p] = [Entered(p, "post") EXCEPT !.mem = saved[a], !.keep = prof[a]]]
  /\ UNCHANGED <<product, files, login, issued, app>>

\* The whole account record, as loaded, is written back.
SaveRecord(a, n, b) == /\ saved' = [saved EXCEPT ![a] = n]
                       /\ prof' = [prof EXCEPT ![a] = b]

\* A new token arrives and is saved; a quota refresh goes on to the usage.
RefreshToken(p) == LET a == op[p].tgt IN
  /\ op[p].at = "post"
  /\ Issue(a)
  /\ SaveRecord(a, issued[a] + 1, op[p].keep)
  /\ \/ Leave(p)
     \/ op' = [op EXCEPT ![p].at = "usage", ![p].mem = issued[a] + 1]
  /\ UNCHANGED <<product, cur, login, app>>

\* The refusal, the retry time, or the quota is saved.
SaveRefresh(p) ==
  /\ op[p].at \in {"post", "usage"}
  /\ SaveRecord(op[p].tgt, op[p].mem, op[p].keep)
  /\ Leave(p)
  /\ UNCHANGED <<product, cur, login, issued, app>>

DeleteLocks(a) == {SwitchLock, a}

CallDelete(p, a) ==
  /\ "delete" \in Kinds /\ Free(p)
  /\ saved[a] # None
  /\ op' = [op EXCEPT ![p] = Call("delete", "wait", a, DeleteLocks(a), None)]
  /\ UNCHANGED <<product, files, login, issued, app>>

\* The current account stays.
BeginDelete(p) == LET a == op[p].tgt IN
  /\ Granted(p, {"delete"}, "wait")
  /\ IF cur # a
     THEN saved' = [saved EXCEPT ![a] = None] /\ prof' = [prof EXCEPT ![a] = None]
     ELSE UNCHANGED <<saved, prof>>
  /\ Leave(p)
  /\ UNCHANGED <<product, cur, login, issued, app>>
-----------------------------------------------------------------------------
(* The official client, another process (external), and the manager's end  *)

Moved == [q \in Procs |-> IF Free(q) THEN op[q] ELSE [op[q] EXCEPT !.still = FALSE]]

OfficialStarts == /\ ~ app
                  /\ app' = TRUE
                  /\ UNCHANGED <<product, files, login, issued, op>>

OfficialExits == /\ app
                 /\ app' = FALSE
                 /\ UNCHANGED <<product, files, login, issued, op>>

\* Signed in, or on with a token the server has rotated.
OfficialSignsIn(a) == /\ "signin" \in Outside
                      /\ app
                      /\ Issue(a)
                      /\ Write(LoginOf(a, issued[a] + 1, a))
                      /\ op' = Moved
                      /\ UNCHANGED <<product, files, app>>

OfficialSignsOut == /\ "signout" \in Outside
                    /\ app
                    /\ Write(None)
                    /\ op' = Moved
                    /\ UNCHANGED <<product, files, issued, app>>

\* The manager is killed; nothing of a switch is remembered.
Crash == /\ "crash" \in Outside
         /\ \E p \in Procs : ~ Free(p)
         /\ op' = [p \in Procs |-> Idle]
         /\ UNCHANGED <<product, files, login, issued, app>>
-----------------------------------------------------------------------------
SwitchStep(p) == \/ BeginSwitch(p) \/ ClientCloses(p) \/ ClientStays(p) \/ NothingWritten(p)
                 \/ CursorSwitches(p) \/ CursorSwitchFails(p)
                 \/ CaptureLogin(p) \/ WriteLogin(p) \/ WriteTimesOut(p)
                 \/ FinishSwitch(p) \/ SwitchRollsBack(p) \/ SavesHalf(p) \/ HubRollsBack(p)

ReadStep(p) == \/ BeginImport(p) \/ ReadFirst(p) \/ ReadSecond(p)
               \/ FinishSync(p) \/ SaveImport(p) \/ PointImport(p)

LoginStep(p) == BeginLogin(p) \/ SaveLogin(p) \/ PointLogin(p) \/ MetaArrives(p) \/ SaveMeta(p)

RefreshStep(p) == BeginRefresh(p) \/ RefreshToken(p) \/ SaveRefresh(p) \/ BeginDelete(p)

Step(p) == SwitchStep(p) \/ ReadStep(p) \/ LoginStep(p) \/ RefreshStep(p)

Calls(p) == \/ CallSync(p) \/ CallImport(p)
            \/ \E a \in Accts : \/ CallSwitch(p, a) \/ CallLogin(p, a)
                                \/ CallRefresh(p, a) \/ CallDelete(p, a)

OfficialStep == \/ OfficialStarts \/ OfficialExits \/ OfficialSignsOut
                \/ \E a \in Accts : OfficialSignsIn(a)

Next == \/ \E p \in Procs : Calls(p) \/ Step(p)
        \/ OfficialStep
        \/ Crash

Spec == Init /\ [][Next]_vars
-----------------------------------------------------------------------------
Numbers == Nat \cup {None}
MaybeLogin == Logins \cup {None}
Operation ==
  [kind : {"none", "switch", "sync", "import", "login", "refresh", "refreshAll", "delete"},
   at : {"idle", "failed", "stuck", "wait", "kill", "closed", "write", "check", "undo", "read", "second",
         "save", "point", "meta", "named", "post", "usage"},
   tgt : Accts \cup {None}, want : SUBSET LockKeys, held : SUBSET LockKeys,
   mem : Numbers, keep : Accts \cup {None}, got : MaybeLogin,
   snap : MaybeLogin \cup {Unread},
   was : [login : MaybeLogin, cur : Accts \cup {None}] \cup {None},
   fresh : BOOLEAN, still : BOOLEAN]

\* The types of the files, of the stores and of the operations.
TypeOK ==
  /\ product \in {"cursor", "ide", "hub"}
  /\ saved \in [Accts -> Numbers]
  /\ prof \in [Accts -> Accts \cup {None}]
  /\ cur \in Accts \cup {None}
  /\ login \in [Stores -> MaybeLogin]
  /\ issued \in [Accts -> Nat]
  /\ app \in BOOLEAN
  /\ op \in [Procs -> Operation]

\* No lost update: while a switch or a refresh holds a copy of an account that it
\* will save whole, the saved token is the one it loaded.
HoldsCopy(p) == op[p].at \in {"kill", "closed", "write", "check", "undo", "post", "usage"}
CopyIsCurrent == \A p \in Procs : HoldsCopy(p) => saved[op[p].tgt] = op[p].mem

\* A sync moves the current account only to the account the client is signed in
\* to, whatever switch ended while the sync was reading (Antigravity's does not
\* look; the Hub's may have read the database instead of the credential).
SyncEnds(p) == op[p].kind = "sync" /\ op[p].at = "wait" /\ op'[p] = Idle
Excused(p) == ~ op[p].still \/ product # "cursor"
SyncFollowsOfficial ==
  [][\A p \in Procs : SyncEnds(p) /\ cur' # cur /\ ~ Excused(p)
        => Official # None /\ cur' = Official.who]_vars

\* The profile kept with an account, and with it the team session a switch gives
\* back to the client, is the account's own: the two reads of a sync or an import
\* never pair one account with another's session, unless the client itself
\* changed its login between them.
OwnProfiles ==
  /\ \A a \in Accts : prof[a] \in {a, None}
  /\ \A s \in Stores : login[s] # None => login[s].prof = login[s].who
  /\ \A p \in Procs : op[p].keep \in {op[p].tgt, None}
ProfilesStayApart ==
  [][OwnProfiles /\ ~ OwnProfiles' => \E p \in Procs : op[p].got # None /\ ~ op[p].still]_vars

\* A switch that fails leaves the login, the current account and the saved token
\* it found, whatever else ran while it waited: but for a login that could not be
\* written back, and a credential that could not be read before it was written, or
\* whose writing was stopped too late.
Fails(p) == op[p].was # None /\ op'[p] \in {Failed, Stuck}
TooLate(p) == product = "hub" /\ (op[p].snap = Unread \/ op[p].at = "write")
FailedSwitchRestores ==
  [][\A p \in Procs : Fails(p) /\ op[p].still =>
        /\ cur' = op[p].was.cur
        /\ saved'[op[p].tgt] = op[p].mem
        /\ TooLate(p) \/ op'[p] = Stuck \/ Official' = op[p].was.login]_vars

=============================================================================
