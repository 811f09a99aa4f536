----------------------------- MODULE CodexAuth -----------------------------
(***************************************************************************)
(* Who is signed in to Codex, and with which token: the files the manager  *)
(* shares with the official Codex app, and every operation that touches    *)
(* them.                                                                   *)
(*                                                                         *)
(*   accounts/codex_<id>.json   vault, reauth  (the saved accounts)        *)
(*   codex-accounts.json        cur            (the managed current one)   *)
(*   ~/.codex/auth.json         auth           (what official Codex uses)  *)
(*   codex_auth_projection.json proj           (what the manager wrote)    *)
(*                                                                         *)
(* A token is an account and a number: the number is its place in the      *)
(* order of issue.  Refresh tokens are single use, so live holds those the *)
(* server still accepts; a refresh spends one and issues the next, and a   *)
(* sign-in issues one more.                                                *)
(*                                                                         *)
(* The engine is one Node process: what happens between two awaits is one  *)
(* step.  An operation is a record in op; the locks it asks for (module    *)
(* OperationLocks) are granted together, in the step that runs the body.   *)
(***************************************************************************)
EXTENDS Naturals

CONSTANTS Accts,        \* identities that can sign in to Codex
          Procs,        \* operations that may be in progress together
          Users,        \* those of Procs that carry the user's switches, sign-ins and adoptions
          Kinds,        \* the kinds of operation that may be called
          Outside,      \* what happens around it: "rotate", "signin", "signout", "crash"
          SwitchLock, OAuthLock,   \* the lock keys __switch__ and __oauth_upsert__
          MaxToken,     \* bound: tokens issued for one account
          None,         \* no account, no token, no file
          Unsupported   \* an official login that is not an OAuth account

ASSUME ConstantsAssumption ==
  /\ None \notin Accts \cup Nat
  /\ Unsupported # None
  /\ {None, Unsupported} \cap [acct : Accts, num : Nat] = {}
  /\ None \notin [by : Accts, of : [acct : Accts, num : Nat]]
  /\ {SwitchLock, OAuthLock} \cap Accts = {}
  /\ Users \subseteq Procs
  /\ MaxToken \in Nat

VARIABLES vault,   \* vault[a]: number of the token saved for a, or None without a file
          reauth,  \* reauth[a]: requires_reauth of the saved account
          cur,     \* current_account_id of the index, or None
          auth,    \* auth.json: a token, None, or Unsupported
          proj,    \* the projection: who it was written for and of which token, or None
          issued,  \* (server) how many tokens were issued for an account
          live,    \* (server) the numbers of the tokens it still accepts
          app,     \* is the official app running
          op       \* the operations in progress

files == <<vault, reauth, cur, auth, proj>>
server == <<issued, live>>
vars == <<files, server, app, op>>

Number == 1..MaxToken
Token == [acct : Accts, num : Number]
Tok(a, n) == [acct |-> a, num |-> n]

LockKeys == Accts \cup {SwitchLock, OAuthLock}

\* An operation: what it does, where it stands, its account, the locks it asks
\* for and holds, the account copy it loaded (its token), the server's answer,
\* whether a 401 may still be repaired, and the files captured by a switch.
Idle == [kind |-> "none", at |-> "idle", tgt |-> None, want |-> {}, held |-> {},
         mem |-> None, got |-> None, mend |-> FALSE, snap |-> None]

Call(kind, at, a, want, mem) ==
  [Idle EXCEPT !.kind = kind, !.at = at, !.tgt = a, !.want = want, !.mem = mem]

\* The body may run: no operation inside its own locks holds a key asked for.
Granted(p, at) ==
  /\ op[p].at = at
  /\ \A q \in Procs \ {p} : op[p].want \cap op[q].held = {}

Leave(p) == op' = [op EXCEPT ![p] = Idle]
Move(p, at) == op' = [op EXCEPT ![p].at = at]

\* The body goes on past an await with the account copy it loaded.
Enter(p, at, mem) ==
  op' = [op EXCEPT ![p].at = at, ![p].mem = mem,
                   ![p].held = @ \cup op[p].want, ![p].want = {}]

Init ==
  /\ \E M \in SUBSET Accts :
       /\ vault = [a \in Accts |-> IF a \in M THEN 1 ELSE None]
       /\ cur \in M \cup {None}
  /\ auth = IF cur = None THEN None ELSE Tok(cur, 1)
  /\ proj = IF cur = None THEN None ELSE [by |-> cur, of |-> auth]
  /\ reauth = [a \in Accts |-> FALSE]
  /\ issued = [a \in Accts |-> 1]
  /\ live = [a \in Accts |-> {1}]
  /\ app \in BOOLEAN
  /\ op = [p \in Procs |-> Idle]
-----------------------------------------------------------------------------
(* auth-state.js: what the manager makes of the files                      *)

IsToken(x) == x # None /\ x # Unsupported
Managed == cur # None /\ vault[cur] # None

ProjectionAligned == proj # None /\ proj.by = cur /\ proj.of = auth

\* inspectAuthState, by status.
AuthStatus ==
  CASE auth = None -> IF Managed THEN "missing_official_auth" ELSE "empty"
    [] auth = Unsupported -> "unsupported_official_auth"
    [] IsToken(auth) /\ ~ Managed -> "unmanaged_official_auth"
    [] IsToken(auth) /\ Managed ->
         IF ProjectionAligned \/ auth.acct = cur THEN "aligned" ELSE "conflict"

\* Mutant: the same identity is enough to push the vault's token.
CanMirrorAnyRotation(n) == IsToken(auth) /\ auth.acct = cur

\* Mutant: a signed-out official app gets the login back.
CanMirrorSignedOut(n) == auth = None \/ ProjectionAligned \/ auth = Tok(cur, n)

\* canMirrorOfficialAuth, when the vault holds token n of the current account:
\* official Codex still has what the manager wrote, or what the vault has.
CanMirror(n) == IsToken(auth) /\ (ProjectionAligned \/ auth = Tok(cur, n))

WriteProjection(a, token) == proj' = [by |-> a, of |-> token]
WriteAuth(a, n) == auth' = Tok(a, n) /\ WriteProjection(a, Tok(a, n))

\* syncCurrentAuthIfNeeded, once token n of a is saved.
SyncCurrentAuth(a, n) ==
  IF cur = a /\ CanMirror(n) THEN WriteAuth(a, n) ELSE UNCHANGED <<auth, proj>>
-----------------------------------------------------------------------------
(* The switch transaction (switch.js doSwitch) and its callers             *)

\* Mutant: the other switches are not locked out.
SwitchLocksAccounts(a) == {a} \cup ({cur} \ {None})

\* account:switch and account:reapplyManaged ask for the switch lock, the target
\* and the current account, as the index names it before the locks are granted.
SwitchLocks(a) == {SwitchLock, a} \cup ({cur} \ {None})

CallSwitch(p, a) ==
  /\ p \in Users /\ op[p] = Idle
  /\ vault[a] # None
  /\ \E kind \in {"switch", "reapply"} \cap Kinds :
       op' = [op EXCEPT ![p] = Call(kind, "wait", a, SwitchLocks(a), None)]
  /\ UNCHANGED <<files, server, app>>

\* The account the transaction works on: the saved one, or after a sign-in the
\* one still in memory.
Loaded(p) == IF vault[op[p].tgt] # None THEN vault[op[p].tgt] ELSE op[p].mem

SwitchKinds == {"switch", "reapply", "signin"}

\* Already current and aligned: adopt a rotation of official Codex into the
\* vault unless it looks older (syncCurrentAccountFromOfficial), or bring the
\* projection up to date.
SettleInPlace(a) ==
  IF ProjectionAligned THEN UNCHANGED <<vault, reauth, proj>>
  ELSE IF auth.num < vault[a] THEN UNCHANGED <<vault, reauth, proj>>
  ELSE /\ vault' = [vault EXCEPT ![a] = auth.num]
       /\ reauth' = [reauth EXCEPT ![a] = FALSE]
       /\ WriteProjection(a, auth)

BeginSwitch(p) == LET a == op[p].tgt IN
  /\ op[p].kind \in SwitchKinds /\ Granted(p, "wait")
  /\ \/ \* the account is gone or needs reauthorization, or Codex is not installed
        /\ Leave(p)
        /\ UNCHANGED files
     \/ \* already current: nothing to restart (or the files were busy)
        /\ op[p].kind # "reapply" /\ cur = a /\ Managed /\ ~ reauth[a]
        /\ AuthStatus = "aligned"
        /\ SettleInPlace(a)
        /\ Leave(p)
        /\ UNCHANGED <<cur, auth>>
     \/ /\ Loaded(p) # None /\ ~ reauth[a]
        /\ op[p].kind = "reapply" \/ cur # a \/ AuthStatus # "aligned"
        /\ Enter(p, "kill", Loaded(p))
        /\ UNCHANGED files
  /\ UNCHANGED <<server, app>>

\* Official Codex would not exit: nothing was captured, so nothing is restored.
KillFails(p) ==
  /\ op[p].at = "kill"
  /\ Move(p, "restart")
  /\ app' \in {app, FALSE}
  /\ UNCHANGED <<files, server>>

Captured(a) == [auth |-> auth, proj |-> proj, cur |-> cur, num |-> vault[a]]

\* The writes of the transaction in their order, and the files after the first
\* n of them.
SwitchFiles(p, n) == LET a == op[p].tgt IN
  /\ auth' = IF n >= 1 THEN Tok(a, op[p].mem) ELSE auth
  /\ proj' = IF n >= 2 THEN [by |-> a, of |-> Tok(a, op[p].mem)] ELSE proj
  /\ cur' = IF n >= 3 THEN a ELSE cur
  /\ vault' = IF n >= 4 THEN [vault EXCEPT ![a] = op[p].mem] ELSE vault

AllWrites == 4

\* Official Codex is closed; capture, write everything, verify.
CommitSwitch(p) ==
  /\ op[p].at = "kill"
  /\ app' = FALSE
  /\ SwitchFiles(p, AllWrites)
  /\ op' = [op EXCEPT ![p].at = "start", ![p].snap = Captured(op[p].tgt)]
  /\ UNCHANGED <<reauth, server>>

\* A write or the verification fails: what was written is restored in the turn.
CommitFails(p) ==
  /\ op[p].at = "kill"
  /\ app' = FALSE
  /\ Move(p, "restart")
  /\ UNCHANGED <<files, server>>

\* startCodex: seen running, or the process list is unavailable (a success).
StartSucceeds(p) ==
  /\ op[p].at = "start"
  /\ app' \in {app, TRUE}
  /\ Leave(p)
  /\ UNCHANGED <<files, server>>

\* Mutants: the rollback forgets auth.json, or derives the projection anew.
RestoredFilesNoAuth(p, n) == LET s == op[p].snap IN
  /\ UNCHANGED auth
  /\ proj' = s.proj /\ cur' = s.cur
  /\ vault' = [vault EXCEPT ![op[p].tgt] = s.num]

\* The captured files after the first n of them are restored.
RestoredFiles(p, n) == LET s == op[p].snap IN
  /\ auth' = IF n >= 1 THEN s.auth ELSE auth
  /\ proj' = IF n >= 2 THEN s.proj ELSE proj
  /\ cur' = IF n >= 3 THEN s.cur ELSE cur
  /\ vault' = IF n >= 4 THEN [vault EXCEPT ![op[p].tgt] = s.num] ELSE vault

\* Codex does not start, or shows its crash window: roll back.
StartFails(p) ==
  /\ op[p].at = "start"
  /\ RestoredFiles(p, AllWrites)
  /\ op' = [op EXCEPT ![p].at = "restart", ![p].snap = None]
  /\ UNCHANGED <<reauth, server, app>>

\* The restart after a failure; its own failure is only logged.
RestartAfterFailure(p) ==
  /\ op[p].at = "restart"
  /\ app' \in {app, TRUE}
  /\ Leave(p)
  /\ UNCHANGED <<files, server>>
-----------------------------------------------------------------------------
(* Signing in and adopting the official login (oauth.js, auth-state.js)    *)

Issue(a, spent) ==
  /\ issued[a] < MaxToken
  /\ issued' = [issued EXCEPT ![a] = @ + 1]
  /\ live' = [live EXCEPT ![a] = (@ \ spent) \cup {issued[a] + 1}]

\* The authorization code was exchanged; upsert asks for its locks.
CallSignIn(p, a) ==
  /\ "signin" \in Kinds
  /\ p \in Users /\ op[p] = Idle
  /\ Issue(a, {})
  /\ op' = [op EXCEPT ![p] =
              Call("signin", "save", a, {OAuthLock, a}, issued[a] + 1)]
  /\ UNCHANGED <<files, app>>

Upsert(p) == LET a == op[p].tgt IN
  /\ vault' = [vault EXCEPT ![a] = op[p].mem]
  /\ reauth' = [reauth EXCEPT ![a] = FALSE]

\* Saved; a new login becomes the live session by a switch, a reauthorization
\* (or a cancelled session) ends here.
SaveSignIn(p) ==
  /\ op[p].kind = "signin" /\ Granted(p, "save")
  /\ Upsert(p)
  /\ \/ Leave(p)
     \/ op' = [op EXCEPT ![p].at = "wait", ![p].want = SwitchLocks(op[p].tgt)]
  /\ UNCHANGED <<cur, auth, proj, server, app>>

\* adoptOfficialAuth reads auth.json before it asks for the switch lock.
CallAdopt(p) ==
  /\ "adopt" \in Kinds
  /\ p \in Users /\ op[p] = Idle
  /\ IsToken(auth)
  /\ op' = [op EXCEPT ![p] = Call("adopt", "wait", auth.acct, {SwitchLock}, auth.num)]
  /\ UNCHANGED <<files, server, app>>

\* Under the switch lock it calls upsert, which asks for its own locks.
BeginAdopt(p) ==
  /\ op[p].kind = "adopt" /\ Granted(p, "wait")
  /\ op' = [op EXCEPT ![p].at = "save", ![p].held = {SwitchLock},
                      ![p].want = {OAuthLock, op[p].tgt}]
  /\ UNCHANGED <<files, server, app>>

SaveAdopt(p) ==
  /\ op[p].kind = "adopt" /\ Granted(p, "save")
  /\ Upsert(p)
  /\ op' = [op EXCEPT ![p].at = "point", ![p].want = {}]
  /\ UNCHANGED <<cur, auth, proj, server, app>>

\* upsert has returned and released the account; only the switch lock is held.
PointAdopt(p) ==
  /\ op[p].at = "point"
  /\ cur' = op[p].tgt
  /\ WriteProjection(op[p].tgt, Tok(op[p].tgt, op[p].mem))
  /\ Leave(p)
  /\ UNCHANGED <<vault, reauth, auth, server, app>>
-----------------------------------------------------------------------------
(* Token refresh, quota refresh and the background mirror                  *)

RefreshKinds == {"token", "quota", "daemon"}

\* Mutant: the background mirror does not take the account lock.
RefreshLocksNone(kind, a) == {}

\* One account under its own lock (withFreshAccount, refreshAll, the daemon).
RefreshLocks(kind, a) == {a}

\* token:refresh(All), quota:refresh(All) for any saved account, and the last
\* stage of the daemon for the account that is current when it is called.
CallRefresh(p, a) ==
  /\ op[p] = Idle
  /\ vault[a] # None
  /\ \E kind \in RefreshKinds \cap Kinds :
       /\ kind = "daemon" => cur = a
       /\ op' = [op EXCEPT ![p] = Call(kind, "wait", a, RefreshLocks(kind, a), None)]
  /\ UNCHANGED <<files, server, app>>

\* Where the body goes with a loaded account: to the token endpoint when the token
\* is stale, else to the quota; a probe of an account that needs the user only asks
\* for its usage (probeUsageOnly).
Places(kind, needsUser) ==
  IF needsUser THEN IF kind = "quota" THEN {"settle"} ELSE {}
  ELSE IF kind = "token" THEN {"post"} ELSE {"post", "quota"}

BeginRefresh(p) == LET a == op[p].tgt IN
  /\ op[p].kind \in RefreshKinds /\ Granted(p, "wait")
  /\ \/ Leave(p)   \* gone, banned, reauthorization required, backing off, still fresh
     \/ /\ vault[a] # None
        /\ \E at \in Places(op[p].kind, reauth[a]) :
             op' = [op EXCEPT ![p].at = at, ![p].mem = vault[a],
                              ![p].mend = (op[p].kind # "token"),
                              ![p].held = op[p].want, ![p].want = {}]
  /\ UNCHANGED <<files, server, app>>

\* The usage request was refused (401): repair the token once, by force.
RepairToken(p) ==
  /\ op[p].at = "quota" /\ op[p].mend
  /\ op' = [op EXCEPT ![p].at = "post", ![p].mend = FALSE]
  /\ UNCHANGED <<files, server, app>>

\* The token endpoint handles the request: it rotates a live token, once.
ServerRotates(p) == LET a == op[p].tgt IN
  /\ op[p].at = "post"
  /\ op[p].mem \in live[a]
  /\ Issue(a, {op[p].mem})
  /\ op' = [op EXCEPT ![p].at = "answer", ![p].got = issued[a] + 1]
  /\ UNCHANGED <<files, app>>

\* After the token step: a token refresh is over, a quota refresh goes on.
AfterToken(p, n, at) ==
  op' = [op EXCEPT ![p] = IF op[p].kind = "token" THEN Idle
                          ELSE [@ EXCEPT !.at = at, !.mem = n, !.got = None]]

\* The rotated token arrives: save it, mirror it if the account is current.
ReceiveToken(p) == LET a == op[p].tgt IN
  /\ op[p].at = "answer"
  /\ vault' = [vault EXCEPT ![a] = op[p].got]
  /\ reauth' = [reauth EXCEPT ![a] = FALSE]
  /\ SyncCurrentAuth(a, op[p].got)
  /\ AfterToken(p, op[p].got, "quota")
  /\ UNCHANGED <<cur, server, app>>

\* The endpoint refuses a token that was spent: the account needs the user.
RefuseToken(p) == LET a == op[p].tgt IN
  /\ op[p].at = "post"
  /\ op[p].mem \notin live[a]
  /\ vault' = [vault EXCEPT ![a] = op[p].mem]
  /\ reauth' = [reauth EXCEPT ![a] = TRUE]
  /\ AfterToken(p, op[p].mem, "settle")
  /\ UNCHANGED <<cur, auth, proj, server, app>>

\* 429, 5xx, a broken body, or a connection lost before or after the server
\* rotated: the old token is saved with a retry time.
LoseAnswer(p) ==
  /\ op[p].at \in {"post", "answer"}
  /\ vault' = [vault EXCEPT ![op[p].tgt] = op[p].mem]
  /\ AfterToken(p, op[p].mem, "settle")
  /\ UNCHANGED <<reauth, cur, auth, proj, server, app>>

\* The quota is saved with the whole account record; the daemon then mirrors
\* the current account, its projection alone when official Codex has the token.
FinishQuota(p) == LET a == op[p].tgt
                      n == op[p].mem IN
  /\ op[p].at \in {"quota", "settle"}
  /\ vault' = [vault EXCEPT ![a] = n]
  /\ \/ UNCHANGED <<auth, proj>>   \* not the daemon, cancelled, or the files were busy
     \/ /\ op[p].kind = "daemon" /\ cur = a /\ CanMirror(n)
        /\ IF auth = Tok(a, n)
           THEN WriteProjection(a, auth) /\ UNCHANGED auth
           ELSE WriteAuth(a, n)
  /\ Leave(p)
  /\ UNCHANGED <<reauth, cur, server, app>>
-----------------------------------------------------------------------------
(* Deleting a saved account (account-file-store.js deleteAcct)             *)

CallDelete(p, a) ==
  /\ "delete" \in Kinds
  /\ op[p] = Idle
  /\ vault[a] # None
  /\ op' = [op EXCEPT ![p] = Call("delete", "wait", a, {a}, None)]
  /\ UNCHANGED <<files, server, app>>

MayDelete(a) == cur # a

BeginDelete(p) == LET a == op[p].tgt IN
  /\ op[p].kind = "delete" /\ Granted(p, "wait")
  /\ IF MayDelete(a)
     THEN /\ vault' = [vault EXCEPT ![a] = None]
          /\ reauth' = [reauth EXCEPT ![a] = FALSE]
     ELSE UNCHANGED <<vault, reauth>>
  /\ Leave(p)
  /\ UNCHANGED <<cur, auth, proj, server, app>>
-----------------------------------------------------------------------------
(* The official Codex app, another process (external)                      *)

OfficialStarts == /\ ~ app
                  /\ app' = TRUE
                  /\ UNCHANGED <<files, server, op>>

OfficialExits == /\ app
                 /\ app' = FALSE
                 /\ UNCHANGED <<files, server, op>>

\* It refreshes its own token and writes the new one to auth.json.
OfficialRotates == /\ "rotate" \in Outside
                   /\ app /\ IsToken(auth)
                   /\ auth.num \in live[auth.acct]
                   /\ Issue(auth.acct, {auth.num})
                   /\ auth' = Tok(auth.acct, issued[auth.acct] + 1)
                   /\ UNCHANGED <<vault, reauth, cur, proj, app, op>>

OfficialSignsIn(a) == /\ "signin" \in Outside
                      /\ app
                      /\ Issue(a, {})
                      /\ auth' = Tok(a, issued[a] + 1)
                      /\ UNCHANGED <<vault, reauth, cur, proj, app, op>>

\* It signs out, or in with an API key.
OfficialSignsOut == /\ "signout" \in Outside
                    /\ app
                    /\ auth' \in {None, Unsupported}
                    /\ UNCHANGED <<vault, reauth, cur, proj, server, app, op>>
-----------------------------------------------------------------------------
(* The manager is killed, between two steps or between two writes          *)

Dies == op' = [q \in Procs |-> Idle]

Crash == /\ \E p \in Procs : op[p] # Idle
         /\ Dies
         /\ UNCHANGED <<files, server, app>>

CrashInCommit(p) ==
  /\ op[p].at = "kill"
  /\ \E n \in 0..(AllWrites - 1) : SwitchFiles(p, n)
  /\ app' = FALSE
  /\ Dies
  /\ UNCHANGED <<reauth, server>>

CrashInRollback(p) ==
  /\ op[p].at = "start"
  /\ \E n \in 0..(AllWrites - 1) : RestoredFiles(p, n)
  /\ Dies
  /\ UNCHANGED <<reauth, server, app>>

CrashInPoint(p) ==
  /\ op[p].at = "point"
  /\ cur' = op[p].tgt
  /\ Dies
  /\ UNCHANGED <<vault, reauth, auth, proj, server, app>>

\* After the vault was saved: before auth.json is written, or before the
\* projection is.
CrashInMirror(p) == LET a == op[p].tgt
                        n == IF op[p].at = "answer" THEN op[p].got ELSE op[p].mem IN
  /\ \/ op[p].at = "answer" /\ reauth' = [reauth EXCEPT ![a] = FALSE]
     \/ op[p].kind = "daemon" /\ op[p].at \in {"quota", "settle"} /\ UNCHANGED reauth
  /\ vault' = [vault EXCEPT ![a] = n]
  /\ \/ UNCHANGED auth
     \/ cur = a /\ CanMirror(n) /\ auth' = Tok(a, n)
  /\ Dies
  /\ UNCHANGED <<cur, proj, server, app>>
-----------------------------------------------------------------------------
SwitchStep(p) == \/ \E a \in Accts : CallSwitch(p, a)
                 \/ BeginSwitch(p) \/ KillFails(p) \/ CommitSwitch(p) \/ CommitFails(p)
                 \/ StartSucceeds(p) \/ StartFails(p) \/ RestartAfterFailure(p)

LoginStep(p) == \/ \E a \in Accts : CallSignIn(p, a)
                \/ SaveSignIn(p)
                \/ CallAdopt(p) \/ BeginAdopt(p) \/ SaveAdopt(p) \/ PointAdopt(p)

RefreshStep(p) == \/ \E a \in Accts : CallRefresh(p, a)
                  \/ BeginRefresh(p) \/ RepairToken(p) \/ ServerRotates(p)
                  \/ ReceiveToken(p) \/ RefuseToken(p) \/ LoseAnswer(p) \/ FinishQuota(p)

DeleteStep(p) == (\E a \in Accts : CallDelete(p, a)) \/ BeginDelete(p)

CrashStep ==
  /\ "crash" \in Outside
  /\ \/ Crash
     \/ \E p \in Procs : \/ CrashInCommit(p) \/ CrashInRollback(p)
                         \/ CrashInPoint(p) \/ CrashInMirror(p)

OfficialStep == \/ OfficialStarts \/ OfficialExits \/ OfficialRotates \/ OfficialSignsOut
                \/ \E a \in Accts : OfficialSignsIn(a)

Next == \/ \E p \in Procs : SwitchStep(p) \/ LoginStep(p) \/ RefreshStep(p) \/ DeleteStep(p)
        \/ OfficialStep
        \/ CrashStep

Spec == Init /\ [][Next]_vars
-----------------------------------------------------------------------------
Numbers == Nat \cup {None}
AnyToken == [acct : Accts, num : Nat]
Official == AnyToken \cup {None, Unsupported}
Projection == [by : Accts, of : AnyToken] \cup {None}
Capture == [auth : Official, proj : Projection, cur : Accts \cup {None}, num : Numbers]

Operation ==
  [kind : {"none", "switch", "reapply", "signin", "adopt", "token", "quota",
           "daemon", "delete"},
   at : {"idle", "wait", "save", "point", "kill", "start", "restart", "post",
         "answer", "quota", "settle"},
   tgt : Accts \cup {None}, want : SUBSET LockKeys, held : SUBSET LockKeys,
   mem : Numbers, got : Numbers, mend : BOOLEAN, snap : Capture \cup {None}]

\* The types of the files, of the server and of the operations.
TypeOK ==
  /\ vault \in [Accts -> Numbers]
  /\ reauth \in [Accts -> BOOLEAN]
  /\ cur \in Accts \cup {None}
  /\ auth \in Official
  /\ proj \in Projection
  /\ issued \in [Accts -> Nat]
  /\ live \in [Accts -> SUBSET Nat]
  /\ app \in BOOLEAN
  /\ op \in [Procs -> Operation]

\* An operation inside its locks has loaded the account and will save it whole.
HoldsCopy(p) == op[p].at \in {"kill", "start", "post", "answer", "quota", "settle"}

\* No lost update: while an operation holds a copy of an account that it will
\* save whole, the file is the one it loaded (a switch after a sign-in may
\* work on the account in memory when its file is gone).
NoLostUpdate ==
  \A p \in Procs : HoldsCopy(p) =>
     \/ vault[op[p].tgt] = op[p].mem
     \/ op[p].kind = "signin" /\ op[p].at = "kill" /\ vault[op[p].tgt] = None

\* Whenever the manager takes the official login for its own writing and may
\* overwrite it, the login is of the managed current account.
AlignedIsTrue == Managed /\ CanMirror(vault[cur]) => auth.acct = cur

OfficialAcct(x) == IF IsToken(x) THEN x.acct ELSE None

\* Every switch is user-initiated: only the switch transaction, its rollback and
\* the official app change whose login auth.json is.
UserSwitching == \E p \in Procs : op[p].at \in {"kill", "start"} /\ op'[p] # op[p]
OfficialActs == UNCHANGED <<vault, reauth, cur, proj, op>>
NoAutomaticSwitch ==
  [][OfficialAcct(auth') # OfficialAcct(auth) => UserSwitching \/ OfficialActs]_vars

\* The vault has an older token of the current account than official Codex, and
\* what official Codex has is what the manager wrote.
Behind == ProjectionAligned /\ Managed /\ IsToken(auth) /\ vault[cur] < auth.num

\* A refresh or the background mirror never takes a login that works back to a
\* token that was spent before it: a rotation by official Codex survives.  (The
\* answer to a later refresh may be lost; then the later token is spent too.)
\* The exception is a vault that is behind, and only a sign-in saved after the
\* answer to a later refresh, an adoption or a rollback leaves it so.
Mirrors == \E p \in Procs : op[p].at \in {"answer", "quota", "settle"} /\ op'[p] # op[p]
Overtakes == \E p \in Procs : op[p].at \in {"save", "point", "start"} /\ op'[p] # op[p]
LoginSurvivesMirror ==
  [][/\ Mirrors /\ ~ UserSwitching /\ auth' # auth /\ auth.num \in live[auth.acct]
          => auth'.num > auth.num \/ auth'.num \in live[auth'.acct] \/ Behind
     /\ Behind' => Behind \/ Overtakes]_vars

\* A working token in the vault is never replaced by one the server has already
\* spent, unless the user takes over what official Codex has: an adoption may save a
\* login that it read before a refresh rotated it, and then, or after a crash, a switch
\* to the current account may find such a token in auth.json.
Adopts(p) == op[p].kind = "adopt" /\ op[p].at = "save" /\ op'[p] # op[p]
SettlesOn(a) == auth = Tok(a, vault'[a]) /\ auth' = auth
WorkingTokenKept ==
  [][\A a \in Accts :
       vault[a] \in live[a] /\ vault'[a] \notin {vault[a], None} =>
         \/ vault'[a] \in live[a]
         \/ \E p \in Procs : Adopts(p)
         \/ ("adopt" \in Kinds \/ "crash" \in Outside) /\ SettlesOn(a)]_vars

\* The manager itself never brings about a conflict: only the official app, a crash in
\* the middle of the writes, the rollback to a state that was one, an adoption whose
\* login official Codex has left meanwhile, or the return of the file of an account
\* that was deleted and is still the current one (an adoption, or a switch queued
\* behind another, can leave the index so).
Dying == (\E p \in Procs : op[p] # Idle) /\ (\A p \in Procs : op'[p] = Idle)
RestoresConflict(p) == /\ op[p].at = "start" /\ op'[p].at = "restart"
                       /\ OfficialAcct(op[p].snap.auth) # op[p].snap.cur
AdoptsTooLate(p) == /\ op[p].at = "point" /\ op'[p] # op[p]
                    /\ auth # Tok(op[p].tgt, op[p].mem)
CurrentReturns == cur # None /\ vault[cur] = None /\ vault'[cur] # None
NoHomemadeConflict ==
  [][AuthStatus # "conflict" /\ AuthStatus' = "conflict" =>
       \/ OfficialActs \/ Dying \/ CurrentReturns
       \/ \E p \in Procs : RestoresConflict(p) \/ AdoptsTooLate(p)]_vars

\* While a switch waits for Codex to start, the files stay what it wrote: no
\* other operation of the manager moves the current account or the projection,
\* so that a rollback undoes this transaction and nothing else.
SwitchIsolated ==
  \A p \in Procs : op[p].at = "start" =>
     /\ cur = op[p].tgt
     /\ proj = [by |-> cur, of |-> Tok(cur, op[p].mem)]
     /\ vault[cur] = op[p].mem

\* Meanwhile the manager does not spend the token of the outgoing login, which the
\* rollback would bring back: what the comment at ipc-handlers.js:1002-1005 says the
\* locks are for.
RollbackTokenKept ==
  [][\A p \in Procs :
       op[p].at = "start" /\ op'[p] = op[p] /\ IsToken(op[p].snap.auth) =>
         LET out == op[p].snap.auth IN
         out.num \in live[out.acct] => out.num \in live'[out.acct] \/ OfficialActs]_vars
=============================================================================
