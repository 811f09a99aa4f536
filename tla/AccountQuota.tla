---------------------------- MODULE AccountQuota ----------------------------
(***************************************************************************)
(* One saved account and the servers that speak about it: the token        *)
(* endpoint, which renews or refuses the login, and the usage endpoint,    *)
(* which answers with the windows that are left.  The account remembers    *)
(* what they said: whether it must be signed in again, whether it is       *)
(* banned, the last windows, and when it may ask again.                    *)
(*                                                                         *)
(* The three products share the account and differ in what they make of an *)
(* answer.  Everything that happens to one account happens inside its lock *)
(* (module OperationLocks), so there is one operation at a time; what the  *)
(* servers answer, and when the access token expires, is open.             *)
(*                                                                         *)
(* Time is only what is left of each wait.  A wait is over, or it is not:  *)
(* between two ends of waits nothing changes.                              *)
(***************************************************************************)
EXTENDS Integers

CONSTANTS Products,     \* the products modelled: a subset of "codex", "cursor", "antigravity"
          HeaderWaits,  \* the values of Retry-After an answer may carry, or NoHeader
          NoHeader,     \* an answer without Retry-After
          MinRetry, MaxRetry,   \* 15 s and 30 min: the shortest and the longest wait
          LimitedRetry, \* 15 min, after a 429 that names no time
          TokenRetry,   \* one minute: the first wait
          ProbeStale,   \* 10 min: how long a probe that told something stays good
          MaxFails,     \* where the doubling stops
          MaxAge,       \* bound: time one operation takes
          PollLimit     \* ONBOARD_POLL_LIMIT

ASSUME ConstantsAssumption ==
  /\ Products \subseteq {"codex", "cursor", "antigravity"}
  /\ HeaderWaits \subseteq Nat \cup {NoHeader} /\ NoHeader \in HeaderWaits /\ NoHeader \notin Nat
  /\ {MinRetry, TokenRetry, LimitedRetry, MaxRetry, ProbeStale, MaxFails, MaxAge, PollLimit} \subseteq Nat
  /\ MaxAge < MinRetry /\ MinRetry <= TokenRetry /\ TokenRetry <= LimitedRetry /\ LimitedRetry <= MaxRetry
  /\ MaxFails >= 1

VARIABLES product,      \* whose account it is
          acct,         \* the account, as it is in memory and in its file
          op,           \* the operation in progress
          said          \* what the servers said last, for the properties

vars == <<product, acct, op, said>>

Idle == [at |-> "idle", kind |-> "none", age |-> 0, posts |-> 0, spare |-> FALSE,
         usage |-> "none", host |-> 1, polls |-> 0, project |-> FALSE, offer |-> "nothing", windows |-> "none"]

\* A login just saved: nothing is known of its windows.
NewAccount == [fresh |-> TRUE, key |-> TRUE, reauth |-> FALSE, banned |-> FALSE, probe |-> "none",
               err |-> "none", soft |-> FALSE, quota |-> "unknown", fails |-> 0, qwait |-> 0, twait |-> 0, seen |-> 0]

Init == /\ product \in Products
        /\ \E key \in BOOLEAN : acct = [NewAccount EXCEPT !.key = key]
        /\ op = Idle
        /\ said = [refused |-> FALSE, deactivated |-> FALSE, failedNow |-> FALSE, calm |-> TRUE]
-----------------------------------------------------------------------------
(* quota-retry.js: how long to wait                                        *)

Least(a, b) == IF a < b THEN a ELSE b
Most(a, b) == IF a > b THEN a ELSE b
Rest(wait, d) == Most(0, wait - d)

FromHeader(hdr) == Least(MaxRetry, Most(MinRetry, hdr))

Backoff(fails) == Least(MaxRetry, TokenRetry * 2 ^ (fails - 1))

QuotaDelay(fails, limited, hdr) ==
  IF hdr # NoHeader THEN FromHeader(hdr) ELSE IF limited THEN LimitedRetry ELSE Backoff(fails)
TokenDelay(limited, hdr) ==
  IF hdr # NoHeader THEN FromHeader(hdr) ELSE IF limited THEN LimitedRetry ELSE TokenRetry

\* scheduleQuotaRetry counts from the start of the operation.
ScheduleQuota(a, limited, hdr) ==
  LET fails == Least(MaxFails, a.fails + 1)
  IN  [a EXCEPT !.fails = fails, !.qwait = Rest(QuotaDelay(fails, limited, hdr), op.age)]
ClearQuotaRetry(a) == [a EXCEPT !.fails = 0, !.qwait = 0]
-----------------------------------------------------------------------------
(* account-probe.js: what an answer of the usage endpoint says             *)

Refusals == {"denied", "invalid", "forbidden"}
Temporary == {"limited", "down", "page", "lost", "broken"}
UsageAnswers == {"left", "used", "empty", "garbled", "null", "deactivated", "usedup"} \cup Refusals \cup Temporary
Answered == {"left", "used", "empty", "null"}   \* 2xx, JSON

ProbeOf(ans) ==
  CASE ans \in Answered -> "active"
    [] ans = "deactivated" -> "banned"
    [] ans = "usedup" -> "limited"
    [] ans = "invalid" -> "rejected"
    [] OTHER -> "failed"

\* applyProbeToAccount: only an answer of the usage endpoint sets banned or clears it.
ApplyProbe(a, probe) ==
  LET banned == probe = "banned" \/ (a.banned /\ probe # "active")
  IN  [a EXCEPT !.banned = banned, !.probe = IF banned THEN "banned" ELSE probe, !.seen = ProbeStale]

CanProbe(a) == a.fresh /\ a.probe # "rejected"
SeenLately(a) == a.probe \in {"active", "banned", "limited"} /\ a.seen > 0
NeedsBanProbe(a) == (a.reauth \/ a.banned) /\ CanProbe(a) /\ a.qwait = 0 /\ ~ SeenLately(a)
-----------------------------------------------------------------------------
(* refreshOneTok, refreshCursorToken, refreshAntigravityToken              *)

\* An account marked only for want of a refresh token that has one again.
Healed(a) == IF product = "codex" /\ a.reauth /\ a.err = "missing" /\ a.key
             THEN [a EXCEPT !.reauth = FALSE, !.err = "none", !.soft = FALSE] ELSE a

RepairSignal(a) == product = "codex" /\ a.err = "repair"
MarkReauth(a, err) ==
  IF product = "codex" THEN [a EXCEPT !.reauth = TRUE, !.err = err, !.soft = FALSE]
  ELSE [a EXCEPT !.reauth = TRUE, !.banned = FALSE, !.probe = "invalid"]

\* What becomes of a request to renew the token, before anything is sent.
AskCodex(a, force) ==
  CASE a.reauth -> "refused"
    [] ~ force /\ (a.fresh \/ ~ a.key) /\ ~ RepairSignal(a) -> "ok"
    [] ~ a.key -> "missing"
    [] ~ force /\ a.twait > 0 -> "pending"
    [] OTHER -> "post"

AskManaged(a, force) ==
  CASE ~ a.key \/ a.reauth -> "refused"
    [] ~ force /\ a.fresh -> "ok"
    [] ~ force /\ a.twait > 0 -> "pending"
    [] OTHER -> "post"

Ask(a, force) == IF product = "codex" THEN AskCodex(a, force) ELSE AskManaged(a, force)

TokenAnswers == {"ok", "limited", "down", "page", "denied", "invalid", "client", "gone", "odd", "garbled",
                 "empty", "emptyInvalid", "logout", "lost", "broken"}

\* The answers in which it is the server that turns the login down.
TurnedDown == {"denied", "invalid", "client", "emptyInvalid", "logout"}

\* The answers that say nothing about the login nor about the windows.
PassesToken(ans) ==
  ans \in {"limited", "down", "lost", "broken", "garbled", "empty"} \/ (ans = "page" /\ product = "codex")

\* The answers that end a login: the code names a dead token (Codex), 401, 403
\* or shouldLogout (Cursor), 400 invalid_grant or invalid_client too (Antigravity).
RefusesCodex == {"invalid", "emptyInvalid"}
\* Mutant: a page of the proxy is taken for an answer of the server.
RefusesCursorPages == {"denied", "logout", "page"}
RefusesCursor == {"denied", "logout"}
RefusesGoogle == {"denied", "invalid", "client", "emptyInvalid"}
RefusesLogin == CASE product = "codex" -> RefusesCodex
                  [] product = "cursor" -> RefusesCursor
                  [] product = "antigravity" -> RefusesGoogle

\* The answers after which the token endpoint is left alone for a while.
MustWait ==
  {"limited", "down", "garbled", "empty", "logout", "lost"}
    \cup (IF product = "codex" THEN {} ELSE {"page"})
    \cup (IF product = "cursor" THEN {"emptyInvalid"} ELSE {})

Renewed(a) ==
  [a EXCEPT !.fresh = TRUE, !.reauth = FALSE, !.err = "none", !.soft = FALSE, !.twait = 0,
            !.banned = IF product = "codex" THEN @ ELSE FALSE]

AfterToken(a, ans, hdr) ==
  CASE ans = "ok" -> Renewed(a)
    [] ans \in RefusesLogin -> MarkReauth(a, "repair")
    [] ans \in MustWait \ RefusesLogin -> [a EXCEPT !.twait = TokenDelay(ans = "limited", hdr)]
    [] OTHER -> a
-----------------------------------------------------------------------------
(* The operations                                                          *)

Leave(a) == acct' = a /\ op' = Idle

\* The error a quota refresh leaves behind.  Codex keeps the code of a token
\* that is dead, and that of a missing one when the failure has no code itself.
QuotaErr(a, err) == IF err = "other" /\ a.err = "missing" THEN {"other", "missing"} ELSE {err}

\* Mutant: only a failure of the usage request is scheduled.
FailsUnscheduled(a, probe, err, soft, limited, hdr) ==
  \E e \in QuotaErr(a, err) : Leave([a EXCEPT !.err = e, !.soft = soft])

\* A quota refresh ends without windows: noted, counted, scheduled.
Fails(a, probe, err, soft, limited, hdr) ==
  \E e \in QuotaErr(a, err) :
    Leave(ScheduleQuota([ApplyProbe(a, probe) EXCEPT !.err = e, !.soft = soft], limited, hdr))

\* The same when it was the token that failed: Cursor and Antigravity leave the probe alone.
TokenFails(a, probe, err, soft, limited) ==
  IF product = "codex" THEN Fails(a, probe, err, soft, limited, NoHeader)
  ELSE Leave(ScheduleQuota([a EXCEPT !.err = err, !.soft = soft], limited, NoHeader))

\* Where the windows are asked for, once the token is settled.
UsageAt == IF product = "antigravity" THEN "assist" ELSE "usage"

\* The token is settled, one way or the other, before the windows are asked for.
PostToken == /\ op' = [Idle EXCEPT !.at = "token", !.kind = "quota", !.posts = 1,
                                   !.spare = (product = "antigravity")]
             /\ UNCHANGED <<acct, said>>
AskUsage(at) == /\ op' = [Idle EXCEPT !.at = at, !.kind = "quota"]
                /\ UNCHANGED <<acct, said>>
Pending == /\ \E limited \in BOOLEAN : TokenFails(acct, "failed", "other", TRUE, limited)
           /\ UNCHANGED said

\* The user, the batch, the window's auto-sync and the daemon ask for the windows.
BeginCodexQuota(force) ==
  LET asked == IF acct.fresh THEN "ok" ELSE AskCodex(acct, FALSE) IN
  /\ product = "codex" /\ op = Idle /\ ~ acct.reauth /\ ~ acct.banned
  /\ ~ force => acct.qwait = 0
  /\ \/ asked = "ok" /\ AskUsage("usage")
     \/ asked = "post" /\ PostToken
     \/ asked = "pending" /\ Pending
     \/ /\ asked = "missing"
        /\ Fails(MarkReauth(acct, "missing"), "invalid", "missing", FALSE, FALSE, NoHeader)
        /\ said' = [said EXCEPT !.refused = TRUE, !.calm = FALSE]

BeginManagedQuota(force) ==
  LET asked == AskManaged(acct, FALSE) IN
  /\ product # "codex" /\ op = Idle
  /\ ~ force => acct.qwait = 0
  /\ \/ /\ asked = "ok" \/ ~ acct.key \/ (asked = "refused" /\ acct.fresh)
        /\ AskUsage(UsageAt)
     \/ asked = "post" /\ PostToken
     \/ asked = "pending" /\ Pending
     \/ /\ asked = "refused" /\ acct.key /\ ~ acct.fresh
        /\ Leave([acct EXCEPT !.err = "reauth", !.soft = FALSE]) /\ UNCHANGED said

\* A Codex account that is banned or must be signed in again is asked for with
\* the access token it has left (refreshAccountQuota, the daemon's sweep).
BeginProbe(force, byDaemon) ==
  /\ op = Idle /\ product = "codex"
  /\ acct.reauth \/ acct.banned
  /\ IF byDaemon THEN ~ force /\ NeedsBanProbe(acct) ELSE CanProbe(acct) /\ (force \/ acct.qwait = 0)
  /\ op' = [Idle EXCEPT !.at = "usage", !.kind = "probe"]
  /\ UNCHANGED <<acct, said>>

\* token:refresh, the batches and the daemon's sweep leave these accounts out.
TokenWanted == IF product = "codex" THEN ~ acct.banned ELSE ~ acct.reauth /\ acct.key

BeginToken(force) ==
  LET a == Healed(acct) IN
  /\ op = Idle /\ TokenWanted
  /\ \/ /\ Ask(a, force) = "post"
        /\ acct' = a
        /\ op' = [Idle EXCEPT !.at = "token", !.kind = "token", !.posts = 1,
                              !.spare = (product = "antigravity")]
        /\ UNCHANGED said
     \/ /\ Ask(a, force) = "missing"
        /\ Leave(MarkReauth(a, "missing"))
        /\ said' = [said EXCEPT !.refused = TRUE, !.calm = FALSE]
-----------------------------------------------------------------------------
(* The token endpoint answers                                              *)

\* Mutant: any failure is tried with the other client.
TriesNextAlways(ans) == op.spare /\ ans # "ok"
\* exchangeGoogleToken: another published client is tried after invalid_client only.
TriesNext(ans) == op.spare /\ ans = "client"

\* The server did not take the token from a client it does not know.
NextClient(ans) ==
  /\ op.at = "token" /\ TriesNext(ans)
  /\ op' = [op EXCEPT !.spare = FALSE, !.posts = IF ans = "client" THEN @ ELSE @ + 1]
  /\ UNCHANGED <<acct, said>>

\* Mutant: a code that means a ban at the usage endpoint means one here.
TokenProbeBans(ans) == IF ans = "gone" THEN "banned" ELSE "failed"
\* probeFromRefreshResult: a refusal is token_invalid, all else a failed probe.
TokenProbe(ans) == IF ans \in RefusesLogin THEN "invalid" ELSE "failed"

\* The code a failed refresh leaves: that of the refusal, or, when the answer had
\* none, that of the usage answer it was to repair.
TokenErr(ans) ==
  CASE product # "codex" -> "other"
    [] ans \in RefusesLogin -> "repair"
    [] ans \in {"garbled", "empty", "lost", "broken"} /\ op.usage = "invalid" -> "repair"
    [] OTHER -> "other"

\* Whether the window takes the error that is left for one that passes
\* (isQuotaTemporaryFailure): by its text, which a 4xx answer makes up.
TokenSoft(ans) ==
  IF ans \in RefusesLogin THEN {FALSE}
  ELSE IF ans = "page" THEN {product = "codex"}
  ELSE IF ans \in MustWait \cup {"broken"} THEN {TRUE}
  ELSE IF product = "codex" THEN BOOLEAN ELSE {FALSE}

AnswerToken(ans, hdr) ==
  LET a == AfterToken(acct, ans, hdr)
      refused == ans \in RefusesLogin
  IN /\ op.at \in {"token", "repair"} /\ ~ TriesNext(ans)
     /\ hdr # NoHeader => ans \in {"limited", "down", "page"}
     /\ \/ /\ ans = "ok"
           /\ acct' = a
           /\ op' = IF op.kind = "token" THEN Idle
                    ELSE [op EXCEPT !.posts = 0, !.spare = FALSE, !.usage = "none",
                                    !.at = IF op.at = "repair" THEN "again" ELSE UsageAt]
           /\ said' = [said EXCEPT !.refused = FALSE, !.failedNow = FALSE]
        \/ /\ ans # "ok" /\ op.kind = "token"
           /\ Leave(a)
           /\ said' = [said EXCEPT !.refused = @ \/ ans \in TurnedDown, !.calm = @ /\ PassesToken(ans)]
        \/ /\ ans # "ok" /\ op.kind = "quota"
           /\ IF refused /\ product # "codex" THEN Leave([a EXCEPT !.err = "reauth", !.soft = FALSE])
              ELSE \E soft \in TokenSoft(ans) : TokenFails(a, TokenProbe(ans), TokenErr(ans), soft, ans = "limited")
           /\ said' = [said EXCEPT !.refused = @ \/ ans \in TurnedDown, !.failedNow = (op.age = 0),
                                  !.calm = @ /\ PassesToken(ans)]
-----------------------------------------------------------------------------
(* The usage endpoint of Codex answers (fetchQuotaWithTokenRepair,         *)
(* refreshQuota, probeUsageOnly)                                           *)

WindowsOf(ans) == IF ans \in {"left", "used"} THEN ans ELSE "unknown"

\* codexQuotaHasWindows is asked by a refresh, not by a probe.
Kept(ans) == ans \in {"left", "used"} \/ (ans = "empty" /\ op.kind = "probe")

PassesUsage(ans) == ans \in Temporary \cup {"garbled"}

\* isQuotaAuthError: 401, or the code of a dead token; the token is renewed once.
Repairs(ans) == op.kind = "quota" /\ op.at = "usage" /\ ans \in {"denied", "invalid"}

UsageSoft(ans) == IF ans \in {"deactivated", "usedup", "null"} THEN {FALSE}
                  ELSE IF ans = "invalid" THEN BOOLEAN ELSE {TRUE}
UsageErr(ans) == CASE ans = "invalid" -> "repair" [] ans = "deactivated" -> "ban" [] OTHER -> "other"

Succeeds(ans) ==
  Leave([ClearQuotaRetry(ApplyProbe(acct, "active"))
           EXCEPT !.quota = WindowsOf(ans), !.err = IF acct.reauth THEN @ ELSE "none",
                  !.soft = acct.reauth /\ @])

CodexUsage(ans, hdr) ==
  /\ product = "codex" /\ op.at \in {"usage", "again"}
  /\ hdr # NoHeader => ans \notin Answered \cup {"lost", "broken"}
  /\ \/ Kept(ans) /\ Succeeds(ans)
     \/ /\ Repairs(ans) /\ acct.key
        /\ op' = [op EXCEPT !.at = "repair", !.usage = ans, !.posts = @ + 1]
        /\ acct' = acct
     \/ /\ Repairs(ans) /\ ~ acct.key
        /\ Fails(MarkReauth(acct, "missing"), "invalid", "missing", FALSE, FALSE, NoHeader)
     \/ /\ op.kind = "quota" /\ ~ Kept(ans) /\ ~ Repairs(ans)
        /\ \E soft \in UsageSoft(ans) :
             Fails(acct, IF ans = "empty" THEN "failed" ELSE ProbeOf(ans), UsageErr(ans), soft, ans = "limited", hdr)
     \/ /\ op.kind = "probe" /\ ~ Kept(ans)
        /\ Leave(ScheduleQuota([ApplyProbe(acct, ProbeOf(ans)) EXCEPT
                                  !.err = IF ans = "deactivated" THEN "ban" ELSE @,
                                  !.soft = ans # "deactivated" /\ @], ans = "limited", hdr))
  /\ said' = [refused |-> said.refused \/ (Repairs(ans) /\ ~ acct.key),
              deactivated |-> ans = "deactivated" \/ (said.deactivated /\ ans \notin Answered),
              failedNow |-> op'.at = "idle" /\ ~ Kept(ans) /\ op.age = 0,
              calm |-> IF Kept(ans) THEN ~ acct.reauth ELSE said.calm /\ (PassesUsage(ans) \/ op'.at = "repair")]
-----------------------------------------------------------------------------
(* The usage endpoints of Cursor and Antigravity                           *)

\* Refused: the account must be signed in again.
Refused == Leave(ScheduleQuota([MarkReauth(acct, "reauth") EXCEPT !.err = "reauth", !.soft = FALSE], FALSE, NoHeader))

NoWindows(ans, hdr) ==
  Leave(ScheduleQuota([acct EXCEPT !.err = "other", !.soft = TRUE, !.probe = "failed"], ans = "limited", hdr))

Keep(windows) ==
  Leave([ClearQuotaRetry(acct) EXCEPT
           !.quota = windows, !.err = "none", !.soft = FALSE, !.probe = IF windows = "used" THEN "limited" ELSE "active"])

Settled(refused, failed, calm) ==
  said' = [said EXCEPT !.refused = @ \/ refused, !.failedNow = failed /\ op.age = 0, !.calm = calm]

\* What a refusal or a failure of the first request does to either product.
Turned(ans, hdr) ==
  \/ /\ ans \in Refusals /\ hdr = NoHeader
     /\ Refused /\ Settled(TRUE, TRUE, FALSE)
  \/ /\ ans \in Temporary \cup {"garbled"} /\ (hdr # NoHeader => ans \in {"limited", "down", "page"})
     /\ NoWindows(ans, hdr) /\ Settled(FALSE, TRUE, said.calm)

CursorUsage(ans, hdr) ==
  /\ product = "cursor" /\ op.at = "usage"
  /\ \/ Turned(ans, hdr)
     \/ /\ ans \in {"left", "used"} /\ hdr = NoHeader
        /\ Keep(ans) /\ Settled(FALSE, FALSE, ~ acct.reauth)
     \/ /\ ans = "empty" /\ hdr = NoHeader
        /\ NoWindows(ans, hdr) /\ Settled(FALSE, TRUE, FALSE)

\* cloudCodePost: the other host is asked after these.
HostFails == {"limited", "down", "lost", "broken"}
CloudAt == {"assist", "onboard", "poll", "assist2", "models", "summary", "buckets"}

TryOtherHost ==
  /\ op.at \in CloudAt /\ op.host = 1
  /\ op' = [op EXCEPT !.host = 2]
  /\ UNCHANGED <<acct, said>>

\* The answer comes from the first host, or it is the second host's, whatever it is.
Replied(at, ans) == op.at = at /\ (ans \in HostFails => op.host = 2)

Projects == BOOLEAN
Offers == {"nothing", "tier", "left", "used"}   \* what loadCodeAssist tells: a tier, credits

\* loadCodeAssist answers for the first time.
Assist(ans, hdr) ==
  /\ Replied("assist", ans)
  /\ \/ Turned(ans, hdr)
     \/ /\ ans = "ok" /\ hdr = NoHeader
        /\ \E project \in Projects, offer \in Offers :
             op' = [op EXCEPT !.at = IF project THEN "models" ELSE "onboard", !.host = 1,
                              !.project = project, !.offer = offer]
        /\ UNCHANGED <<acct, said>>

\* onboardUser and its polls: they only ever add a project.
Onboard(ans) ==
  /\ Replied(op.at, ans) /\ op.at \in {"onboard", "poll"}
  /\ \/ /\ ans = "ok"    \* done
        /\ \E project \in Projects :
             op' = [op EXCEPT !.at = IF project THEN "models" ELSE "assist2", !.host = 1, !.polls = 0, !.project = project]
     \/ /\ ans = "ok" /\ op.polls < PollLimit
        /\ op' = [op EXCEPT !.at = "poll", !.host = 1, !.polls = @ + 1]
     \/ /\ ans # "ok"
        /\ op' = [op EXCEPT !.at = "assist2", !.host = 1, !.polls = 0]
  /\ UNCHANGED <<acct, said>>

AssistAgain(ans) ==
  /\ Replied("assist2", ans)
  /\ \/ /\ ans = "ok"
        /\ \E project \in Projects, offer \in Offers :
             op' = [op EXCEPT !.at = "models", !.host = 1, !.project = project, !.offer = offer]
     \/ /\ ans # "ok"
        /\ op' = [op EXCEPT !.at = "models", !.host = 1]
  /\ UNCHANGED <<acct, said>>

\* mergeFamilyWindows: the account is used up when every window is.
Merge(w, v) == IF w = "none" THEN v ELSE IF v = "none" \/ v = w THEN w ELSE "left"

Windows == IF op.windows # "none" THEN op.windows
           ELSE IF op.offer \in {"left", "used"} THEN op.offer ELSE "unknown"

\* The three requests for windows: a failure of one is passed over.
AskWindows(ans) ==
  /\ op.at \in {"models", "summary"} /\ Replied(op.at, ans)
  /\ \E w \in IF ans = "ok" THEN {"none", "left", "used"} ELSE {"none"} :
       op' = [op EXCEPT !.windows = Merge(@, w), !.host = 1,
                        !.at = IF op.at = "models" THEN "summary" ELSE IF op.project THEN "buckets" ELSE "judge"]
  /\ UNCHANGED <<acct, said>>

AskBuckets(ans) ==
  /\ Replied("buckets", ans)
  /\ \E w \in IF ans = "ok" THEN {"none", "left", "used"} ELSE {"none"} :
       op' = [op EXCEPT !.windows = Merge(@, w), !.host = 1, !.at = "judge"]
  /\ UNCHANGED <<acct, said>>

\* A tier that is known by name is enough.
Judge ==
  /\ op.at = "judge"
  /\ IF Windows # "unknown" \/ op.offer = "tier" THEN Keep(Windows) /\ Settled(FALSE, FALSE, ~ acct.reauth)
     ELSE NoWindows("empty", NoHeader) /\ Settled(FALSE, TRUE, FALSE)

AntigravityUsage ==
  /\ product = "antigravity"
  /\ \/ TryOtherHost \/ Judge
     \/ \E ans \in Refusals \cup Temporary \cup {"ok", "garbled"} :
          \/ \E hdr \in HeaderWaits : Assist(ans, hdr)
          \/ Onboard(ans) \/ AssistAgain(ans) \/ AskWindows(ans) \/ AskBuckets(ans)
-----------------------------------------------------------------------------
(* What happens to the account outside a refresh                           *)

\* The login is made again: it keeps the windows, and Codex its back-off.
SignedIn ==
  /\ op = Idle
  /\ acct' = [acct EXCEPT !.fresh = TRUE, !.key = TRUE, !.reauth = FALSE, !.banned = FALSE, !.twait = 0,
                          !.fails = IF product = "codex" THEN @ ELSE 0,
                          !.qwait = IF product = "codex" THEN @ ELSE 0]
  /\ said' = [said EXCEPT !.refused = FALSE, !.deactivated = FALSE, !.failedNow = FALSE]
  /\ UNCHANGED op

\* The official Codex renewed the token of the account both use.
OfficialRotated ==
  /\ op = Idle /\ product = "codex"
  /\ acct' = [acct EXCEPT !.fresh = TRUE, !.key = TRUE, !.reauth = FALSE, !.qwait = 0]
  /\ said' = [said EXCEPT !.refused = FALSE, !.failedNow = FALSE]
  /\ UNCHANGED op

\* A second record of the same identity is folded in: its token is newer.
Folded ==
  /\ op = Idle
  /\ \E fresh, key \in BOOLEAN : acct' = [acct EXCEPT !.fresh = fresh, !.key = key]
  /\ said' = [said EXCEPT !.failedNow = FALSE]
  /\ UNCHANGED op

TokenExpires == /\ acct.fresh
                /\ acct' = [acct EXCEPT !.fresh = FALSE]
                /\ UNCHANGED <<op, said>>

Waits(a, d) == [a EXCEPT !.qwait = Rest(@, d), !.twait = Rest(@, d), !.seen = Rest(@, d)]

Pass ==
  /\ \/ /\ op = Idle
        /\ \E d \in {acct.qwait, acct.twait, acct.seen} \ {0} : acct' = Waits(acct, d)
        /\ UNCHANGED op
     \/ /\ op # Idle /\ op.age < MaxAge
        /\ op' = [op EXCEPT !.age = @ + 1]
        /\ acct' = Waits(acct, 1)
  /\ said' = [said EXCEPT !.failedNow = FALSE]

Step ==
  \/ \E force \in BOOLEAN : BeginCodexQuota(force) \/ BeginManagedQuota(force) \/ BeginToken(force)
                             \/ \E byDaemon \in BOOLEAN : BeginProbe(force, byDaemon)
  \/ \E ans \in TokenAnswers : NextClient(ans) \/ \E hdr \in HeaderWaits : AnswerToken(ans, hdr)
  \/ \E ans \in UsageAnswers, hdr \in HeaderWaits : CodexUsage(ans, hdr) \/ CursorUsage(ans, hdr)
  \/ AntigravityUsage
  \/ SignedIn \/ OfficialRotated \/ Folded \/ TokenExpires \/ Pass

Next == Step /\ UNCHANGED product

Spec == Init /\ [][Next]_vars
-----------------------------------------------------------------------------
Waiting == {"idle", "token", "repair", "usage", "again", "judge"} \cup CloudAt

TypeOK ==
  /\ product \in Products
  /\ acct \in [fresh : BOOLEAN, key : BOOLEAN, reauth : BOOLEAN, banned : BOOLEAN,
               probe : {"none", "active", "banned", "invalid", "limited", "failed", "rejected"},
               err : {"none", "repair", "missing", "reauth", "ban", "other"}, soft : BOOLEAN,
               quota : {"unknown", "left", "used"},
               fails : 0..MaxFails, qwait : 0..MaxRetry, twait : 0..MaxRetry, seen : 0..ProbeStale]
  /\ op \in [at : Waiting, kind : {"none", "quota", "probe", "token"}, age : 0..MaxAge,
             posts : Nat, spare : BOOLEAN, usage : {"none", "denied", "invalid"}, host : {1, 2},
             polls : 0..PollLimit, project : BOOLEAN, offer : Offers, windows : {"none", "left", "used"}]
  /\ said \in [refused : BOOLEAN, deactivated : BOOLEAN, failedNow : BOOLEAN, calm : BOOLEAN]

\* An account asks to be signed in again only when a server refused the login, or
\* it has no refresh token: never because of a timeout, a page of a proxy, a 429,
\* a 5xx or an answer that is no JSON, over any number of refreshes
\* (docs/architecture.md, "Leftover windows"; token-refresh.js:72).
OnlyARefusalAsksAgain == acct.reauth => said.refused

\* banned is what the usage endpoint said last: set by a deactivation, and only
\* taken back by a success of it or by signing in again, whatever the token
\* endpoint says and whatever fails in between (account-probe.js:236).
BannedByUsageAlone == acct.banned <=> (product = "codex" /\ said.deactivated)

\* A refresh token whose fate is not known is never sent again by the same
\* operation: not with the other client, not to repair (antigravity-token.js:97).
TokenSentOnce == op.posts <= 1

=============================================================================
