---------------------------- MODULE QuotaOnCards ----------------------------
(***************************************************************************)
(* The account of AccountQuota as the window shows it (AccountCards): what *)
(* the main process sends of it, and what the card makes of the answers,   *)
(* refusals and waits the engine has noted.                                *)
(***************************************************************************)
EXTENDS AccountQuota

CONSTANTS Missing, LowQuota, WeeklyWarning

\* Percentages, and no percentage (AccountCards).
ASSUME ConstantsOfCards == {LowQuota, WeeklyWarning} \subseteq 0..99 /\ Missing \notin Int

Cards == INSTANCE AccountCards

\* An account whose windows are left, used up, or not known.
PercentOf == [left |-> 50, used |-> 0, unknown |-> Missing]

\* What is sent of an account without its secrets, and what the window takes its
\* error for.  Whether an expired access token is still in the file, and when the
\* windows were noted last, is open.
Row(a, access, updated) ==
  [product |-> product, reauth |-> a.reauth, banned |-> a.banned,
   probe |-> IF a.probe = "rejected" THEN "failed" ELSE a.probe, refused |-> a.probe = "rejected",
   err |-> IF a.err = "none" THEN "none" ELSE IF a.soft THEN "passing" ELSE "other",
   access |-> access, refresh |-> a.key, expired |-> ~ a.fresh,
   windows |-> [w \in Cards!WindowsOf[product] |-> PercentOf[a.quota]], blocked |-> a.quota = "used",
   updated |-> updated, waits |-> a.qwait > 0]

CardRows == {Row(acct, access, updated) : access \in {TRUE, acct.fresh}, updated \in {"never", "lately", "longAgo"}}

\* A refresh that failed leaves a time before which nothing asks by itself again:
\* not the daemon, which looks at the wait, and not the window, which looks at the
\* row it was sent (quota-retry.js:75, desktop.ts:1717).
FailureWaits ==
  op = Idle /\ said.failedNow => \/ acct.qwait > 0
                                 \/ \A r \in CardRows : ~ Cards!NeedsAutoSync(r)

\* As long as the servers say nothing of the login or the windows - timeouts, pages
\* of a proxy, 429, 5xx, answers that are no JSON, in any number - the card goes on
\* showing the windows it knows (docs/architecture.md, "Leftover windows"), except
\* an Antigravity card whose access token ran out and a login with no token left.
LeftoverShown ==
  said.calm /\ acct.quota # "unknown" =>
    \A r \in CardRows : \/ r.product = "antigravity" /\ r.expired
                        \/ Cards!TokenUnusable(r)
                        \/ ~ Cards!Blank(r)

\* Where the card of a Codex account that is banned or must be signed in again
\* offers a refresh, the engine serves it with the access token that is left
\* (desktop.ts:979, quota.js:244): the button is never one that can only fail.
OfferIsServed ==
  product = "codex" /\ (acct.reauth \/ acct.banned) =>
    \A r \in CardRows : Cards!CanRefreshQuota(r) => CanProbe(acct)
=============================================================================
