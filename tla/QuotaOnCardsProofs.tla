-------------------------- MODULE QuotaOnCardsProofs --------------------------
(***************************************************************************)
(* An account, what the servers say of it, and the card that shows it.     *)
(*                                                                         *)
(* First the account (AccountQuota), for any waits, bounds and subset of   *)
(* the products.  Its three properties are inductive together once two     *)
(* facts are added: while the windows of a Codex account are asked for,    *)
(* the account is not banned (WhileAsked), and a token has been sent       *)
(* exactly where the answer to it is awaited (Posted).                     *)
(*                                                                         *)
(* Then what the account remembers of failures (Remembered): as long as    *)
(* what was said passes, nothing is noted against the login (Unhurt), and  *)
(* after a failure something holds the next request back (Held).  From it  *)
(* follow the two properties of the account on its card (QuotaOnCards).    *)
(*                                                                         *)
(* Then the card (AccountCards), for any percentages and limits, and the   *)
(* engine's reading of the answers (QuotaWindows), for any windows.        *)
(***************************************************************************)
EXTENDS QuotaOnCards, FiniteSets, FiniteSetTheorems, SequenceTheorems, WellFoundedInduction, TLAPS

CONSTANTS NoWindow, ShortSpan   \* the constants of QuotaWindows

Answers == INSTANCE QuotaWindows

AcctFields == {"fresh", "key", "reauth", "banned", "probe", "err", "soft", "quota",
               "fails", "qwait", "twait", "seen"}
OpFields == {"at", "kind", "age", "posts", "spare", "usage", "host", "polls", "project",
             "offer", "windows"}
SaidFields == {"refused", "deactivated", "failedNow", "calm"}

Records == DOMAIN acct = AcctFields /\ DOMAIN op = OpFields /\ DOMAIN said = SaidFields

Posted == op.posts = IF op.at \in {"token", "repair"} THEN 1 ELSE 0

WhileAsked == product = "codex" /\ op.kind = "quota" => ~ acct.banned

IInv == /\ product \in {"codex", "cursor", "antigravity"}
        /\ Records /\ Posted /\ WhileAsked
        /\ OnlyARefusalAsksAgain /\ BannedByUsageAlone
-----------------------------------------------------------------------------
(* What the helpers do to an account                                       *)

\* The same as far as these properties go.
Same(b, a) == DOMAIN b = AcctFields /\ b.reauth = a.reauth /\ b.banned = a.banned

LEMMA ScheduleSame ==
  ASSUME NEW a, DOMAIN a = AcctFields, NEW limited, NEW hdr
  PROVE  Same(ScheduleQuota(a, limited, hdr), a) /\ Same(ClearQuotaRetry(a), a)
  BY DEF ScheduleQuota, ClearQuotaRetry, Same, AcctFields

LEMMA ProbeBans ==
  ASSUME NEW a, DOMAIN a = AcctFields, NEW probe
  PROVE  /\ DOMAIN ApplyProbe(a, probe) = AcctFields
         /\ ApplyProbe(a, probe).reauth = a.reauth
         /\ ApplyProbe(a, probe).banned <=> (probe = "banned" \/ (a.banned /\ probe # "active"))
  BY DEF ApplyProbe, AcctFields

LEMMA MarkedIs ==
  ASSUME NEW a, DOMAIN a = AcctFields, NEW err
  PROVE  /\ DOMAIN MarkReauth(a, err) = AcctFields
         /\ product = "codex" => MarkReauth(a, err).banned = a.banned
         /\ product # "codex" => ~ MarkReauth(a, err).banned
  BY DEF MarkReauth, AcctFields

LEMMA HealedIs ==
  ASSUME NEW a, DOMAIN a = AcctFields
  PROVE  /\ DOMAIN Healed(a) = AcctFields
         /\ Healed(a).banned = a.banned
         /\ Healed(a).reauth => a.reauth
  BY DEF Healed, AcctFields

LEMMA FailsTo ==
  ASSUME NEW a, DOMAIN a = AcctFields, NEW probe, NEW err, NEW soft, NEW limited, NEW hdr,
         Fails(a, probe, err, soft, limited, hdr)
  PROVE  /\ op' = Idle
         /\ DOMAIN acct' = AcctFields
         /\ acct'.reauth = a.reauth
         /\ acct'.banned <=> (probe = "banned" \/ (a.banned /\ probe # "active"))
<1>1. PICK e \in QuotaErr(a, err) :
        Leave(ScheduleQuota([ApplyProbe(a, probe) EXCEPT !.err = e, !.soft = soft], limited, hdr))
  BY DEF Fails
<1> DEFINE b == ApplyProbe(a, probe)
           c == [b EXCEPT !.err = e, !.soft = soft]
<1>2. /\ DOMAIN b = AcctFields
      /\ b.reauth = a.reauth
      /\ b.banned <=> (probe = "banned" \/ (a.banned /\ probe # "active"))
  BY ProbeBans
<1> HIDE DEF b
<1>3. DOMAIN c = AcctFields /\ c.reauth = b.reauth /\ c.banned = b.banned
  BY <1>2 DEF AcctFields
<1>4. acct' = ScheduleQuota(c, limited, hdr) /\ op' = Idle
  BY <1>1 DEF Leave, b
<1> HIDE DEF c
<1>5. Same(acct', c)
  BY <1>3, <1>4, ScheduleSame
<1> QED
  BY <1>2, <1>3, <1>4, <1>5 DEF Same

LEMMA TokenFailsTo ==
  ASSUME NEW a, DOMAIN a = AcctFields, NEW probe, probe \notin {"banned", "active"},
         NEW err, NEW soft, NEW limited, TokenFails(a, probe, err, soft, limited)
  PROVE  /\ op' = Idle
         /\ DOMAIN acct' = AcctFields
         /\ acct'.reauth = a.reauth
         /\ acct'.banned <=> a.banned
<1>1. CASE product = "codex"
  BY <1>1, FailsTo DEF TokenFails
<1>2. CASE product # "codex"
  <2> DEFINE c == [a EXCEPT !.err = err, !.soft = soft]
  <2>1. DOMAIN c = AcctFields /\ c.reauth = a.reauth /\ c.banned = a.banned
    BY DEF AcctFields
  <2>2. acct' = ScheduleQuota(c, limited, NoHeader) /\ op' = Idle
    BY <1>2 DEF TokenFails, Leave
  <2> HIDE DEF c
  <2>3. Same(acct', c)
    BY <2>1, <2>2, ScheduleSame
  <2> QED
    BY <2>1, <2>2, <2>3 DEF Same
<1> QED
  BY <1>1, <1>2
-----------------------------------------------------------------------------
(* An operation ends, or goes on                                           *)

LEMMA EndKeeps ==
  ASSUME IInv, product' = product, op' = Idle,
         DOMAIN acct' = AcctFields, DOMAIN said' = SaidFields,
         acct'.reauth => said'.refused,
         acct'.banned <=> (product = "codex" /\ said'.deactivated)
  PROVE  IInv'
<1>1. DOMAIN op' = OpFields /\ op'.kind = "none" /\ op'.at = "idle" /\ op'.posts = 0
  BY DEF Idle, OpFields
<1> QED
  BY <1>1 DEF IInv, Records, Posted, WhileAsked, OnlyARefusalAsksAgain, BannedByUsageAlone

\* The operation awaits another answer, and no ban is learnt of.
LEMMA GoKeeps ==
  ASSUME IInv, product' = product, DOMAIN op' = OpFields,
         DOMAIN acct' = AcctFields, acct'.reauth => said'.refused, acct'.banned <=> acct.banned,
         DOMAIN said' = SaidFields, said'.deactivated <=> said.deactivated,
         op'.kind = op.kind \/ (op'.kind = "quota" => ~ acct.banned \/ product # "codex"),
         op'.posts = IF op'.at \in {"token", "repair"} THEN 1 ELSE 0
  PROVE  IInv'
  BY DEF IInv, Records, Posted, WhileAsked, OnlyARefusalAsksAgain, BannedByUsageAlone

LEMMA InitIInv == Init => IInv
<1> SUFFICES ASSUME Init PROVE IInv
  OBVIOUS
<1>1. DOMAIN acct = AcctFields /\ ~ acct.reauth /\ ~ acct.banned
  BY DEF Init, NewAccount, AcctFields
<1>2. DOMAIN op = OpFields /\ op.kind = "none" /\ op.at = "idle" /\ op.posts = 0
  BY DEF Init, Idle, OpFields
<1>3. DOMAIN said = SaidFields /\ ~ said.deactivated
  BY DEF Init, SaidFields
<1>4. product \in {"codex", "cursor", "antigravity"}
  BY ConstantsAssumption DEF Init
<1> QED
  BY <1>1, <1>2, <1>3, <1>4 DEF IInv, Records, Posted, WhileAsked, OnlyARefusalAsksAgain, BannedByUsageAlone
-----------------------------------------------------------------------------
(* The operations begin                                                    *)

LEMMA AskKeeps ==
  ASSUME IInv, product' = product, op = Idle, UNCHANGED <<acct, said>>,
         NEW at, at \notin {"token", "repair"}, NEW kind,
         op' = [Idle EXCEPT !.at = at, !.kind = kind],
         kind = "quota" => ~ acct.banned \/ product # "codex"
  PROVE  IInv'
<1>1. DOMAIN op' = OpFields /\ op'.kind = kind /\ op'.at = at /\ op'.posts = 0
  BY DEF Idle, OpFields
<1>2. DOMAIN acct' = AcctFields /\ DOMAIN said' = SaidFields
  BY DEF IInv, Records
<1> QED
  BY <1>1, <1>2, GoKeeps DEF IInv, OnlyARefusalAsksAgain

LEMMA PostKeeps ==
  ASSUME IInv, product' = product, NEW kind,
         op' = [Idle EXCEPT !.at = "token", !.kind = kind, !.posts = 1, !.spare = (product = "antigravity")],
         DOMAIN acct' = AcctFields, acct'.reauth => acct.reauth, acct'.banned = acct.banned, said' = said,
         kind = "quota" => ~ acct.banned \/ product # "codex"
  PROVE  IInv'
<1>1. DOMAIN op' = OpFields /\ op'.kind = kind /\ op'.at = "token" /\ op'.posts = 1
  BY DEF Idle, OpFields
<1>2. DOMAIN said' = SaidFields
  BY DEF IInv, Records
<1> QED
  BY <1>1, <1>2, GoKeeps DEF IInv, OnlyARefusalAsksAgain

LEMMA PendingKeeps ==
  ASSUME IInv, product' = product, Pending
  PROVE  IInv'
<1>1. PICK limited \in BOOLEAN : TokenFails(acct, "failed", "other", TRUE, limited)
  BY DEF Pending
<1>2. DOMAIN acct = AcctFields /\ DOMAIN said = SaidFields
  BY DEF IInv, Records
<1>3. op' = Idle /\ DOMAIN acct' = AcctFields /\ acct'.reauth = acct.reauth /\ (acct'.banned <=> acct.banned)
  BY <1>1, <1>2, TokenFailsTo
<1>4. said' = said
  BY DEF Pending
<1> QED
  BY <1>2, <1>3, <1>4, EndKeeps DEF IInv, OnlyARefusalAsksAgain, BannedByUsageAlone

\* The refresh token is missing: noted as a refusal.
LEMMA MissingKeeps ==
  ASSUME IInv, product' = product, op' = Idle, DOMAIN acct' = AcctFields,
         acct'.banned <=> acct.banned,
         said' = [said EXCEPT !.refused = TRUE, !.calm = FALSE]
  PROVE  IInv'
<1>1. DOMAIN said' = SaidFields /\ said'.refused = TRUE /\ said'.deactivated = said.deactivated
  BY DEF IInv, Records, SaidFields
<1> QED
  BY <1>1, EndKeeps DEF IInv, BannedByUsageAlone

LEMMA BeginCodexKeeps ==
  ASSUME IInv, product' = product, NEW force, BeginCodexQuota(force)
  PROVE  IInv'
<1>1. product = "codex" /\ op = Idle /\ ~ acct.reauth /\ ~ acct.banned
  BY DEF BeginCodexQuota
<1>2. DOMAIN acct = AcctFields /\ DOMAIN said = SaidFields
  BY DEF IInv, Records
<1>3. CASE AskUsage("usage")
  BY <1>1, <1>3, AskKeeps DEF AskUsage
<1>4. CASE PostToken
  BY <1>1, <1>2, <1>4, PostKeeps DEF PostToken
<1>5. CASE Pending
  BY <1>5, PendingKeeps
<1>6. CASE /\ Fails(MarkReauth(acct, "missing"), "invalid", "missing", FALSE, FALSE, NoHeader)
           /\ said' = [said EXCEPT !.refused = TRUE, !.calm = FALSE]
  <2> DEFINE a == MarkReauth(acct, "missing")
  <2>1. DOMAIN a = AcctFields /\ a.banned = acct.banned
    BY <1>1, <1>2, MarkedIs
  <2> HIDE DEF a
  <2>2. Fails(a, "invalid", "missing", FALSE, FALSE, NoHeader)
    BY <1>6 DEF a
  <2>3. /\ op' = Idle /\ DOMAIN acct' = AcctFields
        /\ acct'.banned <=> ("invalid" = "banned" \/ (a.banned /\ "invalid" # "active"))
    BY <2>1, <2>2, FailsTo, Zenon
  <2>4. acct'.banned <=> acct.banned
    BY <2>1, <2>3
  <2> QED
    BY <1>6, <2>3, <2>4, MissingKeeps
<1> QED
  BY <1>3, <1>4, <1>5, <1>6 DEF BeginCodexQuota

LEMMA BeginManagedKeeps ==
  ASSUME IInv, product' = product, NEW force, BeginManagedQuota(force)
  PROVE  IInv'
<1>1. product # "codex" /\ op = Idle
  BY DEF BeginManagedQuota
<1>2. DOMAIN acct = AcctFields /\ DOMAIN said = SaidFields
  BY DEF IInv, Records
<1>3. CASE AskUsage(UsageAt)
  <2>1. UsageAt \notin {"token", "repair"}
    BY DEF UsageAt
  <2> QED
    BY <1>1, <1>3, <2>1, AskKeeps DEF AskUsage
<1>4. CASE PostToken
  BY <1>1, <1>2, <1>4, PostKeeps DEF PostToken
<1>5. CASE Pending
  BY <1>5, PendingKeeps
<1>6. CASE Leave([acct EXCEPT !.err = "reauth", !.soft = FALSE]) /\ UNCHANGED said
  <2>1. op' = Idle /\ DOMAIN acct' = AcctFields /\ acct'.reauth = acct.reauth /\ acct'.banned = acct.banned
    BY <1>2, <1>6 DEF Leave, AcctFields
  <2> QED
    BY <1>2, <1>6, <2>1, EndKeeps DEF IInv, OnlyARefusalAsksAgain, BannedByUsageAlone
<1> QED
  BY <1>3, <1>4, <1>5, <1>6 DEF BeginManagedQuota

LEMMA BeginProbeKeeps ==
  ASSUME IInv, product' = product, NEW force, NEW byDaemon, BeginProbe(force, byDaemon)
  PROVE  IInv'
  BY AskKeeps DEF BeginProbe

LEMMA BeginTokenKeeps ==
  ASSUME IInv, product' = product, NEW force, BeginToken(force)
  PROVE  IInv'
<1> DEFINE a == Healed(acct)
<1>1. DOMAIN acct = AcctFields
  BY DEF IInv, Records
<1>2. DOMAIN a = AcctFields /\ a.banned = acct.banned /\ (a.reauth => acct.reauth)
  BY <1>1, HealedIs
<1>3. CASE Ask(a, force) = "post" /\ acct' = a /\ UNCHANGED said
           /\ op' = [Idle EXCEPT !.at = "token", !.kind = "token", !.posts = 1,
                                 !.spare = (product = "antigravity")]
  <2> HIDE DEF a
  <2>1. DOMAIN op' = OpFields /\ op'.kind = "token" /\ op'.at = "token" /\ op'.posts = 1
    BY <1>3 DEF Idle, OpFields
  <2>2. DOMAIN said' = SaidFields /\ said' = said
    BY <1>3 DEF IInv, Records
  <2> QED
    BY <1>2, <1>3, <2>1, <2>2, GoKeeps DEF IInv, OnlyARefusalAsksAgain
<1>4. CASE Ask(a, force) = "missing" /\ Leave(MarkReauth(a, "missing"))
           /\ said' = [said EXCEPT !.refused = TRUE, !.calm = FALSE]
  <2>1. product = "codex"
    <3> HIDE DEF a
    <3> QED
      BY <1>4 DEF Ask, AskManaged
  <2>2. DOMAIN MarkReauth(a, "missing") = AcctFields /\ MarkReauth(a, "missing").banned = a.banned
    BY <1>2, <2>1, MarkedIs
  <2> QED
    BY <1>2, <1>4, <2>2, MissingKeeps DEF Leave
<1> QED
  BY <1>3, <1>4 DEF BeginToken
-----------------------------------------------------------------------------
(* The token endpoint answers                                              *)

LEMMA RefusalsAreRefusals ==
  ASSUME IInv
  PROVE  RefusesLogin \subseteq TurnedDown /\ "ok" \notin RefusesLogin
  BY DEF IInv, RefusesLogin, RefusesCodex, RefusesCursor, RefusesGoogle, TurnedDown

\* A renewal or a refusal tells nothing of a ban, and only a refusal marks the account.
LEMMA AfterTokenIs ==
  ASSUME IInv, NEW ans, NEW hdr
  PROVE  /\ DOMAIN AfterToken(acct, ans, hdr) = AcctFields
         /\ AfterToken(acct, ans, hdr).banned <=> acct.banned
         /\ ans = "ok" => ~ AfterToken(acct, ans, hdr).reauth
         /\ AfterToken(acct, ans, hdr).reauth => acct.reauth \/ ans \in TurnedDown
<1> DEFINE a == AfterToken(acct, ans, hdr)
<1>1. DOMAIN acct = AcctFields /\ (product # "codex" => ~ acct.banned)
  BY DEF IInv, Records, BannedByUsageAlone
<1>2. CASE ans = "ok"
  <2>1. a = Renewed(acct)
    BY <1>2, RefusalsAreRefusals DEF AfterToken, MustWait
  <2> QED
    BY <1>1, <1>2, <2>1 DEF Renewed, AcctFields
<1>3. CASE ans # "ok" /\ ans \in RefusesLogin
  <2>1. a = MarkReauth(acct, "repair")
    BY <1>3 DEF AfterToken
  <2>2. /\ DOMAIN MarkReauth(acct, "repair") = AcctFields
        /\ product = "codex" => MarkReauth(acct, "repair").banned = acct.banned
        /\ product # "codex" => ~ MarkReauth(acct, "repair").banned
    BY <1>1, MarkedIs
  <2> QED
    BY <1>1, <1>3, <2>1, <2>2, RefusalsAreRefusals
<1>4. CASE ans # "ok" /\ ans \notin RefusesLogin
  <2>1. a = acct \/ a = [acct EXCEPT !.twait = TokenDelay(ans = "limited", hdr)]
    BY <1>4 DEF AfterToken
  <2>2. DOMAIN a = AcctFields /\ a.reauth = acct.reauth /\ a.banned = acct.banned
    BY <1>1, <2>1 DEF AcctFields
  <2> QED
    BY <1>4, <2>2
<1> QED
  BY <1>2, <1>3, <1>4

LEMMA NextClientKeeps ==
  ASSUME IInv, product' = product, NEW ans, NextClient(ans)
  PROVE  IInv'
<1>1. DOMAIN op' = OpFields /\ op'.kind = op.kind /\ op'.at = op.at /\ op'.posts = op.posts
  BY DEF NextClient, TriesNext, IInv, Records, OpFields
<1>2. UNCHANGED <<acct, said>>
  BY DEF NextClient
<1> QED
  BY <1>1, <1>2, GoKeeps DEF IInv, Records, Posted, OnlyARefusalAsksAgain

LEMMA AnswerTokenKeeps ==
  ASSUME IInv, product' = product, NEW ans, NEW hdr, AnswerToken(ans, hdr)
  PROVE  IInv'
<1> DEFINE a == AfterToken(acct, ans, hdr)
<1>1. /\ DOMAIN a = AcctFields
      /\ a.banned <=> acct.banned
      /\ ans = "ok" => ~ a.reauth
      /\ a.reauth => acct.reauth \/ ans \in TurnedDown
  BY AfterTokenIs
<1>2. DOMAIN op = OpFields /\ DOMAIN said = SaidFields
  BY DEF IInv, Records
<1>3. (acct.reauth => said.refused) /\ (acct.banned <=> (product = "codex" /\ said.deactivated))
  BY DEF IInv, OnlyARefusalAsksAgain, BannedByUsageAlone
<1>4. CASE /\ ans = "ok"
           /\ acct' = a
           /\ op' = IF op.kind = "token" THEN Idle
                    ELSE [op EXCEPT !.posts = 0, !.spare = FALSE, !.usage = "none",
                                    !.at = IF op.at = "repair" THEN "again" ELSE UsageAt]
           /\ said' = [said EXCEPT !.refused = FALSE, !.failedNow = FALSE]
  <2> HIDE DEF a
  <2>1. DOMAIN said' = SaidFields /\ said'.deactivated = said.deactivated
    BY <1>2, <1>4 DEF SaidFields
  <2>2. CASE op' = Idle
    BY <1>1, <1>3, <1>4, <2>1, <2>2, EndKeeps
  <2>3. CASE op.kind # "token"
    <3>1. DOMAIN op' = OpFields /\ op'.kind = op.kind /\ op'.posts = 0
      BY <1>2, <1>4, <2>3 DEF OpFields
    <3>2. op'.at \notin {"token", "repair"}
      BY <1>2, <1>4, <2>3 DEF OpFields, UsageAt
    <3> QED
      BY <1>1, <1>4, <2>1, <3>1, <3>2, GoKeeps
  <2> QED
    BY <1>4, <2>2, <2>3
<1>5. CASE /\ ans # "ok" /\ op.kind = "token"
           /\ Leave(a)
           /\ said' = [said EXCEPT !.refused = @ \/ ans \in TurnedDown, !.calm = @ /\ PassesToken(ans)]
  <2> HIDE DEF a
  <2>1. DOMAIN said' = SaidFields /\ said'.deactivated = said.deactivated
        /\ (said'.refused <=> (said.refused \/ ans \in TurnedDown))
    BY <1>2, <1>5 DEF SaidFields
  <2> QED
    BY <1>1, <1>3, <1>5, <2>1, EndKeeps DEF Leave
<1>6. CASE /\ ans # "ok" /\ op.kind = "quota"
           /\ IF ans \in RefusesLogin /\ product # "codex"
              THEN Leave([a EXCEPT !.err = "reauth", !.soft = FALSE])
              ELSE \E soft \in TokenSoft(ans) : TokenFails(a, TokenProbe(ans), TokenErr(ans), soft, ans = "limited")
           /\ said' = [said EXCEPT !.refused = @ \/ ans \in TurnedDown, !.failedNow = (op.age = 0),
                                  !.calm = @ /\ PassesToken(ans)]
  <2> HIDE DEF a
  <2>1. DOMAIN said' = SaidFields /\ said'.deactivated = said.deactivated
        /\ (said'.refused <=> (said.refused \/ ans \in TurnedDown))
    BY <1>2, <1>6 DEF SaidFields
  <2>2. op' = Idle /\ DOMAIN acct' = AcctFields /\ acct'.reauth = a.reauth /\ (acct'.banned <=> a.banned)
    <3>1. CASE ans \in RefusesLogin /\ product # "codex"
      BY <1>1, <1>6, <3>1 DEF Leave, AcctFields
    <3>2. CASE ~ (ans \in RefusesLogin /\ product # "codex")
      <4>1. PICK soft \in TokenSoft(ans) :
              TokenFails(a, TokenProbe(ans), TokenErr(ans), soft, ans = "limited")
        BY <1>6, <3>2
      <4>2. TokenProbe(ans) \notin {"banned", "active"}
        BY DEF TokenProbe
      <4> QED
        BY <1>1, <4>1, <4>2, TokenFailsTo
    <3> QED
      BY <3>1, <3>2
  <2> QED
    BY <1>1, <1>3, <2>1, <2>2, EndKeeps
<1> QED
  BY <1>4, <1>5, <1>6 DEF AnswerToken
-----------------------------------------------------------------------------
(* The usage endpoint of Codex answers                                     *)

\* What an answer says of a ban.
LEMMA ProbeOfIs ==
  ASSUME NEW ans
  PROVE  /\ ProbeOf(ans) = "banned" <=> ans = "deactivated"
         /\ ProbeOf(ans) = "active" <=> ans \in Answered
  BY DEF ProbeOf, Answered

LEMMA CodexUsageKeeps ==
  ASSUME IInv, product' = product, NEW ans, NEW hdr, CodexUsage(ans, hdr)
  PROVE  IInv'
<1>1. product = "codex" /\ op.at \in {"usage", "again"} /\ op.posts = 0
  BY DEF CodexUsage, IInv, Posted
<1>2. DOMAIN acct = AcctFields /\ DOMAIN op = OpFields
  BY DEF IInv, Records
<1>3. /\ acct.reauth => said.refused
      /\ acct.banned <=> said.deactivated
      /\ op.kind = "quota" => ~ acct.banned
  BY <1>1 DEF IInv, OnlyARefusalAsksAgain, BannedByUsageAlone, WhileAsked
<1>4. /\ DOMAIN said' = SaidFields
      /\ said'.refused <=> (said.refused \/ (Repairs(ans) /\ ~ acct.key))
      /\ said'.deactivated <=> (ans = "deactivated" \/ (said.deactivated /\ ans \notin Answered))
  BY DEF CodexUsage, SaidFields
<1>5. CASE Kept(ans) /\ Succeeds(ans)
  <2> DEFINE b == ApplyProbe(acct, "active")
             c == ClearQuotaRetry(b)
  <2>1. DOMAIN b = AcctFields /\ b.reauth = acct.reauth /\ ~ b.banned
    BY <1>2, ProbeBans
  <2> HIDE DEF b
  <2>2. DOMAIN c = AcctFields /\ c.reauth = acct.reauth /\ c.banned = b.banned
    BY <2>1, ScheduleSame DEF Same
  <2>3. /\ acct' = [c EXCEPT !.quota = WindowsOf(ans), !.err = IF acct.reauth THEN @ ELSE "none",
                             !.soft = acct.reauth /\ @]
        /\ op' = Idle
    BY <1>5 DEF Succeeds, Leave, b
  <2> HIDE DEF c
  <2>4. DOMAIN acct' = AcctFields /\ acct'.reauth = acct.reauth /\ acct'.banned = b.banned
    BY <2>2, <2>3 DEF AcctFields
  <2>5. ans \in Answered /\ ans # "deactivated"
    BY <1>5 DEF Kept, Answered
  <2> QED
    BY <1>1, <1>3, <1>4, <2>1, <2>3, <2>4, <2>5, EndKeeps
<1>6. CASE /\ Repairs(ans) /\ acct.key
           /\ op' = [op EXCEPT !.at = "repair", !.usage = ans, !.posts = @ + 1]
           /\ acct' = acct
  <2>1. DOMAIN op' = OpFields /\ op'.at = "repair" /\ op'.kind = op.kind /\ op'.posts = 1
    BY <1>1, <1>2, <1>6 DEF OpFields
  <2>2. said'.deactivated <=> said.deactivated
    BY <1>4, <1>6 DEF Repairs, Answered
  <2> QED
    BY <1>2, <1>3, <1>4, <1>6, <2>1, <2>2, GoKeeps
<1>7. CASE /\ Repairs(ans) /\ ~ acct.key
           /\ Fails(MarkReauth(acct, "missing"), "invalid", "missing", FALSE, FALSE, NoHeader)
  <2> DEFINE a == MarkReauth(acct, "missing")
  <2>1. DOMAIN a = AcctFields /\ a.banned = acct.banned
    BY <1>1, <1>2, MarkedIs
  <2> HIDE DEF a
  <2>2. Fails(a, "invalid", "missing", FALSE, FALSE, NoHeader)
    BY <1>7 DEF a
  <2>3. /\ op' = Idle /\ DOMAIN acct' = AcctFields
        /\ acct'.banned <=> ("invalid" = "banned" \/ (a.banned /\ "invalid" # "active"))
    BY <2>1, <2>2, FailsTo, Zenon
  <2>4. acct'.banned <=> acct.banned
    BY <2>1, <2>3
  <2>5. (said'.deactivated <=> said.deactivated) /\ said'.refused
    BY <1>4, <1>7 DEF Repairs, Answered
  <2> QED
    BY <1>1, <1>3, <1>4, <2>3, <2>4, <2>5, EndKeeps
<1>8. CASE /\ op.kind = "quota" /\ ~ Kept(ans) /\ ~ Repairs(ans)
           /\ \E soft \in UsageSoft(ans) :
                Fails(acct, IF ans = "empty" THEN "failed" ELSE ProbeOf(ans), UsageErr(ans), soft, ans = "limited", hdr)
  <2> DEFINE probe == IF ans = "empty" THEN "failed" ELSE ProbeOf(ans)
  <2>1. PICK soft \in UsageSoft(ans) : Fails(acct, probe, UsageErr(ans), soft, ans = "limited", hdr)
    BY <1>8
  <2>2. probe = "banned" <=> ans = "deactivated"
    BY ProbeOfIs
  <2> HIDE DEF probe
  <2>3. /\ op' = Idle /\ DOMAIN acct' = AcctFields /\ acct'.reauth = acct.reauth
        /\ acct'.banned <=> (probe = "banned" \/ (acct.banned /\ probe # "active"))
    BY <1>2, <2>1, FailsTo
  <2> QED
    BY <1>1, <1>3, <1>4, <1>8, <2>2, <2>3, EndKeeps
<1>9. CASE /\ op.kind = "probe" /\ ~ Kept(ans)
           /\ Leave(ScheduleQuota([ApplyProbe(acct, ProbeOf(ans)) EXCEPT
                                     !.err = IF ans = "deactivated" THEN "ban" ELSE @,
                                     !.soft = ans # "deactivated" /\ @], ans = "limited", hdr))
  <2> DEFINE b == ApplyProbe(acct, ProbeOf(ans))
             c == [b EXCEPT !.err = IF ans = "deactivated" THEN "ban" ELSE @,
                            !.soft = ans # "deactivated" /\ @]
  <2>1. /\ DOMAIN b = AcctFields /\ b.reauth = acct.reauth
        /\ b.banned <=> (ProbeOf(ans) = "banned" \/ (acct.banned /\ ProbeOf(ans) # "active"))
    BY <1>2, ProbeBans
  <2> HIDE DEF b
  <2>2. DOMAIN c = AcctFields /\ c.reauth = b.reauth /\ c.banned = b.banned
    BY <2>1 DEF AcctFields
  <2>3. acct' = ScheduleQuota(c, ans = "limited", hdr) /\ op' = Idle
    BY <1>9 DEF Leave, b
  <2> HIDE DEF c
  <2>4. Same(acct', c)
    BY <2>2, <2>3, ScheduleSame
  <2>5. /\ DOMAIN acct' = AcctFields /\ acct'.reauth = acct.reauth
        /\ acct'.banned <=> (ans = "deactivated" \/ (acct.banned /\ ans \notin Answered))
    BY <2>1, <2>2, <2>4, ProbeOfIs DEF Same
  <2> QED
    BY <1>1, <1>3, <1>4, <2>3, <2>5, EndKeeps
<1> QED
  BY <1>5, <1>6, <1>7, <1>8, <1>9 DEF CodexUsage
-----------------------------------------------------------------------------
(* The usage endpoints of Cursor and Antigravity answer                    *)

\* The ends of these refreshes: a refusal, a failure, windows.
LEMMA ManagedEnds ==
  ASSUME IInv, product # "codex", NEW ans, NEW hdr, NEW windows
  PROVE  /\ Refused => op' = Idle /\ DOMAIN acct' = AcctFields /\ ~ acct'.banned
         /\ NoWindows(ans, hdr) => /\ op' = Idle /\ DOMAIN acct' = AcctFields
                                   /\ acct'.reauth = acct.reauth /\ ~ acct'.banned
         /\ Keep(windows) => /\ op' = Idle /\ DOMAIN acct' = AcctFields
                             /\ acct'.reauth = acct.reauth /\ ~ acct'.banned
<1>1. DOMAIN acct = AcctFields /\ ~ acct.banned
  BY DEF IInv, Records, BannedByUsageAlone
<1>2. ASSUME Refused PROVE op' = Idle /\ DOMAIN acct' = AcctFields /\ ~ acct'.banned
  <2> DEFINE a == MarkReauth(acct, "reauth")
             c == [a EXCEPT !.err = "reauth", !.soft = FALSE]
  <2>1. DOMAIN a = AcctFields /\ ~ a.banned
    BY <1>1, MarkedIs
  <2> HIDE DEF a
  <2>2. DOMAIN c = AcctFields /\ c.banned = a.banned
    BY <2>1 DEF AcctFields
  <2>3. acct' = ScheduleQuota(c, FALSE, NoHeader) /\ op' = Idle
    BY <1>2 DEF Refused, Leave, a
  <2> HIDE DEF c
  <2>4. Same(ScheduleQuota(c, FALSE, NoHeader), c)
    BY <2>2, ScheduleSame, Zenon
  <2> QED
    BY <2>1, <2>2, <2>3, <2>4 DEF Same
<1>3. ASSUME NoWindows(ans, hdr)
      PROVE  op' = Idle /\ DOMAIN acct' = AcctFields /\ acct'.reauth = acct.reauth /\ ~ acct'.banned
  <2> DEFINE c == [acct EXCEPT !.err = "other", !.soft = TRUE, !.probe = "failed"]
  <2>1. DOMAIN c = AcctFields /\ c.reauth = acct.reauth /\ c.banned = acct.banned
    BY <1>1 DEF AcctFields
  <2>2. acct' = ScheduleQuota(c, ans = "limited", hdr) /\ op' = Idle
    BY <1>3 DEF NoWindows, Leave
  <2> HIDE DEF c
  <2>3. Same(acct', c)
    BY <2>1, <2>2, ScheduleSame
  <2> QED
    BY <1>1, <2>1, <2>2, <2>3 DEF Same
<1>4. ASSUME Keep(windows)
      PROVE  op' = Idle /\ DOMAIN acct' = AcctFields /\ acct'.reauth = acct.reauth /\ ~ acct'.banned
  <2> DEFINE c == ClearQuotaRetry(acct)
  <2>1. DOMAIN c = AcctFields /\ c.reauth = acct.reauth /\ c.banned = acct.banned
    BY <1>1, ScheduleSame DEF Same
  <2>2. /\ acct' = [c EXCEPT !.quota = windows, !.err = "none", !.soft = FALSE,
                             !.probe = IF windows = "used" THEN "limited" ELSE "active"]
        /\ op' = Idle
    BY <1>4 DEF Keep, Leave
  <2> HIDE DEF c
  <2> QED
    BY <1>1, <2>1, <2>2 DEF AcctFields
<1> QED
  BY <1>2, <1>3, <1>4

LEMMA SettledIs ==
  ASSUME IInv, NEW refused, NEW failed, NEW calm, Settled(refused, failed, calm)
  PROVE  DOMAIN said' = SaidFields /\ (said'.refused <=> (said.refused \/ refused))
  BY DEF IInv, Records, Settled, SaidFields

\* With windows or without: the account asks for what it asked for before.
LEMMA ManagedKeeps ==
  ASSUME IInv, product' = product, product # "codex", NEW failed, NEW calm, NEW refused,
         op' = Idle, DOMAIN acct' = AcctFields, ~ acct'.banned, Settled(refused, failed, calm),
         acct'.reauth => acct.reauth \/ refused
  PROVE  IInv'
  BY SettledIs, EndKeeps DEF IInv, OnlyARefusalAsksAgain

LEMMA TurnedKeeps ==
  ASSUME IInv, product' = product, product # "codex", NEW ans, NEW hdr, Turned(ans, hdr)
  PROVE  IInv'
<1>1. CASE Refused /\ Settled(TRUE, TRUE, FALSE)
  BY <1>1, ManagedEnds, ManagedKeeps
<1>2. CASE NoWindows(ans, hdr) /\ Settled(FALSE, TRUE, said.calm)
  BY <1>2, ManagedEnds, ManagedKeeps
<1> QED
  BY <1>1, <1>2 DEF Turned

LEMMA CursorKeeps ==
  ASSUME IInv, product' = product, NEW ans, NEW hdr, CursorUsage(ans, hdr)
  PROVE  IInv'
<1>1. product # "codex"
  BY DEF CursorUsage
<1>2. CASE Turned(ans, hdr)
  BY <1>1, <1>2, TurnedKeeps
<1>3. CASE Keep(ans) /\ Settled(FALSE, FALSE, ~ acct.reauth)
  BY <1>1, <1>3, ManagedEnds, ManagedKeeps
<1>4. CASE NoWindows(ans, hdr) /\ Settled(FALSE, TRUE, FALSE)
  BY <1>1, <1>4, ManagedEnds, ManagedKeeps
<1> QED
  BY <1>2, <1>3, <1>4 DEF CursorUsage

\* A request of Antigravity is answered, and the next one goes out.
LEMMA NextRequestKeeps ==
  ASSUME IInv, product' = product, op.at \in CloudAt, UNCHANGED <<acct, said>>,
         DOMAIN op' = OpFields, op'.at \notin {"token", "repair"},
         op'.kind = op.kind, op'.posts = op.posts
  PROVE  IInv'
<1>1. op.posts = 0
  BY DEF IInv, Posted, CloudAt
<1> QED
  BY <1>1, GoKeeps DEF IInv, Records, OnlyARefusalAsksAgain

LEMMA AntigravityKeeps ==
  ASSUME IInv, product' = product, AntigravityUsage
  PROVE  IInv'
<1>1. product # "codex"
  BY DEF AntigravityUsage
<1>2. DOMAIN op = OpFields
  BY DEF IInv, Records
<1>3. CASE TryOtherHost
  <2>1. DOMAIN op' = OpFields /\ op'.at = op.at /\ op'.kind = op.kind /\ op'.posts = op.posts
    BY <1>2, <1>3 DEF TryOtherHost, OpFields
  <2> QED
    BY <1>3, <2>1, NextRequestKeeps DEF TryOtherHost, CloudAt
<1>4. CASE Judge
  <2>1. CASE Keep(Windows) /\ Settled(FALSE, FALSE, ~ acct.reauth)
    BY <1>1, <2>1, ManagedEnds, ManagedKeeps
  <2>2. CASE NoWindows("empty", NoHeader) /\ Settled(FALSE, TRUE, FALSE)
    BY <1>1, <2>2, ManagedEnds, ManagedKeeps
  <2> QED
    BY <1>4, <2>1, <2>2 DEF Judge
<1>5. ASSUME NEW ans, NEW hdr, Assist(ans, hdr) PROVE IInv'
  <2>1. CASE Turned(ans, hdr)
    BY <1>1, <2>1, TurnedKeeps
  <2>2. CASE ~ Turned(ans, hdr)
    <3>1. PICK project \in Projects, offer \in Offers :
            op' = [op EXCEPT !.at = IF project THEN "models" ELSE "onboard", !.host = 1,
                             !.project = project, !.offer = offer]
      BY <1>5, <2>2 DEF Assist
    <3>2. /\ DOMAIN op' = OpFields /\ op'.at \in {"models", "onboard"}
          /\ op'.kind = op.kind /\ op'.posts = op.posts
      BY <1>2, <3>1 DEF OpFields
    <3> QED
      BY <1>5, <2>2, <3>2, NextRequestKeeps DEF Assist, Replied, CloudAt
  <2> QED
    BY <2>1, <2>2
<1>6. ASSUME NEW ans, Onboard(ans) PROVE IInv'
  <2>1. \/ \E project \in Projects :
             op' = [op EXCEPT !.at = IF project THEN "models" ELSE "assist2", !.host = 1,
                              !.polls = 0, !.project = project]
        \/ op' = [op EXCEPT !.at = "poll", !.host = 1, !.polls = @ + 1]
        \/ op' = [op EXCEPT !.at = "assist2", !.host = 1, !.polls = 0]
    BY <1>6 DEF Onboard
  <2>2. /\ DOMAIN op' = OpFields /\ op'.at \in {"models", "assist2", "poll"}
        /\ op'.kind = op.kind /\ op'.posts = op.posts
    BY <1>2, <2>1 DEF OpFields
  <2> QED
    BY <1>6, <2>2, NextRequestKeeps DEF Onboard, CloudAt
<1>7. ASSUME NEW ans, AssistAgain(ans) PROVE IInv'
  <2>1. \/ \E project \in Projects, offer \in Offers :
             op' = [op EXCEPT !.at = "models", !.host = 1, !.project = project, !.offer = offer]
        \/ op' = [op EXCEPT !.at = "models", !.host = 1]
    BY <1>7 DEF AssistAgain
  <2>2. /\ DOMAIN op' = OpFields /\ op'.at = "models"
        /\ op'.kind = op.kind /\ op'.posts = op.posts
    BY <1>2, <2>1 DEF OpFields
  <2> QED
    BY <1>7, <2>2, NextRequestKeeps DEF AssistAgain, Replied, CloudAt
<1>8. ASSUME NEW ans, AskWindows(ans) \/ AskBuckets(ans) PROVE IInv'
  <2>1. \E w, at : /\ at \in {"summary", "buckets", "judge"}
                   /\ op' = [op EXCEPT !.windows = Merge(@, w), !.host = 1, !.at = at]
    BY <1>8 DEF AskWindows, AskBuckets
  <2>2. /\ DOMAIN op' = OpFields /\ op'.at \in {"summary", "buckets", "judge"}
        /\ op'.kind = op.kind /\ op'.posts = op.posts
    BY <1>2, <2>1 DEF OpFields
  <2>3. op.at \in CloudAt /\ UNCHANGED <<acct, said>>
    BY <1>8 DEF AskWindows, AskBuckets, Replied, CloudAt
  <2> QED
    BY <2>2, <2>3, NextRequestKeeps
<1> QED
  BY <1>3, <1>4, <1>5, <1>6, <1>7, <1>8 DEF AntigravityUsage
-----------------------------------------------------------------------------
(* What happens outside a refresh                                          *)

LEMMA OutsideKeeps ==
  ASSUME IInv, product' = product, SignedIn \/ OfficialRotated \/ Folded
  PROVE  IInv'
<1>1. DOMAIN acct = AcctFields /\ DOMAIN said = SaidFields
  BY DEF IInv, Records
<1>2. (acct.reauth => said.refused) /\ (acct.banned <=> (product = "codex" /\ said.deactivated))
  BY DEF IInv, OnlyARefusalAsksAgain, BannedByUsageAlone
<1>3. op' = Idle
  BY DEF SignedIn, OfficialRotated, Folded
<1>4. CASE SignedIn
  <2>1. DOMAIN acct' = AcctFields /\ ~ acct'.reauth /\ ~ acct'.banned
    BY <1>1, <1>4 DEF SignedIn, AcctFields
  <2>2. DOMAIN said' = SaidFields /\ ~ said'.deactivated
    BY <1>1, <1>4 DEF SignedIn, SaidFields
  <2> QED
    BY <1>3, <2>1, <2>2, EndKeeps
<1>5. CASE OfficialRotated
  <2>1. DOMAIN acct' = AcctFields /\ ~ acct'.reauth /\ acct'.banned = acct.banned
    BY <1>1, <1>5 DEF OfficialRotated, AcctFields
  <2>2. DOMAIN said' = SaidFields /\ said'.deactivated = said.deactivated
    BY <1>1, <1>5 DEF OfficialRotated, SaidFields
  <2> QED
    BY <1>2, <1>3, <2>1, <2>2, EndKeeps
<1>6. CASE Folded
  <2>1. DOMAIN acct' = AcctFields /\ acct'.reauth = acct.reauth /\ acct'.banned = acct.banned
    BY <1>1, <1>6 DEF Folded, AcctFields
  <2>2. DOMAIN said' = SaidFields /\ said'.deactivated = said.deactivated /\ said'.refused = said.refused
    BY <1>1, <1>6 DEF Folded, SaidFields
  <2> QED
    BY <1>2, <1>3, <2>1, <2>2, EndKeeps
<1> QED
  BY <1>4, <1>5, <1>6

LEMMA TimeKeeps ==
  ASSUME IInv, product' = product, TokenExpires \/ Pass
  PROVE  IInv'
<1>1. DOMAIN acct = AcctFields /\ DOMAIN op = OpFields /\ DOMAIN said = SaidFields
  BY DEF IInv, Records
<1>2. acct' = [acct EXCEPT !.fresh = FALSE] \/ acct' = acct \/ \E d : acct' = Waits(acct, d)
  BY DEF TokenExpires, Pass
<1>3. DOMAIN acct' = AcctFields /\ acct'.reauth = acct.reauth /\ acct'.banned = acct.banned
  BY <1>1, <1>2 DEF Waits, AcctFields
<1>4. op' = op \/ op' = [op EXCEPT !.age = @ + 1]
  BY DEF TokenExpires, Pass
<1>5. DOMAIN op' = OpFields /\ op'.at = op.at /\ op'.kind = op.kind /\ op'.posts = op.posts
  BY <1>1, <1>4 DEF OpFields
<1>6. said' = said \/ said' = [said EXCEPT !.failedNow = FALSE]
  BY DEF TokenExpires, Pass
<1>7. DOMAIN said' = SaidFields /\ said'.refused = said.refused /\ said'.deactivated = said.deactivated
  BY <1>1, <1>6 DEF SaidFields
<1> QED
  BY <1>3, <1>5, <1>7, GoKeeps DEF IInv, Posted, OnlyARefusalAsksAgain
-----------------------------------------------------------------------------
LEMMA NextKeeps == IInv /\ [Next]_vars => IInv'
<1> SUFFICES ASSUME IInv, [Next]_vars PROVE IInv'
  OBVIOUS
<1>1. CASE Next
  <2>1. product' = product
    BY <1>1 DEF Next
  <2>2. CASE \E force \in BOOLEAN :
               \/ BeginCodexQuota(force) \/ BeginManagedQuota(force) \/ BeginToken(force)
               \/ \E byDaemon \in BOOLEAN : BeginProbe(force, byDaemon)
    BY <2>1, <2>2, BeginCodexKeeps, BeginManagedKeeps, BeginTokenKeeps, BeginProbeKeeps
  <2>3. CASE \E ans \in TokenAnswers : NextClient(ans) \/ \E hdr \in HeaderWaits : AnswerToken(ans, hdr)
    BY <2>1, <2>3, NextClientKeeps, AnswerTokenKeeps
  <2>4. CASE \E ans \in UsageAnswers, hdr \in HeaderWaits : CodexUsage(ans, hdr) \/ CursorUsage(ans, hdr)
    BY <2>1, <2>4, CodexUsageKeeps, CursorKeeps
  <2>5. CASE AntigravityUsage
    BY <2>1, <2>5, AntigravityKeeps
  <2>6. CASE SignedIn \/ OfficialRotated \/ Folded
    BY <2>1, <2>6, OutsideKeeps
  <2>7. CASE TokenExpires \/ Pass
    BY <2>1, <2>7, TimeKeeps
  <2> QED
    BY <1>1, <2>2, <2>3, <2>4, <2>5, <2>6, <2>7 DEF Next, Step
<1>2. CASE UNCHANGED vars
  BY <1>2 DEF vars, IInv, Records, Posted, WhileAsked, OnlyARefusalAsksAgain, BannedByUsageAlone
<1> QED
  BY <1>1, <1>2

LEMMA AccountInvariant == Spec => []IInv
  BY InitIInv, NextKeeps, PTL DEF Spec

\* Only a server that turned the login down, or a missing refresh token, makes the
\* program ask for a new sign-in: over any number of timeouts, pages, 429s and 5xx,
\* for each product (token-refresh.js, cursor-token.js, antigravity-token.js).
THEOREM OnlyRefusalsAskAgain == Spec => []OnlyARefusalAsksAgain
<1>1. IInv => OnlyARefusalAsksAgain
  BY DEF IInv
<1> QED
  BY <1>1, AccountInvariant, PTL

\* A ban is what the usage endpoint said last (applyProbeToAccount).
THEOREM BansAreTheUsageEndpoints == Spec => []BannedByUsageAlone
<1>1. IInv => BannedByUsageAlone
  BY DEF IInv
<1> QED
  BY <1>1, AccountInvariant, PTL

\* No operation sends a refresh token again whose fate it does not know
\* (exchangeGoogleToken, fetchQuotaWithTokenRepair).
THEOREM TokensAreSentOnce == Spec => []TokenSentOnce
<1>1. IInv => TokenSentOnce
  BY DEF IInv, Posted, TokenSentOnce
<1> QED
  BY <1>1, AccountInvariant, PTL
-----------------------------------------------------------------------------
(* What is remembered of failures: the wait, and the windows               *)

Quotas == {"unknown", "left", "used"}

\* Nothing is noted that was said against the login.
Unhurt(a) == /\ ~ a.reauth /\ ~ a.banned /\ a.probe \notin {"invalid", "banned", "rejected"}
             /\ a.err = "none" \/ a.soft

\* Nothing asks for the account: it waits, or its card offers no refresh.
Held(a) == a.qwait > 0 \/ (product # "codex" /\ a.reauth /\ ~ a.fresh)

Remembered ==
  /\ acct.fails \in Nat /\ acct.quota \in Quotas /\ op.windows \in {"none", "left", "used"}
  /\ said.calm => Unhurt(acct)
  /\ said.failedNow => Held(acct)
  /\ op.at = "token" /\ op.kind = "quota" => ~ acct.fresh
  /\ op.at = "repair" => product = "codex"

\* Two to the n counts the subsets of a set of n, of which there is one at least.
LEMMA PowersArePositive ==
  ASSUME NEW n \in Nat
  PROVE  2 ^ n \in Nat \ {0}
<1> DEFINE S == 1..n
<1>1. IsFiniteSet(S) /\ Cardinality(S) = n
  BY FS_Interval
<1>2. IsFiniteSet(SUBSET S) /\ Cardinality(SUBSET S) = 2 ^ n
  BY <1>1, FS_SUBSET
<1>3. SUBSET S # {}
  OBVIOUS
<1> HIDE DEF S
<1> QED
  BY <1>2, <1>3, FS_CardinalityType, FS_EmptySet

LEMMA DelaysArePositive ==
  ASSUME NEW fails \in Nat \ {0}, NEW limited, NEW hdr \in HeaderWaits
  PROVE  QuotaDelay(fails, limited, hdr) \in Nat \ {0}
<1>1. {MinRetry, TokenRetry, LimitedRetry, MaxRetry} \subseteq Nat \ {0}
  BY ConstantsAssumption
<1>2. CASE hdr # NoHeader
  <2>1. hdr \in Nat
    BY <1>2, ConstantsAssumption
  <2> QED
    BY <1>1, <1>2, <2>1 DEF QuotaDelay, FromHeader, Least, Most
<1>3. CASE hdr = NoHeader /\ limited
  BY <1>1, <1>3 DEF QuotaDelay
<1>4. CASE hdr = NoHeader /\ ~ limited
  <2> DEFINE x == 2 ^ (fails - 1)
  <2>1. fails - 1 \in Nat
    OBVIOUS
  <2>2. x \in Nat \ {0}
    BY <2>1, PowersArePositive
  <2> HIDE DEF x
  <2>3. TokenRetry * x \in Nat \ {0}
    BY <1>1, <2>2
  <2>4. Backoff(fails) = Least(MaxRetry, TokenRetry * x)
    BY DEF Backoff, x
  <2>5. Backoff(fails) \in Nat \ {0}
    BY <1>1, <2>3, <2>4 DEF Least
  <2> QED
    BY <1>4, <2>5 DEF QuotaDelay
<1> QED
  BY <1>2, <1>3, <1>4

\* The same but for its waits.
SameNotes(b, a) ==
  /\ DOMAIN b = AcctFields /\ b.fresh = a.fresh /\ b.reauth = a.reauth /\ b.banned = a.banned
  /\ b.probe = a.probe /\ b.err = a.err /\ b.soft = a.soft /\ b.quota = a.quota

LEMMA ScheduledIs ==
  ASSUME NEW a, DOMAIN a = AcctFields, a.fails \in Nat, NEW limited, NEW hdr \in HeaderWaits
  PROVE  LET b == ScheduleQuota(a, limited, hdr) IN
         SameNotes(b, a) /\ b.fails \in Nat /\ (op.age = 0 => b.qwait > 0)
<1> DEFINE fails == Least(MaxFails, a.fails + 1)
           wait == Rest(QuotaDelay(fails, limited, hdr), op.age)
           b == ScheduleQuota(a, limited, hdr)
<1>1. fails \in Nat \ {0}
  BY ConstantsAssumption DEF Least
<1>2. b = [a EXCEPT !.fails = fails, !.qwait = wait]
  BY DEF ScheduleQuota
<1>3. op.age = 0 => wait > 0
  <2> HIDE DEF fails
  <2>1. QuotaDelay(fails, limited, hdr) \in Nat \ {0}
    BY <1>1, DelaysArePositive
  <2> QED
    BY <2>1 DEF Rest, Most
<1> HIDE DEF fails, wait, b
<1>4. SameNotes(b, a) /\ b.fails = fails /\ b.qwait = wait
  BY <1>2 DEF SameNotes, AcctFields
<1> QED
  BY <1>1, <1>3, <1>4 DEF b

LEMMA ProbeNotes ==
  ASSUME NEW a, DOMAIN a = AcctFields, NEW probe
  PROVE  LET b == ApplyProbe(a, probe) IN
         /\ DOMAIN b = AcctFields /\ b.fails = a.fails /\ b.quota = a.quota /\ b.fresh = a.fresh
         /\ b.reauth = a.reauth /\ b.err = a.err /\ b.soft = a.soft
         /\ ~ a.banned /\ probe # "banned" => ~ b.banned /\ b.probe = probe
         /\ probe = "active" => ~ b.banned /\ b.probe = probe
  BY DEF ApplyProbe, AcctFields

LEMMA MarkedNotes ==
  ASSUME NEW a, DOMAIN a = AcctFields, NEW err
  PROVE  LET b == MarkReauth(a, err) IN
         /\ DOMAIN b = AcctFields /\ b.fails = a.fails /\ b.quota = a.quota /\ b.fresh = a.fresh
         /\ b.qwait = a.qwait /\ b.reauth
  BY DEF MarkReauth, AcctFields

\* A failure is noted: a wait begins, and a passing one says nothing of the login.
LEMMA FailsIs ==
  ASSUME NEW a, DOMAIN a = AcctFields, a.fails \in Nat, NEW probe, NEW err, NEW soft, NEW limited,
         NEW hdr \in HeaderWaits, Fails(a, probe, err, soft, limited, hdr)
  PROVE  /\ op' = Idle /\ acct'.fails \in Nat /\ acct'.quota = a.quota
         /\ op.age = 0 => acct'.qwait > 0
         /\ ~ a.reauth /\ ~ a.banned /\ probe \notin {"invalid", "banned", "rejected"} /\ soft => Unhurt(acct')
<1>1. PICK e \in QuotaErr(a, err) :
        Leave(ScheduleQuota([ApplyProbe(a, probe) EXCEPT !.err = e, !.soft = soft], limited, hdr))
  BY DEF Fails
<1> DEFINE b == ApplyProbe(a, probe)
           c == [b EXCEPT !.err = e, !.soft = soft]
<1>2. /\ DOMAIN b = AcctFields /\ b.fails = a.fails /\ b.quota = a.quota /\ b.reauth = a.reauth
      /\ ~ a.banned /\ probe # "banned" => ~ b.banned /\ b.probe = probe
  BY ProbeNotes
<1> HIDE DEF b
<1>3. /\ DOMAIN c = AcctFields /\ c.fails = b.fails /\ c.quota = b.quota /\ c.reauth = b.reauth
      /\ c.banned = b.banned /\ c.probe = b.probe /\ c.soft = soft
  BY <1>2 DEF AcctFields
<1>4. acct' = ScheduleQuota(c, limited, hdr) /\ op' = Idle
  BY <1>1 DEF Leave, b
<1> HIDE DEF c
<1>5. SameNotes(acct', c) /\ acct'.fails \in Nat /\ (op.age = 0 => acct'.qwait > 0)
  BY <1>2, <1>3, <1>4, ScheduledIs
<1> QED
  BY <1>2, <1>3, <1>4, <1>5 DEF SameNotes, Unhurt

LEMMA TokenFailsIs ==
  ASSUME IInv, NEW a, DOMAIN a = AcctFields, a.fails \in Nat, NEW probe, NEW err, NEW soft, NEW limited,
         TokenFails(a, probe, err, soft, limited)
  PROVE  /\ op' = Idle /\ acct'.fails \in Nat /\ acct'.quota = a.quota
         /\ op.age = 0 => acct'.qwait > 0
         /\ Unhurt(a) /\ probe = "failed" /\ soft => Unhurt(acct')
<1>1. NoHeader \in HeaderWaits
  BY ConstantsAssumption
<1>2. CASE product = "codex"
  <2>1. Fails(a, probe, err, soft, limited, NoHeader)
    BY <1>2 DEF TokenFails
  <2> QED
    BY <1>1, <2>1, FailsIs DEF Unhurt
<1>3. CASE product # "codex"
  <2> DEFINE c == [a EXCEPT !.err = err, !.soft = soft]
  <2>1. /\ DOMAIN c = AcctFields /\ c.fails = a.fails /\ c.quota = a.quota /\ c.reauth = a.reauth
        /\ c.banned = a.banned /\ c.probe = a.probe /\ c.soft = soft
    BY DEF AcctFields
  <2>2. acct' = ScheduleQuota(c, limited, NoHeader) /\ op' = Idle
    BY <1>3 DEF TokenFails, Leave
  <2> HIDE DEF c
  <2>3. SameNotes(acct', c) /\ acct'.fails \in Nat /\ (op.age = 0 => acct'.qwait > 0)
    BY <1>1, <2>1, <2>2, ScheduledIs
  <2> QED
    BY <2>1, <2>2, <2>3 DEF SameNotes, Unhurt
<1> QED
  BY <1>2, <1>3

\* An operation ends, or it goes on and the account stays.
LEMMA EndRemembers ==
  ASSUME product' = product, op' = Idle, acct'.fails \in Nat, acct'.quota \in Quotas,
         said'.calm => Unhurt(acct'), said'.failedNow => Held(acct')
  PROVE  Remembered'
<1>1. op'.windows = "none" /\ op'.at = "idle"
  BY DEF Idle
<1> QED
  BY <1>1 DEF Remembered, Unhurt, Held, Quotas

LEMMA GoRemembers ==
  ASSUME Remembered, product' = product, acct' = acct,
         said'.calm => said.calm, said'.failedNow => said.failedNow,
         op'.windows \in {"none", "left", "used"},
         op'.at = "token" /\ op'.kind = "quota" => ~ acct.fresh,
         op'.at = "repair" => product = "codex"
  PROVE  Remembered'
  BY DEF Remembered, Unhurt, Held, Quotas

LEMMA InitRemembered == Init => Remembered
<1> SUFFICES ASSUME Init PROVE Remembered
  OBVIOUS
<1>1. PICK key \in BOOLEAN : acct = [NewAccount EXCEPT !.key = key]
  BY DEF Init
<1>2. Unhurt(acct) /\ acct.fails = 0 /\ acct.quota = "unknown"
  BY <1>1 DEF NewAccount, Unhurt
<1>3. op.windows = "none" /\ op.at = "idle" /\ ~ said.failedNow
  BY DEF Init, Idle
<1> QED
  BY <1>2, <1>3 DEF Remembered, Quotas
-----------------------------------------------------------------------------
(* What the operations remember                                            *)

\* The windows are asked for, or the token is sent.
LEMMA AskRemembers ==
  ASSUME Remembered, product' = product, NEW at, at \notin {"token", "repair"}, AskUsage(at)
  PROVE  Remembered'
<1>1. op'.at = at /\ op'.windows = "none"
  BY DEF AskUsage, Idle
<1> QED
  BY <1>1, GoRemembers DEF AskUsage

LEMMA PostRemembers ==
  ASSUME Remembered, product' = product, PostToken, ~ acct.fresh
  PROVE  Remembered'
<1>1. op'.at = "token" /\ op'.windows = "none"
  BY DEF PostToken, Idle
<1> QED
  BY <1>1, GoRemembers DEF PostToken

LEMMA PendingRemembers ==
  ASSUME IInv, Remembered, product' = product, op = Idle, Pending
  PROVE  Remembered'
<1>1. PICK limited \in BOOLEAN : TokenFails(acct, "failed", "other", TRUE, limited)
  BY DEF Pending
<1>2. DOMAIN acct = AcctFields /\ acct.fails \in Nat /\ op.age = 0
  BY DEF IInv, Records, Remembered, Idle
<1>3. /\ op' = Idle /\ acct'.fails \in Nat /\ acct'.quota = acct.quota /\ acct'.qwait > 0
      /\ Unhurt(acct) => Unhurt(acct')
  BY <1>1, <1>2, TokenFailsIs, Zenon
<1>4. said' = said
  BY DEF Pending
<1> QED
  BY <1>3, <1>4, EndRemembers DEF Remembered, Held

\* A login without a refresh token: it is noted as one to be signed in again.
LEMMA MissingRemembers ==
  ASSUME IInv, Remembered, product' = product,
         Fails(MarkReauth(acct, "missing"), "invalid", "missing", FALSE, FALSE, NoHeader),
         ~ said'.calm, said'.failedNow => op.age = 0
  PROVE  Remembered'
<1> DEFINE a == MarkReauth(acct, "missing")
<1>1. DOMAIN a = AcctFields /\ a.fails \in Nat /\ a.quota = acct.quota
  BY MarkedNotes DEF IInv, Records, Remembered
<1> HIDE DEF a
<1>2. Fails(a, "invalid", "missing", FALSE, FALSE, NoHeader) /\ NoHeader \in HeaderWaits
  BY ConstantsAssumption DEF a
<1>3. /\ op' = Idle /\ acct'.fails \in Nat /\ acct'.quota = a.quota
      /\ op.age = 0 => acct'.qwait > 0
  BY <1>1, <1>2, FailsIs, Zenon
<1> QED
  BY <1>1, <1>3, EndRemembers DEF Remembered, Held

LEMMA BeginCodexRemembers ==
  ASSUME IInv, Remembered, product' = product, NEW force, BeginCodexQuota(force)
  PROVE  Remembered'
<1> DEFINE asked == IF acct.fresh THEN "ok" ELSE AskCodex(acct, FALSE)
<1>1. op = Idle /\ op.age = 0
  BY DEF BeginCodexQuota, Idle
<1>2. CASE AskUsage("usage")
  BY <1>2, AskRemembers
<1>3. CASE asked = "post" /\ PostToken
  BY <1>3, PostRemembers
<1>4. CASE Pending
  BY <1>1, <1>4, PendingRemembers
<1>5. CASE /\ Fails(MarkReauth(acct, "missing"), "invalid", "missing", FALSE, FALSE, NoHeader)
           /\ said' = [said EXCEPT !.refused = TRUE, !.calm = FALSE]
  <2>1. ~ said'.calm
    BY <1>5 DEF IInv, Records, SaidFields
  <2> QED
    BY <1>1, <1>5, <2>1, MissingRemembers
<1> QED
  BY <1>2, <1>3, <1>4, <1>5 DEF BeginCodexQuota

LEMMA BeginManagedRemembers ==
  ASSUME IInv, Remembered, product' = product, NEW force, BeginManagedQuota(force)
  PROVE  Remembered'
<1>1. op = Idle
  BY DEF BeginManagedQuota
<1>2. CASE AskUsage(UsageAt)
  BY <1>2, AskRemembers DEF UsageAt
<1>3. CASE AskManaged(acct, FALSE) = "post" /\ PostToken
  <2>1. ~ acct.fresh
    BY <1>3 DEF AskManaged
  <2> QED
    BY <1>3, <2>1, PostRemembers
<1>4. CASE Pending
  BY <1>1, <1>4, PendingRemembers
<1>5. CASE /\ AskManaged(acct, FALSE) = "refused" /\ acct.key
           /\ Leave([acct EXCEPT !.err = "reauth", !.soft = FALSE]) /\ UNCHANGED said
  <2>1. acct.reauth
    BY <1>5 DEF AskManaged
  <2>2. /\ op' = Idle /\ acct'.fails = acct.fails /\ acct'.quota = acct.quota /\ acct'.qwait = acct.qwait
        /\ acct'.reauth = acct.reauth /\ acct'.fresh = acct.fresh
    BY <1>5 DEF Leave, IInv, Records, AcctFields
  <2> QED
    BY <1>5, <2>1, <2>2, EndRemembers DEF Remembered, Unhurt, Held
<1> QED
  BY <1>2, <1>3, <1>4, <1>5 DEF BeginManagedQuota

LEMMA BeginProbeRemembers ==
  ASSUME IInv, Remembered, product' = product, NEW force, NEW byDaemon, BeginProbe(force, byDaemon)
  PROVE  Remembered'
<1>1. op'.at = "usage" /\ op'.windows = "none"
  BY DEF BeginProbe, Idle
<1> QED
  BY <1>1, GoRemembers DEF BeginProbe

\* An account that is healed was marked, and is of Codex.
LEMMA HealedNotes ==
  ASSUME NEW a, DOMAIN a = AcctFields
  PROVE  LET b == Healed(a) IN
         /\ DOMAIN b = AcctFields /\ b.fails = a.fails /\ b.quota = a.quota
         /\ b.qwait = a.qwait
         /\ b = a \/ (product = "codex" /\ a.reauth)
  BY DEF Healed, AcctFields

LEMMA BeginTokenRemembers ==
  ASSUME IInv, Remembered, product' = product, NEW force, BeginToken(force)
  PROVE  Remembered'
<1> DEFINE a == Healed(acct)
           b == MarkReauth(a, "missing")
<1>1. /\ DOMAIN a = AcctFields /\ a.fails = acct.fails /\ a.quota = acct.quota /\ a.qwait = acct.qwait
      /\ a = acct \/ (product = "codex" /\ acct.reauth)
  BY HealedNotes DEF IInv, Records
<1>2. /\ Ask(a, force) = "missing" => product = "codex"
      /\ \/ /\ acct' = a /\ UNCHANGED said
            /\ op' = [Idle EXCEPT !.at = "token", !.kind = "token", !.posts = 1,
                                  !.spare = (product = "antigravity")]
         \/ /\ Ask(a, force) = "missing"
            /\ acct' = b /\ op' = Idle
            /\ said' = [said EXCEPT !.refused = TRUE, !.calm = FALSE]
  BY DEF BeginToken, Ask, AskManaged, Leave
<1> HIDE DEF a
<1>3. CASE /\ acct' = a /\ UNCHANGED said
           /\ op' = [Idle EXCEPT !.at = "token", !.kind = "token", !.posts = 1,
                                 !.spare = (product = "antigravity")]
  <2>1. op'.at = "token" /\ op'.kind = "token" /\ op'.windows = "none"
    BY <1>3 DEF Idle
  <2> QED
    BY <1>1, <1>3, <2>1 DEF Remembered, Unhurt, Held, Quotas
<1>4. CASE /\ product = "codex" /\ acct' = b /\ op' = Idle
           /\ said' = [said EXCEPT !.refused = TRUE, !.calm = FALSE]
  <2>1. b.fails = a.fails /\ b.quota = a.quota /\ b.qwait = a.qwait
    BY <1>1, MarkedNotes
  <2>2. ~ said'.calm /\ said'.failedNow = said.failedNow
    BY <1>4 DEF IInv, Records, SaidFields
  <2> HIDE DEF b
  <2> QED
    BY <1>1, <1>4, <2>1, <2>2, EndRemembers DEF Remembered, Held
<1> QED
  BY <1>2, <1>3, <1>4
-----------------------------------------------------------------------------
(* What the answers of the token endpoint leave                            *)

\* An answer that passes is no refusal, and is taken for one that passes.
LEMMA PassingIsSoft ==
  ASSUME IInv, NEW ans, PassesToken(ans)
  PROVE  ans \notin RefusesLogin /\ TokenProbe(ans) = "failed" /\ TokenSoft(ans) = {TRUE}
<1>1. ans \notin RefusesLogin
  BY DEF IInv, PassesToken, RefusesLogin, RefusesCodex, RefusesCursor, RefusesGoogle
<1>2. ans # "page" => ans \in MustWait \cup {"broken"}
  BY DEF PassesToken, MustWait
<1>3. ans = "page" => product = "codex"
  BY DEF PassesToken
<1> QED
  BY <1>1, <1>2, <1>3 DEF TokenProbe, TokenSoft

LEMMA AfterTokenNotes ==
  ASSUME IInv, NEW a, DOMAIN a = AcctFields, NEW ans, NEW hdr
  PROVE  LET b == AfterToken(a, ans, hdr) IN
         /\ DOMAIN b = AcctFields /\ b.fails = a.fails /\ b.quota = a.quota /\ b.qwait = a.qwait
         /\ ans = "ok" => (Unhurt(a) => Unhurt(b))
         /\ ans # "ok" => b.fresh = a.fresh /\ (a.reauth => b.reauth)
         /\ ans # "ok" /\ ans \in RefusesLogin => b.reauth
         /\ ans # "ok" /\ ans \notin RefusesLogin => (Unhurt(a) => Unhurt(b))
<1> DEFINE b == AfterToken(a, ans, hdr)
<1>1. CASE ans = "ok"
  <2>1. b = Renewed(a)
    BY <1>1, RefusalsAreRefusals DEF AfterToken, MustWait
  <2>2. /\ DOMAIN b = AcctFields /\ b.fails = a.fails /\ b.quota = a.quota /\ b.qwait = a.qwait
        /\ ~ b.reauth /\ (b.banned => a.banned) /\ b.probe = a.probe /\ b.err = "none"
    BY <2>1 DEF Renewed, AcctFields
  <2> HIDE DEF b
  <2>3. Unhurt(a) => Unhurt(b)
    BY <2>2 DEF Unhurt
  <2> QED
    BY <1>1, <2>2, <2>3 DEF b
<1>2. CASE ans # "ok" /\ ans \in RefusesLogin
  <2>1. b = MarkReauth(a, "repair")
    BY <1>2 DEF AfterToken
  <2> QED
    BY <1>2, <2>1, MarkedNotes
<1>3. CASE ans # "ok" /\ ans \notin RefusesLogin
  <2>1. b = a \/ b = [a EXCEPT !.twait = TokenDelay(ans = "limited", hdr)]
    BY <1>3 DEF AfterToken
  <2> QED
    BY <1>3, <2>1 DEF AcctFields, Unhurt
<1> QED
  BY <1>1, <1>2, <1>3

LEMMA NextClientRemembers ==
  ASSUME IInv, Remembered, product' = product, NEW ans, NextClient(ans)
  PROVE  Remembered'
<1>1. op'.at = "token" /\ op'.kind = op.kind /\ op'.windows = op.windows
  BY DEF NextClient, IInv, Records, OpFields
<1> QED
  BY <1>1, GoRemembers DEF NextClient, Remembered

LEMMA AnswerTokenRemembers ==
  ASSUME IInv, Remembered, product' = product, NEW ans, NEW hdr, AnswerToken(ans, hdr)
  PROVE  Remembered'
<1> DEFINE a == AfterToken(acct, ans, hdr)
           refused == ans \in RefusesLogin
<1>1. DOMAIN acct = AcctFields /\ DOMAIN op = OpFields /\ DOMAIN said = SaidFields
  BY DEF IInv, Records
<1>2. /\ DOMAIN a = AcctFields /\ a.fails = acct.fails /\ a.quota = acct.quota /\ a.qwait = acct.qwait
      /\ ans = "ok" => (Unhurt(acct) => Unhurt(a))
      /\ ans # "ok" => a.fresh = acct.fresh /\ (acct.reauth => a.reauth)
      /\ ans # "ok" /\ refused => a.reauth
      /\ ans # "ok" /\ ~ refused => (Unhurt(acct) => Unhurt(a))
  BY <1>1, AfterTokenNotes
<1>3. PassesToken(ans) => ~ refused /\ TokenProbe(ans) = "failed" /\ TokenSoft(ans) = {TRUE}
  BY PassingIsSoft
<1> HIDE DEF a, refused
<1>4. CASE /\ ans = "ok" /\ acct' = a
           /\ op' = IF op.kind = "token" THEN Idle
                    ELSE [op EXCEPT !.posts = 0, !.spare = FALSE, !.usage = "none",
                                    !.at = IF op.at = "repair" THEN "again" ELSE UsageAt]
           /\ said' = [said EXCEPT !.refused = FALSE, !.failedNow = FALSE]
  <2>1. said'.calm = said.calm /\ ~ said'.failedNow
    BY <1>1, <1>4 DEF SaidFields
  <2>2. op'.windows \in {"none", "left", "used"} /\ op'.at \notin {"token", "repair"}
    <3>1. CASE op.kind = "token"
      BY <1>4, <3>1 DEF Idle
    <3>2. CASE op.kind # "token"
      BY <1>1, <1>4, <3>2 DEF OpFields, UsageAt, Remembered
    <3> QED
      BY <3>1, <3>2
  <2> QED
    BY <1>2, <1>4, <2>1, <2>2 DEF Remembered, Unhurt, Held, Quotas
<1>5. CASE /\ ans # "ok" /\ Leave(a)
           /\ said' = [said EXCEPT !.refused = @ \/ ans \in TurnedDown, !.calm = @ /\ PassesToken(ans)]
  <2>1. (said'.calm <=> (said.calm /\ PassesToken(ans))) /\ said'.failedNow = said.failedNow
    BY <1>1, <1>5 DEF SaidFields
  <2>2. acct' = a /\ op' = Idle
    BY <1>5 DEF Leave
  <2> QED
    BY <1>2, <1>3, <1>5, <2>1, <2>2, EndRemembers DEF Remembered, Held
<1>6. ASSUME ans # "ok", op.kind = "quota",
             said' = [said EXCEPT !.refused = @ \/ ans \in TurnedDown, !.failedNow = (op.age = 0),
                                  !.calm = @ /\ PassesToken(ans)]
      PROVE  /\ said'.calm <=> (said.calm /\ PassesToken(ans))
             /\ said'.failedNow <=> op.age = 0
  BY <1>1, <1>6 DEF SaidFields
<1>7. ASSUME ans # "ok", op.kind = "quota", refused, product # "codex",
             Leave([a EXCEPT !.err = "reauth", !.soft = FALSE]),
             said'.calm <=> (said.calm /\ PassesToken(ans))
      PROVE  Remembered'
  <2>1. op.at = "token" /\ ~ acct.fresh
    BY <1>7 DEF AnswerToken, Remembered
  <2>2. /\ op' = Idle /\ acct'.fails = a.fails /\ acct'.quota = a.quota /\ acct'.qwait = a.qwait
        /\ acct'.reauth = a.reauth /\ acct'.fresh = a.fresh
    BY <1>2, <1>7 DEF Leave, AcctFields
  <2> QED
    BY <1>2, <1>3, <1>7, <2>1, <2>2, EndRemembers DEF Remembered, Held
<1>8. ASSUME ans # "ok", NEW soft \in TokenSoft(ans),
             TokenFails(a, TokenProbe(ans), TokenErr(ans), soft, ans = "limited"),
             said'.calm <=> (said.calm /\ PassesToken(ans)), said'.failedNow <=> op.age = 0
      PROVE  Remembered'
  <2>1. a.fails \in Nat
    BY <1>2 DEF Remembered
  <2>2. /\ op' = Idle /\ acct'.fails \in Nat /\ acct'.quota = a.quota
        /\ op.age = 0 => acct'.qwait > 0
        /\ Unhurt(a) /\ TokenProbe(ans) = "failed" /\ soft => Unhurt(acct')
    BY <1>2, <1>8, <2>1, TokenFailsIs
  <2>3. soft \in BOOLEAN
    BY <1>8 DEF TokenSoft
  <2>4. PassesToken(ans) => soft
    <3>1. PassesToken(ans) => soft \in {TRUE}
      BY <1>3, <1>8
    <3> QED
      BY <3>1, Zenon
  <2>5. said'.calm => Unhurt(acct')
    BY <1>2, <1>3, <1>8, <2>2, <2>4 DEF Remembered
  <2> QED
    BY <1>2, <1>8, <2>2, <2>5, EndRemembers DEF Remembered, Held
<1> QED
  BY <1>4, <1>5, <1>6, <1>7, <1>8 DEF AnswerToken, a, refused
-----------------------------------------------------------------------------
(* What the answers of the usage endpoints leave                           *)

LEMMA CodexUsageRemembers ==
  ASSUME IInv, Remembered, product' = product, NEW ans, NEW hdr \in HeaderWaits, CodexUsage(ans, hdr)
  PROVE  Remembered'
<1>1. product = "codex" /\ DOMAIN acct = AcctFields /\ DOMAIN op = OpFields /\ acct.fails \in Nat
  BY DEF CodexUsage, IInv, Records, Remembered
<1>2. /\ said'.failedNow <=> (op'.at = "idle" /\ ~ Kept(ans) /\ op.age = 0)
      /\ Kept(ans) => (said'.calm <=> ~ acct.reauth)
      /\ ~ Kept(ans) => (said'.calm <=> (said.calm /\ (PassesUsage(ans) \/ op'.at = "repair")))
  BY DEF CodexUsage
<1>3. op' = Idle => op'.at # "repair"
  BY DEF Idle
<1>4. PassesUsage(ans) => UsageSoft(ans) = {TRUE} /\ ProbeOf(ans) = "failed" /\ ans # "empty" /\ ans # "deactivated"
  BY DEF PassesUsage, UsageSoft, ProbeOf, Temporary, Answered
<1>5. Repairs(ans) => ~ Kept(ans) /\ ~ PassesUsage(ans)
  BY DEF Repairs, Kept, PassesUsage, Temporary
<1>6. CASE Kept(ans) /\ Succeeds(ans)
  <2> DEFINE b == ApplyProbe(acct, "active")
             c == ClearQuotaRetry(b)
  <2>1. DOMAIN b = AcctFields /\ b.reauth = acct.reauth /\ ~ b.banned /\ b.probe = "active"
    BY <1>1, ProbeNotes
  <2> HIDE DEF b
  <2>2. /\ DOMAIN c = AcctFields /\ c.reauth = acct.reauth /\ ~ c.banned /\ c.probe = "active"
        /\ c.fails = 0
    BY <2>1 DEF ClearQuotaRetry, AcctFields
  <2>3. /\ acct' = [c EXCEPT !.quota = WindowsOf(ans), !.err = IF acct.reauth THEN @ ELSE "none",
                             !.soft = acct.reauth /\ @]
        /\ op' = Idle
    BY <1>6 DEF Succeeds, Leave, b
  <2> HIDE DEF c
  <2>4. /\ acct'.fails = 0 /\ acct'.quota = WindowsOf(ans) /\ acct'.reauth = acct.reauth
        /\ ~ acct'.banned /\ acct'.probe = "active" /\ (~ acct.reauth => acct'.err = "none")
    BY <2>2, <2>3 DEF AcctFields
  <2>5. WindowsOf(ans) \in Quotas
    BY DEF WindowsOf, Quotas
  <2> QED
    BY <1>2, <1>6, <2>3, <2>4, <2>5, EndRemembers DEF Unhurt
<1>7. CASE /\ Repairs(ans) /\ acct.key
           /\ op' = [op EXCEPT !.at = "repair", !.usage = ans, !.posts = @ + 1]
           /\ acct' = acct
  <2>1. op'.at = "repair" /\ op'.windows = op.windows
    BY <1>1, <1>7 DEF OpFields
  <2> QED
    BY <1>1, <1>2, <1>5, <1>7, <2>1, GoRemembers DEF Remembered
<1>8. CASE /\ Repairs(ans) /\ ~ acct.key
           /\ Fails(MarkReauth(acct, "missing"), "invalid", "missing", FALSE, FALSE, NoHeader)
  <2>1. op' = Idle
    BY <1>8 DEF Fails, Leave
  <2> QED
    BY <1>2, <1>3, <1>5, <1>8, <2>1, MissingRemembers
<1>9. CASE /\ op.kind = "quota" /\ ~ Kept(ans) /\ ~ Repairs(ans)
           /\ \E soft \in UsageSoft(ans) :
                Fails(acct, IF ans = "empty" THEN "failed" ELSE ProbeOf(ans), UsageErr(ans), soft, ans = "limited", hdr)
  <2> DEFINE probe == IF ans = "empty" THEN "failed" ELSE ProbeOf(ans)
  <2>1. PICK soft \in UsageSoft(ans) : Fails(acct, probe, UsageErr(ans), soft, ans = "limited", hdr)
    BY <1>9
  <2>2. PassesUsage(ans) => probe = "failed" /\ soft
    <3>1. PassesUsage(ans) => soft \in {TRUE}
      BY <1>4, <2>1
    <3> QED
      BY <1>4, <3>1, Zenon
  <2> HIDE DEF probe
  <2>3. /\ op' = Idle /\ acct'.fails \in Nat /\ acct'.quota = acct.quota
        /\ op.age = 0 => acct'.qwait > 0
        /\ ~ acct.reauth /\ ~ acct.banned /\ probe \notin {"invalid", "banned", "rejected"} /\ soft => Unhurt(acct')
    BY <1>1, <2>1, FailsIs
  <2> QED
    BY <1>2, <1>3, <1>9, <2>2, <2>3, EndRemembers DEF Remembered, Unhurt, Held
<1>10. CASE /\ op.kind = "probe" /\ ~ Kept(ans)
            /\ Leave(ScheduleQuota([ApplyProbe(acct, ProbeOf(ans)) EXCEPT
                                      !.err = IF ans = "deactivated" THEN "ban" ELSE @,
                                      !.soft = ans # "deactivated" /\ @], ans = "limited", hdr))
  <2> DEFINE b == ApplyProbe(acct, ProbeOf(ans))
             c == [b EXCEPT !.err = IF ans = "deactivated" THEN "ban" ELSE @,
                            !.soft = ans # "deactivated" /\ @]
  <2>1. /\ DOMAIN b = AcctFields /\ b.fails = acct.fails /\ b.quota = acct.quota
        /\ b.reauth = acct.reauth /\ b.err = acct.err /\ b.soft = acct.soft
        /\ ~ acct.banned /\ ProbeOf(ans) = "failed" => ~ b.banned /\ b.probe = "failed"
    BY <1>1, ProbeNotes
  <2> HIDE DEF b
  <2>2. /\ DOMAIN c = AcctFields /\ c.fails = b.fails /\ c.quota = b.quota /\ c.reauth = b.reauth
        /\ c.banned = b.banned /\ c.probe = b.probe
        /\ ans # "deactivated" => c.err = b.err /\ (c.soft <=> b.soft)
    BY <2>1 DEF AcctFields
  <2>3. acct' = ScheduleQuota(c, ans = "limited", hdr) /\ op' = Idle
    BY <1>10 DEF Leave, b
  <2> HIDE DEF c
  <2>4. SameNotes(acct', c) /\ acct'.fails \in Nat /\ (op.age = 0 => acct'.qwait > 0)
    BY <1>1, <2>1, <2>2, <2>3, ScheduledIs
  <2>5. Unhurt(acct) /\ PassesUsage(ans) => Unhurt(acct')
    BY <1>4, <2>1, <2>2, <2>4 DEF SameNotes, Unhurt
  <2> QED
    BY <1>2, <1>3, <1>10, <2>1, <2>2, <2>3, <2>4, <2>5, EndRemembers DEF Remembered, SameNotes, Held
<1> QED
  BY <1>6, <1>7, <1>8, <1>9, <1>10 DEF CodexUsage

\* The ends of a refresh of Cursor or Antigravity.
LEMMA RefusedRemembers ==
  ASSUME IInv, Remembered, product' = product, Refused, ~ said'.calm, said'.failedNow => op.age = 0
  PROVE  Remembered'
<1> DEFINE a == MarkReauth(acct, "reauth")
           c == [a EXCEPT !.err = "reauth", !.soft = FALSE]
<1>1. DOMAIN a = AcctFields /\ a.fails = acct.fails /\ a.quota = acct.quota
  BY MarkedNotes DEF IInv, Records
<1> HIDE DEF a
<1>2. DOMAIN c = AcctFields /\ c.fails = a.fails /\ c.quota = a.quota
  BY <1>1 DEF AcctFields
<1>3. acct' = ScheduleQuota(c, FALSE, NoHeader) /\ op' = Idle
  BY DEF Refused, Leave, a
<1> HIDE DEF c
<1>4. c.fails \in Nat /\ NoHeader \in HeaderWaits
  BY <1>1, <1>2, ConstantsAssumption DEF Remembered
<1>5. LET b == ScheduleQuota(c, FALSE, NoHeader) IN
      SameNotes(b, c) /\ b.fails \in Nat /\ (op.age = 0 => b.qwait > 0)
  BY <1>2, <1>4, ScheduledIs, Zenon
<1> QED
  BY <1>1, <1>2, <1>3, <1>5, EndRemembers DEF Remembered, SameNotes, Held

LEMMA NoWindowsRemembers ==
  ASSUME IInv, Remembered, product' = product, NEW ans, NEW hdr \in HeaderWaits, NoWindows(ans, hdr),
         said'.calm => said.calm, said'.failedNow => op.age = 0
  PROVE  Remembered'
<1> DEFINE c == [acct EXCEPT !.err = "other", !.soft = TRUE, !.probe = "failed"]
<1>1. /\ DOMAIN c = AcctFields /\ c.fails = acct.fails /\ c.quota = acct.quota
      /\ Unhurt(acct) => Unhurt(c)
  BY DEF IInv, Records, AcctFields, Unhurt
<1>2. acct' = ScheduleQuota(c, ans = "limited", hdr) /\ op' = Idle
  BY DEF NoWindows, Leave
<1> HIDE DEF c
<1>3. c.fails \in Nat
  BY <1>1 DEF Remembered
<1>4. SameNotes(acct', c) /\ acct'.fails \in Nat /\ (op.age = 0 => acct'.qwait > 0)
  BY <1>1, <1>2, <1>3, ScheduledIs
<1>5. Unhurt(acct) => Unhurt(acct')
  BY <1>1, <1>4 DEF SameNotes, Unhurt
<1> QED
  BY <1>1, <1>2, <1>4, <1>5, EndRemembers DEF Remembered, SameNotes, Held

LEMMA KeepRemembers ==
  ASSUME IInv, Remembered, product' = product, product # "codex", NEW windows \in Quotas, Keep(windows),
         said'.calm => ~ acct.reauth, ~ said'.failedNow
  PROVE  Remembered'
<1>1. DOMAIN acct = AcctFields /\ ~ acct.banned
  BY DEF IInv, Records, BannedByUsageAlone
<1> DEFINE c == ClearQuotaRetry(acct)
<1>2. DOMAIN c = AcctFields /\ c.reauth = acct.reauth /\ c.banned = acct.banned /\ c.fails = 0
  BY <1>1 DEF ClearQuotaRetry, AcctFields
<1>3. /\ acct' = [c EXCEPT !.quota = windows, !.err = "none", !.soft = FALSE,
                           !.probe = IF windows = "used" THEN "limited" ELSE "active"]
      /\ op' = Idle
  BY DEF Keep, Leave
<1> HIDE DEF c
<1>4. /\ acct'.fails = 0 /\ acct'.quota = windows /\ acct'.reauth = acct.reauth /\ ~ acct'.banned
      /\ acct'.err = "none" /\ acct'.probe \in {"limited", "active"}
  BY <1>1, <1>2, <1>3 DEF AcctFields
<1> QED
  BY <1>3, <1>4, EndRemembers DEF Unhurt

LEMMA SettledNotes ==
  ASSUME IInv, NEW refused, NEW failed, NEW calm, Settled(refused, failed, calm)
  PROVE  (said'.calm <=> calm) /\ (said'.failedNow <=> (failed /\ op.age = 0))
  BY DEF IInv, Records, Settled, SaidFields

LEMMA TurnedRemembers ==
  ASSUME IInv, Remembered, product' = product, NEW ans, NEW hdr \in HeaderWaits, Turned(ans, hdr)
  PROVE  Remembered'
<1>1. CASE Refused /\ Settled(TRUE, TRUE, FALSE)
  <2>1. (said'.calm <=> FALSE) /\ (said'.failedNow <=> (TRUE /\ op.age = 0))
    BY <1>1, SettledNotes, Zenon
  <2> QED
    BY <1>1, <2>1, RefusedRemembers
<1>2. CASE NoWindows(ans, hdr) /\ Settled(FALSE, TRUE, said.calm)
  <2>1. (said'.calm <=> said.calm) /\ (said'.failedNow <=> (TRUE /\ op.age = 0))
    BY <1>2, SettledNotes, Zenon
  <2> QED
    BY <1>2, <2>1, NoWindowsRemembers
<1> QED
  BY <1>1, <1>2 DEF Turned

\* An answer without windows, in the words of either product.
LEMMA EmptyRemembers ==
  ASSUME IInv, Remembered, product' = product, NEW ans, NEW hdr \in HeaderWaits,
         NoWindows(ans, hdr), Settled(FALSE, TRUE, FALSE)
  PROVE  Remembered'
<1>1. (said'.calm <=> FALSE) /\ (said'.failedNow <=> (TRUE /\ op.age = 0))
  BY SettledNotes, Zenon
<1> QED
  BY <1>1, NoWindowsRemembers

LEMMA WindowsRemembered ==
  ASSUME IInv, Remembered, product' = product, product # "codex", NEW windows \in Quotas,
         Keep(windows), Settled(FALSE, FALSE, ~ acct.reauth)
  PROVE  Remembered'
<1>1. (said'.calm <=> ~ acct.reauth) /\ (said'.failedNow <=> (FALSE /\ op.age = 0))
  BY SettledNotes, Zenon
<1> QED
  BY <1>1, KeepRemembers

LEMMA CursorRemembers ==
  ASSUME IInv, Remembered, product' = product, NEW ans, NEW hdr \in HeaderWaits, CursorUsage(ans, hdr)
  PROVE  Remembered'
<1>1. product # "codex"
  BY DEF CursorUsage
<1>2. CASE Turned(ans, hdr)
  BY <1>2, TurnedRemembers
<1>3. CASE ans \in {"left", "used"} /\ Keep(ans) /\ Settled(FALSE, FALSE, ~ acct.reauth)
  BY <1>1, <1>3, WindowsRemembered DEF Quotas
<1>4. CASE NoWindows(ans, hdr) /\ Settled(FALSE, TRUE, FALSE)
  BY <1>4, EmptyRemembers
<1> QED
  BY <1>2, <1>3, <1>4 DEF CursorUsage

\* A request of Antigravity is answered, and the next one goes out.
LEMMA NextRequestRemembers ==
  ASSUME Remembered, product' = product, UNCHANGED <<acct, said>>,
         op'.at \notin {"token", "repair"}, op'.windows \in {"none", "left", "used"}
  PROVE  Remembered'
  BY GoRemembers

LEMMA MergedIs ==
  ASSUME NEW w \in {"none", "left", "used"}, NEW v \in {"none", "left", "used"}
  PROVE  Merge(w, v) \in {"none", "left", "used"}
  BY DEF Merge

LEMMA AntigravityRemembers ==
  ASSUME IInv, Remembered, product' = product, AntigravityUsage
  PROVE  Remembered'
<1>1. product # "codex" /\ DOMAIN op = OpFields /\ op.windows \in {"none", "left", "used"}
  BY DEF AntigravityUsage, IInv, Records, Remembered
<1>2. CASE TryOtherHost
  <2>1. op'.at = op.at /\ op.at \in CloudAt /\ op'.windows = op.windows
    BY <1>1, <1>2 DEF TryOtherHost, OpFields
  <2> QED
    BY <1>1, <1>2, <2>1, NextRequestRemembers DEF TryOtherHost, CloudAt
<1>3. CASE Judge
  <2>1. Windows \in Quotas
    BY <1>1 DEF Windows, Quotas
  <2>2. CASE Keep(Windows) /\ Settled(FALSE, FALSE, ~ acct.reauth)
    BY <1>1, <2>1, <2>2, WindowsRemembered
  <2>3. CASE NoWindows("empty", NoHeader) /\ Settled(FALSE, TRUE, FALSE)
    <3>1. NoHeader \in HeaderWaits
      BY ConstantsAssumption
    <3> QED
      BY <2>3, <3>1, EmptyRemembers
  <2> QED
    BY <1>3, <2>2, <2>3 DEF Judge
<1>4. ASSUME NEW ans, NEW hdr \in HeaderWaits, Assist(ans, hdr) PROVE Remembered'
  <2>1. CASE Turned(ans, hdr)
    BY <2>1, TurnedRemembers
  <2>2. CASE ~ Turned(ans, hdr)
    <3>1. PICK project \in Projects, offer \in Offers :
            op' = [op EXCEPT !.at = IF project THEN "models" ELSE "onboard", !.host = 1,
                             !.project = project, !.offer = offer]
      BY <1>4, <2>2 DEF Assist
    <3>2. op'.at \in {"models", "onboard"} /\ op'.windows = op.windows
      BY <1>1, <3>1 DEF OpFields
    <3> QED
      BY <1>1, <1>4, <2>2, <3>2, NextRequestRemembers DEF Assist
  <2> QED
    BY <2>1, <2>2
<1>5. ASSUME NEW ans, Onboard(ans) PROVE Remembered'
  <2>1. \/ \E project \in Projects :
             op' = [op EXCEPT !.at = IF project THEN "models" ELSE "assist2", !.host = 1,
                              !.polls = 0, !.project = project]
        \/ op' = [op EXCEPT !.at = "poll", !.host = 1, !.polls = @ + 1]
        \/ op' = [op EXCEPT !.at = "assist2", !.host = 1, !.polls = 0]
    BY <1>5 DEF Onboard
  <2>2. op'.at \in {"models", "assist2", "poll"} /\ op'.windows = op.windows
    BY <1>1, <2>1 DEF OpFields
  <2> QED
    BY <1>1, <1>5, <2>2, NextRequestRemembers DEF Onboard
<1>6. ASSUME NEW ans, AssistAgain(ans) PROVE Remembered'
  <2>1. \/ \E project \in Projects, offer \in Offers :
             op' = [op EXCEPT !.at = "models", !.host = 1, !.project = project, !.offer = offer]
        \/ op' = [op EXCEPT !.at = "models", !.host = 1]
    BY <1>6 DEF AssistAgain
  <2>2. op'.at = "models" /\ op'.windows = op.windows
    BY <1>1, <2>1 DEF OpFields
  <2> QED
    BY <1>1, <1>6, <2>2, NextRequestRemembers DEF AssistAgain
<1>7. ASSUME NEW ans, AskWindows(ans) \/ AskBuckets(ans) PROVE Remembered'
  <2>1. PICK w \in {"none", "left", "used"}, at \in {"summary", "buckets", "judge"} :
          op' = [op EXCEPT !.windows = Merge(@, w), !.host = 1, !.at = at]
    BY <1>7 DEF AskWindows, AskBuckets
  <2>2. op'.at = at /\ op'.windows = Merge(op.windows, w)
    BY <1>1, <2>1 DEF OpFields
  <2>3. UNCHANGED <<acct, said>>
    BY <1>7 DEF AskWindows, AskBuckets
  <2> QED
    BY <1>1, <2>2, <2>3, MergedIs, NextRequestRemembers
<1> QED
  BY <1>2, <1>3, <1>4, <1>5, <1>6, <1>7 DEF AntigravityUsage
-----------------------------------------------------------------------------
(* What is remembered outside a refresh                                    *)

LEMMA OutsideRemembers ==
  ASSUME IInv, Remembered, product' = product, SignedIn \/ OfficialRotated \/ Folded
  PROVE  Remembered'
<1>1. DOMAIN acct = AcctFields /\ DOMAIN said = SaidFields
  BY DEF IInv, Records
<1>2. op' = Idle
  BY DEF SignedIn, OfficialRotated, Folded
<1>3. ~ said'.failedNow /\ said'.calm = said.calm
  BY <1>1 DEF SignedIn, OfficialRotated, Folded, SaidFields
<1>4. /\ acct'.fails \in {acct.fails, 0} /\ acct'.quota = acct.quota
      /\ acct'.reauth => acct.reauth
      /\ acct'.banned => acct.banned
      /\ acct'.probe = acct.probe /\ acct'.err = acct.err /\ acct'.soft = acct.soft
  <2>1. CASE SignedIn
    BY <1>1, <2>1 DEF SignedIn, AcctFields
  <2>2. CASE OfficialRotated
    BY <1>1, <2>2 DEF OfficialRotated, AcctFields
  <2>3. CASE Folded
    BY <1>1, <2>3 DEF Folded, AcctFields
  <2> QED
    BY <2>1, <2>2, <2>3
<1>5. acct'.fails \in Nat /\ acct'.quota \in Quotas
  BY <1>4 DEF Remembered
<1>6. said'.calm => Unhurt(acct')
  BY <1>3, <1>4 DEF Remembered, Unhurt
<1> QED
  BY <1>2, <1>3, <1>5, <1>6, EndRemembers

LEMMA TimeRemembers ==
  ASSUME IInv, Remembered, product' = product, TokenExpires \/ Pass
  PROVE  Remembered'
<1>1. DOMAIN acct = AcctFields /\ DOMAIN op = OpFields /\ DOMAIN said = SaidFields
  BY DEF IInv, Records
<1>2. acct' = [acct EXCEPT !.fresh = FALSE] \/ acct' = acct \/ \E d : acct' = Waits(acct, d)
  BY DEF TokenExpires, Pass
<1>3. /\ acct'.fails = acct.fails /\ acct'.quota = acct.quota /\ acct'.reauth = acct.reauth
      /\ acct'.banned = acct.banned /\ acct'.probe = acct.probe /\ acct'.err = acct.err
      /\ acct'.soft = acct.soft /\ (acct'.fresh => acct.fresh)
  BY <1>1, <1>2 DEF Waits, AcctFields
<1>4. op' = op \/ op' = [op EXCEPT !.age = @ + 1]
  BY DEF TokenExpires, Pass
<1>5. op'.at = op.at /\ op'.kind = op.kind /\ op'.windows = op.windows
  BY <1>1, <1>4 DEF OpFields
<1>6. said'.calm = said.calm
  BY <1>1 DEF TokenExpires, Pass, SaidFields
<1>7. said'.failedNow => Held(acct')
  <2>1. CASE TokenExpires
    BY <1>1, <2>1 DEF TokenExpires, AcctFields, Remembered, Held
  <2>2. CASE Pass
    BY <1>1, <2>2 DEF Pass, SaidFields
  <2> QED
    BY <2>1, <2>2
<1>8. said'.calm => Unhurt(acct')
  BY <1>3, <1>6 DEF Remembered, Unhurt
<1> QED
  BY <1>3, <1>5, <1>7, <1>8 DEF Remembered, Unhurt, Held, Quotas
-----------------------------------------------------------------------------
LEMMA NextRemembers == IInv /\ Remembered /\ [Next]_vars => Remembered'
<1> SUFFICES ASSUME IInv, Remembered, [Next]_vars PROVE Remembered'
  OBVIOUS
<1>1. CASE Next
  <2>1. product' = product
    BY <1>1 DEF Next
  <2> USE <2>1
  <2>2. ASSUME NEW force \in BOOLEAN, BeginCodexQuota(force) PROVE Remembered'
    BY <2>2, BeginCodexRemembers
  <2>3. ASSUME NEW force \in BOOLEAN, BeginManagedQuota(force) PROVE Remembered'
    BY <2>3, BeginManagedRemembers
  <2>4. ASSUME NEW force \in BOOLEAN, BeginToken(force) PROVE Remembered'
    BY <2>4, BeginTokenRemembers
  <2>5. ASSUME NEW force \in BOOLEAN, NEW byDaemon \in BOOLEAN, BeginProbe(force, byDaemon) PROVE Remembered'
    BY <2>5, BeginProbeRemembers
  <2>6. ASSUME NEW ans \in TokenAnswers, NextClient(ans) PROVE Remembered'
    BY <2>6, NextClientRemembers
  <2>7. ASSUME NEW ans \in TokenAnswers, NEW hdr \in HeaderWaits, AnswerToken(ans, hdr) PROVE Remembered'
    BY <2>7, AnswerTokenRemembers
  <2>8. ASSUME NEW ans \in UsageAnswers, NEW hdr \in HeaderWaits, CodexUsage(ans, hdr) PROVE Remembered'
    BY <2>8, CodexUsageRemembers
  <2>9. ASSUME NEW ans \in UsageAnswers, NEW hdr \in HeaderWaits, CursorUsage(ans, hdr) PROVE Remembered'
    BY <2>9, CursorRemembers
  <2>10. ASSUME AntigravityUsage PROVE Remembered'
    BY <2>10, AntigravityRemembers
  <2>11. ASSUME SignedIn \/ OfficialRotated \/ Folded PROVE Remembered'
    BY <2>11, OutsideRemembers
  <2>12. ASSUME TokenExpires \/ Pass PROVE Remembered'
    BY <2>12, TimeRemembers
  <2> QED
    BY <1>1, <2>2, <2>3, <2>4, <2>5, <2>6, <2>7, <2>8, <2>9, <2>10, <2>11, <2>12 DEF Next, Step
<1>2. CASE UNCHANGED vars
  BY <1>2 DEF vars, Remembered, Unhurt, Held, Quotas
<1> QED
  BY <1>1, <1>2

LEMMA MemoryInvariant == Spec => []Remembered
<1>1. Init => IInv /\ Remembered
  BY InitIInv, InitRemembered
<1>2. IInv /\ Remembered /\ [Next]_vars => (IInv /\ Remembered)'
  BY NextKeeps, NextRemembers
<1>3. Spec => [](IInv /\ Remembered)
  BY <1>1, <1>2, PTL DEF Spec
<1> QED
  BY <1>3, PTL
-----------------------------------------------------------------------------
(* What the card makes of it                                               *)

\* The row that is sent, field by field.
LEMMA SentIs ==
  ASSUME product \in {"codex", "cursor", "antigravity"}, NEW r \in CardRows
  PROVE  /\ r.product = product /\ r.reauth = acct.reauth /\ r.banned = acct.banned
         /\ r.probe = IF acct.probe = "rejected" THEN "failed" ELSE acct.probe
         /\ r.refused <=> acct.probe = "rejected"
         /\ r.err = IF acct.err = "none" THEN "none" ELSE IF acct.soft THEN "passing" ELSE "other"
         /\ r.expired <=> ~ acct.fresh
         /\ \A w \in Cards!WindowsOf[product] : r.windows[w] = PercentOf[acct.quota]
         /\ r.waits <=> acct.qwait > 0
<1> DEFINE A == {TRUE, acct.fresh}
           U == {"never", "lately", "longAgo"}
<1>1. CardRows = {Row(acct, access, updated) : access \in A, updated \in U}
  BY DEF CardRows, A, U
<1> HIDE DEF A, U
<1>2. PICK access \in A, updated \in U : r = Row(acct, access, updated)
  BY <1>1
<1> QED
  BY <1>2 DEF Row

\* An account to be signed in again is barred, whatever its product.
LEMMA MarkedIsBarred ==
  ASSUME NEW r, r.product \in {"codex", "cursor", "antigravity"}, r.reauth
  PROVE  Cards!Barred(r)
<1>1. CASE r.product = "codex"
  BY <1>1 DEF Cards!Barred, Cards!CardStatus, Cards!CodexStatus
<1>2. CASE r.product = "cursor"
  BY <1>2 DEF Cards!Barred, Cards!CardStatus, Cards!CursorStatus, Cards!Turned
<1>3. CASE r.product = "antigravity"
  BY <1>3 DEF Cards!Barred, Cards!CardStatus, Cards!AntigravityStatus, Cards!Turned
<1> QED
  BY <1>1, <1>2, <1>3

\* Nobody asks by himself for an account whose refresh failed: it waits, in the
\* engine's eyes and the window's, or its card has nothing left to ask with
\* (scheduleQuotaRetry; refreshOneCursorQuota and refreshOneAntigravityQuota, which
\* note a login that was turned down without a wait).
THEOREM FailuresWait == Spec => []FailureWaits
<1>1. IInv /\ Remembered => FailureWaits
  <2> SUFFICES ASSUME IInv, Remembered, said.failedNow, ~ (acct.qwait > 0), NEW r \in CardRows
               PROVE  ~ Cards!NeedsAutoSync(r)
    BY DEF FailureWaits
  <2>1. product # "codex" /\ acct.reauth /\ ~ acct.fresh
    BY DEF Remembered, Held
  <2>2. r.product = product /\ r.reauth = acct.reauth /\ (r.expired <=> ~ acct.fresh)
    BY SentIs DEF IInv
  <2>3. Cards!Barred(r)
    <3>1. r.product \in {"codex", "cursor", "antigravity"} /\ r.reauth
      BY <2>1, <2>2 DEF IInv
    <3> QED
      BY <3>1, MarkedIsBarred
  <2>4. ~ Cards!LeftoverUsable(r)
    BY <2>1, <2>2 DEF Cards!LeftoverUsable
  <2> QED
    BY <2>3, <2>4 DEF Cards!NeedsAutoSync, Cards!CanRefreshQuota
<1> QED
  BY <1>1, AccountInvariant, MemoryInvariant, PTL

\* A row of which nothing was said against the login, with windows to show.
LEMMA UnhurtIsShown ==
  ASSUME NEW r, r.product \in {"codex", "cursor", "antigravity"},
         ~ r.reauth, ~ r.banned, r.probe \notin {"invalid", "banned"}, r.err \in {"none", "passing"},
         Cards!Known(r) # {}, ~ Cards!TokenUnusable(r), ~ (r.product = "antigravity" /\ r.expired)
  PROVE  ~ Cards!Blank(r)
<1>1. ~ Cards!ErrorHides(r)
  BY DEF Cards!ErrorHides
<1>2. Cards!CardStatus(r) \notin {"SUSPENDED", "BANNED", "SYNC_FAILED"}
  <2>1. CASE r.product = "codex"
    BY <1>1, <2>1 DEF Cards!CardStatus, Cards!CodexStatus
  <2>2. CASE r.product = "cursor"
    BY <1>1, <2>2 DEF Cards!CardStatus, Cards!CursorStatus, Cards!Turned
  <2>3. CASE r.product = "antigravity"
    BY <1>1, <2>3 DEF Cards!CardStatus, Cards!AntigravityStatus, Cards!Turned
  <2> QED
    BY <2>1, <2>2, <2>3
<1> QED
  BY <1>2 DEF Cards!Blank, Cards!Hidden, Cards!Barred

\* Over any number of failures that pass, of the token or of the windows, the card
\* shows what it knows (applyTokenFailure, applyQuotaFailure, isQuotaTemporaryFailure).
THEOREM LeftoverIsShown == Spec => []LeftoverShown
<1>1. IInv /\ Remembered => LeftoverShown
  <2> SUFFICES ASSUME IInv, Remembered, said.calm, acct.quota # "unknown", NEW r \in CardRows,
                      ~ (r.product = "antigravity" /\ r.expired), ~ Cards!TokenUnusable(r)
               PROVE  ~ Cards!Blank(r)
    BY DEF LeftoverShown
  <2>1. Unhurt(acct) /\ product \in {"codex", "cursor", "antigravity"}
    BY DEF IInv, Remembered
  <2>2. r.product = product /\ ~ r.reauth /\ ~ r.banned /\ r.probe \notin {"invalid", "banned"}
    BY <2>1, SentIs DEF Unhurt
  <2>3. r.err \in {"none", "passing"}
    BY <2>1, SentIs DEF Unhurt
  <2>4. PercentOf[acct.quota] # Missing
    BY ConstantsOfCards DEF Remembered, Quotas, PercentOf
  <2>5. PICK w \in Cards!WindowsOf[product] : TRUE
    BY <2>1 DEF Cards!WindowsOf
  <2>6. r.windows[w] \in Cards!Known(r)
    BY <2>2, <2>4, <2>5, SentIs, <2>1 DEF Cards!Known, Cards!KnownOf
  <2> QED
    BY <2>1, <2>2, <2>3, <2>6, UnhurtIsShown
<1> QED
  BY <1>1, AccountInvariant, MemoryInvariant, PTL

\* The button a Codex card offers is one the engine serves, whatever was noted
\* (canRefreshAccountQuota, refreshAccountQuota).
THEOREM OffersAreServed == Spec => []OfferIsServed
<1>1. IInv => OfferIsServed
  <2> SUFFICES ASSUME IInv, product = "codex", acct.reauth \/ acct.banned, NEW r \in CardRows,
                      Cards!CanRefreshQuota(r)
               PROVE  CanProbe(acct)
    BY DEF OfferIsServed
  <2>1. /\ r.product = "codex" /\ r.reauth = acct.reauth /\ r.banned = acct.banned
        /\ r.probe = IF acct.probe = "rejected" THEN "failed" ELSE acct.probe
        /\ r.refused <=> acct.probe = "rejected"
        /\ r.expired <=> ~ acct.fresh
    BY SentIs
  <2>2. Cards!Barred(r)
    BY <2>1 DEF Cards!Barred, Cards!CardStatus, Cards!CodexStatus
  <2> QED
    BY <2>1, <2>2 DEF Cards!CanRefreshQuota, Cards!LeftoverUsable, Cards!AccessRejected, CanProbe
<1> QED
  BY <1>1, AccountInvariant, PTL
-----------------------------------------------------------------------------
(* The cards                                                               *)

LEMMA LeastIs ==
  ASSUME NEW S \in SUBSET Int, NEW x, Cards!IsLeast(x, S)
  PROVE  Cards!Least(S) = x
<1>1. S # {} /\ x \in Int
  BY DEF Cards!IsLeast
<1>2. Cards!IsLeast(CHOOSE y \in S : Cards!IsLeast(y, S), S)
  BY DEF Cards!IsLeast
<1>3. ASSUME NEW y, Cards!IsLeast(y, S) PROVE y = x
  BY <1>3 DEF Cards!IsLeast
<1> QED
  BY <1>1, <1>2, <1>3 DEF Cards!Least

\* The smaller of two windows, of which either may be missing.
LEMMA TwoLeast ==
  ASSUME NEW a \in Cards!Percent \cup {Missing}, NEW b \in Cards!Percent \cup {Missing}
  PROVE  /\ Cards!Least(Cards!KnownOf({a, b})) = Cards!Tighter(a, b)
         /\ Cards!Tighter(a, b) \in {a, b}
<1>1. Missing \notin Int /\ Cards!Percent \subseteq Int
  BY ConstantsOfCards DEF Cards!Percent
<1>2. CASE a = Missing /\ b = Missing
  BY <1>2 DEF Cards!KnownOf, Cards!Least, Cards!Tighter
<1>3. CASE a = Missing /\ b # Missing
  <2>1. Cards!KnownOf({a, b}) = {b} /\ b \in Int
    BY <1>1, <1>3 DEF Cards!KnownOf
  <2>2. Cards!IsLeast(b, {b})
    BY <2>1 DEF Cards!IsLeast
  <2> QED
    BY <1>3, <2>1, <2>2, LeastIs DEF Cards!Tighter
<1>4. CASE a # Missing /\ b = Missing
  <2>1. Cards!KnownOf({a, b}) = {a} /\ a \in Int
    BY <1>1, <1>4 DEF Cards!KnownOf
  <2>2. Cards!IsLeast(a, {a})
    BY <2>1 DEF Cards!IsLeast
  <2> QED
    BY <1>4, <2>1, <2>2, LeastIs DEF Cards!Tighter
<1>5. CASE a # Missing /\ b # Missing
  <2>1. Cards!KnownOf({a, b}) = {a, b} /\ a \in Int /\ b \in Int
    BY <1>1, <1>5 DEF Cards!KnownOf
  <2>2. Cards!Tighter(a, b) = IF a < b THEN a ELSE b
    BY <1>5 DEF Cards!Tighter
  <2>3. Cards!IsLeast(Cards!Tighter(a, b), {a, b})
    BY <2>1, <2>2 DEF Cards!IsLeast
  <2> QED
    BY <2>1, <2>2, <2>3, LeastIs
<1> QED
  BY <1>2, <1>3, <1>4, <1>5

\* The smallest of four is the smaller of the two smaller ones.
LEMMA FourLeast ==
  ASSUME NEW a \in Cards!Percent \cup {Missing}, NEW b \in Cards!Percent \cup {Missing},
         NEW c \in Cards!Percent \cup {Missing}, NEW d \in Cards!Percent \cup {Missing}
  PROVE  Cards!Least(Cards!KnownOf({a, b, c, d})) = Cards!Tighter(Cards!Tighter(a, b), Cards!Tighter(c, d))
<1> DEFINE t == Cards!Tighter(a, b)
           u == Cards!Tighter(c, d)
           x == Cards!Tighter(t, u)
<1>1. Missing \notin Int /\ Cards!Percent \subseteq Int
  BY ConstantsOfCards DEF Cards!Percent
<1>2. t \in Cards!Percent \cup {Missing} /\ u \in Cards!Percent \cup {Missing}
  BY TwoLeast
<1>3. CASE {a, b, c, d} = {Missing}
  <2>1. a = Missing /\ b = Missing /\ c = Missing /\ d = Missing
    BY <1>3
  <2> QED
    BY <1>3, <2>1 DEF Cards!KnownOf, Cards!Least, Cards!Tighter
<1>4. CASE {a, b, c, d} # {Missing}
  <2>1. /\ x \in {t, u} /\ t \in {a, b} /\ u \in {c, d}
    BY <1>2, TwoLeast
  <2>2. /\ a # Missing => t # Missing /\ t <= a
        /\ b # Missing => t # Missing /\ t <= b
    BY <1>1 DEF Cards!Tighter, Cards!Percent
  <2>3. /\ c # Missing => u # Missing /\ u <= c
        /\ d # Missing => u # Missing /\ u <= d
    BY <1>1 DEF Cards!Tighter, Cards!Percent
  <2>4. /\ t # Missing => x # Missing /\ x <= t
        /\ u # Missing => x # Missing /\ x <= u
    BY <1>1, <1>2 DEF Cards!Tighter, Cards!Percent
  <2>5. x # Missing
    BY <1>4, <2>2, <2>3, <2>4
  <2>6. x \in Cards!KnownOf({a, b, c, d}) /\ Cards!KnownOf({a, b, c, d}) \subseteq Int
    BY <1>1, <2>1, <2>5 DEF Cards!KnownOf
  <2> HIDE DEF t, u, x
  <2>7. \A y \in Cards!KnownOf({a, b, c, d}) : x <= y
    <3>1. x \in Int /\ (t # Missing => t \in Int) /\ (u # Missing => u \in Int)
      BY <1>1, <1>2, <2>6
    <3> QED
      BY <1>1, <2>2, <2>3, <2>4, <2>6, <3>1 DEF Cards!KnownOf
  <2>8. Cards!IsLeast(x, Cards!KnownOf({a, b, c, d}))
    BY <2>6, <2>7 DEF Cards!IsLeast
  <2> QED
    BY <2>6, <2>8, LeastIs DEF x, t, u
<1> QED
  BY <1>3, <1>4
-----------------------------------------------------------------------------
(* The card                                                                *)

LEMMA RowParts ==
  ASSUME NEW r \in Cards!AnyRow
  PROVE  /\ r.product \in Cards!CardProducts
         /\ \A w \in Cards!WindowsOf[r.product] : r.windows[w] \in Cards!Percent \cup {Missing}
<1>1. PICK p \in Cards!CardProducts : r \in Cards!Rows(p)
  BY DEF Cards!AnyRow
<1> QED
  BY <1>1 DEF Cards!Rows, Cards!CardProducts

\* What a card shows, taken apart.
LEMMA ShownIs ==
  ASSUME NEW r \in Cards!AnyRow, ~ Cards!Blank(r)
  PROVE  /\ r.product = "codex" =>
              /\ Cards!Lens(r) = [outer |-> r.windows["weekly"], inner |-> r.windows["fiveHour"]]
              /\ {Cards!Bars(r)[w] : w \in Cards!HeroWindows(r)} = {r.windows["weekly"], r.windows["fiveHour"]}
              /\ {"weekly", "fiveHour"} \subseteq Cards!WindowsOf[r.product]
         /\ r.product = "cursor" =>
              /\ Cards!Lens(r) = [outer |-> r.windows["auto"], inner |-> r.windows["api"]]
              /\ {Cards!Bars(r)[w] : w \in Cards!HeroWindows(r)} = {r.windows["auto"], r.windows["api"]}
              /\ {"auto", "api"} \subseteq Cards!WindowsOf[r.product]
         /\ r.product = "antigravity" =>
              /\ Cards!Lens(r) = [outer |-> Cards!Tighter(r.windows["geminiWeekly"], r.windows["geminiFiveHour"]),
                            inner |-> Cards!Tighter(r.windows["thirdWeekly"], r.windows["thirdFiveHour"])]
              /\ {Cards!Bars(r)[w] : w \in Cards!HeroWindows(r)} =
                    {r.windows["geminiWeekly"], r.windows["geminiFiveHour"],
                     r.windows["thirdWeekly"], r.windows["thirdFiveHour"]}
              /\ {"geminiWeekly", "geminiFiveHour", "thirdWeekly", "thirdFiveHour"} \subseteq Cards!WindowsOf[r.product]
<1>1. \A w \in Cards!WindowsOf[r.product] : Cards!Bars(r)[w] = r.windows[w]
  BY DEF Cards!Bars
<1>2. CASE r.product = "codex"
  BY <1>1, <1>2 DEF Cards!Lens, Cards!HeroWindows, Cards!WindowsOf
<1>3. CASE r.product = "cursor"
  BY <1>1, <1>3 DEF Cards!Lens, Cards!HeroWindows, Cards!WindowsOf
<1>4. CASE r.product = "antigravity"
  <2>1. Cards!WindowsOf[r.product] = {"geminiFiveHour", "geminiWeekly", "thirdFiveHour", "thirdWeekly"}
    BY <1>4 DEF Cards!WindowsOf
  <2>2. Cards!HeroWindows(r) = Cards!WindowsOf[r.product]
    BY <1>4 DEF Cards!HeroWindows
  <2>3. Cards!Lens(r) = [outer |-> Cards!Tighter(r.windows["geminiWeekly"], r.windows["geminiFiveHour"]),
                   inner |-> Cards!Tighter(r.windows["thirdWeekly"], r.windows["thirdFiveHour"])]
    BY <1>4 DEF Cards!Lens, Cards!Families
  <2> QED
    BY <1>1, <1>4, <2>1, <2>2, <2>3
<1> QED
  BY <1>2, <1>3, <1>4, RowParts DEF Cards!CardProducts

\* The one number is the tighter of the two rings, and each ring is a window's or none.
LEMMA HeroIsRing ==
  ASSUME NEW r \in Cards!AnyRow, ~ Cards!WeekBlocks(r)
  PROVE  /\ Cards!Hero(r) = Cards!Tighter(Cards!Lens(r).outer, Cards!Lens(r).inner)
         /\ {Cards!Lens(r).outer, Cards!Lens(r).inner} \subseteq Cards!Percent \cup {Missing}
         /\ {Cards!Lens(r).outer, Cards!Lens(r).inner} \subseteq {r.windows[w] : w \in Cards!WindowsOf[r.product]} \cup {Missing}
<1>1. CASE Cards!Blank(r)
  BY <1>1 DEF Cards!Hero, Cards!Lens, Cards!Tighter
<1>2. CASE ~ Cards!Blank(r)
  <2>1. Cards!Hero(r) = Cards!Least(Cards!KnownOf({Cards!Bars(r)[w] : w \in Cards!HeroWindows(r)}))
    BY <1>2 DEF Cards!Hero
  <2>2. CASE r.product = "codex"
    <3> DEFINE a == r.windows["weekly"]
               b == r.windows["fiveHour"]
    <3>1. /\ Cards!Lens(r) = [outer |-> a, inner |-> b] /\ {Cards!Bars(r)[w] : w \in Cards!HeroWindows(r)} = {a, b}
          /\ {"weekly", "fiveHour"} \subseteq Cards!WindowsOf[r.product]
      BY <1>2, <2>2, ShownIs
    <3>2. a \in Cards!Percent \cup {Missing} /\ b \in Cards!Percent \cup {Missing}
      BY <3>1, RowParts
    <3>3. Cards!Hero(r) = Cards!Tighter(a, b)
      BY <2>1, <3>1, <3>2, TwoLeast
    <3> QED
      BY <3>1, <3>2, <3>3
  <2>3. CASE r.product = "cursor"
    <3> DEFINE a == r.windows["auto"]
               b == r.windows["api"]
    <3>1. /\ Cards!Lens(r) = [outer |-> a, inner |-> b] /\ {Cards!Bars(r)[w] : w \in Cards!HeroWindows(r)} = {a, b}
          /\ {"auto", "api"} \subseteq Cards!WindowsOf[r.product]
      BY <1>2, <2>3, ShownIs
    <3>2. a \in Cards!Percent \cup {Missing} /\ b \in Cards!Percent \cup {Missing}
      BY <3>1, RowParts
    <3>3. Cards!Hero(r) = Cards!Tighter(a, b)
      BY <2>1, <3>1, <3>2, TwoLeast
    <3> QED
      BY <3>1, <3>2, <3>3
  <2>4. CASE r.product = "antigravity"
    <3> DEFINE a == r.windows["geminiWeekly"]
               b == r.windows["geminiFiveHour"]
               c == r.windows["thirdWeekly"]
               d == r.windows["thirdFiveHour"]
    <3>1. /\ Cards!Lens(r) = [outer |-> Cards!Tighter(a, b), inner |-> Cards!Tighter(c, d)]
          /\ {Cards!Bars(r)[w] : w \in Cards!HeroWindows(r)} = {a, b, c, d}
          /\ {"geminiWeekly", "geminiFiveHour", "thirdWeekly", "thirdFiveHour"} \subseteq Cards!WindowsOf[r.product]
      BY <1>2, <2>4, ShownIs
    <3>2. /\ a \in Cards!Percent \cup {Missing} /\ b \in Cards!Percent \cup {Missing}
          /\ c \in Cards!Percent \cup {Missing} /\ d \in Cards!Percent \cup {Missing}
      BY <3>1, RowParts
    <3>5. {a, b, c, d} \subseteq {r.windows[w] : w \in Cards!WindowsOf[r.product]}
      BY <3>1
    <3> HIDE DEF a, b, c, d
    <3>6. Cards!Tighter(a, b) \in {a, b} /\ Cards!Tighter(c, d) \in {c, d}
      BY <3>2, TwoLeast
    <3>3. {Cards!Lens(r).outer, Cards!Lens(r).inner} \subseteq {a, b, c, d}
      BY <3>1, <3>6
    <3>4. Cards!Hero(r) = Cards!Tighter(Cards!Tighter(a, b), Cards!Tighter(c, d))
      <4>1. Cards!Least(Cards!KnownOf({a, b, c, d})) = Cards!Tighter(Cards!Tighter(a, b), Cards!Tighter(c, d))
        BY <3>2, FourLeast
      <4> QED
        BY <2>1, <3>1, <4>1, Zenon
    <3> QED
      BY <3>1, <3>2, <3>3, <3>4, <3>5
  <2> QED
    BY <2>2, <2>3, <2>4, RowParts DEF Cards!CardProducts
<1> QED
  BY <1>1, <1>2

\* The card and the float window agree, for any windows of any product (quotaHero,
\* lensQuotaWindows, antigravityQuotaFamilies).
THEOREM RingsAlwaysAgree == \A r \in Cards!AnyRow : Cards!RingsAgree(r)
<1> SUFFICES ASSUME NEW r \in Cards!AnyRow, ~ Cards!WeekBlocks(r)
             PROVE  Cards!Hero(r) = Cards!Least(Cards!KnownOf({Cards!Lens(r).outer, Cards!Lens(r).inner}))
  BY DEF Cards!RingsAgree
<1> QED
  BY HeroIsRing, TwoLeast

\* No number is made up, and none is shown as zero that is not known.
THEOREM NothingIsInvented == \A r \in Cards!AnyRow : Cards!NothingInvented(r)
<1> SUFFICES ASSUME NEW r \in Cards!AnyRow PROVE Cards!NothingInvented(r)
  OBVIOUS
<1>1. \A w \in Cards!WindowsOf[r.product] : Cards!Bars(r)[w] \in {Missing, r.windows[w]}
  BY DEF Cards!Bars
<1>2. {Cards!Lens(r).outer, Cards!Lens(r).inner} \subseteq Cards!Known(r) \cup {Missing}
  <2>1. CASE Cards!Blank(r)
    BY <2>1 DEF Cards!Lens
  <2>2. CASE ~ Cards!Blank(r)
    <3>1. {Cards!Lens(r).outer, Cards!Lens(r).inner} \subseteq {r.windows[w] : w \in Cards!WindowsOf[r.product]} \cup {Missing}
      <4>1. CASE r.product = "codex"
        BY <2>2, <4>1, ShownIs
      <4>2. CASE r.product = "cursor"
        BY <2>2, <4>2, ShownIs
      <4>3. CASE r.product = "antigravity"
        <5>1. ~ Cards!WeekBlocks(r)
          BY <4>3 DEF Cards!WeekBlocks
        <5> QED
          BY <5>1, HeroIsRing
      <4> QED
        BY <4>1, <4>2, <4>3, RowParts DEF Cards!CardProducts
    <3> QED
      BY <3>1 DEF Cards!Known, Cards!KnownOf
  <2> QED
    BY <2>1, <2>2
<1>3. ~ Cards!WeekBlocks(r) => Cards!Hero(r) \in Cards!Known(r) \cup {Missing}
  BY <1>2, HeroIsRing, TwoLeast
<1> QED
  BY <1>1, <1>2, <1>3 DEF Cards!NothingInvented

\* A card whose number is zero is not called normal unless something else may be left,
\* in the words it shows, which for Cursor and Antigravity hide a low window
\* (statusTextForAccount).
THEOREM ZeroIsAlwaysSaid == \A r \in Cards!AnyRow : Cards!ZeroIsSaid(r)
<1> SUFFICES ASSUME NEW r \in Cards!AnyRow, Cards!Hero(r) = 0 PROVE Cards!ZeroIsSaid(r)
  BY DEF Cards!ZeroIsSaid
<1>1. ~ Cards!Blank(r) /\ 0 # Missing
  BY ConstantsOfCards DEF Cards!Hero
<1>2. ~ Cards!WeekBlocks(r) => 0 \in {Cards!Lens(r).outer, Cards!Lens(r).inner}
  <2> SUFFICES ASSUME ~ Cards!WeekBlocks(r) PROVE 0 \in {Cards!Lens(r).outer, Cards!Lens(r).inner}
    OBVIOUS
  <2>1. Cards!Hero(r) = Cards!Tighter(Cards!Lens(r).outer, Cards!Lens(r).inner)
    BY HeroIsRing
  <2>2. Cards!Tighter(Cards!Lens(r).outer, Cards!Lens(r).inner) \in {Cards!Lens(r).outer, Cards!Lens(r).inner}
    BY HeroIsRing, TwoLeast
  <2> QED
    BY <2>1, <2>2
<1>3. ~ Cards!WeekBlocks(r) => 0 \in Cards!Known(r)
  BY <1>1, <1>2, NothingIsInvented DEF Cards!NothingInvented
<1>4. CASE r.product = "codex"
  <2>1. Cards!StatusText(r) = Cards!CodexStatus(r)
    BY <1>4 DEF Cards!StatusText, Cards!CardStatus
  <2>2. 0 \in Cards!Known(r) => Cards!CodexStatus(r) \notin {"ACTIVE", "READY"}
    BY DEF Cards!CodexStatus
  <2>3. Cards!WeekBlocks(r) => r.blocked /\ r.windows["weekly"] \in {0, Missing}
    BY DEF Cards!WeekBlocks
  <2>4. r.windows["weekly"] = 0 => 0 \in Cards!Known(r)
    BY <1>1, <1>4 DEF Cards!Known, Cards!KnownOf, Cards!WindowsOf
  <2> QED
    BY <1>3, <1>4, <2>1, <2>2, <2>3, <2>4 DEF Cards!ZeroIsSaid
<1>5. CASE r.product # "codex"
  <2>1. ~ Cards!WeekBlocks(r)
    BY <1>5 DEF Cards!WeekBlocks
  <2>2. CASE r.product = "cursor"
    <3>1. r.windows["auto"] = 0 \/ r.windows["api"] = 0
      BY <1>1, <1>2, <2>1, <2>2, ShownIs
    <3>2. Cards!Low(r.windows["auto"], LowQuota) \/ Cards!Low(r.windows["api"], LowQuota)
      BY <1>1, <3>1, ConstantsOfCards DEF Cards!Low
    <3>3. Cards!CursorStatus(r) # "READY" /\ (r.windows["plan"] = 0 => Cards!CursorStatus(r) \in {"SUSPENDED", "SYNC_FAILED", "EXPIRED"})
      BY <3>2 DEF Cards!CursorStatus
    <3>4. Cards!CardStatus(r) = Cards!CursorStatus(r)
      BY <2>2 DEF Cards!CardStatus
    <3>5. /\ Cards!StatusText(r) # "READY"
          /\ r.windows["plan"] = 0 => Cards!StatusText(r) # "ACTIVE"
      BY <1>5, <3>3, <3>4 DEF Cards!StatusText
    <3> QED
      BY <2>2, <3>5 DEF Cards!ZeroIsSaid
  <2>3. CASE r.product = "antigravity"
    <3>1. /\ Cards!AntigravityStatus(r) # "READY"
          /\ Cards!Known(r) = {0} => Cards!AntigravityStatus(r) \in {"SUSPENDED", "SYNC_FAILED", "EXPIRED"}
      BY <1>3, <2>1 DEF Cards!AntigravityStatus
    <3>2. Cards!CardStatus(r) = Cards!AntigravityStatus(r)
      BY <2>3 DEF Cards!CardStatus
    <3>3. /\ Cards!StatusText(r) # "READY"
          /\ Cards!Known(r) = {0} => Cards!StatusText(r) # "ACTIVE"
      BY <1>5, <3>1, <3>2 DEF Cards!StatusText
    <3> QED
      BY <2>3, <3>3 DEF Cards!ZeroIsSaid
  <2> QED
    BY <1>5, <2>2, <2>3, RowParts DEF Cards!CardProducts
<1> QED
  BY <1>4, <1>5

\* Windows on a card can be refreshed: they are hidden for want of a token exactly
\* where no request could be made (hideStaleQuota, canRefreshQuota).
THEOREM ShownCanBeRefreshed == \A r \in Cards!AnyRow : Cards!ShownIsRefreshable(r)
<1> SUFFICES ASSUME NEW r \in Cards!AnyRow, ~ Cards!Hidden(r) PROVE Cards!CanRefreshQuota(r)
  BY DEF Cards!ShownIsRefreshable
<1>1. CASE Cards!Barred(r)
  BY <1>1 DEF Cards!Hidden, Cards!CanRefreshQuota
<1>2. CASE ~ Cards!Barred(r)
  <2>1. ~ Cards!TokenUnusable(r)
    BY <1>2 DEF Cards!Barred, Cards!CardStatus, Cards!CodexStatus, Cards!CursorStatus, Cards!AntigravityStatus, Cards!Turned
  <2> QED
    BY <1>2, <2>1 DEF Cards!CanRefreshQuota
<1> QED
  BY <1>1, <1>2
-----------------------------------------------------------------------------
(* The answers                                                             *)

\* Answers has cards of its own, which are the same.
LEMMA SameCards ==
  ASSUME NEW r
  PROVE  /\ Answers!AnyRow = Cards!AnyRow /\ Answers!Known(r) = Cards!Known(r)
         /\ Answers!CardStatus(r) = Cards!CardStatus(r) /\ (Answers!Blank(r) <=> Cards!Blank(r))
         /\ Answers!Lens(r) = Cards!Lens(r) /\ Answers!Hero(r) = Cards!Hero(r)
<1>1. /\ Answers!WindowsOf = Cards!WindowsOf /\ Answers!CardProducts = Cards!CardProducts
      /\ Answers!Percent = Cards!Percent
  BY DEF Answers!WindowsOf, Cards!WindowsOf, Answers!CardProducts, Cards!CardProducts, Answers!Percent, Cards!Percent
<1>2. Answers!AnyRow = Cards!AnyRow
  BY <1>1 DEF Answers!AnyRow, Cards!AnyRow, Answers!Rows, Cards!Rows
<1>3. \A S : Answers!KnownOf(S) = Cards!KnownOf(S)
  BY DEF Answers!KnownOf, Cards!KnownOf
<1>4. Answers!Known(r) = Cards!Known(r)
  BY <1>1, <1>3 DEF Answers!Known, Cards!Known
<1>5. \A x, limit : Answers!Low(x, limit) <=> Cards!Low(x, limit)
  BY DEF Answers!Low, Cards!Low
<1>6. /\ Answers!TokenUnusable(r) <=> Cards!TokenUnusable(r)
      /\ Answers!ErrorHides(r) <=> Cards!ErrorHides(r)
      /\ Answers!Turned(r) <=> Cards!Turned(r)
  BY <1>4 DEF Answers!TokenUnusable, Cards!TokenUnusable, Answers!ErrorHides, Cards!ErrorHides, Answers!Turned, Cards!Turned
<1>7. Answers!CardStatus(r) = Cards!CardStatus(r)
  BY <1>4, <1>5, <1>6
     DEF Answers!CardStatus, Cards!CardStatus, Answers!CodexStatus, Cards!CodexStatus, Answers!CursorStatus,
         Cards!CursorStatus, Answers!AntigravityStatus, Cards!AntigravityStatus
<1>8. Answers!Blank(r) <=> Cards!Blank(r)
  BY <1>7 DEF Answers!Blank, Cards!Blank, Answers!Hidden, Cards!Hidden, Answers!Barred, Cards!Barred,
              Answers!LeftoverUsable, Cards!LeftoverUsable, Answers!AccessRejected, Cards!AccessRejected
<1>9. Answers!Lens(r) = Cards!Lens(r)
  BY <1>8 DEF Answers!Lens, Cards!Lens, Answers!Families, Cards!Families, Answers!Tighter, Cards!Tighter
<1>10. \A S : Answers!Least(S) = Cards!Least(S)
  BY DEF Answers!Least, Cards!Least, Answers!IsLeast, Cards!IsLeast
<1>11. {Answers!Bars(r)[w] : w \in Answers!HeroWindows(r)} = {Cards!Bars(r)[w] : w \in Cards!HeroWindows(r)}
  BY <1>1, <1>8 DEF Answers!Bars, Cards!Bars, Answers!HeroWindows, Cards!HeroWindows
<1>12. Answers!Hero(r) = Cards!Hero(r)
  BY <1>3, <1>8, <1>10, <1>11 DEF Answers!Hero, Cards!Hero, Answers!WeekBlocks, Cards!WeekBlocks
<1> QED
  BY <1>2, <1>4, <1>7, <1>8, <1>9, <1>12

\* An account that was just answered has a card that shows its windows.
CardOfAnswer(r, p, windows, limited, blocked) ==
  /\ r \in Cards!AnyRow /\ r.product = p /\ r.windows = windows /\ r.blocked = blocked
  /\ ~ Cards!Turned(r) /\ ~ Cards!ErrorHides(r) /\ (r.probe = "limited" <=> limited)
  /\ ~ Cards!Blank(r)

LEMMA AnsweredIs ==
  ASSUME NEW p \in Cards!CardProducts, NEW windows \in [Cards!WindowsOf[p] -> Cards!Percent \cup {Missing}],
         NEW limited \in BOOLEAN, NEW blocked \in BOOLEAN
  PROVE  CardOfAnswer(Answers!Answered(p, windows, limited, blocked), p, windows, limited, blocked)
<1> DEFINE r == Answers!Answered(p, windows, limited, blocked)
<1>1. /\ r \in Cards!Rows(p) /\ r.product = p /\ r.windows = windows /\ r.blocked = blocked /\ ~ r.reauth
      /\ (r.probe = "limited" <=> limited) /\ r.probe \in {"limited", "active"} /\ r.err = "none"
      /\ r.access /\ r.refresh /\ ~ r.expired /\ ~ r.banned
  BY DEF Answers!Answered, Cards!Rows
<1> HIDE DEF r
<1>2. ~ Cards!TokenUnusable(r) /\ ~ Cards!Turned(r) /\ ~ Cards!ErrorHides(r)
  BY <1>1 DEF Cards!TokenUnusable, Cards!Turned, Cards!ErrorHides
<1>3. Cards!CardStatus(r) \notin {"SUSPENDED", "BANNED", "SYNC_FAILED"}
  BY <1>1, <1>2 DEF Cards!CardStatus, Cards!CodexStatus, Cards!CursorStatus, Cards!AntigravityStatus
<1>4. ~ Cards!Blank(r)
  BY <1>1, <1>3 DEF Cards!Blank, Cards!Hidden, Cards!Barred
<1>5. r \in Cards!AnyRow
  BY <1>1 DEF Cards!AnyRow
<1>6. CardOfAnswer(r, p, windows, limited, blocked)
  BY <1>1, <1>2, <1>4, <1>5 DEF CardOfAnswer
<1> QED
  BY <1>6 DEF r

LEMMA AnsweredIsShown ==
  ASSUME NEW p \in Cards!CardProducts, NEW windows \in [Cards!WindowsOf[p] -> Cards!Percent \cup {Missing}],
         NEW limited \in BOOLEAN, NEW blocked \in BOOLEAN,
         p = "codex" /\ blocked => windows["weekly"] = 0 /\ windows["fiveHour"] = 0
  PROVE  Answers!AnswerIsShown(Answers!Answered(p, windows, limited, blocked))
<1> DEFINE r == Answers!Answered(p, windows, limited, blocked)
<1>1. /\ r \in Cards!AnyRow /\ r.product = p /\ r.windows = windows /\ r.blocked = blocked /\ ~ Cards!Blank(r)
  BY AnsweredIs DEF CardOfAnswer
<1> HIDE DEF r
<1>2. /\ {Cards!Lens(r).outer, Cards!Lens(r).inner} \subseteq Cards!Known(r) \cup {Missing}
      /\ ~ Cards!WeekBlocks(r) => Cards!Hero(r) \in Cards!Known(r) \cup {Missing}
  BY <1>1, NothingIsInvented DEF Cards!NothingInvented
<1>3. /\ {Cards!Hero(r), Cards!Lens(r).outer, Cards!Lens(r).inner} \subseteq Cards!Known(r) \cup {Missing}
      /\ Cards!Hero(r) = Cards!Least(Cards!KnownOf({Cards!Lens(r).outer, Cards!Lens(r).inner}))
  <2>1. CASE Cards!WeekBlocks(r)
    <3>1. p = "codex" /\ blocked /\ Cards!Hero(r) = 0
      BY <1>1, <2>1 DEF Cards!WeekBlocks, Cards!Hero
    <3>2. Cards!Lens(r) = [outer |-> 0, inner |-> 0]
      BY <1>1, <3>1, ShownIs
    <3>3. Missing # 0
      BY ConstantsOfCards
    <3>4. Cards!KnownOf({0}) = {0} /\ Cards!IsLeast(0, {0})
      BY <3>3 DEF Cards!KnownOf, Cards!IsLeast
    <3>5. Cards!Least(Cards!KnownOf({0})) = 0
      BY <3>4, LeastIs
    <3> QED
      BY <1>2, <3>1, <3>2, <3>5
  <2>2. CASE ~ Cards!WeekBlocks(r)
    BY <1>1, <1>2, <2>2, RingsAlwaysAgree DEF Cards!RingsAgree
  <2> QED BY <2>1, <2>2
<1>4. \A S : Answers!Least(Answers!KnownOf(S)) = Cards!Least(Cards!KnownOf(S))
  BY DEF Answers!Least, Cards!Least, Answers!IsLeast, Cards!IsLeast, Answers!KnownOf, Cards!KnownOf
<1>5. Answers!AnswerIsShown(r)
  BY <1>1, <1>3, <1>4, SameCards DEF Answers!AnswerIsShown, Answers!Visible
<1> QED
  BY <1>5 DEF r

\* A set of positions that is not empty has a first.
LEMMA FirstIs ==
  ASSUME NEW S \in SUBSET Nat, S # {}
  PROVE  Answers!Least(S) \in S /\ \A y \in S : Answers!Least(S) <= y
<1> DEFINE below == {ss \in Nat \X Nat : ss[1] < ss[2]}
<1>1. IsWellFoundedOn(below, Nat)
  BY NatLessThanWellFounded, Zenon DEF OpToRel
<1>2. \E x \in S : \A y \in S : <<y, x>> \notin below
  BY <1>1, WFMin, Zenon
<1>3. \A x, y \in S : <<y, x>> \notin below => x <= y
  OBVIOUS
<1> QED
  BY <1>2, <1>3 DEF Answers!Least, Answers!IsLeast

\* What is added behind does not change which is the first.
LEMMA FirstStays ==
  ASSUME NEW n \in Nat, NEW S \in SUBSET (1..n), S # {}, NEW T \in SUBSET Nat, T \cap (1..n) = S, 0 \notin T
  PROVE  Answers!Least(T) = Answers!Least(S)
<1>1. T # {} /\ S \subseteq T /\ S \in SUBSET Nat
  OBVIOUS
<1>2. /\ Answers!Least(S) \in S /\ \A y \in S : Answers!Least(S) <= y
      /\ Answers!Least(T) \in T /\ \A y \in T : Answers!Least(T) <= y
  BY <1>1, FirstIs
<1>3. Answers!Least(T) <= Answers!Least(S) /\ Answers!Least(S) \in 1..n /\ Answers!Least(T) \in Nat \ {0}
  BY <1>1, <1>2
<1>4. Answers!Least(T) \in S
  BY <1>2, <1>3
<1> QED
  BY <1>1, <1>2, <1>3, <1>4

\* The buckets that tell of a window, before and after a later answer.
LEMMA LaterBuckets ==
  ASSUME NEW B, NEW buckets \in Seq(B), NEW later \in Seq(B), NEW w
  PROVE  LET all == buckets \o later
             n == Len(buckets)
         IN  /\ n \in Nat /\ \A i \in 1..n : all[i] = buckets[i]
             /\ Answers!Telling(all, w) \in SUBSET Nat /\ 0 \notin Answers!Telling(all, w)
             /\ Answers!Telling(buckets, w) \in SUBSET (1..n)
             /\ Answers!Telling(all, w) \cap (1..n) = Answers!Telling(buckets, w)
             /\ Answers!Dated(all, w) \subseteq Answers!Telling(all, w)
             /\ Answers!Dated(buckets, w) \subseteq Answers!Telling(buckets, w)
             /\ Answers!Dated(all, w) \cap (1..n) = Answers!Dated(buckets, w)
<1> DEFINE all == buckets \o later
           n == Len(buckets)
<1>1. /\ n \in Nat /\ DOMAIN buckets = 1..n /\ Len(later) \in Nat
      /\ DOMAIN all = 1..(n + Len(later))
      /\ \A i \in 1..n : all[i] = buckets[i]
  BY ConcatProperties
<1> HIDE DEF all, n
<1>2. /\ Answers!Telling(all, w) \in SUBSET Nat /\ 0 \notin Answers!Telling(all, w)
      /\ Answers!Telling(buckets, w) \in SUBSET (1..n)
      /\ Answers!Telling(all, w) \cap (1..n) = Answers!Telling(buckets, w)
  BY <1>1 DEF Answers!Telling
<1>3. /\ Answers!Dated(all, w) \subseteq Answers!Telling(all, w)
      /\ Answers!Dated(buckets, w) \subseteq Answers!Telling(buckets, w)
      /\ Answers!Dated(all, w) \cap (1..n) = Answers!Dated(buckets, w)
  BY <1>1, <1>2 DEF Answers!Dated
<1> QED
  BY <1>1, <1>2, <1>3 DEF all, n

\* Whatever an earlier answer told of a window stands against every later one, for
\* lists of any buckets of any length (setFamilyWindow, mergeFamilyWindows,
\* dropImplausibleFiveHourWindow).
THEOREM LaterAnswersOnlyErase ==
  ASSUME NEW B, NEW buckets \in Seq(B), NEW later \in Seq(B)
  PROVE  Answers!LaterOnlyErases(buckets, later)
<1> DEFINE all == buckets \o later
           n == Len(buckets)
<1> SUFFICES ASSUME NEW w \in Answers!WindowsOf["antigravity"], Answers!Telling(buckets, w) # {}
             PROVE  LET before == Answers!AntigravityWindows(buckets)[w]
                        after == Answers!AntigravityWindows(all)[w]
                    IN  after = before \/ (after = Missing /\ w \in Answers!FiveHourWindows /\ Answers!Dated(buckets, w) = {})
  BY DEF Answers!LaterOnlyErases
<1>1. /\ n \in Nat /\ \A i \in 1..n : all[i] = buckets[i]
      /\ Answers!Telling(all, w) \in SUBSET Nat /\ 0 \notin Answers!Telling(all, w)
      /\ Answers!Telling(buckets, w) \in SUBSET (1..n)
      /\ Answers!Telling(all, w) \cap (1..n) = Answers!Telling(buckets, w)
      /\ Answers!Dated(all, w) \subseteq Answers!Telling(all, w)
      /\ Answers!Dated(buckets, w) \subseteq Answers!Telling(buckets, w)
      /\ Answers!Dated(all, w) \cap (1..n) = Answers!Dated(buckets, w)
  BY LaterBuckets
<1> HIDE DEF all, n
<1>2. Answers!Least(Answers!Telling(all, w)) = Answers!Least(Answers!Telling(buckets, w))
  BY <1>1, FirstStays
<1>3. /\ Answers!Least(Answers!Telling(buckets, w)) \in 1..n /\ Answers!Telling(all, w) # {}
      /\ all[Answers!Least(Answers!Telling(all, w))] = buckets[Answers!Least(Answers!Telling(buckets, w))]
  <2>1. Answers!Telling(buckets, w) \in SUBSET Nat
    BY <1>1
  <2>2. Answers!Least(Answers!Telling(buckets, w)) \in Answers!Telling(buckets, w)
    BY <2>1, FirstIs
  <2> QED
    BY <1>1, <1>2, <2>2
<1>4. CASE Answers!Dated(buckets, w) = {}
  BY <1>3, <1>4 DEF Answers!AntigravityWindows, Answers!Dropped
<1>5. CASE Answers!Dated(buckets, w) # {}
  <2>1. /\ Answers!Dated(all, w) \in SUBSET Nat /\ 0 \notin Answers!Dated(all, w)
        /\ Answers!Dated(buckets, w) \in SUBSET (1..n) /\ Answers!Dated(buckets, w) \in SUBSET Nat
    BY <1>1
  <2>2. /\ Answers!Least(Answers!Dated(all, w)) = Answers!Least(Answers!Dated(buckets, w))
        /\ Answers!Least(Answers!Dated(buckets, w)) \in Answers!Dated(buckets, w)
    BY <1>1, <1>5, <2>1, FirstStays, FirstIs
  <2>3. all[Answers!Least(Answers!Dated(all, w))] = buckets[Answers!Least(Answers!Dated(buckets, w))]
    BY <1>1, <2>1, <2>2
  <2>4. Answers!Dropped(all, w) <=> Answers!Dropped(buckets, w)
    BY <1>1, <1>5, <2>3 DEF Answers!Dropped
  <2> QED
    BY <1>3, <2>4 DEF Answers!AntigravityWindows
<1> QED
  BY <1>4, <1>5

\* No window of Codex's answer is lost or doubled, and a long one takes the short one's
\* place only beside another long one, whatever the positions and durations.
THEOREM CodexWindowsArePlaced ==
  ASSUME NEW primary \in {NoWindow} \cup Answers!CodexWindow, NEW secondary \in {NoWindow} \cup Answers!CodexWindow,
         NoWindow \notin Answers!CodexWindow, ShortSpan \in Nat \ {0}
  PROVE  Answers!CodexPlacesAll(primary, secondary)
  BY DEF Answers!CodexWindow, Answers!CodexPlacesAll, Answers!CodexSlots, Answers!Place, Answers!Preferred, Answers!Other

\* The card of every Codex answer shows the windows that were read, as they are, and 0
\* where the weekly one is used up (parseQuotaPayload, quotaHero, lensQuotaWindows).
THEOREM CodexAnswersAreShown ==
  ASSUME NEW primary \in {NoWindow} \cup Answers!CodexWindow, NEW secondary \in {NoWindow} \cup Answers!CodexWindow,
         NoWindow \notin Answers!CodexWindow, NEW limited \in BOOLEAN
  PROVE  LET slots == Answers!CodexSlots(primary, secondary)
         IN  Answers!AnswerIsShown(Answers!Answered("codex", Answers!CodexWindows(slots), limited, Answers!WeeklyBlocks(slots)))
<1> DEFINE slots == Answers!CodexSlots(primary, secondary)
           windows == Answers!CodexWindows(slots)
           blocked == Answers!WeeklyBlocks(slots)
<1>1. /\ DOMAIN slots = {"fiveHour", "weekly"}
      /\ {slots["fiveHour"], slots["weekly"]} \subseteq {NoWindow} \cup Answers!CodexWindow
  BY DEF Answers!CodexSlots, Answers!Place, Answers!Preferred, Answers!Other
<1> HIDE DEF slots
<1>2. Answers!Left(slots["fiveHour"]) \in Cards!Percent \cup {Missing} /\ Answers!Left(slots["weekly"]) \in Cards!Percent \cup {Missing}
  BY <1>1 DEF Answers!Left, Answers!CodexWindow, Answers!Percent, Cards!Percent
<1>3. windows \in [Cards!WindowsOf["codex"] -> Cards!Percent \cup {Missing}] /\ blocked \in BOOLEAN
  BY <1>2 DEF Answers!CodexWindows, Answers!WeeklyBlocks, Cards!WindowsOf, Cards!Percent
<1>4. blocked => windows["weekly"] = 0 /\ windows["fiveHour"] = 0
  BY DEF Answers!CodexWindows, Answers!WeeklyBlocks
<1> HIDE DEF windows, blocked
<1>5. Answers!AnswerIsShown(Answers!Answered("codex", windows, limited, blocked))
  BY <1>3, <1>4, AnsweredIsShown DEF Cards!CardProducts
<1> QED
  BY <1>5 DEF windows, blocked, slots

\* Cursor's share of an amount, rounded and clamped, is a percentage or nothing.
LEMMA ShareIs ==
  ASSUME NEW amount \in Nat \cup {Missing}, NEW limit \in Nat \cup {Missing}
  PROVE  Answers!Share(amount, limit) \in Cards!Percent \cup {Missing}
<1> SUFFICES ASSUME amount # Missing, limit # Missing, limit # 0
             PROVE  Answers!Share(amount, limit) \in Cards!Percent
  BY DEF Answers!Share
<1> DEFINE part == 200 * amount + limit
           whole == 2 * limit
           share == part \div whole
<1>1. part \in Nat /\ whole \in Nat \ {0}
  OBVIOUS
<1>2. share \in Nat
  <2> HIDE DEF part, whole
  <2> QED BY <1>1
<1>3. Answers!Share(amount, limit) = IF share > 100 THEN 100 ELSE share
  BY DEF Answers!Share
<1> HIDE DEF share
<1> QED
  BY <1>2, <1>3 DEF Cards!Percent

\* The card of every Cursor answer shows the windows that were read, and says that the
\* quota is used up exactly where the engine does (parseCursorUsage, usageLimited).
THEOREM CursorAnswersAreShown ==
  ASSUME NEW total \in Cards!Percent \cup {Missing}, NEW auto \in Cards!Percent \cup {Missing},
         NEW api \in Cards!Percent \cup {Missing},
         NEW amount \in Nat \cup {Missing}, NEW limit \in Nat \cup {Missing}
  PROVE  LET windows == Answers!CursorWindows(total, amount, limit, auto, api)
             limited == Answers!CursorLimited(windows)
             r == Answers!Answered("cursor", windows, limited, FALSE)
         IN  Answers!AnswerIsShown(r) /\ Answers!LimitedIsShown(r, limited)
<1> DEFINE windows == Answers!CursorWindows(total, amount, limit, auto, api)
           limited == Answers!CursorLimited(windows)
           r == Answers!Answered("cursor", windows, limited, FALSE)
<1>1. \A used \in Cards!Percent \cup {Missing} : Answers!LeftOf(used) \in Cards!Percent \cup {Missing}
  BY ConstantsOfCards DEF Answers!LeftOf, Cards!Percent
<1>2. windows \in [Cards!WindowsOf["cursor"] -> Cards!Percent \cup {Missing}]
  <2>1. (IF total = Missing THEN Answers!Share(amount, limit) ELSE total) \in Cards!Percent \cup {Missing}
    BY ShareIs
  <2> QED
    BY <1>1, <2>1 DEF Answers!CursorWindows, Cards!WindowsOf
<1>3. limited \in BOOLEAN /\ (limited <=> windows["plan"] = 0)
  BY DEF Answers!CursorLimited
<1> HIDE DEF windows, limited, r
<1>4. Answers!AnswerIsShown(r)
  BY <1>2, <1>3, AnsweredIsShown DEF Cards!CardProducts, r
<1>5. CardOfAnswer(r, "cursor", windows, limited, FALSE)
  BY <1>2, <1>3, AnsweredIs DEF Cards!CardProducts, r
<1>6. limited <=> Cards!CardStatus(r) = "EXPIRED"
  BY <1>3, <1>5 DEF CardOfAnswer, Cards!CardStatus, Cards!CursorStatus
<1>7. Answers!LimitedIsShown(r, limited)
  BY <1>6, SameCards DEF Answers!LimitedIsShown
<1> QED
  BY <1>4, <1>7 DEF windows, limited, r

\* The same of every Antigravity answer, of any number of buckets (parseAntigravityUsage,
\* usageLimited).
THEOREM AntigravityAnswersAreShown ==
  ASSUME NEW buckets \in Seq(Answers!Bucket), NEW credits \in Nat \cup {Missing}
  PROVE  LET windows == Answers!AntigravityWindows(buckets)
             limited == Answers!AntigravityLimited(windows, credits)
             r == Answers!Answered("antigravity", windows, limited, FALSE)
         IN  Answers!AnswerIsShown(r) /\ Answers!LimitedIsShown(r, limited)
<1> DEFINE windows == Answers!AntigravityWindows(buckets)
           limited == Answers!AntigravityLimited(windows, credits)
           r == Answers!Answered("antigravity", windows, limited, FALSE)
<1>1. Answers!WindowsOf = Cards!WindowsOf /\ Answers!Percent = Cards!Percent
  BY DEF Answers!WindowsOf, Cards!WindowsOf, Answers!Percent, Cards!Percent
<1>2. \A w \in Cards!WindowsOf["antigravity"] : windows[w] \in Cards!Percent \cup {Missing}
  <2> SUFFICES ASSUME NEW w \in Cards!WindowsOf["antigravity"], Answers!Telling(buckets, w) # {}
               PROVE  buckets[Answers!Least(Answers!Telling(buckets, w))].left \in Cards!Percent \cup {Missing}
    BY <1>1 DEF Answers!AntigravityWindows
  <2>1. Answers!Telling(buckets, w) \in SUBSET Nat /\ Answers!Telling(buckets, w) \subseteq DOMAIN buckets
    BY DEF Answers!Telling
  <2>2. Answers!Least(Answers!Telling(buckets, w)) \in DOMAIN buckets
    BY <2>1, FirstIs
  <2>3. buckets[Answers!Least(Answers!Telling(buckets, w))] \in Answers!Bucket
    BY <2>2
  <2> QED
    BY <1>1, <2>3 DEF Answers!Bucket
<1>3. windows \in [Cards!WindowsOf["antigravity"] -> Cards!Percent \cup {Missing}]
  BY <1>1, <1>2 DEF Answers!AntigravityWindows
<1>4. /\ limited \in BOOLEAN
      /\ LET known == Cards!KnownOf({windows[w] : w \in Cards!WindowsOf["antigravity"]})
         IN  limited <=> IF known = {} THEN credits = 0 ELSE \A x \in known : x = 0
  BY <1>1 DEF Answers!AntigravityLimited, Answers!KnownOf, Cards!KnownOf
<1> HIDE DEF windows, limited, r
<1>5. Answers!AnswerIsShown(r)
  BY <1>3, <1>4, AnsweredIsShown DEF Cards!CardProducts, r
<1>6. CardOfAnswer(r, "antigravity", windows, limited, FALSE)
  BY <1>3, <1>4, AnsweredIs DEF Cards!CardProducts, r
<1>7. Cards!Known(r) = {0} => limited
  BY <1>4, <1>6 DEF CardOfAnswer, Cards!Known
<1>8. limited <=> Cards!CardStatus(r) = "EXPIRED"
  BY <1>6, <1>7 DEF CardOfAnswer, Cards!CardStatus, Cards!AntigravityStatus
<1>9. Answers!LimitedIsShown(r, limited)
  BY <1>8, SameCards DEF Answers!LimitedIsShown
<1> QED
  BY <1>5, <1>9 DEF windows, limited, r
=============================================================================
