---------------------------- MODULE AccountCards ----------------------------
(***************************************************************************)
(* What the window makes of one account: the card's status, which of the   *)
(* last known windows it shows and in what form (bars, rings, one number), *)
(* and what it offers or asks for by itself.  Everything here is a         *)
(* function of the row the main process sends; nothing is remembered.      *)
(*                                                                         *)
(* A row: whose it is (product), what the account remembers (reauth,       *)
(* banned, probe, refused, err), its token (access, refresh, expired), its *)
(* windows in percent of what is left, whether the weekly window blocks    *)
(* the other (blocked), when it was last known (updated) and whether it    *)
(* waits for its next try (waits).  refused: the last probe was turned     *)
(* down with 401 or 403 and the code of a dead token.  err: the last       *)
(* refresh left no error, a passing one, one that says the quota is used   *)
(* up, or another.                                                         *)
(***************************************************************************)
EXTENDS Integers, FiniteSets

CONSTANTS Missing,       \* a window nothing is known of
          LowQuota,      \* LOW_QUOTA_PERCENT
          WeeklyWarning  \* WEEKLY_WARNING_PERCENT

ASSUME CardsAssumption == {LowQuota, WeeklyWarning} \subseteq 0..99 /\ Missing \notin Int

CardProducts == {"codex", "cursor", "antigravity"}
Percent == 0..100
WindowsOf == [codex |-> {"fiveHour", "weekly"},
              cursor |-> {"plan", "auto", "api"},
              antigravity |-> {"geminiFiveHour", "geminiWeekly", "thirdFiveHour", "thirdWeekly"}]

Rows(p) == [product : {p}, reauth : BOOLEAN, banned : BOOLEAN,
            probe : {"none", "active", "banned", "invalid", "limited", "failed"}, refused : BOOLEAN,
            err : {"none", "passing", "limit", "other"}, access : BOOLEAN, refresh : BOOLEAN, expired : BOOLEAN,
            windows : [WindowsOf[p] -> Percent \cup {Missing}], blocked : BOOLEAN,
            updated : {"never", "lately", "longAgo"}, waits : BOOLEAN]
AnyRow == UNION {Rows(p) : p \in CardProducts}

IsLeast(x, S) == x \in S /\ \A y \in S : x <= y
Least(S) == IF S = {} THEN Missing ELSE CHOOSE x \in S : IsLeast(x, S)
KnownOf(S) == S \ {Missing}
Known(r) == KnownOf({r.windows[w] : w \in WindowsOf[r.product]})
Low(x, limit) == x # Missing /\ x <= limit
-----------------------------------------------------------------------------
(* The status                                                              *)

TokenUnusable(r) == (r.expired \/ ~ r.access) /\ ~ r.refresh

\* Mutant: any error hides the windows.
ErrorHidesAlways(r) == r.err # "none"
\* An error hides the windows unless it passes and there is something to show.
ErrorHides(r) == r.err # "none" /\ (r.err # "passing" \/ Known(r) = {})

\* Codex reads the code that says the quota is used up from the probe and from the error.
CodexStatus(r) ==
  IF r.banned \/ r.probe = "banned" THEN "BANNED"
  ELSE IF r.reauth \/ TokenUnusable(r) THEN "SUSPENDED"
  ELSE IF r.probe = "limited" \/ r.err = "limit" THEN "LIMITED"
  ELSE IF ErrorHides(r) THEN "SYNC_FAILED"
  ELSE IF 0 \in Known(r) THEN "EXPIRED"
  ELSE IF Low(r.windows["fiveHour"], LowQuota) THEN "LOW_QUOTA"
  ELSE IF Low(r.windows["weekly"], WeeklyWarning) THEN "WARNING"
  ELSE IF r.updated = "never" THEN "READY" ELSE "ACTIVE"

Turned(r) == r.reauth \/ r.probe \in {"invalid", "banned"} \/ TokenUnusable(r)

CursorStatus(r) ==
  IF Turned(r) THEN "SUSPENDED"
  ELSE IF ErrorHides(r) THEN "SYNC_FAILED"
  ELSE IF r.probe = "limited" \/ r.windows["plan"] = 0 THEN "EXPIRED"
  ELSE IF Low(r.windows["plan"], LowQuota) THEN "LOW_QUOTA"
  ELSE IF Low(r.windows["auto"], LowQuota) \/ Low(r.windows["api"], LowQuota) THEN "WARNING"
  ELSE IF r.updated = "never" THEN "READY" ELSE "ACTIVE"

AntigravityStatus(r) ==
  IF Turned(r) THEN "SUSPENDED"
  ELSE IF ErrorHides(r) THEN "SYNC_FAILED"
  ELSE IF r.probe = "limited" \/ Known(r) = {0} THEN "EXPIRED"
  ELSE IF 0 \in Known(r) THEN "WARNING"
  ELSE IF \E x \in Known(r) : x <= LowQuota THEN "LOW_QUOTA"
  ELSE IF r.updated = "never" THEN "READY" ELSE "ACTIVE"

CardStatus(r) == IF r.product = "codex" THEN CodexStatus(r)
             ELSE IF r.product = "cursor" THEN CursorStatus(r) ELSE AntigravityStatus(r)

\* statusTextForAccount: a Cursor or Antigravity card that runs low is still called
\* normal, and has the dot of an active one (statusDotForAccount).
StatusText(r) ==
  LET status == CardStatus(r)
  IN  IF r.product = "codex" \/ status \in {"SUSPENDED", "EXPIRED", "READY"} THEN status
      ELSE IF status = "SYNC_FAILED" THEN "UNKNOWN" ELSE "ACTIVE"
-----------------------------------------------------------------------------
(* What may still be done with the token that is left                      *)

Barred(r) == CardStatus(r) \in {"SUSPENDED", "BANNED"}
AccessRejected(r) == r.probe # "banned" /\ r.refused
LeftoverUsable(r) == r.access /\ ~ r.expired /\ ~ AccessRejected(r)

CanRefreshQuota(r) == IF Barred(r) THEN LeftoverUsable(r) ELSE ~ TokenUnusable(r)
CanSwitch(r) == ~ Barred(r) /\ r.access
NeedsHandling(r) == CardStatus(r) \in {"SUSPENDED", "SYNC_FAILED"}

\* The words under the card's token: run out, turned down, or how long it lasts.
TokenValidity(r) ==
  IF r.expired THEN "expired"
  ELSE IF r.access /\ ~ LeftoverUsable(r) /\ (r.reauth \/ (r.product = "codex" /\ Barred(r))) THEN "rejected" ELSE "lasts"
TokenNeedsAttention(r) == Barred(r) \/ TokenValidity(r) # "lasts"

\* The window's automatic sync asks for an account that may be refreshed, does not
\* wait, and has nothing recent; a leftover login that told something is left alone.
NeedsAutoSync(r) ==
  /\ CanRefreshQuota(r) /\ ~ r.waits
  /\ \/ r.updated \in {"never", "longAgo"}
     \/ r.err # "none" /\ ~ (LeftoverUsable(r) /\ Barred(r))
-----------------------------------------------------------------------------
(* What is shown                                                           *)

Hidden(r) == \/ r.product = "antigravity" /\ r.expired /\ ~ LeftoverUsable(r)
             \/ Barred(r) /\ ~ LeftoverUsable(r)
Blank(r) == Hidden(r) \/ CardStatus(r) = "SYNC_FAILED"

\* quotaBarsForAccount
Bars(r) == [w \in WindowsOf[r.product] |-> IF Blank(r) THEN Missing ELSE r.windows[w]]
\* accountHasVisibleQuota: credits count as well, but are no window.
Visible(r, credits) == Known(r) # {} \/ (r.product = "antigravity" /\ credits)

\* antigravityQuotaFamilies
Families == [gemini |-> [weekly |-> "geminiWeekly", fiveHour |-> "geminiFiveHour"],
             third |-> [weekly |-> "thirdWeekly", fiveHour |-> "thirdFiveHour"]]

\* tighterWindow
Tighter(weekly, fiveHour) ==
  IF weekly = Missing THEN fiveHour
  ELSE IF fiveHour = Missing \/ weekly < fiveHour THEN weekly ELSE fiveHour

\* lensQuotaWindows: the two rings of the float window.
Lens(r) ==
  IF Blank(r) THEN [outer |-> Missing, inner |-> Missing]
  ELSE IF r.product = "codex" THEN [outer |-> r.windows["weekly"], inner |-> r.windows["fiveHour"]]
  ELSE IF r.product = "cursor" THEN [outer |-> r.windows["auto"], inner |-> r.windows["api"]]
  ELSE [outer |-> Tighter(r.windows[Families.gemini.weekly], r.windows[Families.gemini.fiveHour]),
        inner |-> Tighter(r.windows[Families.third.weekly], r.windows[Families.third.fiveHour])]

\* quotaHero: the one number of the card.
HeroWindows(r) == IF r.product = "cursor" THEN {"auto", "api"} ELSE WindowsOf[r.product]
WeekBlocks(r) == r.product = "codex" /\ r.blocked /\ r.windows["weekly"] \in {0, Missing}
Hero(r) ==
  IF Blank(r) THEN Missing
  ELSE IF WeekBlocks(r) THEN 0
  ELSE Least(KnownOf({Bars(r)[w] : w \in HeroWindows(r)}))

\* quotaWindowSummary: one of Codex's windows in words.
Summary(r, w) ==
  IF Hidden(r) THEN (IF CardStatus(r) = "BANNED" /\ r.product = "codex" THEN "banned" ELSE "signIn")
  ELSE IF CardStatus(r) = "LIMITED" THEN "limited"
  ELSE IF CardStatus(r) = "SYNC_FAILED" THEN "failed"
  ELSE IF w = "fiveHour" /\ r.blocked THEN "weekUsed"
  ELSE IF r.windows[w] = Missing THEN (IF r.err # "none" THEN "failed" ELSE "noSuch")
  ELSE IF r.windows[w] = 0 THEN "used" ELSE "percent"

\* averageRemainingCaption: over the windows that are not used up, of the accounts
\* that are not; the number itself is left out.
Counted(r) == ~ Blank(r) /\ CardStatus(r) \notin {"EXPIRED", "LIMITED"}
CountedWindows(rows) == UNION {KnownOf({r.windows[w] : w \in WindowsOf[r.product]}) : r \in {q \in rows : Counted(q)}}
AverageCaption(rows) ==
  IF CountedWindows(rows) \ {0} # {} THEN "percent" ELSE IF 0 \in CountedWindows(rows) THEN "used" ELSE "none"

\* pickStartupFloatProduct: current tells of which products some account is current.
PickFloatProduct(preferred, current) ==
  IF preferred \in current THEN {preferred}
  ELSE IF "codex" \in current THEN {"codex"}
  ELSE IF "cursor" \in current THEN {"cursor"} ELSE current \cap {"antigravity"}
-----------------------------------------------------------------------------
(* What every row keeps to                                                 *)

\* The card and the float window agree: the one number is the smaller ring, also
\* for Antigravity, whose rings are the tighter window of two families each.  Only
\* Codex's weekly window, when it is used up, overrules the other ring.
RingsAgree(r) == ~ WeekBlocks(r) => Hero(r) = Least(KnownOf({Lens(r).outer, Lens(r).inner}))

\* Nothing is made up: a number that is shown is that of a window the engine told,
\* and what is missing is never shown as zero ("Missing windows stay unknown; they
\* are not converted to zero", docs/architecture.md:169).
NothingInvented(r) ==
  /\ \A w \in WindowsOf[r.product] : Bars(r)[w] \in {Missing, r.windows[w]}
  /\ {Lens(r).outer, Lens(r).inner} \subseteq Known(r) \cup {Missing}
  /\ ~ WeekBlocks(r) => Hero(r) \in Known(r) \cup {Missing}

\* A card whose number is zero says in words that all is well (statusTextForAccount)
\* only where something may be left: a Cursor plan that is not known to be used up, another
\* window of Antigravity's, or Codex's weekly window, blocked and not told.  It
\* is never called ready.
ZeroIsSaid(r) ==
  Hero(r) = 0 =>
    /\ StatusText(r) = "ACTIVE" =>
         \/ r.product = "cursor" /\ r.windows["plan"] # 0
         \/ r.product = "antigravity" /\ Known(r) # {0}
         \/ r.product = "codex" /\ r.windows["weekly"] = Missing /\ r.blocked
    /\ ~ WeekBlocks(r) => StatusText(r) # "READY"

\* A card that shows windows, which may be old, can be refreshed: it hides them for
\* want of a token exactly where no request could be made.
ShownIsRefreshable(r) == ~ Hidden(r) => CanRefreshQuota(r)
=============================================================================
