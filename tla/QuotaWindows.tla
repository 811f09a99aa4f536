---------------------------- MODULE QuotaWindows ----------------------------
(***************************************************************************)
(* What the engine reads out of the servers' answers: which window is      *)
(* which, what is left of it, and whether the quota is used up - and,      *)
(* through AccountCards, what a card then shows.                           *)
(*                                                                         *)
(* Codex sends up to two windows in named positions that do not say which  *)
(* is the weekly one.  Cursor sends the share used of a plan and its two   *)
(* parts.  Antigravity answers in several shapes at once, each a list of   *)
(* buckets of which many may speak of the same window.                     *)
(*                                                                         *)
(* Finding the numbers in the JSON is left out: a number is already what   *)
(* is left, or used, in percent, and a bucket's name its window.           *)
(***************************************************************************)
EXTENDS AccountCards, Sequences

CONSTANTS NoWindow,   \* a position of Codex's answer that holds no window
          ShortSpan   \* HOURLY_WINDOW_MAX_SECONDS

LeftOf(used) == IF used = Missing THEN Missing ELSE 100 - used
-----------------------------------------------------------------------------
(* Codex: a window is [left, span]; a span of 0 was not told.              *)

CodexWindow == [left : Percent \cup {Missing}, span : Nat]

ASSUME WindowsAssumption == ShortSpan \in Nat \ {0} /\ NoWindow \notin CodexWindow

Preferred(win, position) ==
  IF win.span = 0 THEN position ELSE IF win.span <= ShortSpan THEN "fiveHour" ELSE "weekly"
Other(slot) == IF slot = "weekly" THEN "fiveHour" ELSE "weekly"
Place(slots, win, position) ==
  IF win = NoWindow THEN slots
  ELSE LET slot == Preferred(win, position)
       IN  [slots EXCEPT ![IF slots[slot] = NoWindow THEN slot ELSE Other(slot)] = win]

\* classifyRateLimitWindows
CodexSlots(primary, secondary) ==
  Place(Place([fiveHour |-> NoWindow, weekly |-> NoWindow], primary, "fiveHour"), secondary, "weekly")

\* parseQuotaPayload: the weekly window, used up, takes what is left of the other.
Left(win) == IF win = NoWindow THEN Missing ELSE win.left
WeeklyBlocks(slots) == Left(slots["weekly"]) = 0 /\ Left(slots["fiveHour"]) # Missing
CodexWindows(slots) ==
  [fiveHour |-> IF WeeklyBlocks(slots) THEN 0 ELSE Left(slots["fiveHour"]), weekly |-> Left(slots["weekly"])]
-----------------------------------------------------------------------------
(* Cursor: the share of each part that is used; the plan's may have to be  *)
(* worked out from an amount and a limit.                                  *)

\* usedFromLimit, rounded and clamped.
Share(amount, limit) ==
  IF Missing \in {amount, limit} \/ limit = 0 THEN Missing
  ELSE LET share == (200 * amount + limit) \div (2 * limit) IN IF share > 100 THEN 100 ELSE share
CursorWindows(total, amount, limit, auto, api) ==
  [plan |-> LeftOf(IF total = Missing THEN Share(amount, limit) ELSE total), auto |-> LeftOf(auto), api |-> LeftOf(api)]
CursorLimited(windows) == windows["plan"] = 0
-----------------------------------------------------------------------------
(* Antigravity: a bucket is [window, left, reset, disabled], its reset      *)
(* "none", "soon", "late" (over five hours ahead, with some slack) or      *)
(* "unreadable".  An answer has groups of buckets, buckets, and models.    *)

\* What a bucket may be: many have a name that stands for no window.
Bucket == [window : WindowsOf["antigravity"] \cup {"other"}, left : Percent \cup {Missing},
           reset : {"none", "soon", "late", "unreadable"}, disabled : BOOLEAN]

\* familyWindowsFromSummary, familyWindowsFromQuotaBuckets, familyWindowsFromModels: in
\* the order parseAntigravityUsage merges them.
Enabled(list) == SelectSeq(list, LAMBDA b : ~ b.disabled)
AllBuckets(summary, models) ==
  Enabled(summary.groups) \o Enabled(models.groups) \o Enabled(models.buckets) \o Enabled(summary.buckets) \o models.list

\* setFamilyWindow, mergeFamilyWindows: what is left and when it ends are each taken
\* from the first that tells them.
Telling(buckets, w) == {i \in DOMAIN buckets : buckets[i].window = w /\ buckets[i].left # Missing}
Dated(buckets, w) == {i \in Telling(buckets, w) : buckets[i].reset # "none"}

\* dropImplausibleFiveHourWindow: a five-hour window that ends later than that is none.
FiveHourWindows == {f.fiveHour : f \in {Families.gemini, Families.third}}
Dropped(buckets, w) ==
  w \in FiveHourWindows /\ Dated(buckets, w) # {} /\ buckets[Least(Dated(buckets, w))].reset = "late"

AntigravityWindows(buckets) ==
  [w \in WindowsOf["antigravity"] |->
     IF Telling(buckets, w) = {} \/ Dropped(buckets, w) THEN Missing ELSE buckets[Least(Telling(buckets, w))].left]

\* usageLimited: all that is known is used up; the credits count where nothing is.
AntigravityLimited(windows, credits) ==
  LET known == KnownOf({windows[w] : w \in WindowsOf["antigravity"]})
  IN  IF known = {} THEN credits = 0 ELSE \A x \in known : x = 0

\* antigravityQuotaHasWindows, cursorQuotaHasWindows, codexQuotaHasWindows: an answer
\* without any is a failed refresh; more stands for credits, or a plan without limits.
HasWindows(product, windows, more) ==
  KnownOf({windows[w] : w \in WindowsOf[product]}) # {} \/ (product # "codex" /\ more)
-----------------------------------------------------------------------------
(* What the answers come to                                                *)

\* The row of an account that was answered just now.
Answered(product, windows, limited, blocked) ==
  [product |-> product, reauth |-> FALSE, banned |-> FALSE, probe |-> IF limited THEN "limited" ELSE "active",
   refused |-> FALSE, err |-> "none", access |-> TRUE, refresh |-> TRUE, expired |-> FALSE, windows |-> windows,
   blocked |-> blocked, updated |-> "lately", waits |-> FALSE]

\* No window of Codex is lost or shown twice, whichever position it comes in, and one
\* longer than a day is in the shorter one's place only when the other is as well
\* (quota.js:168, "classified by their duration rather than their position").
CodexPlacesAll(primary, secondary) ==
  LET slots == CodexSlots(primary, secondary)
      short == slots["fiveHour"]
      long == slots["weekly"]
  IN  /\ {short, long} \ {NoWindow} = {primary, secondary} \ {NoWindow}
      /\ NoWindow \in {short, long} <=> NoWindow \in {primary, secondary}
      /\ short # NoWindow /\ short.span > ShortSpan => long # NoWindow /\ long.span > ShortSpan

\* What the card of an answer that has windows shows: its numbers are ones the engine
\* read, Codex's blocked window included, and its one number is the smaller ring.
AnswerIsShown(r) ==
  Known(r) # {} => /\ ~ Blank(r) /\ Visible(r, FALSE)
                   /\ {Hero(r), Lens(r).outer, Lens(r).inner} \subseteq Known(r) \cup {Missing}
                   /\ Hero(r) = Least(KnownOf({Lens(r).outer, Lens(r).inner}))

\* The engine and the window, which decide it from different data, agree on whether a
\* Cursor or Antigravity account is used up.
LimitedIsShown(r, limited) == limited <=> CardStatus(r) = "EXPIRED"

\* An answer that comes in later never changes a window an earlier one told; it can
\* only make a five-hour window implausible that was not dated before.
LaterOnlyErases(buckets, later) ==
  \A w \in WindowsOf["antigravity"] :
    Telling(buckets, w) # {} =>
      LET before == AntigravityWindows(buckets)[w]
          after == AntigravityWindows(buckets \o later)[w]
      IN  after = before \/ (after = Missing /\ w \in FiveHourWindows /\ Dated(buckets, w) = {})
=============================================================================
