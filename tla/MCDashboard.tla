---------------------------- MODULE MCDashboard ----------------------------
(***************************************************************************)
(* A behaviour has one of these budgets: what a budget leaves out cannot   *)
(* happen, so the topics are taken two or three at a time.                 *)
(***************************************************************************)
EXTENDS Dashboard, QuotaWindows

Nothing == [start |-> "settled", asks |-> Accounts \X Kinds, targets |-> BOOLEAN, orders |-> Orders,
            clicks |-> 0, passes |-> 0, saves |-> 0, flows |-> 0, cancels |-> 0, syncs |-> 0, faults |-> 0,
            breaks |-> 0, jobs |-> 0, manuals |-> 0]
NotCurrent == Accounts \ {Current}
MCBudgets == {[Nothing EXCEPT !.clicks = 2, !.breaks = 1],
              [Nothing EXCEPT !.clicks = 3, !.asks = NotCurrent \X {"refresh"}],
              [Nothing EXCEPT !.passes = 2, !.clicks = 1],
              [Nothing EXCEPT !.start = "fresh", !.saves = 3],
              [Nothing EXCEPT !.start = "fresh", !.syncs = 1, !.faults = 1],
              [Nothing EXCEPT !.clicks = 1, !.asks = NotCurrent \X {"switch"}, !.syncs = 1],
              [Nothing EXCEPT !.clicks = 1, !.faults = 1, !.breaks = 1],
              [Nothing EXCEPT !.flows = 1, !.targets = {TRUE}, !.passes = 1],
              [Nothing EXCEPT !.start = "open", !.cancels = 1, !.clicks = 1, !.asks = NotCurrent \X {"switch"}],
              [Nothing EXCEPT !.start = "open", !.cancels = 1, !.passes = 1, !.breaks = 1],
              [Nothing EXCEPT !.flows = 1, !.targets = {FALSE}, !.clicks = 1, !.asks = NotCurrent \X {"delete"}],
              [Nothing EXCEPT !.flows = 1, !.targets = {FALSE}, !.saves = 1],
              [Nothing EXCEPT !.start = "restored", !.cancels = 1, !.breaks = 1],
              [Nothing EXCEPT !.start = "open", !.clicks = 1, !.asks = Accounts \X {"switch"}, !.breaks = 1],
              [Nothing EXCEPT !.start = "open", !.flows = 1, !.targets = {FALSE}, !.cancels = 1],
              [Nothing EXCEPT !.jobs = 1, !.orders = {"resolve", "verify"}, !.clicks = 1, !.asks = NotCurrent \X {"switch"}, !.breaks = 1],
              [Nothing EXCEPT !.jobs = 1, !.clicks = 1, !.asks = NotCurrent \X {"delete"}],
              [Nothing EXCEPT !.jobs = 1, !.passes = 1],
              [Nothing EXCEPT !.jobs = 1, !.faults = 1, !.breaks = 1],
              [Nothing EXCEPT !.flows = 1, !.manuals = 1, !.breaks = 1],
              [Nothing EXCEPT !.flows = 1, !.faults = 1, !.breaks = 1],
              [Nothing EXCEPT !.start = "open", !.manuals = 1, !.passes = 1]}

\* The cards, for windows at and about each limit.
MCPercents == {0, LowQuota, WeeklyWarning + 1, Missing}
MCCards(p) == {r \in [product : {p}, reauth : BOOLEAN, banned : {FALSE}, probe : {"none", "invalid", "limited"}, refused : BOOLEAN,
                       err : {"none", "passing", "other"}, access : BOOLEAN, refresh : BOOLEAN, expired : BOOLEAN,
                       windows : [WindowsOf[p] -> MCPercents], blocked : BOOLEAN, updated : {"never", "lately"}, waits : {FALSE}] :
                 r.access \/ r.expired}
ASSUME CardsHold == \A p \in CardProducts : \A r \in MCCards(p) :
                      RingsAgree(r) /\ NothingInvented(r) /\ ZeroIsSaid(r) /\ ShownIsRefreshable(r)

\* The answers: Codex's of two windows, Cursor's, and Antigravity's of up to three
\* buckets, or of one five-hour window in two answers.
MCLeft == {0, 40, Missing}
MCWindows == {NoWindow} \cup [left : MCLeft, span : {0, ShortSpan, ShortSpan + 1}]
MCUsed == {0, 60, 100, Missing}
MCBuckets == [window : {"geminiFiveHour", "geminiWeekly", "thirdWeekly"}, left : {0, 40}, reset : {"none", "late"}, disabled : {FALSE}]
MCLists == UNION {[1..n -> MCBuckets] : n \in 0..2}
MCFew(B) == {<<>>} \cup {<<b>> : b \in B}
MCFiveHour == [window : {"geminiFiveHour"}, left : {0, 40}, reset : {"none", "soon", "late"}, disabled : BOOLEAN]
ASSUME CodexAnswersHold ==
  \A primary, secondary \in MCWindows :
    LET slots == CodexSlots(primary, secondary) IN
    /\ CodexPlacesAll(primary, secondary)
    /\ AnswerIsShown(Answered("codex", CodexWindows(slots), FALSE, WeeklyBlocks(slots)))
ASSUME CursorAnswersHold ==
  \A total, inAuto, inApi \in MCUsed, amount \in {0, 199, 200, Missing}, limit \in {0, 200, Missing} :
    LET windows == CursorWindows(total, amount, limit, inAuto, inApi)
        row == Answered("cursor", windows, CursorLimited(windows), FALSE)
    IN  AnswerIsShown(row) /\ LimitedIsShown(row, CursorLimited(windows))
ASSUME AntigravityAnswersHold ==
  \A buckets \in MCLists, credits \in {0, 40, Missing} :
    LET windows == AntigravityWindows(buckets)
        limited == AntigravityLimited(windows, credits)
        row == Answered("antigravity", windows, limited, FALSE)
    IN  /\ AnswerIsShown(row) /\ LimitedIsShown(row, limited)
        /\ \A later \in MCBuckets : LaterOnlyErases(buckets, <<later>>)
ASSUME SummaryStands ==
  \A first, second, third \in MCFew(MCFiveHour), last \in MCFew({b \in MCFiveHour : ~ b.disabled}) :
    LET summary == [groups |-> first, buckets |-> second]
        models == [groups |-> <<>>, buckets |-> third, list |-> last]
        all == AllBuckets(summary, models)
        told == Len(Enabled(first))
    IN  LaterOnlyErases(SubSeq(all, 1, told), SubSeq(all, told + 1, Len(all)))
=============================================================================
