----------------------------- MODULE Dashboard -----------------------------
(***************************************************************************)
(* The window and the engine behind it.  The engine's accounts, its        *)
(* current account, its configuration, its verdict on the official login   *)
(* and its browser login change for reasons of their own; the window shows *)
(* copies, which it brings up to date by loading a whole snapshot, and     *)
(* sometimes ahead of it, from an event or an answer.                      *)
(*                                                                         *)
(* The main process answers and tells in order (wire).  What the window    *)
(* asks it takes in order too, at once as far as a handler runs before its *)
(* first await: the step that asks takes that part of the handler with it, *)
(* which commutes with all that may happen before the request arrives.     *)
(* A handler that waits, for a lock or a server, is a step of its own.     *)
(* All that follows from a message without another wait is one step.       *)
(*                                                                         *)
(* The accounts and their quotas are the number of their last change.  One *)
(* product is modelled: the others have the same code and share the loads. *)
(***************************************************************************)
EXTENDS Naturals, FiniteSets, Sequences, SequencesExt

CONSTANTS Accounts, Intervals,
          SignsIn,   \* the accounts the user signs in as in the browser
          Default,   \* DEFAULT_SYNC_INTERVAL_MINUTES
          Current, Interval,   \* the current account and the interval at the start
          None,      \* no account
          Budgets,   \* bound: what may happen in a behaviour, one of these
          MaxLoads,  \* bound: loads in flight
          MaxBehind, \* bound: loads and messages in flight when something new comes up
          MaxPolls,  \* bound: polls in flight
          MaxStale   \* bound: accounts one automatic sync refreshes

Kinds == {"refresh", "token", "switch", "delete"}   \* what the user asks of one account
Orders == {"all", "verify", "resolve", "import"}    \* and of all of them, or of the official login

ASSUME ConstantsAssumption ==
  /\ None \notin Accounts /\ SignsIn \subseteq Accounts /\ Current \in Accounts \cup {None} /\ {Default, Interval} \subseteq Intervals
  /\ Budgets \subseteq [start : {"fresh", "restored", "settled", "open"}, asks : SUBSET (Accounts \X Kinds),
                        targets : SUBSET BOOLEAN, orders : SUBSET Orders, clicks : Nat, passes : Nat, saves : Nat,
                        flows : Nat, cancels : Nat, syncs : Nat, faults : Nat, breaks : Nat, jobs : Nat, manuals : Nat]
  /\ {MaxLoads, MaxBehind, MaxPolls, MaxStale} \subseteq Nat \ {0}

VARIABLES eng,    \* the main process: accounts, current, interval, verdict, login, daemon
          op,     \* the operation in flight on each account
          job,    \* the operation in flight that is not about one account, at most one
          wire,   \* messages from the main process to the window
          loads,  \* the loads in flight (LoadSequence)
          done,   \* how the newest load ended: "none" while it is in flight
          win,    \* what the window shows, and its refs and timers
          saves,  \* ConfigSaveQueue: the intervals being saved
          auto,   \* the automatic sync (quotaAutoSyncPromise)
          left    \* the budget that is left

vars == <<eng, op, job, wire, loads, done, win, saves, auto, left>>

Unknown == 0   \* the verdict of an inspection that found the lock busy
NotAsked == [st |-> "idle", who |-> None, badge |-> None, auth |-> Unknown]
Pending(l) == l.st = "pending"
Outcome(st) == [NotAsked EXCEPT !.st = st]

\* The switch that holds __switch__, and the login that is being written.
NoSwitch == [by |-> "no", st |-> "no", who |-> None, was |-> None, auth |-> Unknown]
NoChain == [on |-> FALSE, who |-> None, mine |-> FALSE]

Then(k) == [k |-> k, login |-> NotAsked]   \* what follows a load
Free == [st |-> "free", auth |-> Unknown, cur |-> FALSE, latest |-> FALSE, conts |-> <<>>]
Slots == 1..MaxLoads
NoLoads == [s \in Slots |-> Free]
\* Nothing new comes up while the window is MaxBehind loads and other messages behind.
Behind == Cardinality({s \in Slots : loads[s].st \in {"asked", "inspected"}}) + Len(wire) + IF win.patch THEN 1 ELSE 0
Spend(b) == /\ left[b] > 0 /\ Behind < MaxBehind
            /\ left' = [left EXCEPT ![b] = @ - 1]
Breaks == left.breaks > 0 /\ left' = [left EXCEPT !.breaks = @ - 1]   \* a switch or a login does
-----------------------------------------------------------------------------
(* LoadSequence and what its callers do with a load                        *)

FreeSlots(ls) == {s \in Slots : ls[s].st = "free"}
Room == FreeSlots(loads) # {}

\* begin and track: the load is the current one and the latest.
Begun(ls, cont) ==
  LET s == CHOOSE i \in FreeSlots(ls) : \A j \in FreeSlots(ls) : i <= j
  IN  [i \in Slots |-> IF i = s THEN [Free EXCEPT !.st = "asked", !.cur = TRUE, !.latest = TRUE, !.conts = <<cont>>]
                       ELSE [ls[i] EXCEPT !.cur = FALSE, !.latest = FALSE]]
Begin(cont) == /\ Room
               /\ loads' = Begun(loads, cont)
               /\ done' = "none"
Invalidated(ls) == [i \in Slots |-> [ls[i] EXCEPT !.cur = FALSE]]

\* A result for the loads that ended, or the caller now waits for the latest.
Waits(s, good) == ~ good /\ ~ loads[s].latest /\ done = "none"
Settled(s, good) ==
  [i \in Slots |-> IF i = s THEN Free
                   ELSE IF Waits(s, good) /\ loads[i].latest
                        THEN [loads[i] EXCEPT !.conts = @ \o loads[s].conts]
                        ELSE loads[i]]
Result(s, good) == good \/ (~ loads[s].latest /\ done = "good")
Woken(s, good) == IF Waits(s, good) THEN <<>> ELSE loads[s].conts

Has(conts, k) == \E i \in DOMAIN conts : conts[i].k = k

\* queueQuotaAutoSync: one at a time, and only when some account is stale.
Syncs(k) == k \in {"sync", "first", "add", "adderr", "readd", "readderr"}
SyncMayStart(conts) ==
  \E i \in DOMAIN conts : /\ Syncs(conts[i].k)
                          /\ auto.st = "off" \/ \E j \in 1..(i - 1) : conts[j].k = "synced"
NoJob == [k |-> "no", todo |-> 0]
Job(k) == [NoJob EXCEPT !.k = k]
JobReply(kind, ok, auth) == [k |-> "job", kind |-> kind, ok |-> ok, auth |-> auth]
NoSync == [st |-> "off", left |-> 0]
Started(n) == [st |-> "asking", left |-> n]
QueueAutoSync(may, ends) ==
  \/ /\ may /\ left.syncs > 0
     /\ \E n \in 1..MaxStale : auto' = Started(n)
     /\ left' = [left EXCEPT !.syncs = @ - 1]
  \/ /\ auto' = IF ends THEN NoSync ELSE auto
     /\ left' = left

\* The elements of q at the positions in S, in order.
Only(q, S) ==
  LET kept[i \in 0..Len(q)] == IF i = 0 THEN <<>>
                               ELSE IF i \in S THEN Append(kept[i - 1], q[i])
                               ELSE kept[i - 1]
  IN  kept[Len(q)]

\* planOAuthFinish and reportOAuthFinished
Ended(l) == l.st \notin {"idle", "pending"}
Badged(w, a) == IF a = None THEN w ELSE [w EXCEPT !.cur = a]
ShowAuth(w, a) == IF a = Unknown THEN w ELSE [w EXCEPT !.auth = a]
Report(w, l) ==
  IF ~ Ended(l) \/ w.report = l THEN w
  ELSE [ShowAuth(Badged(w, l.badge), l.auth) EXCEPT !.report = l, !.ahead = @ \/ l.badge # None]
\* The outcome read after a call that failed is reported only if it is this flow's.
OfThisFlow(l) == Ended(l) /\ l.st # "completed"
\* What a caller of the load reports: what it polled, and a re-authorisation what the
\* snapshot it got has told, or else what it was answered, unless the user moved on.
Announces(c, told, got, same) ==
  CASE c.k = "poll" -> c.login
    [] c.k = "readd" /\ same -> IF got THEN told ELSE c.login
    [] c.k = "readderr" /\ same /\ got /\ OfThisFlow(told) -> told
    [] OTHER -> NotAsked
ReportAll(w, conts, got, same) ==
  LET after[i \in 0..Len(conts)] == IF i = 0 THEN w
                                    ELSE Report(after[i - 1], Announces(conts[i], w.told, got, same))
  IN  after[Len(conts)]

\* An addition reads the status once more, unless the user moved on.
Status(for, l) == [k |-> "status", for |-> for, login |-> l]
AsksStatus(conts, same) ==
  LET asking == Only(conts, {i \in DOMAIN conts : same /\ conts[i].k \in {"add", "adderr"}})
  IN  [i \in 1..Len(asking) |-> Status(asking[i].k, eng.login)]

\* A poll whose effect was cleaned up does nothing when it is answered.
IsPoll(m) == m.k = "status" /\ m.for = "poll"
Disposed(q, login) == IF Pending(login) THEN q ELSE Only(q, {i \in DOMAIN q : ~ IsPoll(q[i])})
-----------------------------------------------------------------------------
(* The main process                                                        *)

Tell(q) == wire' = wire \o q
Event(a) == [k |-> "event", cur |-> a]

\* A change the window will be told of (due), and one that nothing tells; hush is the
\* last that moved the current account and of which nobody has been told.
Changed(e) == [e EXCEPT !.rev = @ + 1, !.due = e.rev + 1]
Untold(e) == [e EXCEPT !.rev = @ + 1]
Hushed(e) == [Untold(e) EXCEPT !.hush = e.rev + 1, !.auth = @ + 1]

\* doSwitch, for account:switch, for account:reapplyManaged and after a login: it writes
\* the login and the index and reads the verdict, then starts the client; when one of
\* these fails it puts back what was there, as far as it can.
Wants(by, a) == \/ by = "op" /\ op[a] = "switch"
                \/ by = "job" /\ job.k = "resolve"
                \/ by = "login" /\ eng.chain.on /\ eng.chain.who = a
SwitchWrites ==
  /\ eng.tx = NoSwitch
  /\ \E by \in {"op", "job", "login"}, a \in Accounts :
       /\ Wants(by, a)
       /\ eng' = [Hushed(eng) EXCEPT !.cur = a, !.tx = [by |-> by, st |-> "written", who |-> a, was |-> eng.cur, auth |-> eng.auth + 1]]
  /\ UNCHANGED <<op, job, wire, loads, done, win, saves, auto, left>>
SwitchUndone ==
  /\ eng.tx.st = "written"
  /\ \E back \in {eng.tx.was, eng.cur} : eng' = [Hushed(eng) EXCEPT !.cur = back, !.tx.st = "undone"]
  /\ Breaks
  /\ UNCHANGED <<op, job, wire, loads, done, win, saves, auto>>

\* The switch asked for by whom has been written, and may succeed; or need not be, the
\* account being the current one already.  Whoever fails lets go of it.
Holds(by, a) == eng.tx.by = by /\ eng.tx.who = a
Written(by, a) == Holds(by, a) /\ eng.tx.st = "written"
Already(a) == eng.tx = NoSwitch /\ eng.cur = a
Verdict(by) == IF eng.tx.by = by THEN eng.tx.auth ELSE eng.auth
LetGo(e, by, a) == IF e.tx.by = by /\ e.tx.who = a THEN [e EXCEPT !.tx = NoSwitch] ELSE e
Announced(e) == [e EXCEPT !.due = e.rev, !.hush = 0]

\* quota:refresh, token:refresh, account:switch, account:delete
OpSucceeds(a) ==
  /\ op[a] \in Kinds
  /\ op[a] = "delete" => eng.cur # a
  /\ op[a] = "switch" => Written("op", a) \/ Already(a)
  /\ eng' = IF op[a] = "switch" THEN LetGo(Announced(eng), "op", a) ELSE Changed(eng)
  /\ Tell((CASE op[a] = "refresh" -> <<Event(None)>>
             [] op[a] = "switch" -> <<Event(a)>>
             [] OTHER -> <<>>)
          \o <<[k |-> "reply", a |-> a, kind |-> op[a], ok |-> TRUE, auth |-> IF op[a] = "switch" THEN Verdict("op") ELSE Unknown]>>)
  /\ op' = [op EXCEPT ![a] = "answered"]
  /\ UNCHANGED <<job, loads, done, win, saves, auto, left>>

\* A refresh that failed has noted why; a switch or a deletion may have left something behind.
OpFails(a) ==
  /\ op[a] \in Kinds
  /\ ~ Written("op", a)
  /\ \/ eng' = LetGo(IF op[a] \in {"refresh", "token"} THEN Changed(eng) ELSE Untold(eng), "op", a)
     \/ eng' = LetGo(eng, "op", a)
  /\ Tell(<<[k |-> "reply", a |-> a, kind |-> op[a], ok |-> FALSE, auth |-> Unknown]>>)
  /\ op' = [op EXCEPT ![a] = "answered"]
  /\ UNCHANGED <<job, loads, done, win, saves, auto, left>>

\* The refresh of an automatic sync, which may be refused or fail as well.
AutoRefreshed ==
  /\ auto.st = "asking"
  /\ \/ eng' = Changed(eng) /\ Tell(<<Event(None), [k |-> "auto"]>>)
     \/ eng' \in {eng, Changed(eng)} /\ Tell(<<[k |-> "auto"]>>)
  /\ auto' = [auto EXCEPT !.st = "answered"]
  /\ UNCHANGED <<op, job, loads, done, win, saves, left>>

\* A pass inspects the login, refreshes the accounts and then tells.  A pass that
\* threw tells of its error alone, and one from before a stop or a start tells of nothing.
PassBegins == /\ eng.run /\ eng.pass = Unknown /\ Spend("passes")
              /\ eng' = [eng EXCEPT !.pass = eng.auth]
              /\ UNCHANGED <<op, job, wire, loads, done, win, saves, auto>>
PassEnds == /\ eng.pass # Unknown
            /\ \/ /\ ~ eng.stale
                  /\ eng' = [Changed(eng) EXCEPT !.pass = Unknown]
                  /\ Tell(<<[k |-> "tick", auth |-> eng.pass]>>)
               \/ /\ eng' = [Untold(eng) EXCEPT !.pass = Unknown, !.stale = FALSE]
                  /\ wire' = wire
            /\ UNCHANGED <<op, job, loads, done, win, saves, auto, left>>

\* quota:refreshAll, which tells of each account, and token:refreshAll, which does not.
JobRefreshes ==
  /\ job.todo > 0
  /\ job' = [job EXCEPT !.todo = @ - 1]
  /\ \/ job.k = "all" /\ eng' = Changed(eng) /\ Tell(<<Event(None)>>)
     \/ eng' \in {eng, Untold(eng)} /\ wire' = wire
  /\ UNCHANGED <<op, loads, done, win, saves, auto, left>>

\* account:adoptOfficial makes an account the current one at once, and may fail to inspect
\* the verdict; an import does the same and refreshes it afterwards.  Resolving a conflict
\* may be a switch as well, account:reapplyManaged.
Applies(a) == [Changed(eng) EXCEPT !.cur = a, !.auth = @ + 1, !.hush = 0]
JobSucceeds ==
  /\ \/ /\ job.k \in {"all", "verify"} /\ job.todo = 0
        /\ eng' = [eng EXCEPT !.due = eng.rev]
        /\ Tell(<<JobReply(job.k, TRUE, Unknown)>>)
     \/ /\ job.k = "resolve"
        /\ Written("job", eng.tx.who)
        /\ eng' = LetGo(Announced(eng), "job", eng.tx.who)
        /\ Tell(<<Event(eng.tx.who), JobReply(job.k, TRUE, Verdict("job"))>>)
     \/ /\ job.k \in {"resolve", "import"} /\ eng.tx = NoSwitch
        /\ \E a \in Accounts, seen \in BOOLEAN :
             /\ eng' = Applies(a)
             /\ Tell(<<Event(a), JobReply(job.k, TRUE, IF seen /\ job.k = "resolve" THEN eng'.auth ELSE Unknown)>>)
     \/ /\ job.k = "imported"
        /\ eng' = Changed(eng)
        /\ Tell(<<Event(None), JobReply(job.k, TRUE, Unknown)>>)
  /\ job' = Job("answered")
  /\ UNCHANGED <<op, loads, done, win, saves, auto, left>>
JobFails ==
  /\ job.k \in {"all", "verify", "resolve", "import", "imported"}
  /\ ~ Written("job", eng.tx.who)
  /\ \E e \in {eng, Untold(eng), IF job.k = "imported" THEN Changed(eng) ELSE eng} : eng' = LetGo(e, "job", e.tx.who)
  /\ Tell(<<JobReply(job.k, FALSE, Unknown)>>)
  /\ job' = Job("answered")
  /\ UNCHANGED <<op, loads, done, win, saves, auto, left>>

\* daemon:start and daemon:stop: a pass in flight belongs to the time before.
Toggled(on) == IF eng.run = on THEN eng ELSE [eng EXCEPT !.run = on, !.stale = eng.pass # Unknown]

\* The user signs in or out in the official client.
OfficialChanges == /\ Spend("passes")
                   /\ eng' = [eng EXCEPT !.auth = @ + 1]
                   /\ UNCHANGED <<op, job, wire, loads, done, win, saves, auto>>

\* desktop:snapshot looks at the login first and reads everything else at the end.
LoadInspects(s) ==
  /\ loads[s].st = "asked"
  /\ \/ loads' = [loads EXCEPT ![s].st = "inspected", ![s].auth = eng.auth] /\ left' = left
     \/ loads' = [loads EXCEPT ![s].st = "inspected"] /\ Spend("faults")
  /\ UNCHANGED <<eng, op, job, wire, done, win, saves, auto>>

Snapshot(s) == [k |-> "snapshot", s |-> s, rev |-> eng.rev, cur |-> eng.cur, cfg |-> eng.cfg,
                run |-> eng.run, login |-> eng.login, auth |-> loads[s].auth]
LoadAnswers(s) ==
  /\ loads[s].st = "inspected"
  /\ Tell(<<Snapshot(s)>>)
  /\ loads' = [loads EXCEPT ![s].st = "sent"]
  /\ UNCHANGED <<eng, op, job, done, win, saves, auto, left>>
LoadFails(s) ==
  /\ loads[s].st = "inspected" /\ Spend("faults")
  /\ Tell(<<[k |-> "broken", s |-> s]>>)
  /\ loads' = [loads EXCEPT ![s].st = "sent"]
  /\ UNCHANGED <<eng, op, job, done, win, saves, auto>>

\* The calls that wait for the login are answered: the one that opened it, with what a
\* re-authorisation reports itself, and the one that brought its address (oauth:completeManual).
Answer(ok, l) == (IF eng.asked THEN <<[k |-> "added", ok |-> ok, re |-> eng.target, login |-> l]>> ELSE <<>>)
                 \o IF job.k = "manual" THEN <<JobReply("manual", ok, l.auth)>> ELSE <<>>
JobAnswered == job' = IF job.k = "manual" THEN Job("answered") ELSE job

Completed(who, badge, auth) == [st |-> "completed", who |-> who, badge |-> badge, auth |-> auth]
Mine == eng.chain.on /\ eng.chain.mine
\* The browser comes back.  An account signed in again is saved, and that is all.
LoginCompletes ==
  /\ Pending(eng.login) /\ eng.target /\ ~ Mine
  /\ \E who \in SignsIn, auth \in {eng.auth, Unknown} :
       /\ eng' = [Changed(eng) EXCEPT !.login = Completed(who, None, auth), !.asked = FALSE, !.target = FALSE]
       /\ Tell(<<Event(None)>> \o Answer(TRUE, [eng'.login EXCEPT !.st = "reauthorized"]))
  /\ JobAnswered
  /\ UNCHANGED <<op, loads, done, win, saves, auto, left>>

\* Another one is saved and then switched to, which goes on although the login is cancelled
\* or times out meanwhile.  Bound: one login at a time is being switched to.
LoginSaves ==
  /\ Pending(eng.login) /\ ~ eng.chain.on
  /\ \E who \in SignsIn : eng' = [Untold(eng) EXCEPT !.chain = [on |-> TRUE, who |-> who, mine |-> TRUE]]
  /\ UNCHANGED <<op, job, wire, loads, done, win, saves, auto, left>>

\* The switch has ended or failed.  The login completes either way, and a new account is
\* reported as the current one either way; one that is over tells of nothing.
LoginSwitched(switched) ==
  LET who == eng.chain.who
      over == [LetGo(eng, "login", who) EXCEPT !.chain = NoChain]
      badge == IF eng.target /\ ~ Written("login", who) THEN None ELSE who
  IN  /\ eng.chain.on
      /\ IF switched THEN Written("login", who) \/ Already(who) ELSE eng.tx = NoSwitch \/ (Holds("login", who) /\ ~ Written("login", who))
      /\ IF ~ Mine THEN eng' = over /\ UNCHANGED <<wire, job>>
         ELSE /\ \E auth \in IF switched THEN {Verdict("login")} ELSE {eng.auth, Unknown} :
                   /\ eng' = [Announced(over) EXCEPT !.login = Completed(who, badge, auth), !.asked = FALSE, !.target = FALSE]
                   /\ Tell(<<Event(IF switched THEN who ELSE None)>>
                           \o Answer(TRUE, [eng'.login EXCEPT !.st = "reauthorized", !.badge = who]))
              /\ JobAnswered
      /\ UNCHANGED <<op, loads, done, win, saves, auto, left>>

\* A login that is over, and what has been begun for it.
Over(st) == [eng EXCEPT !.login = Outcome(st), !.asked = FALSE, !.target = FALSE, !.chain.mine = FALSE]
LoginFails ==
  /\ Pending(eng.login) /\ Breaks
  /\ eng' = Over("error")
  /\ Tell(Answer(FALSE, NotAsked))
  /\ JobAnswered
  /\ UNCHANGED <<op, loads, done, win, saves, auto>>
-----------------------------------------------------------------------------
(* What the window is told                                                 *)

Told(k) == wire # <<>> /\ Head(wire).k = k
Msg == Head(wire)

\* mergeOAuthStatus
Merged(local, incoming) == IF Pending(local) /\ incoming.st = "idle" THEN local ELSE incoming

SaveNeverInFlight == FALSE    \* Mutant.
SaveInFlight == saves # <<>>
ShownInterval(m) == IF SaveInFlight THEN win.cfg ELSE m.cfg

Applied(m) ==
  [ShowAuth(win, m.auth) EXCEPT !.at = m.rev, !.cur = m.cur, !.run = m.run, !.cfg = ShownInterval(m),
                                !.login = Merged(win.login, m.login), !.told = m.login, !.ahead = FALSE]

AlwaysCurrent(s) == TRUE    \* Mutant.
IsCurrent(s) == loads[s].cur

\* A load that broke is told, and not repeated.
Ending(m, good) == IF good THEN "good" ELSE IF m.k = "broken" /\ IsCurrent(m.s) THEN "broken" ELSE "dropped"

\* A load ends: its snapshot is applied, or dropped, and the callers go on.
LoadEnds(m, good) ==
  LET conts == Woken(m.s, good)
      got == Result(m.s, good)
      shown == IF good THEN Applied(m) ELSE win
      again == got /\ Has(conts, "first")
  IN  /\ \E same \in BOOLEAN :
           /\ same \/ \E k \in {"add", "adderr", "readd", "readderr"} : Has(conts, k)
           /\ win' = ReportAll(shown, conts, got, same)
           /\ wire' = Disposed(Tail(wire), shown.login) \o AsksStatus(conts, same)
      /\ loads' = IF again THEN Begun(Settled(m.s, good), Then("show")) ELSE Settled(m.s, good)
      /\ done' = IF again THEN "none" ELSE IF loads[m.s].latest THEN Ending(m, good) ELSE done
      /\ QueueAutoSync(got /\ SyncMayStart(conts), Has(conts, "synced"))
      /\ UNCHANGED <<eng, op, job, saves>>

LoadArrives == /\ Told("snapshot") \/ Told("broken")
               /\ LoadEnds(Msg, Msg.k = "snapshot" /\ IsCurrent(Msg.s))

\* account:updated and quota:updated put the reload off until they stop coming.
EventArrives ==
  /\ Told("event")
  /\ win' = [Badged(win, Msg.cur) EXCEPT !.patch = TRUE]
  /\ wire' = Tail(wire)
  /\ UNCHANGED <<eng, op, job, loads, done, saves, auto, left>>
PatchReload ==
  /\ win.patch
  /\ win' = [win EXCEPT !.patch = FALSE]
  /\ Begin(Then("show"))
  /\ UNCHANGED <<eng, op, job, wire, saves, auto, left>>

TickArrives ==
  /\ Told("tick")
  /\ win' = ShowAuth(win, Msg.auth)
  /\ wire' = Tail(wire)
  /\ Begin(Then("sync"))
  /\ UNCHANGED <<eng, op, job, saves, auto, left>>

\* A refresh loads however it ended; a deletion that failed does not, and a switch
\* that failed does if the user still looks at that product.
ReplyArrives ==
  /\ Told("reply")
  /\ wire' = Tail(wire)
  /\ op' = [op EXCEPT ![Msg.a] = "no"]
  /\ win' = IF Msg.kind = "switch" /\ Msg.ok THEN ShowAuth(Badged(win, Msg.a), Msg.auth) ELSE win
  /\ IF Msg.ok \/ Msg.kind \in {"refresh", "token"}
     THEN Begin(Then(IF Msg.kind = "token" THEN "show" ELSE "sync"))
     ELSE \/ Msg.kind = "switch" /\ Begin(Then("show"))
          \/ UNCHANGED <<loads, done>>
  /\ UNCHANGED <<eng, job, saves, auto, left>>

\* What follows the answer to a job: a load, unless it failed.
JobOver(kind) == /\ Told("job") /\ Msg.kind = kind
                 /\ wire' = Tail(wire) /\ job' = NoJob
                 /\ UNCHANGED <<eng, op, saves, auto, left>>
LoadIf(ok, k) == IF ok THEN Begin(Then(k)) ELSE UNCHANGED <<loads, done>>
AllArrives == JobOver("all") /\ LoadIf(Msg.ok, "sync") /\ UNCHANGED win
VerifyArrives == JobOver("verify") /\ LoadIf(Msg.ok, "show") /\ UNCHANGED win
ToggleArrives == JobOver("toggle") /\ Begin(Then("show")) /\ UNCHANGED win
ResolveArrives == JobOver("resolve") /\ LoadIf(Msg.ok, "sync") /\ win' = ShowAuth(win, Msg.auth)
ImportedArrives == JobOver("imported") /\ Begin(Then("show")) /\ UNCHANGED win
\* An account just imported is refreshed, unless the user has moved on.
ImportArrives ==
  /\ Told("job") /\ Msg.kind = "import"
  /\ wire' = Tail(wire)
  /\ IF ~ Msg.ok THEN job' = NoJob /\ UNCHANGED <<loads, done>>
     ELSE \/ job' = Job("imported") /\ UNCHANGED <<loads, done>>
          \/ job' = NoJob /\ Begin(Then("show"))
  /\ UNCHANGED <<eng, op, win, saves, auto, left>>
\* The status is read, then a load begun, and the outcome told after it.
ManualArrives ==
  /\ Told("job") /\ Msg.kind = "manual"
  /\ wire' = Append(Tail(wire), Status("manual", eng.login))
  /\ win' = ShowAuth(win, Msg.auth)
  /\ job' = Job("status")
  /\ UNCHANGED <<eng, op, loads, done, saves, auto, left>>
ManualShown ==
  /\ Told("status") /\ Msg.for = "manual"
  /\ win' = [win EXCEPT !.login = Msg.login]
  /\ wire' = Disposed(Tail(wire), Msg.login)
  /\ Begin([k |-> "poll", login |-> Msg.login])
  /\ job' = NoJob
  /\ UNCHANGED <<eng, op, saves, auto, left>>

AutoGoesOn ==
  /\ Told("auto")
  /\ wire' = Tail(wire)
  /\ \/ auto.left > 1 /\ auto' = Started(auto.left - 1) /\ UNCHANGED <<loads, done>>
     \/ auto.left = 1 /\ auto' = [st |-> "loading", left |-> 0] /\ Begin(Then("synced"))
  /\ UNCHANGED <<eng, op, job, win, saves, left>>

\* daemon:config:save, which the main process carries out or refuses at once.
Send(e, q, v) ==
  \/ eng' = [e EXCEPT !.cfg = v] /\ wire' = Append(q, [k |-> "saved", ok |-> TRUE])
  \/ eng' = e /\ wire' = Append(q, [k |-> "saved", ok |-> FALSE])

\* Mutant: only a save that went well reloads.
SaveEndsWell ==
  /\ Told("saved")
  /\ saves' = Tail(saves)
  /\ win' = [win EXCEPT !.saved = Msg.ok]
  /\ IF Len(saves) > 1 THEN Send(eng, Tail(wire), saves[2]) ELSE wire' = Tail(wire) /\ eng' = eng
  /\ IF Len(saves) > 1 \/ ~ Msg.ok THEN UNCHANGED <<loads, done>> ELSE Begin(Then("show"))
  /\ UNCHANGED <<op, job, auto, left>>
\* Only the newest save reloads.
SaveEnds ==
  /\ Told("saved")
  /\ saves' = Tail(saves)
  /\ win' = [win EXCEPT !.saved = Msg.ok]
  /\ IF Len(saves) > 1
     THEN Send(eng, Tail(wire), saves[2]) /\ UNCHANGED <<loads, done>>
     ELSE wire' = Tail(wire) /\ eng' = eng /\ Begin(Then("show"))
  /\ UNCHANGED <<op, job, auto, left>>

AddEnds ==
  /\ Told("added")
  /\ wire' = Tail(wire)
  /\ win' = ShowAuth(win, Msg.login.auth)
  /\ Begin([k |-> IF Msg.re THEN IF Msg.ok THEN "readd" ELSE "readderr"
                  ELSE IF Msg.ok THEN "add" ELSE "adderr",
            login |-> Msg.login])
  /\ UNCHANGED <<eng, op, job, saves, auto, left>>

StatusRead ==
  /\ Told("status") /\ Msg.for \in {"add", "adderr"}
  /\ win' = IF Msg.for = "add" \/ OfThisFlow(Msg.login) THEN Report(win, Msg.login) ELSE win
  /\ wire' = Tail(wire)
  /\ UNCHANGED <<eng, op, job, loads, done, saves, auto, left>>

\* Mutant: a poll is merged into what is shown as a snapshot is.
PollMerged ==
  /\ Told("status") /\ Msg.for = "poll"
  /\ win' = [win EXCEPT !.login = Merged(win.login, Msg.login)]
  /\ wire' = Disposed(Tail(wire), win'.login)
  /\ IF Pending(win'.login) THEN UNCHANGED <<loads, done>>
     ELSE Begin([k |-> "poll", login |-> Msg.login])
  /\ UNCHANGED <<eng, op, job, saves, auto, left>>

\* The first status that is not pending ends the polling; the outcome is told after a load.
PollAnswered ==
  /\ Told("status") /\ Msg.for = "poll"
  /\ win' = [win EXCEPT !.login = Msg.login]
  /\ wire' = Disposed(Tail(wire), Msg.login)
  /\ IF Pending(Msg.login) THEN UNCHANGED <<loads, done>>
     ELSE Begin([k |-> "poll", login |-> Msg.login])
  /\ UNCHANGED <<eng, op, job, saves, auto, left>>

CancelAnswered ==
  /\ Told("cancelled")
  /\ wire' = Append(Tail(wire), Status("cancel", eng.login))
  /\ UNCHANGED <<eng, op, job, loads, done, win, saves, auto, left>>
CancelShown ==
  /\ Told("status") /\ Msg.for = "cancel"
  /\ win' = Report([win EXCEPT !.login = Msg.login], Msg.login)
  /\ wire' = Disposed(Tail(wire), Msg.login)
  /\ UNCHANGED <<eng, op, job, loads, done, saves, auto, left>>
-----------------------------------------------------------------------------
(* What the user and the timers do in the window                           *)

\* runAccountOperation: one operation per account.  A switch waits for the login to end.
Ask(a, kind) ==
  /\ Spend("clicks") /\ <<a, kind>> \in left.asks
  /\ kind = "switch" => ~ Pending(win.login)
  /\ \/ op[a] = "no" /\ op' = [op EXCEPT ![a] = kind] /\ UNCHANGED <<loads, done>>
     \/ op[a] # "no" /\ op' = op
        /\ IF kind = "delete" THEN UNCHANGED <<loads, done>>
           ELSE Begin(Then(IF kind = "refresh" THEN "sync" ELSE "show"))
  /\ UNCHANGED <<eng, job, wire, win, saves, auto>>

\* handleRefreshAll, handleBatchVerifyTokens, handleResolveAuthConflict and
\* handleImportLocalAccount, which waits for the login to end.
Order(k) ==
  /\ Spend("jobs") /\ k \in left.orders
  /\ job = NoJob
  /\ k = "import" => ~ Pending(win.login)
  /\ job' = [k |-> k, todo |-> IF k \in {"all", "verify"} THEN Cardinality(Accounts) ELSE 0]
  /\ UNCHANGED <<eng, op, wire, loads, done, win, saves, auto>>
\* handleToggleDaemon asks for the opposite of what is shown, and is answered at once.
Toggle ==
  /\ Spend("jobs")
  /\ job = NoJob
  /\ eng' = Toggled(~ win.run)
  /\ Tell(<<JobReply("toggle", TRUE, Unknown)>>)
  /\ job' = Job("answered")
  /\ UNCHANGED <<op, loads, done, win, saves, auto>>

\* completeCodexManually: an address that is not the login's is refused at once.
Paste ==
  /\ Spend("manuals")
  /\ job = NoJob /\ Pending(win.login)
  /\ \/ Pending(eng.login) /\ job' = Job("manual") /\ wire' = wire
     \/ job' = Job("answered") /\ Tell(<<JobReply("manual", FALSE, Unknown)>>)
  /\ UNCHANGED <<eng, op, loads, done, win, saves, auto>>

\* handleUpdateSyncInterval: the choice is shown at once and queued.
Choose(v) ==
  /\ Spend("saves")
  /\ v # win.cfg
  /\ win' = [win EXCEPT !.cfg = v, !.chosen = v]
  /\ saves' = Append(saves, v)
  /\ IF saves = <<>> THEN Send(eng, wire, v) ELSE UNCHANGED <<eng, wire>>
  /\ UNCHANGED <<op, job, loads, done, auto>>

\* Mutant: the loads in flight are left alone.
MarkPendingOnly == /\ win' = [win EXCEPT !.login = Outcome("pending"), !.report = NotAsked]
                   /\ loads' = loads
\* addAccount, reauthorize: shown as pending at once; loads in flight are dropped.
\* The engine refuses it, or opens the browser and answers when the login ends.
MarkPending == /\ win' = [win EXCEPT !.login = Outcome("pending"), !.report = NotAsked]
               /\ loads' = Invalidated(loads)
StartLogin(target) ==
  /\ Spend("flows") /\ target \in left.targets
  /\ ~ Pending(win.login)
  /\ MarkPending
  /\ \/ /\ ~ Pending(eng.login)
        /\ eng' = [eng EXCEPT !.login = Outcome("pending"), !.asked = TRUE, !.target = target]
        /\ wire' = wire
     \/ eng' = eng /\ Tell(<<[k |-> "added", ok |-> FALSE, re |-> target, login |-> NotAsked]>>)
  /\ UNCHANGED <<op, job, done, saves, auto>>

CancelLogin ==
  /\ Spend("cancels")
  /\ Pending(win.login)
  /\ eng' = Over("cancelled")
  /\ Tell(Answer(FALSE, NotAsked) \o <<[k |-> "cancelled"]>>)
  /\ JobAnswered
  /\ UNCHANGED <<op, loads, done, win, saves, auto>>

Polls == Len(SelectSeq(wire, IsPoll))
Poll ==
  /\ Pending(win.login)
  /\ Polls < MaxPolls
  /\ Tell(<<Status("poll", eng.login)>>)
  /\ UNCHANGED <<eng, op, job, loads, done, win, saves, auto, left>>

\* The periodic sync, over the accounts the window shows.
SyncTimer ==
  /\ auto.st = "off" /\ Spend("syncs")
  /\ \E n \in 1..MaxStale : auto' = Started(n)
  /\ UNCHANGED <<eng, op, job, wire, loads, done, win, saves>>
-----------------------------------------------------------------------------
\* The first load is on its way; a login may have been restored with the program.
\* Or all that is over, and the window shows what there is, or an open login too.
Init ==
  /\ left \in Budgets
  /\ LET settled == left.start \in {"settled", "open"}
         login == IF left.start \in {"restored", "open"} THEN Outcome("pending") ELSE NotAsked
     IN  /\ eng = [rev |-> 1, due |-> 1, cur |-> Current, cfg |-> Interval, auth |-> 1, pass |-> Unknown, run |-> TRUE, stale |-> FALSE, asked |-> FALSE,
                   target |-> FALSE, login |-> login, hush |-> 0, tx |-> NoSwitch, chain |-> NoChain]
         /\ win = [login |-> IF settled THEN login ELSE NotAsked, told |-> NotAsked, report |-> NotAsked, patch |-> FALSE, ahead |-> FALSE, saved |-> FALSE,
                   at |-> IF settled THEN 1 ELSE 0, run |-> settled, cur |-> IF settled THEN Current ELSE None,
                   cfg |-> IF settled THEN Interval ELSE Default, chosen |-> Default,
                   auth |-> IF settled THEN 1 ELSE Unknown]
         /\ loads = IF settled THEN NoLoads ELSE Begun(NoLoads, Then("first"))
         /\ done = IF settled THEN "good" ELSE "none"
  /\ op = [a \in Accounts |-> "no"] /\ job = NoJob
  /\ wire = <<>> /\ saves = <<>> /\ auto = NoSync

Main == \/ \E a \in Accounts : OpSucceeds(a) \/ OpFails(a)
        \/ AutoRefreshed \/ JobRefreshes \/ JobSucceeds \/ JobFails
        \/ PassBegins \/ PassEnds \/ OfficialChanges
        \/ \E s \in Slots : LoadInspects(s) \/ LoadAnswers(s) \/ LoadFails(s)
        \/ LoginCompletes \/ LoginSaves \/ LoginFails
        \/ SwitchWrites \/ SwitchUndone \/ \E switched \in BOOLEAN : LoginSwitched(switched)
Arrive == \/ LoadArrives \/ EventArrives \/ TickArrives \/ ReplyArrives
          \/ AutoGoesOn \/ SaveEnds \/ AddEnds \/ StatusRead \/ PollAnswered
          \/ CancelAnswered \/ CancelShown \/ AllArrives \/ VerifyArrives
          \/ ToggleArrives \/ ResolveArrives \/ ImportArrives \/ ImportedArrives
          \/ ManualArrives \/ ManualShown
User == \/ \E a \in Accounts, kind \in Kinds : Ask(a, kind)
        \/ \E v \in Intervals : Choose(v)
        \/ \E target \in BOOLEAN : StartLogin(target)
        \/ \E k \in Orders : Order(k)
        \/ CancelLogin \/ Paste \/ Toggle
Timers == PatchReload \/ Poll \/ SyncTimer

Next == Main \/ Arrive \/ User \/ Timers

\* The main process hands over what it has sent, a snapshot is answered in the end
\* (its inspections have timeouts), and the timer of the polls runs.
Fairness == /\ WF_vars(Arrive) /\ WF_vars(Poll)
            /\ \A s \in Slots : WF_vars(LoadInspects(s)) /\ WF_vars(LoadAnswers(s))
Spec == Init /\ [][Next]_vars /\ Fairness
-----------------------------------------------------------------------------
Quiet == /\ wire = <<>> /\ FreeSlots(loads) = Slots /\ \A a \in Accounts : op[a] = "no"
         /\ job = NoJob /\ auto.st = "off" /\ saves = <<>> /\ ~ win.patch
         /\ ~ Pending(win.login) /\ ~ eng.asked

\* When nothing is under way and the last load did not break, the window shows
\* every change it is told of: the accounts, the interval, and the current account
\* unless an announced login has marked one after the last load, or what moved it last
\* is a switch that was undone or that of a login that was over: nobody tells of these,
\* and they came after the last load.  Dropped loads, failed operations and failed saves
\* are made up for (useAccountActions.ts, useDesktopEvents.ts).
QuietShowsTruth ==
  Quiet /\ done # "broken" => /\ win.at >= eng.due
                              /\ win.cfg = eng.cfg /\ win.run = eng.run
                              /\ win.ahead \/ win.cur = eng.cur \/ win.at < eng.hush

\* A snapshot about to be shown never carries an older verdict on the official
\* login than the one shown: the verdict is read at its start (LoadSequence).
\* Between the answer to a manual completion and the load after it, one may
\* (completeCodexManually).
NoOlderVerdict ==
  Told("snapshot") /\ IsCurrent(Msg.s) /\ Msg.auth # Unknown /\ job # Job("status") => Msg.auth >= win.auth

\* From the click on, the interval shown is the one chosen last, unless its save
\* failed: no snapshot, however late, puts an older one back (config-save-queue.ts).
ChosenKept == saves # <<>> \/ win.saved => win.cfg = win.chosen

\* A login that is open in the browser stays open in the window: no load or poll
\* that looked before it began hides it.  The status read after a cancellation or a
\* manual completion may.
PendingKept ==
  [][Pending(win.login) /\ Pending(eng.login) /\ ~ CancelShown /\ ~ ManualShown => Pending(win'.login)]_vars

\* A login shown as pending that is not does not stay so (usePolling).
PendingSettles == Pending(win.login) /\ ~ Pending(eng.login) ~> ~ Pending(win.login) \/ Pending(eng.login)
=============================================================================
