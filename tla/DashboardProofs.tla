-------------------------- MODULE DashboardProofs --------------------------
(***************************************************************************)
(* What the window shows is the last choice, no older verdict and, at      *)
(* rest, the truth, and an open login stays open: for any accounts,        *)
(* intervals and budgets, and any number of loads and messages in flight.  *)
(*                                                                         *)
(* None of it is inductive.  Inv says of each message on its way what it   *)
(* will find: of a snapshot, whether the load it answers is still the      *)
(* current one and what that load has seen (OnTheWay, Answered), of the    *)
(* answer to a save, which choice it is the answer to (SavesQueued), of a  *)
(* status, that it comes after what makes it harmless (Verdicts,           *)
(* PendingTold), and of whatever is not shown yet, that a load is owed or  *)
(* under way (Truth).  A switch that was undone, or that of a login that   *)
(* was over, is told to nobody: what the window may then show is older     *)
(* than it (Fresh, Shown), since no load tells of a state before its own   *)
(* (Seen).                                                                 *)
(*                                                                         *)
(* A step takes at most the first message, drops polls, and tells more     *)
(* after the others: Carries says so once for all actions, with a map from *)
(* the messages of the next state to those of this one.  The lemmas of     *)
(* section "What keeps each part" then need to know only what is told and  *)
(* which loads stay, and each action is a short proof from them.           *)
(***************************************************************************)
EXTENDS Dashboard, SequenceTheorems, WellFoundedInduction, TLAPS

\* A sequence, of whatever elements.
Row(q) == q \in Seq({q[i] : i \in 1..Len(q)})

\* A sequence over any set is a row.
LEMMA RowOf == ASSUME NEW X, NEW q \in Seq(X) PROVE Row(q)
  BY DEF Row

\* The empty row.
LEMMA Empty == Row(<<>>) /\ Len(<<>>) = 0
  BY DEF Row

\* A row with a message more.
LEMMA Appended ==
  ASSUME NEW q, Row(q), NEW m
  PROVE  /\ Row(Append(q, m)) /\ Len(Append(q, m)) = Len(q) + 1
         /\ \A i \in 1..Len(q) : Append(q, m)[i] = q[i]
         /\ Append(q, m)[Len(q) + 1] = m
<1> DEFINE R == {q[i] : i \in 1..Len(q)} \cup {m}
<1>1. q \in Seq(R) /\ m \in R
  BY DEF Row
<1> HIDE DEF R
<1>2. Append(q, m) \in Seq(R)
  BY <1>1
<1>3. Row(Append(q, m))
  BY <1>2, RowOf
<1> QED BY <1>1, <1>3, AppendProperties

\* A row without its first message.
LEMMA Popped ==
  ASSUME NEW q, Row(q), q # <<>>
  PROVE  /\ Row(Tail(q)) /\ Len(q) \in Nat \ {0} /\ Len(Tail(q)) = Len(q) - 1
         /\ \A i \in 1..Len(Tail(q)) : Tail(q)[i] = q[i + 1]
         /\ Head(q) = q[1]
<1> DEFINE R == {q[i] : i \in 1..Len(q)}
<1>1. q \in Seq(R)
  BY DEF Row
<1> HIDE DEF R
<1>2. Tail(q) \in Seq(R)
  BY <1>1
<1>3. Row(Tail(q))
  BY <1>2, RowOf
<1> QED BY <1>1, <1>3

\* A row after another.
LEMMA Joined ==
  ASSUME NEW q, Row(q), NEW r, Row(r)
  PROVE  /\ Row(q \o r) /\ Len(q \o r) = Len(q) + Len(r)
         /\ \A i \in 1..Len(q) : (q \o r)[i] = q[i]
         /\ \A i \in 1..Len(r) : (q \o r)[Len(q) + i] = r[i]
<1> DEFINE R == {q[i] : i \in 1..Len(q)} \cup {r[i] : i \in 1..Len(r)}
<1>1. q \in Seq(R) /\ r \in Seq(R)
  BY DEF Row
<1> HIDE DEF R
<1>2. q \o r \in Seq(R)
  BY <1>1
<1>3. Row(q \o r)
  BY <1>2, RowOf
<1>4. Len(q) \in Nat /\ Len(r) \in Nat
  BY <1>1
<1>5. /\ Len(q \o r) = Len(q) + Len(r)
      /\ \A i \in 1..Len(q) + Len(r) : (q \o r)[i] = IF i <= Len(q) THEN q[i] ELSE r[i - Len(q)]
  BY <1>1, ConcatProperties
<1> QED BY <1>3, <1>4, <1>5
-----------------------------------------------------------------------------
(* Only                                                                    *)

\* The order on the natural numbers.
Below == {ss \in Nat \X Nat : ss[1] < ss[2]}

\* A set of natural numbers that is not empty has a least element.
LEMMA LeastNatural ==
  ASSUME NEW S \in SUBSET Nat, S # {}
  PROVE  \E x \in S : \A y \in S : x <= y
<1>1. IsWellFoundedOn(Below, Nat)
  BY NatLessThanWellFounded, Zenon DEF OpToRel, Below
<1>2. \E x \in S : \A y \in S : <<y, x>> \notin Below
  BY <1>1, WFMin, Zenon
<1>3. \A x, y \in S : <<y, x>> \notin Below => x <= y
  BY SMT DEF Below
<1> QED BY <1>2, <1>3

\* The first n steps of a walk along q that keeps the elements at S.
Walk(q, S, n, kept) ==
  kept = [i \in 0..n |-> IF i = 0 THEN <<>>
                         ELSE IF i \in S THEN Append(kept[i - 1], q[i])
                         ELSE kept[i - 1]]

\* Such a walk exists, so that Only is defined by one.
LEMMA WalkExists ==
  ASSUME NEW q, NEW S, NEW n \in Nat
  PROVE  \E kept : Walk(q, S, n, kept)
<1> DEFINE Bad == {m \in Nat : ~ \E kept : Walk(q, S, m, kept)}
<1> SUFFICES ASSUME Bad # {} PROVE FALSE
  OBVIOUS
<1>1. PICK x \in Bad : \A y \in Bad : x <= y
  <2>1. Bad \in SUBSET Nat
    OBVIOUS
  <2> QED BY <2>1, LeastNatural
<1>2. x \in Nat /\ ~ \E kept : Walk(q, S, x, kept)
  BY <1>1
<1>3. CASE x = 0
  <2>1. Walk(q, S, x, [i \in 0..0 |-> <<>>])
    BY <1>3 DEF Walk
  <2> QED BY <2>1, <1>2
<1>4. CASE x # 0
  <2>1. x - 1 \in Nat /\ x - 1 \notin Bad
    BY <1>1, <1>2, <1>4
  <2>2. PICK g : Walk(q, S, x - 1, g)
    BY <2>1
  <2> DEFINE f == [i \in 0..x |-> IF i = 0 THEN <<>>
                                  ELSE IF i \in S THEN Append(g[i - 1], q[i])
                                  ELSE g[i - 1]]
  <2>3. \A i \in 0..(x - 1) : f[i] = g[i]
    <3>1. \A i \in 0..(x - 1) : g[i] = IF i = 0 THEN <<>>
                                  ELSE IF i \in S THEN Append(g[i - 1], q[i])
                                  ELSE g[i - 1]
      BY <2>2, Zenon DEF Walk
    <3>2. \A i \in 0..(x - 1) : i \in 0..x
      BY <1>2
    <3> QED BY <3>1, <3>2, Zenon
  <2>4. \A i \in 0..x : i # 0 => f[i - 1] = g[i - 1]
    BY <2>3, <1>2
  <2>5. Walk(q, S, x, f)
    BY <2>4, Zenon DEF Walk
  <2> QED BY <2>5, <1>2
<1> QED BY <1>3, <1>4

\* The elements of Only(q, S) are those of q at S, in their order.
Selects(f, p, q, S, n) ==
  /\ Row(p)
  /\ f \in [1..Len(p) -> 1..n]
  /\ \A i \in 1..Len(p) : f[i] \in S /\ p[i] = q[f[i]]
  /\ \A i, j \in 1..Len(p) : i < j => f[i] < f[j]
  /\ \A j \in 1..n : j \in S => \E i \in 1..Len(p) : f[i] = j

\* Only selects.
LEMMA OnlyOf ==
  ASSUME NEW q, Len(q) \in Nat, NEW S
  PROVE  \E f : Selects(f, Only(q, S), q, S, Len(q))
<1>1. PICK kept : Walk(q, S, Len(q), kept) /\ Only(q, S) = kept[Len(q)]
  <2> DEFINE k == CHOOSE kept : Walk(q, S, Len(q), kept)
  <2>1. Walk(q, S, Len(q), k)
    BY WalkExists, Zenon
  <2>2. Only(q, S) = k[Len(q)]
    BY Zenon DEF Only, Walk
  <2> QED BY <2>1, <2>2, Zenon
<1> DEFINE Bad == {n \in 0..Len(q) : ~ \E f : Selects(f, kept[n], q, S, n)}
<1> SUFFICES ASSUME Bad # {} PROVE FALSE
  BY <1>1
<1>2. PICK n \in Bad : \A m \in Bad : n <= m
  <2>1. Bad \in SUBSET Nat
    OBVIOUS
  <2> QED BY <2>1, LeastNatural
<1>3. n \in 0..Len(q) /\ ~ \E f : Selects(f, kept[n], q, S, n)
  BY <1>2
<1>4. CASE n = 0
  <2>1. kept[0] = <<>>
    BY <1>1, <1>3 DEF Walk
  <2>2. Selects([i \in 1..0 |-> 1], kept[n], q, S, n)
    BY <1>4, <2>1, Empty DEF Selects
  <2> QED BY <2>2, <1>3
<1>5. CASE n # 0
  <2>1. n - 1 \in 0..Len(q) /\ n - 1 \notin Bad
    BY <1>2, <1>3, <1>5
  <2>2. PICK f : Selects(f, kept[n - 1], q, S, n - 1)
    BY <2>1
  <2> DEFINE p == kept[n - 1]
  <2>3. kept[n] = IF n \in S THEN Append(p, q[n]) ELSE p
    BY <1>1, <1>3, <1>5, Zenon DEF Walk
  <2> HIDE DEF p
  <2>0. Selects(f, p, q, S, n - 1) /\ Len(p) \in Nat
    BY <2>2 DEF p, Selects, Row
  <2>4. CASE n \in S
    <3> DEFINE r == Append(p, q[n])
               g == [i \in 1..Len(r) |-> IF i = Len(r) THEN n ELSE f[i]]
    <3>1. /\ Row(r) /\ Len(r) = Len(p) + 1
          /\ \A i \in 1..Len(p) : r[i] = p[i]
          /\ r[Len(p) + 1] = q[n]
      BY <2>0, Appended DEF Selects
    <3> HIDE DEF r
    <3>2. \A i \in 1..Len(p) : f[i] \in 1..(n - 1) /\ f[i] \in S /\ p[i] = q[f[i]]
      BY <2>0 DEF Selects
    <3>3. \A i \in 1..Len(r) : g[i] \in 1..n /\ g[i] \in S /\ r[i] = q[g[i]]
      BY <3>1, <3>2, <2>0, <2>4, <1>3, <1>5
    <3>4. \A i, j \in 1..Len(r) : i < j => g[i] < g[j]
      <4>1. \A i, j \in 1..Len(p) : i < j => f[i] < f[j]
        BY <2>0 DEF Selects
      <4>2. \A i \in 1..Len(p) : i \in 1..Len(r) /\ i # Len(r) /\ g[i] = f[i]
        BY <3>1, <2>0
      <4>3. Len(r) \in 1..Len(r) /\ g[Len(r)] = n /\ \A i \in 1..Len(r) : i = Len(r) \/ i \in 1..Len(p)
        BY <3>1, <2>0
      <4> HIDE DEF g
      <4>4. \A i \in 1..Len(p) : f[i] < n
        BY <3>2, <1>3, <1>5
      <4> SUFFICES ASSUME NEW i \in 1..Len(r), NEW j \in 1..Len(r), i < j PROVE g[i] < g[j]
        OBVIOUS
      <4>5. i \in 1..Len(p)
        BY <4>3, <2>0, <3>1
      <4> QED BY <4>1, <4>2, <4>3, <4>4, <4>5
    <3>5. \A j \in 1..n : j \in S => \E i \in 1..Len(r) : g[i] = j
      <4>1. g[Len(r)] = n /\ Len(r) \in 1..Len(r)
        BY <3>1, <2>0
      <4>2. \A i \in 1..Len(p) : i \in 1..Len(r) /\ g[i] = f[i]
        BY <3>1, <2>0
      <4> HIDE DEF g
      <4>3. \A j \in 1..n : j = n \/ j \in 1..(n - 1)
        BY <1>3, <1>5
      <4> QED BY <4>1, <4>2, <4>3, <2>0 DEF Selects
    <3>6. g \in [1..Len(r) -> 1..n]
      BY <3>3
    <3> HIDE DEF g
    <3>7. Selects(g, r, q, S, n)
      BY <3>1, <3>3, <3>4, <3>5, <3>6 DEF Selects
    <3> QED BY <3>7, <2>3, <2>4, <1>3 DEF r
  <2>5. CASE n \notin S
    <3>1. \A j \in 1..n : j \in S => j \in 1..(n - 1)
      BY <2>5, <1>3, <1>5
    <3>2. f \in [1..Len(p) -> 1..n]
      BY <2>0, <1>3, <1>5 DEF Selects
    <3>3. Selects(f, p, q, S, n)
      BY <2>0, <3>1, <3>2 DEF Selects
    <3> QED BY <3>3, <2>3, <2>5, <1>3
  <2> QED BY <2>4, <2>5
<1> QED BY <1>4, <1>5
-----------------------------------------------------------------------------
(* ReportAll                                                               *)

\* What the window keeps.
WinFields == {"login", "told", "report", "patch", "ahead", "saved", "at", "run", "cur", "cfg", "chosen", "auth"}

\* r is w after the report of logins whose verdicts are in A.
Reported(r, w, A) ==
  /\ DOMAIN r = WinFields
  /\ r.login = w.login /\ r.told = w.told /\ r.patch = w.patch /\ r.saved = w.saved /\ r.at = w.at /\ r.run = w.run
  /\ r.cfg = w.cfg /\ r.chosen = w.chosen
  /\ w.ahead => r.ahead
  /\ r.ahead \/ r.cur = w.cur
  /\ r.auth \in A \cup {w.auth}

\* One report shows an account and a verdict at most.
LEMMA ReportOf ==
  ASSUME NEW w, DOMAIN w = WinFields, NEW l
  PROVE  Reported(Report(w, l), w, {l.auth})
<1>1. CASE ~ Ended(l) \/ w.report = l
  BY <1>1, Zenon DEF Report, Reported
<1>2. CASE Ended(l) /\ w.report # l
  <2> DEFINE b == Badged(w, l.badge)
             c == ShowAuth(b, l.auth)
  <2>1. /\ DOMAIN b = WinFields
        /\ b.login = w.login /\ b.told = w.told /\ b.patch = w.patch /\ b.saved = w.saved /\ b.at = w.at /\ b.run = w.run
        /\ b.cfg = w.cfg /\ b.chosen = w.chosen /\ b.ahead = w.ahead /\ b.auth = w.auth
        /\ b.cur = w.cur \/ l.badge # None
    BY DEF Badged, WinFields
  <2> HIDE DEF b
  <2>2. /\ DOMAIN c = WinFields
        /\ c.login = w.login /\ c.told = w.told /\ c.patch = w.patch /\ c.saved = w.saved /\ c.at = w.at /\ c.run = w.run
        /\ c.cfg = w.cfg /\ c.chosen = w.chosen /\ c.ahead = w.ahead /\ c.auth \in {l.auth, w.auth}
        /\ c.cur = w.cur \/ l.badge # None
    BY <2>1 DEF ShowAuth, WinFields
  <2> HIDE DEF c
  <2> DEFINE r == [c EXCEPT !.report = l, !.ahead = @ \/ l.badge # None]
  <2>3. Report(w, l) = r
    BY <1>2, Zenon DEF Report, b, c
  <2>4. /\ DOMAIN r = WinFields
        /\ r.login = c.login /\ r.told = c.told /\ r.patch = c.patch /\ r.saved = c.saved /\ r.at = c.at /\ r.run = c.run
        /\ r.cfg = c.cfg /\ r.chosen = c.chosen /\ r.auth = c.auth /\ r.cur = c.cur
        /\ r.ahead <=> c.ahead \/ l.badge # None
    BY <2>2 DEF WinFields
  <2> HIDE DEF r
  <2> QED BY <2>2, <2>3, <2>4 DEF Reported
<1> QED BY <1>1, <1>2

\* The first n steps of ReportAll.
Reports(w, conts, got, same, n, after) ==
  after = [i \in 0..n |-> IF i = 0 THEN w
                          ELSE Report(after[i - 1], Announces(conts[i], w.told, got, same))]

\* Such steps exist, so that ReportAll is defined by them.
LEMMA ReportsExist ==
  ASSUME NEW w, NEW conts, NEW got, NEW same, NEW n \in Nat
  PROVE  \E after : Reports(w, conts, got, same, n, after)
<1> DEFINE Bad == {m \in Nat : ~ \E after : Reports(w, conts, got, same, m, after)}
<1> SUFFICES ASSUME Bad # {} PROVE FALSE
  OBVIOUS
<1>1. PICK x \in Bad : \A y \in Bad : x <= y
  <2>1. Bad \in SUBSET Nat
    OBVIOUS
  <2> QED BY <2>1, LeastNatural
<1>2. x \in Nat /\ ~ \E after : Reports(w, conts, got, same, x, after)
  BY <1>1
<1>3. CASE x = 0
  <2>1. Reports(w, conts, got, same, x, [i \in 0..0 |-> w])
    BY <1>3 DEF Reports
  <2> QED BY <2>1, <1>2
<1>4. CASE x # 0
  <2>1. x - 1 \in Nat /\ x - 1 \notin Bad
    BY <1>1, <1>2, <1>4
  <2>2. PICK g : Reports(w, conts, got, same, x - 1, g)
    BY <2>1
  <2> DEFINE f == [i \in 0..x |-> IF i = 0 THEN w
                                  ELSE Report(g[i - 1], Announces(conts[i], w.told, got, same))]
  <2>3. \A i \in 0..(x - 1) : f[i] = g[i]
    <3>1. \A i \in 0..(x - 1) : g[i] = IF i = 0 THEN w
                                  ELSE Report(g[i - 1], Announces(conts[i], w.told, got, same))
      BY <2>2, Zenon DEF Reports
    <3>2. \A i \in 0..(x - 1) : i \in 0..x
      BY <1>2
    <3> QED BY <3>1, <3>2, Zenon
  <2>4. \A i \in 0..x : i # 0 => f[i - 1] = g[i - 1]
    <3>1. \A i \in 0..x : i # 0 => i - 1 \in 0..(x - 1)
      BY <1>2
    <3> QED BY <2>3, <3>1, Zenon
  <2>5. Reports(w, conts, got, same, x, f)
    BY <2>4, Zenon DEF Reports
  <2> QED BY <2>5, <1>2
<1> QED BY <1>3, <1>4

\* What a caller announces it has from the snapshot, from its message, or not at all.
LEMMA AnnouncesOf ==
  ASSUME NEW c, NEW told, NEW got, NEW same
  PROVE  Announces(c, told, got, same) \in {c.login, told, NotAsked}
  BY Zenon DEF Announces

\* Reporting shows accounts and verdicts, and touches nothing else.
LEMMA ReportAllOf ==
  ASSUME NEW w, DOMAIN w = WinFields, NEW conts, Len(conts) \in Nat, NEW got, NEW same
  PROVE  Reported(ReportAll(w, conts, got, same), w, UNION {{conts[i].login.auth, w.told.auth, Unknown} : i \in 1..Len(conts)})
<1> DEFINE A == UNION {{conts[i].login.auth, w.told.auth, Unknown} : i \in 1..Len(conts)}
<1>1. PICK after : Reports(w, conts, got, same, Len(conts), after) /\ ReportAll(w, conts, got, same) = after[Len(conts)]
  <2> DEFINE a == CHOOSE after : Reports(w, conts, got, same, Len(conts), after)
  <2>1. Reports(w, conts, got, same, Len(conts), a)
    BY ReportsExist, Zenon
  <2>2. ReportAll(w, conts, got, same) = a[Len(conts)]
    BY Zenon DEF ReportAll, Reports
  <2> QED BY <2>1, <2>2, Zenon
<1> DEFINE Bad == {n \in 0..Len(conts) : ~ Reported(after[n], w, A)}
<1>a. SUFFICES ASSUME Bad # {} PROVE FALSE
  <2>1. Len(conts) \in 0..Len(conts)
    OBVIOUS
  <2> QED BY <1>1, <2>1, Zenon
<1>2. PICK n \in Bad : \A m \in Bad : n <= m
  <2>1. Bad \in SUBSET Nat
    OBVIOUS
  <2> HIDE DEF Bad
  <2> QED BY <1>a, <2>1, LeastNatural
<1>3. n \in 0..Len(conts) /\ ~ Reported(after[n], w, A)
  BY <1>2
<1>4. CASE n = 0
  <2>1. after[0] = w
    <3>1. 0 \in 0..Len(conts)
      OBVIOUS
    <3> QED BY <1>1, <3>1, Zenon DEF Reports
  <2> QED BY <2>1, <1>3, <1>4 DEF Reported
<1>5. CASE n # 0
  <2>1. n - 1 \in 0..Len(conts) /\ Reported(after[n - 1], w, A)
    <3>1. n - 1 \in 0..Len(conts) /\ ~ n <= n - 1
      BY <1>3, <1>5
    <3>2. n - 1 \notin Bad
      BY <1>2, <3>1, Zenon
    <3> QED BY <3>1, <3>2, Zenon
  <2> DEFINE v == after[n - 1]
             l == Announces(conts[n], w.told, got, same)
             r == Report(v, l)
  <2>2. after[n] = r
    BY <1>1, <1>3, <1>5, Zenon DEF Reports
  <2>3. Reported(r, v, {l.auth})
    BY <2>1, ReportOf DEF Reported
  <2>4. l.auth \in A
    <3>1. l \in {conts[n].login, w.told, NotAsked}
      BY AnnouncesOf, Zenon
    <3>2. n \in 1..Len(conts) /\ NotAsked.auth = Unknown
      BY <1>3, <1>5 DEF NotAsked
    <3> HIDE DEF l
    <3> QED BY <3>1, <3>2
  <2>5. Reported(v, w, A)
    BY <2>1
  <2> HIDE DEF A, v, l, r
  <2>6. Reported(r, w, A)
    BY <2>3, <2>4, <2>5 DEF Reported
  <2> QED BY <2>2, <2>6, <1>3
<1> QED BY <1>4, <1>5
-----------------------------------------------------------------------------
(* What a step does to the wire                                            *)

\* An answer to a load.
Loaded(m) == m.k \in {"snapshot", "broken"}

\* The status read after a manual completion.
Manual(m) == m.k = "status" /\ m.for = "manual"

\* Two messages of which only one can be on its way.
Clash(m, n) == \/ m.k = n.k /\ m.k \in {"saved", "job", "auto"}
               \/ Manual(m) /\ Manual(n)
               \/ Loaded(m) /\ Loaded(n) /\ m.s = n.s

\* q is p without its first d messages and without some polls, and with messages
\* of N after it; f is where a message was.
Moves(f, q, p, N, d) ==
  /\ f \in [1..Len(q) -> 0..Len(p)]
  /\ \A i \in 1..Len(q) : \/ f[i] = 0 /\ q[i] \in N
                          \/ f[i] > d /\ q[i] = p[f[i]]
  /\ \A i, j \in 1..Len(q) : i < j /\ f[j] > 0 => 0 < f[i] /\ f[i] < f[j]
  /\ \A i, j \in 1..Len(q) : i < j /\ f[i] = 0 => ~ Clash(q[i], q[j])
  /\ \A j \in (d + 1)..Len(p) : IsPoll(p[j]) \/ \E i \in 1..Len(q) : f[i] = j
\* The same, of some f.
Carries(q, p, N, d) == Row(q) /\ Row(p) /\ \E f : Moves(f, q, p, N, d)

\* The length of a row is a number.
LEMMA RowLength == ASSUME NEW q, Row(q) PROVE Len(q) \in Nat
  BY DEF Row

\* A wire that is left alone carries what it carried.
LEMMA CarriesSame ==
  ASSUME NEW p, Row(p), NEW N
  PROVE  Carries(p, p, N, 0)
<1>1. Len(p) \in Nat
  BY RowLength
<1>2. Moves([i \in 1..Len(p) |-> i], p, p, N, 0)
  BY <1>1 DEF Moves
<1> QED BY <1>2 DEF Carries

\* So does one whose first message is taken.
LEMMA CarriesTail ==
  ASSUME NEW p, Row(p), p # <<>>, NEW N
  PROVE  Carries(Tail(p), p, N, 1)
<1>1. /\ Row(Tail(p)) /\ Len(p) \in Nat \ {0} /\ Len(Tail(p)) = Len(p) - 1
      /\ \A i \in 1..Len(Tail(p)) : Tail(p)[i] = p[i + 1]
  BY Popped
<1> DEFINE t == Tail(p)
           f == [i \in 1..Len(t) |-> i + 1]
<1> HIDE DEF t
<1>2. \A j \in 2..Len(p) : j - 1 \in 1..Len(t) /\ f[j - 1] = j
  BY <1>1 DEF t
<1>3. Moves(f, t, p, N, 1)
  BY <1>1, <1>2 DEF Moves, t
<1> QED BY <1>1, <1>3 DEF Carries, t

\* Taking the first message first.
LEMMA CarriesPopped ==
  ASSUME NEW p, Row(p), p # <<>>, NEW q, NEW N, Carries(q, Tail(p), N, 0)
  PROVE  Carries(q, p, N, 1)
<1> DEFINE t == Tail(p)
<1>1. /\ Len(p) \in Nat \ {0} /\ Len(t) = Len(p) - 1
      /\ \A i \in 1..Len(t) : t[i] = p[i + 1]
  BY Popped
<1>2. Row(q) /\ Len(q) \in Nat
  BY RowLength DEF Carries
<1> HIDE DEF t
<1>3. PICK f : Moves(f, q, t, N, 0)
  BY DEF Carries, t
<1> DEFINE g == [i \in 1..Len(q) |-> IF f[i] = 0 THEN 0 ELSE f[i] + 1]
<1>4. \A i \in 1..Len(q) : f[i] \in 0..Len(t)
  BY <1>3 DEF Moves
<1>5. \A i \in 1..Len(q) : /\ g[i] \in 0..Len(p) /\ (g[i] = 0 <=> f[i] = 0)
                           /\ f[i] # 0 => g[i] = f[i] + 1
  BY <1>1, <1>4
<1>6. \A i \in 1..Len(q) : \/ g[i] = 0 /\ q[i] \in N
                           \/ g[i] > 1 /\ q[i] = p[g[i]]
  <2> SUFFICES ASSUME NEW i \in 1..Len(q) PROVE (g[i] = 0 /\ q[i] \in N) \/ (g[i] > 1 /\ q[i] = p[g[i]])
    OBVIOUS
  <2>1. CASE f[i] = 0
    BY <1>3, <1>5, <2>1 DEF Moves
  <2>2. CASE f[i] # 0
    <3>1. f[i] \in 1..Len(t) /\ q[i] = t[f[i]]
      BY <1>3, <1>4, <2>2 DEF Moves
    <3>2. g[i] = f[i] + 1
      BY <1>5, <2>2
    <3> HIDE DEF g
    <3> QED BY <1>1, <3>1, <3>2
  <2> QED BY <2>1, <2>2
<1>7. g \in [1..Len(q) -> 0..Len(p)]
  BY <1>5
<1> HIDE DEF g
<1>8. \A i, j \in 1..Len(q) : i < j /\ g[j] > 0 => 0 < g[i] /\ g[i] < g[j]
  BY <1>3, <1>4, <1>5, <1>7 DEF Moves
<1>9. \A i, j \in 1..Len(q) : i < j /\ g[i] = 0 => ~ Clash(q[i], q[j])
  BY <1>3, <1>5 DEF Moves
<1>10. \A j \in 2..Len(p) : IsPoll(p[j]) \/ \E i \in 1..Len(q) : g[i] = j
  <2> SUFFICES ASSUME NEW j \in 2..Len(p) PROVE IsPoll(p[j]) \/ \E i \in 1..Len(q) : g[i] = j
    OBVIOUS
  <2>1. j - 1 \in 1..Len(t) /\ t[j - 1] = p[j]
    BY <1>1
  <2>2. IsPoll(t[j - 1]) \/ \E i \in 1..Len(q) : f[i] = j - 1
    BY <1>3, <2>1 DEF Moves
  <2> QED BY <1>5, <2>1, <2>2
<1>11. Moves(g, q, p, N, 1)
  BY <1>6, <1>7, <1>8, <1>9, <1>10 DEF Moves
<1> QED BY <1>2, <1>11 DEF Carries

\* Messages told after those on the wire.
LEMMA CarriesMore ==
  ASSUME NEW q, NEW p, NEW d \in {0, 1}, Carries(q, p, {}, d), NEW r, Row(r), NEW N,
         \A i \in 1..Len(r) : r[i] \in N,
         \A i, j \in 1..Len(r) : i < j => ~ Clash(r[i], r[j])
  PROVE  Carries(q \o r, p, N, d)
<1>1. Row(q) /\ Row(p) /\ Len(q) \in Nat /\ Len(p) \in Nat /\ Len(r) \in Nat
  BY RowLength DEF Carries
<1> DEFINE w == q \o r
<1>2. /\ Row(w) /\ Len(w) = Len(q) + Len(r)
      /\ \A i \in 1..Len(q) : w[i] = q[i]
      /\ \A i \in 1..Len(r) : w[Len(q) + i] = r[i]
  BY <1>1, Joined
<1> HIDE DEF w
<1>3. PICK f : Moves(f, q, p, {}, d)
  BY DEF Carries
<1>4. \A i \in 1..Len(q) : f[i] \in 1..Len(p) /\ f[i] > d /\ q[i] = p[f[i]]
  BY <1>1, <1>3 DEF Moves
<1> DEFINE g == [i \in 1..Len(w) |-> IF i <= Len(q) THEN f[i] ELSE 0]
<1>5. \A i \in 1..Len(w) : \/ i \in 1..Len(q) /\ g[i] = f[i] /\ w[i] = q[i]
                           \/ i - Len(q) \in 1..Len(r) /\ i > Len(q) /\ g[i] = 0 /\ w[i] = r[i - Len(q)]
  <2> SUFFICES ASSUME NEW i \in 1..Len(w)
               PROVE  \/ i \in 1..Len(q) /\ g[i] = f[i] /\ w[i] = q[i]
                      \/ i - Len(q) \in 1..Len(r) /\ i > Len(q) /\ g[i] = 0 /\ w[i] = r[i - Len(q)]
    OBVIOUS
  <2>1. CASE i <= Len(q)
    BY <1>1, <1>2, <2>1
  <2>2. CASE i > Len(q)
    <3>1. i - Len(q) \in 1..Len(r) /\ Len(q) + (i - Len(q)) = i
      BY <1>1, <1>2, <2>2
    <3>2. w[i] = r[i - Len(q)]
      BY <1>2, <3>1
    <3> QED BY <1>1, <2>2, <3>1, <3>2
  <2> QED BY <1>1, <1>2, <2>1, <2>2
<1>6. \A i \in 1..Len(q) : i \in 1..Len(w) /\ g[i] = f[i]
  BY <1>1, <1>2
<1>7. g \in [1..Len(w) -> 0..Len(p)]
  BY <1>1, <1>4, <1>5
<1> HIDE DEF g
<1>8. \A i \in 1..Len(w) : \/ g[i] = 0 /\ w[i] \in N
                           \/ g[i] > d /\ w[i] = p[g[i]]
  BY <1>4, <1>5
<1>9. \A i, j \in 1..Len(w) : i < j /\ g[j] > 0 => 0 < g[i] /\ g[i] < g[j]
  <2> SUFFICES ASSUME NEW i \in 1..Len(w), NEW j \in 1..Len(w), i < j, g[j] > 0
               PROVE  0 < g[i] /\ g[i] < g[j]
    OBVIOUS
  <2>1. j \in 1..Len(q) /\ g[j] = f[j]
    BY <1>5
  <2>2. i \in 1..Len(q) /\ g[i] = f[i]
    BY <1>1, <1>6, <2>1
  <2> QED BY <1>3, <2>1, <2>2 DEF Moves
<1>10. \A i, j \in 1..Len(w) : i < j /\ g[i] = 0 => ~ Clash(w[i], w[j])
  <2> SUFFICES ASSUME NEW i \in 1..Len(w), NEW j \in 1..Len(w), i < j, g[i] = 0
               PROVE  ~ Clash(w[i], w[j])
    OBVIOUS
  <2>1. i > Len(q) /\ i - Len(q) \in 1..Len(r) /\ w[i] = r[i - Len(q)]
    BY <1>4, <1>5
  <2>2. j - Len(q) \in 1..Len(r) /\ w[j] = r[j - Len(q)] /\ i - Len(q) < j - Len(q)
    BY <1>1, <1>5, <2>1
  <2> QED BY <2>1, <2>2
<1>11. \A j \in (d + 1)..Len(p) : IsPoll(p[j]) \/ \E i \in 1..Len(w) : g[i] = j
  BY <1>3, <1>6 DEF Moves
<1>12. Moves(g, w, p, N, d)
  BY <1>7, <1>8, <1>9, <1>10, <1>11 DEF Moves
<1> QED BY <1>1, <1>2, <1>12 DEF Carries, w

\* A mail of one or two messages.
LEMMA One ==
  ASSUME NEW m
  PROVE  Row(<<m>>) /\ Len(<<m>>) = 1 /\ \A i \in 1..Len(<<m>>) : i = 1 /\ <<m>>[i] = m
<1>1. <<m>> \in Seq({m})
  OBVIOUS
<1>2. Row(<<m>>)
  BY <1>1, RowOf
<1> QED BY <1>2

\* The same for two messages.
LEMMA Two ==
  ASSUME NEW m, NEW n
  PROVE  /\ Row(<<m, n>>) /\ Len(<<m, n>>) = 2
         /\ \A i \in 1..Len(<<m, n>>) : (i = 1 /\ <<m, n>>[i] = m) \/ (i = 2 /\ <<m, n>>[i] = n)
<1>1. <<m, n>> \in Seq({m, n})
  OBVIOUS
<1>2. Row(<<m, n>>)
  BY <1>1, RowOf
<1> QED BY <1>2

\* What is left of the wire when the polls are cleaned up.
LEMMA DisposedOf ==
  ASSUME NEW q, Row(q), NEW l
  PROVE  /\ Carries(Disposed(q, l), q, {}, 0)
         /\ ~ Pending(l) => \A i \in 1..Len(Disposed(q, l)) : ~ IsPoll(Disposed(q, l)[i])
<1>1. CASE Pending(l)
  BY <1>1, CarriesSame DEF Disposed
<1>2. CASE ~ Pending(l)
  <2> DEFINE S == {i \in DOMAIN q : ~ IsPoll(q[i])}
             p == Only(q, S)
  <2>1. Disposed(q, l) = p
    BY <1>2 DEF Disposed
  <2>2. Len(q) \in Nat /\ DOMAIN q = 1..Len(q)
    BY DEF Row
  <2>3. PICK f : Selects(f, p, q, S, Len(q))
    BY <2>2, OnlyOf
  <2>4. \A i \in 1..Len(q) : i \in S \/ IsPoll(q[i])
    BY <2>2
  <2>5. \A i \in S : ~ IsPoll(q[i])
    OBVIOUS
  <2> HIDE DEF S, p
  <2>6. f \in [1..Len(p) -> 0..Len(q)] /\ \A i \in 1..Len(p) : f[i] > 0
    BY <2>2, <2>3 DEF Selects
  <2>7. Moves(f, p, q, {}, 0)
    BY <2>2, <2>3, <2>4, <2>6 DEF Selects, Moves
  <2> QED BY <2>1, <2>3, <2>5, <2>7 DEF Carries, Selects
<1> QED BY <1>1, <1>2

\* The calls for an account that read the status once more.
LEMMA AsksStatusOf ==
  ASSUME NEW conts, Row(conts), NEW same
  PROVE  /\ Row(AsksStatus(conts, same))
         /\ \A i \in 1..Len(AsksStatus(conts, same)) :
              AsksStatus(conts, same)[i] \in {Status("add", eng.login), Status("adderr", eng.login)}
         /\ Len(conts) = 0 => Len(AsksStatus(conts, same)) = 0
<1> DEFINE S == {i \in DOMAIN conts : same /\ conts[i].k \in {"add", "adderr"}}
           a == Only(conts, S)
           r == [i \in 1..Len(a) |-> Status(a[i].k, eng.login)]
<1>1. AsksStatus(conts, same) = r
  BY DEF AsksStatus
<1>2. Len(conts) \in Nat
  BY RowLength
<1>3. PICK f : Selects(f, a, conts, S, Len(conts))
  BY <1>2, OnlyOf
<1>4. \A i \in S : conts[i].k \in {"add", "adderr"}
  OBVIOUS
<1> HIDE DEF S, a
<1>5. Len(a) \in Nat /\ \A i \in 1..Len(a) : a[i].k \in {"add", "adderr"}
  <2>1. Len(a) \in Nat
    BY <1>3, RowLength DEF Selects
  <2>2. \A i \in 1..Len(a) : f[i] \in S /\ a[i] = conts[f[i]]
    BY <1>3 DEF Selects
  <2> QED BY <1>4, <2>1, <2>2
<1>10. Len(conts) = 0 => Len(a) = 0
  <2> SUFFICES ASSUME Len(conts) = 0, Len(a) # 0 PROVE FALSE
    OBVIOUS
  <2>1. 1 \in 1..Len(a)
    BY <1>5
  <2>2. f[1] \in 1..Len(conts)
    BY <1>3, <2>1 DEF Selects
  <2> QED BY <2>2
<1> DEFINE R == {Status("add", eng.login), Status("adderr", eng.login)}
<1>6. \A i \in 1..Len(a) : Status(a[i].k, eng.login) \in R
  BY <1>5
<1> HIDE DEF R
<1>7. r \in [1..Len(a) -> R]
  BY <1>6
<1>8. r \in Seq(R) /\ Len(r) = Len(a)
  BY <1>5, <1>7
<1>9. Row(r)
  BY <1>8, RowOf
<1> QED BY <1>1, <1>6, <1>8, <1>9, <1>10 DEF R
-----------------------------------------------------------------------------
(* The invariant                                                           *)

\* The fields of the records.
Changes == {"rev", "due", "cur", "cfg", "auth", "pass", "run", "stale", "asked", "target", "login", "hush", "tx", "chain"}
Records ==
  /\ DOMAIN eng = Changes
  /\ DOMAIN win = WinFields
  /\ DOMAIN job = {"k", "todo"} /\ DOMAIN auto = {"st", "left"} /\ DOMAIN loads = Slots
  /\ \A s \in Slots : /\ DOMAIN loads[s] = {"st", "auth", "cur", "latest", "conts"}
                      /\ Row(loads[s].conts)

\* One load is the latest, only the latest is current, and nothing is known of how it ends.
LoadsFine ==
  \A s \in Slots : /\ loads[s].st \in {"free", "asked", "inspected", "sent"}
                   /\ loads[s].cur => loads[s].latest
                   /\ loads[s].latest => done = "none" /\ loads[s].st # "free"
                   /\ loads[s].st = "asked" => loads[s].auth = Unknown
                   /\ loads[s].st = "free" => loads[s].conts = <<>>
                   /\ \A t \in Slots : loads[s].latest /\ loads[t].latest => s = t

\* An answer to a load names its slot, which no other load has until it arrives.
OnTheWay ==
  /\ Row(wire)
  /\ \A i \in 1..Len(wire) : /\ Loaded(wire[i]) => wire[i].s \in Slots /\ loads[wire[i].s].st = "sent"
                             /\ wire[i].k = "snapshot" => wire[i].auth = loads[wire[i].s].auth
  /\ \A i, j \in 1..Len(wire) : i < j => ~ Clash(wire[i], wire[j])

\* A load that was answered and has not arrived has its answer on the wire.
Answered == \A s \in Slots : loads[s].st = "sent" => \E i \in 1..Len(wire) : Loaded(wire[i]) /\ wire[i].s = s

\* A snapshot that will be shown.
Shows(m, ls) == m.k = "snapshot" /\ ls[m.s].cur

\* The save under way is the first of the queue, and the choice shown is the last.
SavesQueued ==
  /\ Row(saves)
  /\ saves # <<>> => /\ win.cfg = win.chosen /\ saves[Len(saves)] = win.chosen
                     /\ \A i \in 1..Len(wire) : wire[i].k = "saved" /\ wire[i].ok => eng.cfg = saves[1]
  /\ saves = <<>> => \A i \in 1..Len(wire) : wire[i].k # "saved"
  /\ saves = <<>> /\ win.saved => /\ eng.cfg = win.chosen /\ win.cfg = win.chosen
                                  /\ \A i \in 1..Len(wire) : Shows(wire[i], loads) => wire[i].cfg = win.chosen

\* What is told of an open login tells that it is open.
PendingTold ==
  /\ ~ Pending(win.login) => \A i \in 1..Len(wire) : ~ IsPoll(wire[i])
  /\ Pending(eng.login) => \A i \in 1..Len(wire) : IsPoll(wire[i]) \/ Shows(wire[i], loads) => Pending(wire[i].login)

\* No verdict is newer than the engine's.
Tells(m) == IF m.k \in {"tick", "reply", "job", "snapshot"} THEN m.auth
            ELSE IF m.k \in {"status", "added"} THEN m.login.auth ELSE Unknown
Past == 0..eng.auth
Bounds ==
  /\ eng.auth \in Nat /\ eng.pass \in Past /\ eng.login.auth \in Past /\ win.auth \in Past /\ win.told.auth \in Past
  /\ \A s \in Slots : /\ loads[s].auth \in Past
                      /\ \A i \in 1..Len(loads[s].conts) : loads[s].conts[i].login.auth \in Past
  /\ \A i \in 1..Len(wire) : Tells(wire[i]) \in Past /\ (wire[i].k = "snapshot" => wire[i].login.auth \in Past)

\* A switch has the verdict it read, and a login that is written is open unless it is over.
SwitchFine ==
  /\ DOMAIN eng.tx = {"by", "st", "who", "was", "auth"} /\ DOMAIN eng.chain = {"on", "who", "mine"}
  /\ eng.tx.auth \in Past
  /\ Mine => Pending(eng.login)

\* One answer to an operation on all accounts, which tells a verdict if it went well.
JobTold ==
  /\ job.k = "status" => job = Job("status")
  /\ \A i \in 1..Len(wire) : Manual(wire[i]) => job.k = "status"
  /\ \A i \in 1..Len(wire) : wire[i].k = "job" => job.k = "answered" /\ (wire[i].ok \/ wire[i].auth = Unknown)

\* The current load has seen a verdict, and will show it.
Judged(s) == loads[s].cur /\ loads[s].auth # Unknown
OnWire(k) == \E i \in 1..Len(wire) : wire[i].k = k
After(i, s) == loads[s].st = "inspected" \/ \E n \in (i + 1)..Len(wire) : Loaded(wire[n]) /\ wire[n].s = s

ShownIsNoNewer == job.k # "status" => \A s \in Slots : Judged(s) => win.auth <= loads[s].auth

\* A status that tells a newer verdict than the load behind it comes after the answer
\* of the call that asked for the login, which starts another load.
Reads(m) == m.k = "status" /\ m.for \in {"add", "adderr", "cancel"}
StatusIsNoNewer ==
  \A s \in Slots, i \in 1..Len(wire) :
    Judged(s) /\ Reads(wire[i]) /\ After(i, s) =>
      wire[i].login.auth <= loads[s].auth \/ \E j \in 1..(i - 1) : wire[j].k = "added"

\* The status a cancellation will read comes after that answer as well.
CancelIsNoNewer ==
  \A s \in Slots : Judged(s) /\ loads[s].st = "inspected" /\ OnWire("cancelled") =>
    eng.login.auth <= loads[s].auth \/ OnWire("added")
CancelledIsAsked == OnWire("cancelled") /\ Pending(eng.login) => eng.asked

\* One automatic sync, which ends with one load.
AutoTold ==
  /\ \A i \in 1..Len(wire) : wire[i].k = "auto" => auto.st = "answered"
  /\ \A s \in Slots : Has(loads[s].conts, "synced") => auto.st = "loading"
  /\ \A s, t \in Slots : Has(loads[s].conts, "synced") /\ Has(loads[t].conts, "synced") => s = t

\* A load will begin: because of a message, a timer, the sync, a save, or a login asked for.
Makes(m) == \/ m.k \in {"event", "tick", "added"}
            \/ m.k = "reply" /\ (m.ok \/ m.kind \in {"refresh", "token"})
            \/ m.k = "job" /\ m.kind \in {"toggle", "imported"}
            \/ m.k = "job" /\ m.kind \in {"all", "verify", "resolve"} /\ m.ok
OnItsWay == \E i \in 1..Len(wire) : Makes(wire[i])
Owed == OnItsWay \/ win.patch \/ auto.st \in {"asking", "answered"} \/ saves # <<>> \/ eng.asked

Fresh(m, e) == m.rev >= e.due /\ m.cfg = e.cfg /\ m.run = e.run /\ (m.cur = e.cur \/ m.rev < e.hush)
Shown == /\ win.at >= eng.due /\ win.cfg = eng.cfg /\ win.run = eng.run
         /\ win.ahead \/ win.cur = eng.cur \/ win.at < eng.hush
Counted == eng.due \in Nat /\ eng.rev \in Nat /\ eng.due <= eng.rev

\* No snapshot is of a later state than this one.
Seen == /\ win.at \in 0..eng.rev
        /\ \A i \in 1..Len(wire) : wire[i].k = "snapshot" => wire[i].rev \in 0..eng.rev

\* The snapshot to be shown, and what is shown, is true unless a load is still owed.
FreshOrOwed == \A i \in 1..Len(wire) : Shows(wire[i], loads) => Fresh(wire[i], eng) \/ Owed
ShownOrOwed == Shown \/ done = "broken" \/ Owed \/ \E s \in Slots : loads[s].cur

Verdicts == ShownIsNoNewer /\ StatusIsNoNewer /\ CancelIsNoNewer /\ CancelledIsAsked
Truth == Counted /\ Seen /\ FreshOrOwed /\ ShownOrOwed
Inv == /\ Records /\ LoadsFine /\ OnTheWay /\ Answered /\ SavesQueued /\ PendingTold /\ Bounds
       /\ SwitchFine /\ JobTold /\ Verdicts /\ AutoTold /\ Truth
-----------------------------------------------------------------------------
(* What keeps each part                                                    *)

\* The loads that answered stay as they are, apart from being superseded.
KeptOnWay(d) ==
  \A i \in (d + 1)..Len(wire) :
    Loaded(wire[i]) => LET s == wire[i].s
                       IN  /\ loads'[s].st = "sent" /\ loads'[s].auth = loads[s].auth
                           /\ loads'[s].cur => loads[s].cur

\* Where the messages of the next state come from, and what stays of those
\* there were.
LEMMA ComesFrom ==
  ASSUME NEW q, NEW p, NEW N, NEW d \in {0, 1}, Carries(q, p, N, d)
  PROVE  /\ Len(q) \in Nat /\ Len(p) \in Nat
         /\ \A i \in 1..Len(q) : q[i] \in N \/ \E j \in (d + 1)..Len(p) : j \in 1..Len(p) /\ q[i] = p[j]
         /\ \A j \in (d + 1)..Len(p) : IsPoll(p[j]) \/ \E i \in 1..Len(q) : q[i] = p[j]
<1>1. PICK f : Moves(f, q, p, N, d)
  BY DEF Carries
<1>2. Len(q) \in Nat /\ Len(p) \in Nat
  BY RowLength DEF Carries
<1>3. ASSUME NEW i \in 1..Len(q), q[i] \notin N
      PROVE  \E j \in (d + 1)..Len(p) : j \in 1..Len(p) /\ q[i] = p[j]
  <2>1. f[i] \in 0..Len(p) /\ f[i] > d /\ q[i] = p[f[i]]
    BY <1>1, <1>3 DEF Moves
  <2> QED BY <1>2, <2>1
<1>4. ASSUME NEW j \in (d + 1)..Len(p), ~ IsPoll(p[j])
      PROVE  \E i \in 1..Len(q) : q[i] = p[j]
  <2>1. PICK i \in 1..Len(q) : f[i] = j
    BY <1>1, <1>4 DEF Moves
  <2>2. q[i] = p[j]
    BY <1>1, <1>2, <2>1 DEF Moves
  <2> QED BY <2>2
<1> QED BY <1>2, <1>3, <1>4

\* Answers still name a load that waits for them, and no two messages clash.
LEMMA KeepsOnTheWay ==
  ASSUME OnTheWay, NEW N, NEW d \in {0, 1}, Carries(wire', wire, N, d), KeptOnWay(d),
         \A m \in N : /\ Loaded(m) => m.s \in Slots /\ loads'[m.s].st = "sent"
                      /\ m.k = "snapshot" => m.auth = loads'[m.s].auth
                      /\ \A i \in (d + 1)..Len(wire) : ~ Clash(wire[i], m)
  PROVE  OnTheWay'
<1>1. /\ Len(wire') \in Nat /\ Len(wire) \in Nat
      /\ \A i \in 1..Len(wire') : wire'[i] \in N \/ \E j \in (d + 1)..Len(wire) : j \in 1..Len(wire) /\ wire'[i] = wire[j]
  BY ComesFrom
<1>2. Row(wire')
  BY DEF Carries
<1>3. ASSUME NEW i \in 1..Len(wire')
      PROVE  /\ Loaded(wire'[i]) => wire'[i].s \in Slots /\ loads'[wire'[i].s].st = "sent"
             /\ wire'[i].k = "snapshot" => wire'[i].auth = loads'[wire'[i].s].auth
  <2>1. CASE wire'[i] \in N
    BY <2>1
  <2>2. ASSUME NEW j \in (d + 1)..Len(wire), j \in 1..Len(wire), wire'[i] = wire[j]
        PROVE  /\ Loaded(wire'[i]) => wire'[i].s \in Slots /\ loads'[wire'[i].s].st = "sent"
               /\ wire'[i].k = "snapshot" => wire'[i].auth = loads'[wire'[i].s].auth
    BY <2>2 DEF OnTheWay, KeptOnWay, Loaded
  <2> QED BY <1>1, <2>1, <2>2
<1>4. PICK f : Moves(f, wire', wire, N, d)
  BY DEF Carries
<1>5. ASSUME NEW i \in 1..Len(wire'), NEW j \in 1..Len(wire'), i < j
      PROVE  ~ Clash(wire'[i], wire'[j])
  <2>1. CASE f[i] = 0
    BY <1>4, <1>5, <2>1 DEF Moves
  <2>2. CASE f[i] # 0
    <3>1. f[i] \in (d + 1)..Len(wire) /\ f[i] \in 1..Len(wire) /\ wire'[i] = wire[f[i]]
      BY <1>1, <1>4, <2>2 DEF Moves
    <3>2. CASE f[j] = 0
      BY <1>4, <3>1, <3>2 DEF Moves
    <3>3. CASE f[j] # 0
      <4>1. f[j] \in 1..Len(wire) /\ wire'[j] = wire[f[j]] /\ f[i] < f[j]
        BY <1>1, <1>4, <1>5, <3>3 DEF Moves
      <4> QED BY <3>1, <4>1 DEF OnTheWay
    <3> QED BY <3>2, <3>3
  <2> QED BY <2>1, <2>2
<1> QED BY <1>2, <1>3, <1>5 DEF OnTheWay

\* No answer to a load is popped, and none is sent.
LEMMA KeepsAnswered ==
  ASSUME Answered, NEW N, NEW d \in {0, 1}, Carries(wire', wire, N, d), d = 1 => ~ Loaded(wire[1]),
         \A s \in Slots : loads'[s].st = "sent" => loads[s].st = "sent"
  PROVE  Answered'
<1>1. /\ Len(wire') \in Nat /\ Len(wire) \in Nat
      /\ \A j \in (d + 1)..Len(wire) : IsPoll(wire[j]) \/ \E i \in 1..Len(wire') : wire'[i] = wire[j]
  BY ComesFrom
<1> SUFFICES ASSUME NEW s \in Slots, loads'[s].st = "sent"
             PROVE  \E i \in 1..Len(wire') : Loaded(wire'[i]) /\ wire'[i].s = s
  BY DEF Answered
<1>2. PICK j \in 1..Len(wire) : Loaded(wire[j]) /\ wire[j].s = s
  BY DEF Answered
<1>3. ~ IsPoll(wire[j]) /\ j \in (d + 1)..Len(wire)
  BY <1>1, <1>2 DEF Loaded, IsPoll
<1> QED BY <1>1, <1>2, <1>3

\* The saves stay in line with the interval shown.
LEMMA KeepsSaves ==
  ASSUME SavesQueued, NEW N, NEW d \in {0, 1}, Carries(wire', wire, N, d), KeptOnWay(d),
         \A m \in N : m.k # "saved" /\ (m.k = "snapshot" => m.cfg = eng.cfg),
         saves' = saves, eng'.cfg = eng.cfg,
         win'.chosen = win.chosen, win'.saved = win.saved,
         win'.cfg = win.cfg \/ (saves = <<>> /\ ~ win.saved)
  PROVE  SavesQueued'
<1>1. /\ Len(wire') \in Nat /\ Len(wire) \in Nat
      /\ \A i \in 1..Len(wire') : wire'[i] \in N \/ \E j \in (d + 1)..Len(wire) : j \in 1..Len(wire) /\ wire'[i] = wire[j]
  BY ComesFrom
<1>2. ASSUME NEW i \in 1..Len(wire'), wire'[i].k = "saved"
      PROVE  \E j \in 1..Len(wire) : wire'[i] = wire[j]
  BY <1>1, <1>2
<1>3. ASSUME NEW i \in 1..Len(wire'), Shows(wire'[i], loads'), saves = <<>>, win.saved
      PROVE  wire'[i].cfg = win.chosen
  <2>1. CASE wire'[i] \in N
    BY <1>3, <2>1 DEF Shows, SavesQueued
  <2>2. ASSUME NEW j \in (d + 1)..Len(wire), j \in 1..Len(wire), wire'[i] = wire[j]
        PROVE  wire'[i].cfg = win.chosen
    BY <1>3, <2>2 DEF Shows, KeptOnWay, Loaded, SavesQueued
  <2> QED BY <1>1, <2>1, <2>2
<1> QED BY <1>2, <1>3 DEF SavesQueued

\* An open login is still told of as open.
LEMMA KeepsPending ==
  ASSUME PendingTold, NEW N, NEW d \in {0, 1}, Carries(wire', wire, N, d), KeptOnWay(d),
         \A m \in N : IsPoll(m) \/ m.k = "snapshot" => m.login = eng'.login,
         Pending(eng'.login) => Pending(eng.login),
         \/ win'.login = win.login /\ \A m \in N : IsPoll(m) => Pending(win.login)
         \/ Pending(win'.login)
         \/ \A i \in 1..Len(wire') : ~ IsPoll(wire'[i])
  PROVE  PendingTold'
<1>1. /\ Len(wire') \in Nat /\ Len(wire) \in Nat
      /\ \A i \in 1..Len(wire') : wire'[i] \in N \/ \E j \in (d + 1)..Len(wire) : j \in 1..Len(wire) /\ wire'[i] = wire[j]
  BY ComesFrom
<1>2. ASSUME NEW i \in 1..Len(wire'), Pending(eng'.login), IsPoll(wire'[i]) \/ Shows(wire'[i], loads')
      PROVE  Pending(wire'[i].login)
  <2>1. CASE wire'[i] \in N
    BY <1>2, <2>1 DEF Shows
  <2>2. ASSUME NEW j \in (d + 1)..Len(wire), j \in 1..Len(wire), wire'[i] = wire[j]
        PROVE  Pending(wire'[i].login)
    BY <1>2, <2>2 DEF Shows, KeptOnWay, Loaded, PendingTold
  <2> QED BY <1>1, <2>1, <2>2
<1>3. ASSUME NEW i \in 1..Len(wire'), ~ Pending(win'.login)
      PROVE  ~ IsPoll(wire'[i])
  BY <1>1, <1>3 DEF PendingTold
<1> QED BY <1>2, <1>3 DEF PendingTold

\* No verdict becomes newer than the engine's.
LEMMA KeepsBounds ==
  ASSUME Bounds, NEW N, NEW d \in {0, 1}, Carries(wire', wire, N, d),
         eng'.auth \in Nat, eng.auth <= eng'.auth,
         eng'.pass \in Past', eng'.login.auth \in Past', win'.auth \in Past', win'.told.auth \in Past',
         \A s \in Slots : /\ loads'[s].auth \in Past'
                          /\ \A i \in 1..Len(loads'[s].conts) : loads'[s].conts[i].login.auth \in Past',
         \A m \in N : Tells(m) \in Past' /\ (m.k = "snapshot" => m.login.auth \in Past')
  PROVE  Bounds'
<1>1. /\ Len(wire') \in Nat /\ Len(wire) \in Nat
      /\ \A i \in 1..Len(wire') : wire'[i] \in N \/ \E j \in (d + 1)..Len(wire) : j \in 1..Len(wire) /\ wire'[i] = wire[j]
  BY ComesFrom
<1>2. \A v : v \in Past => v \in Past'
  BY DEF Past, Bounds
<1>3. \A i \in 1..Len(wire') : /\ Tells(wire'[i]) \in Past'
                               /\ wire'[i].k = "snapshot" => wire'[i].login.auth \in Past'
  BY <1>1, <1>2 DEF Bounds
<1> QED BY <1>3 DEF Bounds

\* One answer at most to the operation on all accounts.
LEMMA KeepsJob ==
  ASSUME JobTold, NEW N, NEW d \in {0, 1}, Carries(wire', wire, N, d),
         job'.k = "status" => job' = Job("status"),
         \A m \in N : /\ m.k = "job" => job'.k = "answered" /\ (m.ok \/ m.auth = Unknown)
                      /\ Manual(m) => job'.k = "status",
         \/ job' = job
         \/ job'.k = "answered" /\ job.k # "status"
         \/ \A i \in (d + 1)..Len(wire) : wire[i].k # "job" /\ ~ Manual(wire[i])
  PROVE  JobTold'
<1>1. /\ Len(wire') \in Nat /\ Len(wire) \in Nat
      /\ \A i \in 1..Len(wire') : wire'[i] \in N \/ \E j \in (d + 1)..Len(wire) : j \in 1..Len(wire) /\ wire'[i] = wire[j]
  BY ComesFrom
<1>2. ASSUME NEW i \in 1..Len(wire'), wire'[i].k = "job"
      PROVE  job'.k = "answered" /\ (wire'[i].ok \/ wire'[i].auth = Unknown)
  BY <1>1, <1>2 DEF JobTold
<1>3. ASSUME NEW i \in 1..Len(wire'), Manual(wire'[i])
      PROVE  job'.k = "status"
  BY <1>1, <1>3 DEF JobTold
<1> QED BY <1>2, <1>3 DEF JobTold

\* One answer at most to the automatic sync.
LEMMA KeepsAuto ==
  ASSUME AutoTold, NEW N, NEW d \in {0, 1}, Carries(wire', wire, N, d),
         \A m \in N : m.k = "auto" => auto'.st = "answered",
         \/ auto'.st = "answered" \/ auto'.st = auto.st
         \/ \A i \in (d + 1)..Len(wire) : wire[i].k # "auto",
         auto'.st = auto.st \/ auto.st # "loading",
         \A s \in Slots : Has(loads'[s].conts, "synced") => Has(loads[s].conts, "synced")
  PROVE  AutoTold'
<1>1. /\ Len(wire') \in Nat /\ Len(wire) \in Nat
      /\ \A i \in 1..Len(wire') : wire'[i] \in N \/ \E j \in (d + 1)..Len(wire) : j \in 1..Len(wire) /\ wire'[i] = wire[j]
  BY ComesFrom
<1>2. ASSUME NEW i \in 1..Len(wire'), wire'[i].k = "auto"
      PROVE  auto'.st = "answered"
  BY <1>1, <1>2 DEF AutoTold
<1> QED BY <1>2 DEF AutoTold

\* What is on the wire and is neither popped nor a poll stays there.
LEMMA StaysOnWire ==
  ASSUME NEW N, NEW d \in {0, 1}, Carries(wire', wire, N, d), NEW k, k # "status",
         d = 1 => wire[1].k # k, OnWire(k)
  PROVE  OnWire(k)'
<1>1. /\ Len(wire') \in Nat /\ Len(wire) \in Nat
      /\ \A j \in (d + 1)..Len(wire) : IsPoll(wire[j]) \/ \E i \in 1..Len(wire') : wire'[i] = wire[j]
  BY ComesFrom
<1>2. PICK j \in 1..Len(wire) : wire[j].k = k
  BY DEF OnWire
<1>3. j \in (d + 1)..Len(wire) /\ ~ IsPoll(wire[j])
  BY <1>1, <1>2 DEF IsPoll
<1>4. PICK i \in 1..Len(wire') : wire'[i] = wire[j]
  BY <1>1, <1>3
<1> QED BY <1>2, <1>4 DEF OnWire

\* What is on the wire was there or has just been told.
LEMMA ComesOnWire ==
  ASSUME NEW N, NEW d \in {0, 1}, Carries(wire', wire, N, d), NEW k, OnWire(k)'
  PROVE  OnWire(k) \/ \E m \in N : m.k = k
<1>1. /\ Len(wire') \in Nat /\ Len(wire) \in Nat
      /\ \A i \in 1..Len(wire') : wire'[i] \in N \/ \E j \in (d + 1)..Len(wire) : j \in 1..Len(wire) /\ wire'[i] = wire[j]
  BY ComesFrom
<1> QED BY <1>1 DEF OnWire

\* No load that could be judged gained or changed its verdict, unless it has just read it.
JudgedBefore ==
  \A s \in Slots : Judged(s)' =>
    \/ /\ Judged(s) /\ loads'[s].auth = loads[s].auth
       /\ loads'[s].st = "inspected" => loads[s].st = "inspected"
    \/ loads'[s].auth = eng'.auth

\* A status with a newer verdict still comes after the answer that starts
\* another load.
LEMMA KeepsStatus ==
  ASSUME StatusIsNoNewer, Bounds, Bounds', JudgedBefore,
         NEW N, NEW d \in {0, 1}, Carries(wire', wire, N, d),
         d = 1 => wire[1].k # "added",
         \A m \in N : /\ Loaded(m) => loads[m.s].st = "inspected"
                      /\ Reads(m) => \A s \in Slots : Judged(s) /\ loads[s].st = "inspected" =>
                                       m.login.auth <= loads[s].auth \/ OnWire("added")
  PROVE  StatusIsNoNewer'
<1> SUFFICES ASSUME NEW s \in Slots, NEW i \in 1..Len(wire'), Judged(s)', Reads(wire'[i]), After(i, s)',
                    ~ wire'[i].login.auth <= loads'[s].auth
             PROVE  \E j \in 1..(i - 1) : wire'[j].k = "added"
  BY DEF StatusIsNoNewer
<1>1. PICK f : Moves(f, wire', wire, N, d)
  BY DEF Carries
<1>2. Len(wire') \in Nat /\ Len(wire) \in Nat
  BY ComesFrom
<1>3. wire'[i].login.auth \in 0..eng'.auth /\ eng'.auth \in Nat
  BY DEF Bounds, Past, Tells, Reads
<1>4. /\ Judged(s) /\ loads'[s].auth = loads[s].auth
      /\ loads'[s].st = "inspected" => loads[s].st = "inspected"
  BY <1>3 DEF JudgedBefore
\* A message that was there and asked for a load is still before this one.
<1>5. ASSUME NEW j \in 1..Len(wire), wire[j].k = "added", f[i] = 0 \/ j < f[i]
      PROVE  \E n \in 1..(i - 1) : wire'[n].k = "added"
  <2>1. j \in (d + 1)..Len(wire) /\ ~ IsPoll(wire[j])
    BY <1>2, <1>5 DEF IsPoll
  <2>2. PICK n \in 1..Len(wire') : f[n] = j
    BY <1>1, <2>1 DEF Moves
  <2>3. wire'[n].k = "added"
    BY <1>1, <1>2, <1>5, <2>1, <2>2 DEF Moves
  <2>4. n # i
    BY <2>3 DEF Reads
  <2>5. ~ i < n
    BY <1>1, <1>2, <1>5, <2>2 DEF Moves
  <2> QED BY <1>2, <2>3, <2>4, <2>5
<1>6. CASE f[i] = 0
  <2>1. wire'[i] \in N
    BY <1>1, <1>6 DEF Moves
  <2>2. loads[s].st = "inspected"
    <3>1. CASE loads'[s].st = "inspected"
      BY <1>4, <3>1
    <3>2. ASSUME NEW n \in (i + 1)..Len(wire'), Loaded(wire'[n]), wire'[n].s = s
          PROVE  loads[s].st = "inspected"
      <4>1. n \in 1..Len(wire') /\ i < n
        BY <1>2
      <4>2. f[n] = 0
        BY <1>1, <1>2, <1>6, <4>1 DEF Moves
      <4>3. wire'[n] \in N
        BY <1>1, <4>1, <4>2 DEF Moves
      <4> QED BY <3>2, <4>3
    <3> QED BY <3>1, <3>2 DEF After
  <2>3. OnWire("added")
    BY <1>4, <2>1, <2>2
  <2> QED BY <1>5, <1>6, <2>3 DEF OnWire
<1>7. CASE f[i] # 0
  <2>1. f[i] \in 1..Len(wire) /\ wire'[i] = wire[f[i]]
    BY <1>1, <1>2, <1>7 DEF Moves
  <2>2. After(f[i], s)
    <3>1. CASE loads'[s].st = "inspected"
      BY <1>4, <3>1 DEF After
    <3>2. ASSUME NEW n \in (i + 1)..Len(wire'), Loaded(wire'[n]), wire'[n].s = s
          PROVE  After(f[i], s)
      <4>1. n \in 1..Len(wire') /\ i < n
        BY <1>2
      <4>2. CASE f[n] = 0
        <5>1. wire'[n] \in N
          BY <1>1, <4>1, <4>2 DEF Moves
        <5> QED BY <3>2, <5>1 DEF After
      <4>3. CASE f[n] # 0
        <5>1. f[n] \in (f[i] + 1)..Len(wire) /\ wire[f[n]] = wire'[n]
          BY <1>1, <1>2, <2>1, <4>1, <4>3 DEF Moves
        <5> QED BY <3>2, <5>1 DEF After
      <4> QED BY <4>2, <4>3
    <3> QED BY <3>1, <3>2 DEF After
  <2>3. PICK j \in 1..(f[i] - 1) : wire[j].k = "added"
    BY <1>4, <2>1, <2>2 DEF StatusIsNoNewer
  <2>4. j \in 1..Len(wire) /\ j < f[i]
    BY <1>2, <2>1
  <2> QED BY <1>5, <2>3, <2>4
<1> QED BY <1>6, <1>7

\* What is known of verdicts stays true when no load is judged that was not, or
\* it has just read the engine's.
LEMMA KeepsVerdicts ==
  ASSUME Verdicts, Bounds, Bounds', JudgedBefore,
         NEW N, NEW d \in {0, 1}, Carries(wire', wire, N, d),
         d = 1 => wire[1].k # "added",
         \A m \in N : /\ Loaded(m) => loads[m.s].st = "inspected"
                      /\ Reads(m) => \A s \in Slots : Judged(s) /\ loads[s].st = "inspected" =>
                                       m.login.auth <= loads[s].auth \/ OnWire("added")
                      /\ m.k = "cancelled" => eng'.login.auth = Unknown /\ ~ Pending(eng'.login),
         ShownIsNoNewer',
         \/ eng'.login.auth <= eng.login.auth
         \/ OnWire("cancelled") => \E m \in N : m.k = "added" /\ OnWire("added")',
         Pending(eng'.login) => Pending(eng.login) /\ (eng.asked => eng'.asked)
  PROVE  Verdicts'
<1>1. StatusIsNoNewer'
  BY KeepsStatus DEF Verdicts
<1>2. CancelledIsAsked'
  <2> SUFFICES ASSUME OnWire("cancelled")', Pending(eng'.login) PROVE eng'.asked
    BY DEF CancelledIsAsked
  <2>1. OnWire("cancelled")
    BY ComesOnWire
  <2> QED BY <2>1 DEF Verdicts, CancelledIsAsked
<1>3. CancelIsNoNewer'
  <2> SUFFICES ASSUME NEW s \in Slots, Judged(s)', loads'[s].st = "inspected", OnWire("cancelled")',
                      ~ eng'.login.auth <= loads'[s].auth
               PROVE  OnWire("added")'
    BY DEF CancelIsNoNewer
  <2>1. /\ eng'.login.auth \in 0..eng'.auth /\ eng'.auth \in Nat /\ loads'[s].auth \in 0..eng'.auth
        /\ eng.login.auth \in 0..eng.auth /\ eng.auth \in Nat
    BY DEF Bounds, Past
  <2>2. Judged(s) /\ loads'[s].auth = loads[s].auth /\ loads[s].st = "inspected"
    BY <2>1 DEF JudgedBefore
  <2>3. OnWire("cancelled")
    <3>1. ASSUME NEW m \in N, m.k = "cancelled" PROVE FALSE
      BY <2>1, <3>1 DEF Unknown
    <3> QED BY <3>1, ComesOnWire
  <2>4. CASE eng'.login.auth <= eng.login.auth
    <3>1. ~ eng.login.auth <= loads[s].auth
      BY <2>1, <2>2, <2>4
    <3>2. OnWire("added")
      BY <2>2, <2>3, <3>1 DEF Verdicts, CancelIsNoNewer
    <3> QED BY <3>2, StaysOnWire
  <2>5. CASE ~ eng'.login.auth <= eng.login.auth
    BY <2>3, <2>5
  <2> QED BY <2>4, <2>5
<1> QED BY <1>1, <1>2, <1>3 DEF Verdicts

\* Once no load has seen a verdict nothing is out of order.
LEMMA VerdictsReset ==
  ASSUME CancelledIsAsked, NEW N, NEW d \in {0, 1}, Carries(wire', wire, N, d),
         \A s \in Slots : ~ Judged(s)',
         \A m \in N : m.k # "cancelled",
         Pending(eng'.login) => (Pending(eng.login) /\ (eng.asked => eng'.asked)) \/ eng'.asked
  PROVE  Verdicts'
<1>1. CancelledIsAsked'
  <2> SUFFICES ASSUME OnWire("cancelled")', Pending(eng'.login) PROVE eng'.asked
    BY DEF CancelledIsAsked
  <2>1. OnWire("cancelled")
    BY ComesOnWire
  <2> QED BY <2>1 DEF CancelledIsAsked
<1> QED BY <1>1 DEF Verdicts, ShownIsNoNewer, StatusIsNoNewer, CancelIsNoNewer

\* What was owed is owed still, unless the step takes the reason away.
LEMMA KeepsOwed ==
  ASSUME NEW N, NEW d \in {0, 1}, Carries(wire', wire, N, d), Owed,
         d = 1 /\ Makes(wire[1]) => Owed',
         win.patch => win'.patch,
         auto.st \in {"asking", "answered"} => auto'.st \in {"asking", "answered"},
         saves # <<>> => saves' # <<>>,
         eng.asked => eng'.asked \/ \E m \in N : Makes(m) /\ OnItsWay'
  PROVE  Owed'
<1>1. CASE OnItsWay
  <2>1. /\ Len(wire') \in Nat /\ Len(wire) \in Nat
        /\ \A j \in (d + 1)..Len(wire) : IsPoll(wire[j]) \/ \E i \in 1..Len(wire') : wire'[i] = wire[j]
    BY ComesFrom
  <2>2. PICK j \in 1..Len(wire) : Makes(wire[j])
    BY <1>1 DEF OnItsWay
  <2>3. ~ IsPoll(wire[j])
    BY <2>2 DEF Makes, IsPoll
  <2>4. CASE j \in (d + 1)..Len(wire)
    BY <2>1, <2>2, <2>3, <2>4 DEF OnItsWay, Owed
  <2>5. CASE j \notin (d + 1)..Len(wire)
    <3>1. d = 1 /\ j = 1
      BY <2>1, <2>5
    <3> QED BY <2>2, <3>1
  <2> QED BY <2>4, <2>5
<1> QED BY <1>1 DEF Owed

\* The current account stays as it is, or moves without a word.
CurKept == (eng'.cur = eng.cur /\ eng'.hush = eng.hush) \/ eng'.hush = eng.rev + 1

\* No snapshot overtakes the engine.
LEMMA KeepsSeen ==
  ASSUME Seen, Counted, Counted', eng.rev <= eng'.rev, NEW N, NEW d \in {0, 1}, Carries(wire', wire, N, d),
         win'.at \in 0..eng'.rev, \A m \in N : m.k = "snapshot" => m.rev \in 0..eng'.rev
  PROVE  Seen'
<1>1. /\ Len(wire') \in Nat /\ Len(wire) \in Nat
      /\ \A i \in 1..Len(wire') : wire'[i] \in N \/ \E j \in (d + 1)..Len(wire) : j \in 1..Len(wire) /\ wire'[i] = wire[j]
  BY ComesFrom
<1>2. ASSUME NEW i \in 1..Len(wire'), wire'[i].k = "snapshot" PROVE wire'[i].rev \in 0..eng'.rev
  <2>1. ASSUME NEW j \in 1..Len(wire), wire'[i] = wire[j] PROVE wire'[i].rev \in 0..eng'.rev
    BY <1>2, <2>1 DEF Seen, Counted
  <2> QED BY <1>1, <1>2, <2>1
<1> QED BY <1>2 DEF Seen

\* What is shown, or about to be, stays true or a load stays owed.
LEMMA KeepsTruth ==
  ASSUME Truth, NEW N, NEW d \in {0, 1}, Carries(wire', wire, N, d), KeptOnWay(d),
         Owed => Owed', Counted', eng.rev <= eng'.rev, win'.at \in 0..eng'.rev,
         \A m \in N : m.k = "snapshot" => m.rev \in 0..eng'.rev /\ (Fresh(m, eng') \/ Owed'),
         \/ eng'.due = eng.due /\ eng'.cfg = eng.cfg /\ eng'.run = eng.run /\ CurKept
         \/ Owed',
         Shown => Shown' \/ Owed',
         done = "broken" => done' = "broken" \/ Owed',
         (\E s \in Slots : loads[s].cur) => \/ \E s \in Slots : loads'[s].cur
                                            \/ Owed' \/ Shown' \/ done' = "broken"
  PROVE  Truth'
<1>1. /\ Len(wire') \in Nat /\ Len(wire) \in Nat
      /\ \A i \in 1..Len(wire') : wire'[i] \in N \/ \E j \in (d + 1)..Len(wire) : j \in 1..Len(wire) /\ wire'[i] = wire[j]
  BY ComesFrom
<1>2. ASSUME NEW i \in 1..Len(wire'), Shows(wire'[i], loads'), ~ Owed'
      PROVE  Fresh(wire'[i], eng')
  <2>1. CASE wire'[i] \in N
    BY <1>2, <2>1 DEF Shows
  <2>2. ASSUME NEW j \in (d + 1)..Len(wire), j \in 1..Len(wire), wire'[i] = wire[j]
        PROVE  Fresh(wire'[i], eng')
    <3>1. Shows(wire[j], loads)
      BY <1>2, <2>2 DEF Shows, KeptOnWay, Loaded
    <3>2. Fresh(wire[j], eng)
      BY <1>2, <3>1, <2>2 DEF Truth, FreshOrOwed
    <3>3. eng'.due = eng.due /\ eng'.cfg = eng.cfg /\ eng'.run = eng.run /\ CurKept
      BY <1>2
    <3>4. wire[j].rev \in 0..eng.rev /\ eng.rev \in Nat
      BY <3>1, <2>2 DEF Truth, Seen, Counted, Shows
    <3> QED BY <1>2, <2>2, <3>2, <3>3, <3>4 DEF Fresh, CurKept
  <2> QED BY <1>1, <2>1, <2>2
<1>3. FreshOrOwed'
  BY <1>2 DEF FreshOrOwed
<1>4. ShownOrOwed'
  BY DEF Truth, ShownOrOwed
<1>5. Seen'
  BY KeepsSeen DEF Truth
<1> QED BY <1>3, <1>4, <1>5 DEF Truth
-----------------------------------------------------------------------------
(* Loads                                                                   *)

LoadFields == {"st", "auth", "cur", "latest", "conts"}

\* A new load takes a free slot; the others are neither current nor the latest any more.
Opened(L, ls, s, cont) ==
  /\ s \in Slots /\ ls[s].st = "free" /\ DOMAIN L = Slots
  /\ L[s].st = "asked" /\ L[s].auth = Unknown /\ L[s].cur = TRUE /\ L[s].latest = TRUE /\ L[s].conts = <<cont>>
  /\ \A i \in Slots : /\ DOMAIN L[i] = LoadFields /\ Row(L[i].conts)
                      /\ i # s => /\ L[i].st = ls[i].st /\ L[i].auth = ls[i].auth /\ L[i].conts = ls[i].conts
                                  /\ L[i].cur = FALSE /\ L[i].latest = FALSE

\* There is a slot, and it is the load's.
LEMMA BegunOf ==
  ASSUME NEW ls, \A i \in Slots : DOMAIN ls[i] = LoadFields /\ Row(ls[i].conts),
         FreeSlots(ls) # {}, NEW cont
  PROVE  \E s : Opened(Begun(ls, cont), ls, s, cont)
<1> DEFINE S == FreeSlots(ls)
           s == CHOOSE i \in S : \A j \in S : i <= j
           L == [i \in Slots |-> IF i = s THEN [Free EXCEPT !.st = "asked", !.cur = TRUE, !.latest = TRUE, !.conts = <<cont>>]
                                 ELSE [ls[i] EXCEPT !.cur = FALSE, !.latest = FALSE]]
<1>1. Begun(ls, cont) = L
  BY DEF Begun
<1>2. s \in S
  <2>1. S \in SUBSET Nat /\ S # {}
    BY DEF FreeSlots, Slots
  <2>2. \E i \in S : \A j \in S : i <= j
    BY <2>1, LeastNatural
  <2> QED BY <2>2
<1>3. s \in Slots /\ ls[s].st = "free"
  BY <1>2 DEF FreeSlots
<1> HIDE DEF s, S
<1>4. /\ L[s].st = "asked" /\ L[s].auth = Unknown /\ L[s].cur = TRUE /\ L[s].latest = TRUE /\ L[s].conts = <<cont>>
      /\ DOMAIN L[s] = LoadFields
  BY <1>3 DEF Free, LoadFields
<1>5. Row(L[s].conts)
  <2>1. Row(<<cont>>)
    BY One
  <2> QED BY <2>1, <1>4
<1>6. ASSUME NEW i \in Slots, i # s
      PROVE  /\ DOMAIN L[i] = LoadFields /\ L[i].conts = ls[i].conts
             /\ L[i].st = ls[i].st /\ L[i].auth = ls[i].auth
             /\ L[i].cur = FALSE /\ L[i].latest = FALSE
  BY <1>6 DEF LoadFields
<1>7. DOMAIN L = Slots
  OBVIOUS
<1> HIDE DEF L
<1>8. \A i \in Slots : DOMAIN L[i] = LoadFields /\ Row(L[i].conts)
  BY <1>4, <1>5, <1>6
<1>9. Opened(L, ls, s, cont)
  BY <1>3, <1>4, <1>6, <1>7, <1>8 DEF Opened
<1> QED BY <1>1, <1>9

\* The loads of the next state are those of a state of this shape.
LoadRecords == DOMAIN loads = Slots /\ \A s \in Slots : DOMAIN loads[s] = LoadFields /\ Row(loads[s].conts)
LoadsPast == \A s \in Slots : /\ loads[s].auth \in Past
                              /\ \A i \in 1..Len(loads[s].conts) : loads[s].conts[i].login.auth \in Past
Asked == (\E s \in Slots : loads[s].cur) /\ \A s \in Slots : loads[s].cur => loads[s].st = "asked"

\* One load is the latest again, and it has not looked yet.
LEMMA OpenedKeeps ==
  ASSUME NEW s, NEW cont, Opened(loads', loads, s, cont), done' = "none", LoadsFine, LoadRecords
  PROVE  /\ LoadRecords' /\ LoadsFine' /\ Asked' /\ \A t \in Slots : ~ Judged(t)'
<1>1. LoadRecords'
  BY DEF Opened, LoadRecords
<1>2. LoadsFine'
  BY DEF Opened, LoadsFine
<1>3. Asked'
  BY DEF Opened, Asked
<1>4. ASSUME NEW t \in Slots PROVE ~ Judged(t)'
  BY DEF Opened, Judged
<1> QED BY <1>1, <1>2, <1>3, <1>4

\* The answers under way are to loads that stay.
LEMMA OpenedOnWay ==
  ASSUME NEW s, NEW cont, Opened(loads', loads, s, cont), OnTheWay, NEW d \in {0, 1}
  PROVE  KeptOnWay(d)
<1> SUFFICES ASSUME NEW i \in (d + 1)..Len(wire), Loaded(wire[i])
             PROVE  LET t == wire[i].s
                    IN  /\ loads'[t].st = "sent" /\ loads'[t].auth = loads[t].auth
                        /\ loads'[t].cur => loads[t].cur
  BY DEF KeptOnWay
<1>1. Len(wire) \in Nat
  BY RowLength DEF OnTheWay
<1>2. i \in 1..Len(wire)
  BY <1>1
<1>3. wire[i].s \in Slots /\ loads[wire[i].s].st = "sent"
  BY <1>2 DEF OnTheWay
<1> QED BY <1>3 DEF Opened

\* What the loads carry is no newer than the engine's verdict.
LEMMA OpenedPast ==
  ASSUME NEW s, NEW cont, Opened(loads', loads, s, cont), Bounds, eng' = eng, cont.login.auth \in Past
  PROVE  LoadsPast'
<1>1. Past' = Past /\ Unknown \in Past
  BY DEF Past, Bounds, Unknown
<1>2. ASSUME NEW t \in Slots PROVE loads'[t].auth \in Past
  BY <1>1 DEF Opened, Bounds
<1>3. ASSUME NEW t \in Slots, NEW i \in 1..Len(loads'[t].conts) PROVE loads'[t].conts[i].login.auth \in Past
  <2>1. CASE t = s
    <3>1. loads'[t].conts = <<cont>>
      BY <2>1 DEF Opened
    <3>2. i = 1 /\ loads'[t].conts[i] = cont
      BY <3>1, One
    <3> QED BY <3>2
  <2>2. CASE t # s
    BY <2>2 DEF Opened, Bounds
  <2> QED BY <2>1, <2>2
<1> QED BY <1>1, <1>2, <1>3 DEF LoadsPast

\* A load follows the automatic sync only if it did or has just been begun for
\* it.
LEMMA OpenedSynced ==
  ASSUME NEW s, NEW cont, Opened(loads', loads, s, cont), NEW t \in Slots, Has(loads'[t].conts, "synced")
  PROVE  (t = s /\ cont.k = "synced") \/ (t # s /\ Has(loads[t].conts, "synced"))
<1>1. CASE t = s
  <2>1. loads'[t].conts = <<cont>> /\ DOMAIN <<cont>> = {1} /\ <<cont>>[1] = cont
    BY <1>1 DEF Opened
  <2> QED BY <1>1, <2>1 DEF Has
<1>2. CASE t # s
  BY <1>2 DEF Opened
<1> QED BY <1>1, <1>2

\* With a current load that has not looked yet nothing false is about to be
\* shown.
LEMMA AskedIsTrue == ASSUME OnTheWay', Asked', Counted', Seen' PROVE Truth'
<1>1. FreshOrOwed'
  BY DEF FreshOrOwed, Shows, OnTheWay, Asked, Loaded
<1> QED BY <1>1 DEF Truth, ShownOrOwed, Asked
-----------------------------------------------------------------------------
(* A step that begins a load, and one that leaves the loads alone          *)

\* What is shown of the login is as before, is open, or no poll is on its way.
LoginShown == \/ win'.login = win.login \/ Pending(win'.login)
              \/ \A i \in 1..Len(wire') : ~ IsPoll(wire'[i])
\* The operation on all accounts: at most its answer is on the wire.
JobMoves(d) == /\ DOMAIN job' = {"k", "todo"}
               /\ job'.k = "status" => job' = Job("status")
               /\ \/ job' = job
                  \/ job'.k = "answered" /\ job.k # "status"
                  \/ \A i \in (d + 1)..Len(wire) : wire[i].k # "job" /\ ~ Manual(wire[i])
LastLoad == win'.at = win.at /\ win'.told = win.told
Stays == win'.cfg = win.cfg /\ win'.chosen = win.chosen /\ win'.saved = win.saved /\ LastLoad

\* A step of the window that begins a load keeps the invariant.
LEMMA BeginKeeps ==
  ASSUME Inv, NEW cont, Begin(cont), cont.login.auth \in Past,
         NEW d \in {0, 1}, Carries(wire', wire, {}, d), d = 1 => ~ Loaded(wire[1]), eng' = eng,
         SavesQueued', AutoTold', DOMAIN auto' = {"st", "left"}, JobMoves(d),
         DOMAIN win' = WinFields, win'.auth \in Past, LoginShown, LastLoad
  PROVE  Inv'
<1>1. LoadRecords
  BY DEF Inv, Records, LoadRecords, LoadFields
<1>2. PICK s : Opened(loads', loads, s, cont)
  BY <1>1, BegunOf DEF Begin, Room, LoadRecords
<1>3. done' = "none"
  BY DEF Begin
<1>4. LoadRecords' /\ LoadsFine' /\ Asked' /\ \A t \in Slots : ~ Judged(t)'
  BY <1>1, <1>2, <1>3, OpenedKeeps DEF Inv
<1>5. KeptOnWay(d)
  BY <1>2, OpenedOnWay DEF Inv
<1>6. OnTheWay'
  BY <1>5, KeepsOnTheWay DEF Inv
<1>7. LoadsPast'
  BY <1>2, OpenedPast DEF Inv
<1>8. Past' = Past
  BY DEF Past
<1>9. Bounds'
  BY <1>7, <1>8, KeepsBounds DEF Inv, Bounds, LoadsPast, Past, LastLoad
<1>10. PendingTold'
  BY <1>5, KeepsPending DEF Inv, LoginShown
<1>11. JobTold'
  BY KeepsJob DEF Inv, JobMoves
<1>12. Verdicts'
  BY <1>4, VerdictsReset DEF Inv, Verdicts
<1>13. Truth'
  <2>1. Counted'
    BY DEF Inv, Truth, Counted
  <2>2. Seen'
    <3>1. /\ Seen /\ Counted /\ eng'.rev = eng.rev /\ eng.rev \in Nat
          /\ win'.at \in 0..eng'.rev
      BY DEF Inv, Truth, Counted, Seen, LastLoad
    <3> QED BY <2>1, <3>1, KeepsSeen
  <2> QED BY <1>4, <1>6, <2>1, <2>2, AskedIsTrue
<1>14. Records'
  BY <1>4 DEF Records, LoadRecords, LoadFields, JobMoves, Inv
<1>15. Answered'
  <2>1. \A t \in Slots : loads'[t].st = "sent" => loads[t].st = "sent"
    BY <1>2 DEF Opened
  <2> QED BY <2>1, KeepsAnswered DEF Inv
<1>16. SwitchFine'
  BY <1>8 DEF Inv, SwitchFine, Mine
<1> QED BY <1>16, <1>15, <1>4, <1>6, <1>9, <1>10, <1>11, <1>12, <1>13, <1>14 DEF Inv

\* The same when it touches neither the saves nor the sync.
LEMMA BeginAlone ==
  ASSUME Inv, NEW cont, Begin(cont), cont.login.auth \in Past, cont.k # "synced",
         NEW d \in {0, 1}, Carries(wire', wire, {}, d), d = 1 => ~ Loaded(wire[1]), eng' = eng,
         saves' = saves, auto' = auto, JobMoves(d),
         DOMAIN win' = WinFields, win'.auth \in Past, LoginShown, Stays
  PROVE  Inv'
<1>1. LoadRecords
  BY DEF Inv, Records, LoadRecords, LoadFields
<1>2. PICK s : Opened(loads', loads, s, cont)
  BY <1>1, BegunOf DEF Begin, Room, LoadRecords
<1>3. KeptOnWay(d)
  BY <1>2, OpenedOnWay DEF Inv
<1>4. SavesQueued'
  BY <1>3, KeepsSaves DEF Inv, Stays, LastLoad
<1>5. \A t \in Slots : Has(loads'[t].conts, "synced") => Has(loads[t].conts, "synced")
  BY <1>2, OpenedSynced
<1>6. AutoTold'
  BY <1>5, KeepsAuto DEF Inv
<1> QED BY <1>4, <1>6, BeginKeeps DEF Inv, Records, Stays

\* What a message may be that comes up in the step.
Mail(N) ==
  \A m \in N : /\ m.k \notin {"saved", "snapshot", "broken"}
               /\ IsPoll(m) => m.login = eng'.login /\ Pending(win.login)
               /\ Tells(m) \in Past'
               /\ m.k = "job" => job.k # "answered" /\ job'.k = "answered" /\ (m.ok \/ m.auth = Unknown)
               /\ Manual(m) => job.k # "status" /\ job'.k = "status"
               /\ m.k = "auto" => auto.st # "answered" /\ auto'.st = "answered"
               /\ m.k = "cancelled" => eng'.login.auth = Unknown /\ ~ Pending(eng'.login)
               /\ Reads(m) => \A s \in Slots : Judged(s) /\ loads[s].st = "inspected" =>
                                m.login.auth <= loads[s].auth \/ OnWire("added")

\* The engine goes on.
EngineMoves(N) ==
  /\ DOMAIN eng' = DOMAIN eng /\ eng'.cfg = eng.cfg
  /\ eng'.auth \in Nat /\ eng.auth <= eng'.auth /\ eng'.pass \in Past' /\ eng'.login.auth \in Past'
  /\ Pending(eng'.login) => Pending(eng.login) /\ (eng.asked => eng'.asked)
  /\ \/ eng'.login.auth <= eng.login.auth
     \/ OnWire("cancelled") => \E m \in N : m.k = "added" /\ OnWire("added")'
  /\ Counted' /\ eng.rev <= eng'.rev /\ SwitchFine'

\* A step that leaves the loads and the saves alone keeps it.
LEMMA StepKeeps ==
  ASSUME Inv, NEW N, NEW d \in {0, 1}, Carries(wire', wire, N, d), Mail(N), EngineMoves(N),
         loads' = loads, done' = done, saves' = saves,
         JobMoves(d), DOMAIN win' = WinFields, win'.auth \in Past', Stays,
         \/ win'.login = win.login
         \/ Pending(win'.login)
         \/ \A i \in 1..Len(wire') : ~ IsPoll(wire'[i]),
         d = 1 => wire[1].k # "added" /\ ~ Loaded(wire[1]),
         ShownIsNoNewer',
         DOMAIN auto' = {"st", "left"},
         \/ auto'.st = "answered" \/ auto'.st = auto.st
         \/ \A i \in (d + 1)..Len(wire) : wire[i].k # "auto",
         auto'.st = auto.st \/ auto.st # "loading",
         Owed => Owed',
         \/ eng'.due = eng.due /\ eng'.run = eng.run /\ CurKept
         \/ Owed',
         Shown => Shown' \/ Owed'
  PROVE  Inv'
<1>1. Len(wire) \in Nat
  BY RowLength DEF Inv, OnTheWay
<1>2. \A i \in (d + 1)..Len(wire) : i \in 1..Len(wire)
  BY <1>1
<1>3. KeptOnWay(d)
  BY <1>2 DEF KeptOnWay, Inv, OnTheWay
<1>4. OnTheWay'
  <2>1. ASSUME NEW m \in N, NEW i \in (d + 1)..Len(wire) PROVE ~ Clash(wire[i], m)
    BY <1>2, <2>1 DEF Clash, Manual, Mail, Inv, JobTold, AutoTold, Loaded
  <2> QED BY <1>3, <2>1, KeepsOnTheWay DEF Inv, Mail, Loaded
<1>5. SavesQueued'
  BY <1>3, KeepsSaves DEF Inv, Mail, Stays, LastLoad, EngineMoves
<1>6. PendingTold'
  <2>1. \A m \in N : IsPoll(m) \/ m.k = "snapshot" => m.login = eng'.login
    BY DEF Mail
  <2>2. \/ win'.login = win.login /\ \A m \in N : IsPoll(m) => Pending(win.login)
        \/ Pending(win'.login)
        \/ \A i \in 1..Len(wire') : ~ IsPoll(wire'[i])
    BY DEF Mail
  <2> QED BY <1>3, <2>1, <2>2, KeepsPending DEF Inv, EngineMoves
<1>7. Bounds'
  <2>1. \A v : v \in Past => v \in Past'
    BY DEF Past, EngineMoves, Inv, Bounds
  <2>2. \A s \in Slots : /\ loads'[s].auth \in Past'
                         /\ \A i \in 1..Len(loads'[s].conts) : loads'[s].conts[i].login.auth \in Past'
    BY <2>1 DEF Inv, Bounds
  <2>3. \A m \in N : Tells(m) \in Past' /\ m.k # "snapshot"
    BY DEF Mail
  <2>4. win'.told.auth \in Past'
    BY <2>1 DEF Inv, Bounds, Stays, LastLoad
  <2> QED BY <2>2, <2>3, <2>4, KeepsBounds DEF Inv, EngineMoves
<1>8. JobTold'
  BY KeepsJob DEF Inv, JobMoves, Mail
<1>9. Verdicts'
  <2>1. JudgedBefore
    BY DEF JudgedBefore, Judged
  <2>2. \A m \in N : /\ Loaded(m) => loads[m.s].st = "inspected"
                     /\ Reads(m) => \A s \in Slots : Judged(s) /\ loads[s].st = "inspected" =>
                                      m.login.auth <= loads[s].auth \/ OnWire("added")
                     /\ m.k = "cancelled" => eng'.login.auth = Unknown /\ ~ Pending(eng'.login)
    BY DEF Mail, Loaded
  <2> QED BY <1>7, <2>1, <2>2, KeepsVerdicts DEF Inv, EngineMoves
<1>10. AutoTold'
  BY KeepsAuto DEF Inv, Mail
<1>11. Truth'
  <2>1. \A m \in N : m.k # "snapshot"
    BY DEF Mail
  <2>2. Counted' /\ eng'.cfg = eng.cfg /\ eng.rev <= eng'.rev
    BY DEF EngineMoves
  <2>3. win'.at \in 0..eng'.rev
    BY <2>2 DEF Inv, Truth, Seen, Counted, Stays, LastLoad
  <2> QED BY <1>3, <2>1, <2>2, <2>3, KeepsTruth DEF Inv
<1>12. LoadsFine'
  BY DEF Inv, LoadsFine
<1>13. Records'
  BY DEF Inv, Records, JobMoves, EngineMoves
<1>14. Answered'
  BY KeepsAnswered DEF Inv
<1>15. SwitchFine'
  BY DEF EngineMoves
<1> QED BY <1>15, <1>14, <1>4, <1>5, <1>6, <1>7, <1>8, <1>9, <1>10, <1>11, <1>12, <1>13 DEF Inv
-----------------------------------------------------------------------------
(* The main process                                                        *)

\* What is told together: the messages of N, no two of which exclude each other.
Letter(r, N) == /\ Row(r) /\ N = {r[i] : i \in 1..Len(r)}
                /\ \A i, j \in 1..Len(r) : i < j => ~ Clash(r[i], r[j])

\* No message is a letter.
LEMMA LetterNone == Letter(<<>>, {})
  BY Empty DEF Letter

\* One message is one.
LEMMA LetterOne == ASSUME NEW m PROVE Letter(<<m>>, {m})
<1>1. Row(<<m>>) /\ Len(<<m>>) = 1 /\ \A i \in 1..Len(<<m>>) : i = 1 /\ <<m>>[i] = m
  BY One
<1> DEFINE r == <<m>>
<1> HIDE DEF r
<1> QED BY <1>1 DEF r, Letter

\* So are two that do not clash.
LEMMA LetterTwo == ASSUME NEW m, NEW n, ~ Clash(m, n) PROVE Letter(<<m, n>>, {m, n})
<1>1. /\ Row(<<m, n>>) /\ Len(<<m, n>>) = 2
      /\ \A i \in 1..Len(<<m, n>>) : (i = 1 /\ <<m, n>>[i] = m) \/ (i = 2 /\ <<m, n>>[i] = n)
  BY Two
<1> DEFINE r == <<m, n>>
<1> HIDE DEF r
<1>2. r[1] = m /\ r[2] = n /\ 1..Len(r) = {1, 2} /\ Row(r)
  BY <1>1 DEF r
<1> QED BY <1>2 DEF r, Letter

\* And one letter after another.
LEMMA LetterJoined ==
  ASSUME NEW q, NEW M, Letter(q, M), NEW r, NEW N, Letter(r, N),
         \A m \in M, n \in N : ~ Clash(m, n)
  PROVE  Letter(q \o r, M \cup N)
<1>1. Row(q) /\ Row(r) /\ Len(q) \in Nat /\ Len(r) \in Nat
  BY RowLength DEF Letter
<1> DEFINE w == q \o r
<1>2. /\ Row(w) /\ Len(w) = Len(q) + Len(r)
      /\ \A i \in 1..Len(q) : w[i] = q[i]
      /\ \A i \in 1..Len(r) : w[Len(q) + i] = r[i]
  BY <1>1, Joined
<1> HIDE DEF w
<1>3. ASSUME NEW i \in 1..Len(w)
      PROVE  \/ i \in 1..Len(q) /\ w[i] = q[i]
             \/ i > Len(q) /\ i - Len(q) \in 1..Len(r) /\ w[i] = r[i - Len(q)]
  <2>1. CASE i <= Len(q)
    BY <1>1, <1>2, <2>1
  <2>2. CASE i > Len(q)
    <3>1. i - Len(q) \in 1..Len(r) /\ Len(q) + (i - Len(q)) = i
      BY <1>1, <1>2, <2>2
    <3> QED BY <1>2, <2>2, <3>1
  <2> QED BY <1>1, <2>1, <2>2
<1>4. M \cup N = {w[i] : i \in 1..Len(w)}
  <2>1. ASSUME NEW i \in 1..Len(w) PROVE w[i] \in M \cup N
    BY <1>3 DEF Letter
  <2>2. ASSUME NEW m \in M PROVE \E i \in 1..Len(w) : w[i] = m
    <3>1. PICK i \in 1..Len(q) : q[i] = m
      BY DEF Letter
    <3>2. i \in 1..Len(w)
      BY <1>1, <1>2
    <3> QED BY <1>2, <3>1, <3>2
  <2>3. ASSUME NEW n \in N PROVE \E i \in 1..Len(w) : w[i] = n
    <3>1. PICK i \in 1..Len(r) : r[i] = n
      BY DEF Letter
    <3>2. Len(q) + i \in 1..Len(w)
      BY <1>1, <1>2
    <3> QED BY <1>2, <3>1, <3>2
  <2> QED BY <2>1, <2>2, <2>3
<1>5. ASSUME NEW i \in 1..Len(w), NEW j \in 1..Len(w), i < j
      PROVE  ~ Clash(w[i], w[j])
  <2>1. CASE i \in 1..Len(q) /\ w[i] = q[i]
    <3>1. CASE j \in 1..Len(q) /\ w[j] = q[j]
      BY <1>5, <2>1, <3>1 DEF Letter
    <3>2. CASE j - Len(q) \in 1..Len(r) /\ w[j] = r[j - Len(q)]
      <4>1. w[i] \in M /\ w[j] \in N
        BY <2>1, <3>2 DEF Letter
      <4> QED BY <4>1
    <3> QED BY <1>3, <3>1, <3>2
  <2>2. CASE i > Len(q) /\ i - Len(q) \in 1..Len(r) /\ w[i] = r[i - Len(q)]
    <3>1. i \in Nat /\ j \in Nat /\ j > Len(q)
      BY <1>1, <1>2, <1>5, <2>2
    <3>2. j - Len(q) \in 1..Len(r) /\ w[j] = r[j - Len(q)]
      BY <1>1, <1>3, <3>1
    <3>3. i - Len(q) < j - Len(q)
      BY <1>1, <1>5, <3>1
    <3> QED BY <2>2, <3>2, <3>3 DEF Letter
  <2> QED BY <1>3, <2>1, <2>2
<1> QED BY <1>2, <1>4, <1>5 DEF w, Letter

\* A letter told after what is on the wire arrives there.
LEMMA Mailed ==
  ASSUME Row(wire), NEW r, NEW N, Letter(r, N), wire' = wire \o r
  PROVE  /\ Carries(wire', wire, N, 0)
         /\ \A m \in N : \E j \in 1..Len(wire') : wire'[j] = m
<1>1. Carries(wire, wire, {}, 0)
  BY CarriesSame
<1>2. Carries(wire', wire, N, 0)
  BY <1>1, CarriesMore DEF Letter
<1>3. Len(wire) \in Nat /\ Len(r) \in Nat
  BY RowLength DEF Letter
<1>4. /\ Len(wire') = Len(wire) + Len(r)
      /\ \A i \in 1..Len(r) : wire'[Len(wire) + i] = r[i]
  BY Joined DEF Letter
<1>5. \A i \in 1..Len(r) : Len(wire) + i \in 1..Len(wire')
  BY <1>3, <1>4
<1> QED BY <1>2, <1>4, <1>5 DEF Letter

\* The engine goes on; the window is as it was.
LEMMA EngineKeeps ==
  ASSUME Inv, NEW N, Carries(wire', wire, N, 0), Mail(N), EngineMoves(N),
         loads' = loads, done' = done, saves' = saves, win' = win,
         DOMAIN job' = {"k", "todo"}, DOMAIN auto' = {"st", "left"},
         \/ job' = job
         \/ job.k # "status" /\ job'.k # "status" /\ (job'.k = "answered" \/ job.k # "answered"),
         \/ auto' = auto
         \/ auto.st = "asking" /\ auto'.st = "answered"
         \/ auto.st = "off" /\ auto'.st = "asking",
         OnItsWay' \/ (eng'.due = eng.due /\ eng'.run = eng.run /\ CurKept),
         eng.asked => eng'.asked \/ \E m \in N : Makes(m) /\ OnItsWay'
  PROVE  Inv'
<1>1. JobMoves(0)
  BY DEF JobMoves, Inv, JobTold
<1>2. ShownIsNoNewer'
  BY DEF ShownIsNoNewer, Judged, Inv, Verdicts
<1>3. Owed => Owed'
  <2> HAVE Owed
  <2> QED BY KeepsOwed
<1>4. OnItsWay' => Owed'
  BY DEF Owed
<1>5. Shown => Shown' \/ Owed'
  BY <1>4 DEF Shown, EngineMoves, CurKept, Inv, Truth, Seen, Counted
<1>6. DOMAIN win' = WinFields /\ win'.auth \in Past' /\ Stays
  BY DEF Inv, Records, Bounds, Past, EngineMoves, Stays, LastLoad
<1>7. \/ auto'.st = "answered" \/ auto'.st = auto.st
      \/ \A i \in 1..Len(wire) : wire[i].k # "auto"
  BY DEF Inv, AutoTold
<1> QED BY <1>1, <1>2, <1>3, <1>4, <1>5, <1>6, <1>7, StepKeeps

\* What no change of the accounts and no switch touches.
Like(r, e) == /\ DOMAIN r = Changes
              /\ r.cfg = e.cfg /\ r.pass = e.pass /\ r.run = e.run /\ r.asked = e.asked /\ r.login = e.login /\ r.chain = e.chain

\* A change, told or untold, and one that moves the current account without a word.
LEMMA ChangedIs ==
  ASSUME NEW e, DOMAIN e = Changes
  PROVE  /\ Like(e, e) /\ Like(Changed(e), e) /\ Like(Untold(e), e) /\ Like(Hushed(e), e)
         /\ Changed(e).rev = e.rev + 1 /\ Untold(e).rev = e.rev + 1 /\ Hushed(e).rev = e.rev + 1
         /\ Changed(e).due = e.rev + 1 /\ Untold(e).due = e.due /\ Hushed(e).due = e.due
         /\ Changed(e).auth = e.auth /\ Untold(e).auth = e.auth /\ Hushed(e).auth = e.auth + 1
         /\ Changed(e).cur = e.cur /\ Untold(e).cur = e.cur /\ Hushed(e).hush = e.rev + 1
         /\ Changed(e).hush = e.hush /\ Untold(e).hush = e.hush
         /\ Changed(e).tx = e.tx /\ Untold(e).tx = e.tx /\ Hushed(e).tx = e.tx
  BY DEF Changed, Untold, Hushed, Changes, Like

\* Whoever lets go of a switch touches nothing else.
LEMMA LetGoOf ==
  ASSUME NEW e, DOMAIN e = Changes, NEW by, NEW a
  PROVE  LET r == LetGo(e, by, a)
         IN  /\ Like(r, e) /\ r.rev = e.rev /\ r.due = e.due /\ r.auth = e.auth /\ r.cur = e.cur /\ r.hush = e.hush
             /\ r.tx \in {e.tx, NoSwitch}
  BY DEF LetGo, Changes, Like

\* What is told to everybody.
LEMMA AnnouncedOf ==
  ASSUME NEW e, DOMAIN e = Changes
  PROVE  LET r == Announced(e)
         IN  /\ Like(r, e) /\ r.rev = e.rev /\ r.due = e.rev /\ r.auth = e.auth /\ r.cur = e.cur /\ r.tx = e.tx
  BY DEF Announced, Changes, Like

\* No switch.
LEMMA NoSwitchOf == DOMAIN NoSwitch = {"by", "st", "who", "was", "auth"} /\ NoSwitch.auth = Unknown
  BY DEF NoSwitch

\* The login of the engine is what it was.
LEMMA SameLogin ==
  ASSUME Inv, Like(eng', eng), eng'.auth \in {eng.auth, eng.auth + 1},
         eng'.rev \in {eng.rev, eng.rev + 1}, eng'.due \in {eng.due, eng'.rev},
         DOMAIN eng'.tx = DOMAIN eng.tx, eng'.tx.auth \in {eng.tx.auth, eng'.auth, Unknown}, NEW N
  PROVE  EngineMoves(N) /\ eng'.asked = eng.asked /\ Unknown \in Past' /\ Past \subseteq Past'
<1>1. Counted' /\ eng.rev <= eng'.rev
  BY DEF Inv, Truth, Counted
<1>2. /\ eng'.auth \in Nat /\ eng.auth <= eng'.auth /\ eng'.pass \in Past' /\ eng'.login.auth \in Past'
      /\ eng'.login.auth <= eng.login.auth /\ Unknown \in Past' /\ eng'.auth \in Past' /\ Past \subseteq Past'
  BY DEF Inv, Bounds, Past, Like, Unknown
<1>3. Pending(eng'.login) => Pending(eng.login) /\ (eng.asked => eng'.asked)
  BY DEF Like
<1>4. SwitchFine'
  <2>1. eng.tx.auth \in Past /\ (Mine => Pending(eng.login)) /\ eng'.chain = eng.chain /\ eng'.login = eng.login
        /\ DOMAIN eng.tx = {"by", "st", "who", "was", "auth"} /\ DOMAIN eng.chain = {"on", "who", "mine"}
    BY DEF Inv, SwitchFine, Like
  <2> QED BY <1>2, <2>1 DEF SwitchFine, Mine
<1>5. DOMAIN eng' = DOMAIN eng /\ eng'.cfg = eng.cfg /\ eng'.asked = eng.asked
  BY DEF Like, Inv, Records
<1> QED BY <1>1, <1>2, <1>3, <1>4, <1>5 DEF EngineMoves

\* A message that brings about a load is on its way.
LEMMA MakesOne == ASSUME NEW m, Makes(m), \E j \in 1..Len(wire') : wire'[j] = m PROVE OnItsWay'
  BY DEF OnItsWay

\* An operation on an account succeeds.
LEMMA OpSucceedsKeeps == ASSUME Inv, NEW a \in Accounts, OpSucceeds(a) PROVE Inv'
<1> DEFINE auth == IF op[a] = "switch" THEN Verdict("op") ELSE Unknown
           reply == [k |-> "reply", a |-> a, kind |-> op[a], ok |-> TRUE, auth |-> auth]
<1>1. /\ eng' = IF op[a] = "switch" THEN LetGo(Announced(eng), "op", a) ELSE Changed(eng)
      /\ op[a] \in {"refresh", "token", "switch", "delete"}
      /\ wire' = wire \o ((CASE op[a] = "refresh" -> <<Event(None)>>
                             [] op[a] = "switch" -> <<Event(a)>>
                             [] OTHER -> <<>>)
                          \o <<reply>>)
      /\ UNCHANGED <<job, loads, done, win, saves, auto>>
  BY DEF OpSucceeds, Tell, Kinds
<1> HIDE DEF auth
<1> DEFINE news == CASE op[a] = "refresh" -> <<Event(None)>>
                     [] op[a] = "switch" -> <<Event(a)>>
                     [] OTHER -> <<>>
<1>2. \E N : Letter(news, N) /\ \A m \in N : m.k = "event"
  <2>1. \A c : Letter(<<Event(c)>>, {Event(c)}) /\ Event(c).k = "event"
    BY LetterOne DEF Event
  <2>2. \/ news = <<>> \/ news = <<Event(None)>> \/ news = <<Event(a)>>
    OBVIOUS
  <2> HIDE DEF news
  <2>3. CASE news = <<>>
    BY <2>3, LetterNone
  <2>4. ASSUME NEW c, news = <<Event(c)>> PROVE \E N : Letter(news, N) /\ \A m \in N : m.k = "event"
    <3>1. Letter(news, {Event(c)}) /\ \A m \in {Event(c)} : m.k = "event"
      BY <2>1, <2>4
    <3> QED BY <3>1
  <2> QED BY <2>2, <2>3, <2>4
<1>3. PICK N : Letter(news, N) /\ \A m \in N : m.k = "event"
  BY <1>2
<1>4. wire' = wire \o (news \o <<reply>>)
  BY <1>1
<1> HIDE DEF news
<1>5. /\ Carries(wire', wire, N \cup {reply}, 0)
      /\ \A m \in N \cup {reply} : \E j \in 1..Len(wire') : wire'[j] = m
  <2>1. Letter(<<reply>>, {reply}) /\ \A m \in N, n \in {reply} : ~ Clash(m, n)
    BY <1>3, LetterOne DEF Clash, Manual, Loaded
  <2>2. Letter(news \o <<reply>>, N \cup {reply})
    BY <1>3, <2>1, LetterJoined
  <2> QED BY <1>4, <2>2, Mailed DEF Inv, OnTheWay
<1>6. OnItsWay'
  <2>1. Makes(reply)
    BY DEF Makes
  <2> QED BY <1>5, <2>1, MakesOne
<1>7. EngineMoves(N \cup {reply}) /\ eng'.asked = eng.asked /\ Unknown \in Past' /\ Past \subseteq Past'
  <2>1. DOMAIN eng = Changes /\ DOMAIN eng.tx = DOMAIN NoSwitch /\ NoSwitch.auth = Unknown
    BY NoSwitchOf DEF Inv, Records, SwitchFine
  <2>2. /\ Like(eng', eng) /\ eng'.auth = eng.auth /\ eng'.rev \in {eng.rev, eng.rev + 1} /\ eng'.due = eng'.rev
        /\ eng'.tx \in {eng.tx, NoSwitch}
    <3>1. CASE op[a] = "switch"
      <4> DEFINE e == Announced(eng)
      <4>1. Like(e, eng) /\ e.rev = eng.rev /\ e.due = eng.rev /\ e.auth = eng.auth /\ e.tx = eng.tx
        BY <2>1, AnnouncedOf
      <4>2. eng' = LetGo(e, "op", a)
        BY <1>1, <3>1
      <4> HIDE DEF e
      <4>3. Like(eng', e) /\ eng'.rev = e.rev /\ eng'.due = e.due /\ eng'.auth = e.auth /\ eng'.tx \in {e.tx, NoSwitch}
        BY <4>1, <4>2, LetGoOf DEF Like
      <4> QED BY <4>1, <4>3 DEF Like
    <3>2. CASE op[a] # "switch"
      BY <1>1, <2>1, <3>2, ChangedIs
    <3> QED BY <3>1, <3>2
  <2> QED BY <2>1, <2>2, SameLogin
<1>8. Mail(N \cup {reply})
  <2>1. auth \in Past'
    <3>1. Verdict("op") \in Past
      BY DEF Verdict, Inv, SwitchFine, Bounds, Past
    <3> QED BY <1>7, <3>1 DEF auth
  <2> QED BY <1>3, <1>7, <2>1 DEF Mail, Tells, IsPoll, Reads, Manual
<1> HIDE DEF reply
<1> QED BY <1>1, <1>5, <1>6, <1>7, <1>8, EngineKeeps DEF Inv, Records

\* What every change of the accounts keeps.
LEMMA EngineCounts ==
  ASSUME Inv, NEW e \in {eng, Changed(eng), Untold(eng)}, NEW by, NEW a, eng' \in {e, LetGo(e, by, a)}, NEW N
  PROVE  /\ EngineMoves(N) /\ eng'.asked = eng.asked /\ Unknown \in Past'
         /\ e \in {eng, Untold(eng)} => eng'.due = eng.due /\ eng'.run = eng.run /\ CurKept
<1>1. DOMAIN eng = Changes /\ DOMAIN eng.tx = DOMAIN NoSwitch /\ NoSwitch.auth = Unknown
  BY NoSwitchOf DEF Inv, Records, SwitchFine
<1>2. /\ Like(e, eng) /\ e.rev \in {eng.rev, eng.rev + 1} /\ e.due \in {eng.due, e.rev} /\ e.auth = eng.auth /\ e.tx = eng.tx
      /\ e \in {eng, Untold(eng)} => e.due = eng.due /\ e.cur = eng.cur /\ e.hush = eng.hush
  BY <1>1, ChangedIs
<1>3. /\ Like(eng', e) /\ eng'.rev = e.rev /\ eng'.due = e.due /\ eng'.auth = e.auth /\ eng'.tx \in {e.tx, NoSwitch}
      /\ eng'.cur = e.cur /\ eng'.hush = e.hush
  <2>1. DOMAIN e = Changes
    BY <1>2 DEF Like
  <2> QED BY <2>1, ChangedIs, LetGoOf
<1>4. Like(eng', eng)
  BY <1>2, <1>3 DEF Like
<1>5. EngineMoves(N) /\ eng'.asked = eng.asked /\ Unknown \in Past'
  BY <1>1, <1>2, <1>3, <1>4, SameLogin
<1> QED BY <1>2, <1>3, <1>4, <1>5 DEF Like, CurKept

\* The same when nobody lets go of a switch.
LEMMA EngineCountsOn ==
  ASSUME Inv, eng' \in {eng, Changed(eng), Untold(eng)}, NEW N
  PROVE  /\ EngineMoves(N) /\ eng'.asked = eng.asked /\ Unknown \in Past'
         /\ eng' \in {eng, Untold(eng)} => eng'.due = eng.due /\ eng'.run = eng.run /\ CurKept
<1>1. PICK e \in {eng, Changed(eng), Untold(eng)} : eng' = e
  OBVIOUS
<1> QED BY <1>1, EngineCounts

\* A step that tells nothing.
LEMMA QuietMail == ASSUME Row(wire), wire' = wire PROVE Carries(wire', wire, {}, 0) /\ Mail({})
  BY CarriesSame DEF Mail

\* It fails.
LEMMA OpFailsKeeps == ASSUME Inv, NEW a \in Accounts, OpFails(a) PROVE Inv'
<1> DEFINE reply == [k |-> "reply", a |-> a, kind |-> op[a], ok |-> FALSE, auth |-> Unknown]
<1>1. /\ wire' = wire \o <<reply>>
      /\ UNCHANGED <<job, loads, done, win, saves, auto>>
  BY DEF OpFails, Tell
<1>2. PICK e \in {eng, Changed(eng), Untold(eng)} :
        eng' = LetGo(e, "op", a) /\ (op[a] \in {"refresh", "token"} \/ e \in {eng, Untold(eng)})
  <2>1. CASE op[a] \in {"refresh", "token"}
    BY <2>1 DEF OpFails
  <2>2. CASE op[a] \notin {"refresh", "token"}
    BY <2>2 DEF OpFails
  <2> QED BY <2>1, <2>2
<1>3. /\ EngineMoves({reply}) /\ eng'.asked = eng.asked /\ Unknown \in Past'
      /\ e \in {eng, Untold(eng)} => eng'.due = eng.due /\ eng'.run = eng.run /\ CurKept
  BY <1>2, EngineCounts
<1>4. Carries(wire', wire, {reply}, 0) /\ \E j \in 1..Len(wire') : wire'[j] = reply
  BY <1>1, LetterOne, Mailed DEF Inv, OnTheWay
<1>5. Mail({reply})
  BY <1>3 DEF Mail, Tells, IsPoll, Reads, Manual
<1>6. OnItsWay' \/ (eng'.due = eng.due /\ eng'.run = eng.run /\ CurKept)
  <2>1. CASE op[a] \in {"refresh", "token"}
    <3>1. Makes(reply)
      BY <2>1 DEF Makes
    <3> QED BY <1>4, <3>1, MakesOne
  <2>2. CASE op[a] \notin {"refresh", "token"}
    BY <1>2, <1>3, <2>2
  <2> QED BY <2>1, <2>2
<1> HIDE DEF reply
<1> QED BY <1>1, <1>3, <1>4, <1>5, <1>6, EngineKeeps DEF Inv, Records

\* The automatic sync has refreshed an account.
LEMMA AutoRefreshedKeeps == ASSUME Inv, AutoRefreshed PROVE Inv'
<1> DEFINE answer == [k |-> "auto"]
<1>1. /\ auto.st = "asking" /\ auto' = [auto EXCEPT !.st = "answered"]
      /\ UNCHANGED <<job, loads, done, win, saves>>
      /\ eng' \in {eng, Changed(eng), Untold(eng)}
      /\ wire' \in {wire \o <<Event(None), answer>>, wire \o <<answer>>}
  BY DEF AutoRefreshed, Tell
<1>2. auto'.st = "answered" /\ DOMAIN auto' = {"st", "left"} /\ Unknown \in Past'
  BY <1>1, EngineCountsOn DEF Inv, Records
<1>3. PICK N \in SUBSET {Event(None), answer} : Carries(wire', wire, N, 0)
  <2>1. Letter(<<Event(None), answer>>, {Event(None), answer}) /\ Letter(<<answer>>, {answer})
    BY LetterOne, LetterTwo DEF Clash, Manual, Loaded, Event
  <2> QED BY <1>1, <2>1, Mailed DEF Inv, OnTheWay
<1>4. Mail(N)
  BY <1>1, <1>2 DEF Mail, Tells, IsPoll, Reads, Manual, Event
<1>5. EngineMoves(N) /\ eng'.asked = eng.asked
  BY <1>1, EngineCountsOn
<1>6. Owed'
  BY <1>2 DEF Owed
<1>7. /\ Carries(wire', wire, N, 0) /\ JobMoves(0) /\ DOMAIN win' = WinFields /\ win'.auth \in Past' /\ Stays
      /\ ShownIsNoNewer'
  BY <1>1, <1>3, <1>5 DEF JobMoves, Inv, Records, JobTold, Bounds, Past, EngineMoves, Stays, LastLoad, ShownIsNoNewer, Judged, Verdicts
<1> QED BY <1>1, <1>2, <1>4, <1>5, <1>6, <1>7, StepKeeps

\* A pass of the daemon begins.
LEMMA PassBeginsKeeps == ASSUME Inv, PassBegins PROVE Inv'
<1>1. /\ eng' = [eng EXCEPT !.pass = eng.auth]
      /\ UNCHANGED <<job, wire, loads, done, win, saves, auto>>
  BY DEF PassBegins
<1>2. Carries(wire', wire, {}, 0) /\ Mail({})
  BY <1>1, QuietMail DEF Inv, OnTheWay
<1>3. EngineMoves({})
  BY <1>1 DEF EngineMoves, Inv, Records, Changes, Bounds, Past, Truth, Counted, SwitchFine, Mine
<1>4. eng'.due = eng.due /\ eng'.run = eng.run /\ CurKept /\ eng'.asked = eng.asked
  BY <1>1 DEF Inv, Records, Changes, CurKept
<1> QED BY <1>1, <1>2, <1>3, <1>4, EngineKeeps DEF Inv, Records

\* The official login changes.
LEMMA OfficialChangesKeeps == ASSUME Inv, OfficialChanges PROVE Inv'
<1>1. /\ eng' = [eng EXCEPT !.auth = @ + 1]
      /\ UNCHANGED <<job, wire, loads, done, win, saves, auto>>
  BY DEF OfficialChanges
<1>2. Carries(wire', wire, {}, 0) /\ Mail({})
  BY <1>1, QuietMail DEF Inv, OnTheWay
<1>3. EngineMoves({})
  BY <1>1 DEF EngineMoves, Inv, Records, Changes, Bounds, Past, Truth, Counted, SwitchFine, Mine
<1>4. eng'.due = eng.due /\ eng'.run = eng.run /\ CurKept /\ eng'.asked = eng.asked
  BY <1>1 DEF Inv, Records, Changes, CurKept
<1> QED BY <1>1, <1>2, <1>3, <1>4, EngineKeeps DEF Inv, Records

\* A pass ends.
LEMMA PassEndsKeeps == ASSUME Inv, PassEnds PROVE Inv'
<1> DEFINE tick == [k |-> "tick", auth |-> eng.pass]
<1>1. UNCHANGED <<job, loads, done, win, saves, auto>>
  BY DEF PassEnds
<1>2. CASE eng' = [Changed(eng) EXCEPT !.pass = Unknown] /\ wire' = wire \o <<tick>>
  <2>1. Carries(wire', wire, {tick}, 0) /\ \E j \in 1..Len(wire') : wire'[j] = tick
    BY <1>2, LetterOne, Mailed DEF Inv, OnTheWay
  <2>2. EngineMoves({tick})
    BY <1>2 DEF Changed, EngineMoves, Inv, Records, Changes, Bounds, Past, Truth, Counted, Unknown, SwitchFine, Mine
  <2>3. Mail({tick})
    BY <1>2 DEF Mail, Tells, IsPoll, Reads, Manual, Changed, Inv, Records, Changes, Bounds, Past
  <2>4. OnItsWay'
    <3>1. Makes(tick)
      BY DEF Makes
    <3> QED BY <2>1, <3>1, MakesOne
  <2>5. eng'.asked = eng.asked
    BY <1>2 DEF Changed, Inv, Records, Changes
  <2> HIDE DEF tick
  <2> QED BY <1>1, <2>1, <2>2, <2>3, <2>4, <2>5, EngineKeeps DEF Inv, Records
<1>3. CASE eng' = [Untold(eng) EXCEPT !.pass = Unknown, !.stale = FALSE] /\ wire' = wire
  <2>1. Carries(wire', wire, {}, 0) /\ Mail({})
    BY <1>3, QuietMail DEF Inv, OnTheWay
  <2>2. EngineMoves({})
    BY <1>3 DEF Untold, EngineMoves, Inv, Records, Changes, Bounds, Past, Truth, Counted, Unknown, SwitchFine, Mine
  <2>3. eng'.due = eng.due /\ eng'.run = eng.run /\ CurKept /\ eng'.asked = eng.asked
    BY <1>3 DEF Untold, Inv, Records, Changes, CurKept
  <2> QED BY <1>1, <2>1, <2>2, <2>3, EngineKeeps DEF Inv, Records
<1> QED BY <1>2, <1>3 DEF PassEnds, Tell

\* An operation on all accounts has refreshed one.
LEMMA JobRefreshesKeeps == ASSUME Inv, JobRefreshes PROVE Inv'
<1>1. /\ job' = [job EXCEPT !.todo = @ - 1] /\ job.todo > 0
      /\ UNCHANGED <<loads, done, win, saves, auto>>
      /\ eng' \in {eng, Changed(eng), Untold(eng)}
      /\ \/ wire' = wire \o <<Event(None)>>
         \/ wire' = wire /\ eng' \in {eng, Untold(eng)}
  BY DEF JobRefreshes, Tell
<1>2. DOMAIN job' = {"k", "todo"} /\ job'.k = job.k /\ job.k # "status"
  BY <1>1 DEF Inv, Records, JobTold, Job, NoJob
<1>3. \A N : EngineMoves(N)
  BY <1>1, EngineCountsOn
<1>4. eng'.asked = eng.asked /\ Unknown \in Past'
  BY <1>1, EngineCountsOn
<1>5. CASE wire' = wire \o <<Event(None)>>
  <2>1. Carries(wire', wire, {Event(None)}, 0) /\ \E j \in 1..Len(wire') : wire'[j] = Event(None)
    BY <1>5, LetterOne, Mailed DEF Inv, OnTheWay
  <2>2. Mail({Event(None)})
    BY <1>4 DEF Mail, Tells, IsPoll, Reads, Manual, Event
  <2>3. OnItsWay'
    <3>1. Makes(Event(None))
      BY DEF Makes, Event
    <3> QED BY <2>1, <3>1, MakesOne
  <2> QED BY <1>1, <1>2, <1>3, <1>4, <2>1, <2>2, <2>3, EngineKeeps DEF Inv, Records
<1>6. CASE wire' = wire /\ eng' \in {eng, Untold(eng)}
  <2>1. Carries(wire', wire, {}, 0) /\ Mail({})
    BY <1>6, QuietMail DEF Inv, OnTheWay
  <2>2. eng'.due = eng.due /\ eng'.run = eng.run /\ CurKept
    BY <1>6, EngineCountsOn
  <2> QED BY <1>1, <1>2, <1>3, <1>4, <2>1, <2>2, EngineKeeps DEF Inv, Records
<1> QED BY <1>1, <1>5, <1>6

\* The one operation on all accounts ends with one answer.
LEMMA JobSucceedsKeeps == ASSUME Inv, JobSucceeds PROVE Inv'
<1>1. job' = Job("answered") /\ UNCHANGED <<loads, done, win, saves, auto>>
  BY DEF JobSucceeds
<1>2. DOMAIN job' = {"k", "todo"} /\ job'.k = "answered"
  BY <1>1 DEF Job, NoJob
<1>3. CASE /\ job.k \in {"all", "verify"} /\ job.todo = 0
           /\ eng' = [eng EXCEPT !.due = eng.rev]
           /\ Tell(<<JobReply(job.k, TRUE, Unknown)>>)
  <2> DEFINE reply == JobReply(job.k, TRUE, Unknown)
  <2>1. Carries(wire', wire, {reply}, 0) /\ \E j \in 1..Len(wire') : wire'[j] = reply
    BY <1>3, LetterOne, Mailed DEF Inv, OnTheWay, Tell
  <2>2. EngineMoves({reply}) /\ eng'.asked = eng.asked
    <3>1. /\ Like(eng', eng) /\ eng'.auth = eng.auth /\ eng'.due = eng.rev /\ eng'.rev = eng.rev /\ eng'.tx = eng.tx
      BY <1>3 DEF Inv, Records, Changes, Like
    <3> QED BY <3>1, SameLogin
  <2>3. Mail({reply})
    BY <1>2, <1>3, <2>2 DEF Mail, Tells, IsPoll, Reads, Manual, JobReply, Past, EngineMoves, Unknown
  <2>4. OnItsWay'
    <3>1. Makes(reply)
      BY <1>3 DEF Makes, JobReply
    <3> QED BY <2>1, <3>1, MakesOne
  <2> HIDE DEF reply
  <2>5. job.k # "status"
    BY <1>3
  <2> QED BY <1>1, <1>2, <2>1, <2>2, <2>3, <2>4, <2>5, EngineKeeps DEF Inv, Records
<1>4. ASSUME job.k \in {"resolve", "import"}, NEW a \in Accounts, NEW seen \in BOOLEAN, eng' = Applies(a),
             Tell(<<Event(a), JobReply(job.k, TRUE, IF seen /\ job.k = "resolve" THEN eng'.auth ELSE Unknown)>>)
      PROVE  Inv'
  <2> DEFINE auth == IF seen /\ job.k = "resolve" THEN eng'.auth ELSE Unknown
             reply == JobReply(job.k, TRUE, auth)
  <2>1. Carries(wire', wire, {Event(a), reply}, 0) /\ \E j \in 1..Len(wire') : wire'[j] = Event(a)
    <3>1. Letter(<<Event(a), reply>>, {Event(a), reply})
      BY LetterTwo DEF Clash, Manual, Loaded, Event, JobReply
    <3>2. wire' = wire \o <<Event(a), reply>>
      BY <1>4 DEF Tell
    <3> HIDE DEF reply
    <3> QED BY <3>1, <3>2, Mailed DEF Inv, OnTheWay
  <2>2. EngineMoves({Event(a), reply}) /\ eng'.asked = eng.asked
    <3>1. /\ Like(eng', eng) /\ eng'.auth = eng.auth + 1 /\ eng'.due = eng.rev + 1 /\ eng'.rev = eng.rev + 1 /\ eng'.tx = eng.tx
      BY <1>4 DEF Applies, Changed, Inv, Records, Changes, Like
    <3> QED BY <3>1, SameLogin
  <2>3. Mail({Event(a), reply})
    <3>1. auth \in Past' /\ Unknown \in Past'
      BY <2>2 DEF EngineMoves, Past, Unknown
    <3> HIDE DEF auth
    <3> QED BY <1>2, <1>4, <3>1 DEF Mail, Tells, IsPoll, Reads, Manual, JobReply, Event
  <2>4. OnItsWay'
    <3>1. Makes(Event(a))
      BY DEF Makes, Event
    <3> QED BY <2>1, <3>1, MakesOne
  <2> HIDE DEF reply, auth
  <2>5. job.k # "status"
    BY <1>4
  <2> QED BY <1>1, <1>2, <1>4, <2>1, <2>2, <2>3, <2>4, <2>5, EngineKeeps DEF Inv, Records
<1>5. CASE /\ job.k = "imported" /\ eng' = Changed(eng)
           /\ Tell(<<Event(None), JobReply(job.k, TRUE, Unknown)>>)
  <2> DEFINE reply == JobReply(job.k, TRUE, Unknown)
  <2>1. Carries(wire', wire, {Event(None), reply}, 0) /\ \E j \in 1..Len(wire') : wire'[j] = Event(None)
    <3>1. Letter(<<Event(None), reply>>, {Event(None), reply})
      BY LetterTwo DEF Clash, Manual, Loaded, Event, JobReply
    <3> QED BY <1>5, <3>1, Mailed DEF Inv, OnTheWay, Tell
  <2>2. EngineMoves({Event(None), reply}) /\ eng'.asked = eng.asked /\ Unknown \in Past'
    BY <1>5, EngineCountsOn
  <2>3. Mail({Event(None), reply})
    BY <1>2, <1>5, <2>2 DEF Mail, Tells, IsPoll, Reads, Manual, JobReply, Event
  <2>4. OnItsWay'
    <3>1. Makes(Event(None))
      BY DEF Makes, Event
    <3> QED BY <2>1, <3>1, MakesOne
  <2> HIDE DEF reply
  <2>5. job.k # "status"
    BY <1>5
  <2> QED BY <1>1, <1>2, <2>1, <2>2, <2>3, <2>4, <2>5, EngineKeeps DEF Inv, Records
<1>6. CASE /\ job.k = "resolve"
           /\ eng' = LetGo(Announced(eng), "job", eng.tx.who)
           /\ Tell(<<Event(eng.tx.who), JobReply(job.k, TRUE, Verdict("job"))>>)
  <2> DEFINE news == Event(eng.tx.who)
             reply == JobReply(job.k, TRUE, Verdict("job"))
  <2>1. Carries(wire', wire, {news, reply}, 0) /\ \E j \in 1..Len(wire') : wire'[j] = news
    <3>1. Letter(<<news, reply>>, {news, reply})
      BY LetterTwo DEF Clash, Manual, Loaded, Event, JobReply
    <3>2. wire' = wire \o <<news, reply>>
      BY <1>6 DEF Tell
    <3> DEFINE r == <<news, reply>>
               N == {news, reply}
    <3>3. news \in N
      OBVIOUS
    <3> HIDE DEF news, reply, r, N
    <3>4. Letter(r, N) /\ wire' = wire \o r
      BY <3>1, <3>2 DEF r, N
    <3>5. Carries(wire', wire, N, 0) /\ \E j \in 1..Len(wire') : wire'[j] = news
      BY <3>3, <3>4, Mailed DEF Inv, OnTheWay
    <3> QED BY <3>5 DEF N
  <2>2. EngineMoves({news, reply}) /\ eng'.asked = eng.asked /\ Unknown \in Past' /\ Past \subseteq Past'
    <3> DEFINE e == Announced(eng)
    <3>1. DOMAIN eng = Changes /\ DOMAIN eng.tx = DOMAIN NoSwitch /\ NoSwitch.auth = Unknown
      BY NoSwitchOf DEF Inv, Records, SwitchFine
    <3>2. Like(e, eng) /\ e.rev = eng.rev /\ e.due = eng.rev /\ e.auth = eng.auth /\ e.tx = eng.tx
      BY <3>1, AnnouncedOf
    <3>3. \E a : eng' = LetGo(e, "job", a)
      BY <1>6, Zenon
    <3> HIDE DEF e
    <3>4. Like(eng', e) /\ eng'.rev = e.rev /\ eng'.due = e.due /\ eng'.auth = e.auth /\ eng'.tx \in {e.tx, NoSwitch}
      BY <3>2, <3>3, LetGoOf DEF Like
    <3>5. Like(eng', eng)
      BY <3>2, <3>4 DEF Like
    <3> QED BY <3>1, <3>2, <3>4, <3>5, SameLogin
  <2>3. Mail({news, reply})
    <3>1. Verdict("job") \in Past'
      BY <2>2 DEF Verdict, Inv, SwitchFine, Bounds, Past
    <3> QED BY <1>2, <1>6, <2>2, <3>1 DEF Mail, Tells, IsPoll, Reads, Manual, JobReply, Event
  <2>4. OnItsWay'
    <3>1. Makes(news)
      BY DEF Makes, Event
    <3> QED BY <2>1, <3>1, MakesOne
  <2> HIDE DEF reply, news
  <2>5. job.k # "status"
    BY <1>6
  <2> QED BY <1>1, <1>2, <2>1, <2>2, <2>3, <2>4, <2>5, EngineKeeps DEF Inv, Records
<1> QED BY <1>3, <1>4, <1>5, <1>6 DEF JobSucceeds

\* The operation on all accounts fails.
LEMMA JobFailsKeeps == ASSUME Inv, JobFails PROVE Inv'
<1> DEFINE reply == JobReply(job.k, FALSE, Unknown)
<1>1. /\ job' = Job("answered") /\ UNCHANGED <<loads, done, win, saves, auto>>
      /\ job.k \in {"all", "verify", "resolve", "import", "imported"}
      /\ wire' = wire \o <<reply>>
  BY DEF JobFails, Tell
<1>e. PICK e \in {eng, Changed(eng), Untold(eng)} :
        eng' = LetGo(e, "job", e.tx.who) /\ (job.k = "imported" \/ e \in {eng, Untold(eng)})
  BY DEF JobFails
<1>2. DOMAIN job' = {"k", "todo"} /\ job'.k = "answered" /\ job.k # "status"
  BY <1>1 DEF Job, NoJob
<1>3. Carries(wire', wire, {reply}, 0) /\ \E j \in 1..Len(wire') : wire'[j] = reply
  BY <1>1, LetterOne, Mailed DEF Inv, OnTheWay
<1>4. EngineMoves({reply}) /\ eng'.asked = eng.asked /\ Unknown \in Past'
  BY <1>e, EngineCounts
<1>5. Mail({reply})
  BY <1>1, <1>2, <1>4 DEF Mail, Tells, IsPoll, Reads, Manual, JobReply
<1>6. OnItsWay' \/ (eng'.due = eng.due /\ eng'.run = eng.run /\ CurKept)
  <2>1. CASE job.k = "imported"
    <3>1. Makes(reply)
      BY <2>1 DEF Makes, JobReply
    <3> QED BY <1>3, <3>1, MakesOne
  <2>2. CASE job.k # "imported"
    BY <1>e, <2>2, EngineCounts
  <2> QED BY <2>1, <2>2
<1> HIDE DEF reply
<1> QED BY <1>1, <1>2, <1>3, <1>4, <1>5, <1>6, EngineKeeps DEF Inv, Records

\* Those who wait for the login are answered.
LEMMA AnswerOf ==
  ASSUME NEW ok, NEW l
  PROVE  \E N : /\ Letter(Answer(ok, l), N)
                /\ \A m \in N : \/ eng.asked /\ m.k = "added" /\ m.login = l
                                \/ job.k = "manual" /\ m = JobReply("manual", ok, l.auth)
                /\ eng.asked => \E m \in N : m.k = "added"
<1> DEFINE added == [k |-> "added", ok |-> ok, re |-> eng.target, login |-> l]
           reply == JobReply("manual", ok, l.auth)
           q == IF eng.asked THEN <<added>> ELSE <<>>
           r == IF job.k = "manual" THEN <<reply>> ELSE <<>>
           M == IF eng.asked THEN {added} ELSE {}
           R == IF job.k = "manual" THEN {reply} ELSE {}
<1>1. Answer(ok, l) = q \o r
  BY DEF Answer
<1>2. added.k = "added" /\ added.login = l /\ reply.k = "job"
  BY DEF JobReply
<1> HIDE DEF added, reply
<1>3. Letter(q, M) /\ Letter(r, R)
  BY LetterOne, LetterNone
<1>4. \A m \in M, n \in R : ~ Clash(m, n)
  BY <1>2 DEF Clash, Manual, Loaded
<1> HIDE DEF q, r
<1>5. Letter(q \o r, M \cup R)
  BY <1>3, <1>4, LetterJoined
<1>6. /\ \A m \in M \cup R : (eng.asked /\ m = added) \/ (job.k = "manual" /\ m = reply)
      /\ eng.asked => added \in M \cup R
  OBVIOUS
<1> HIDE DEF M, R
<1> QED BY <1>1, <1>2, <1>5, <1>6 DEF reply

\* A login that is over is not open, and nothing that is written is its own any more.
LEMMA OverMoves ==
  ASSUME Inv, NEW st, st # "pending", eng' = Over(st), NEW N
  PROVE  /\ EngineMoves(N) /\ eng'.due = eng.due /\ eng'.run = eng.run /\ CurKept
         /\ eng'.login = Outcome(st) /\ eng'.login.auth = Unknown /\ ~ Pending(eng'.login)
<1>1. /\ Outcome(st).auth = Unknown /\ Outcome(st).st = st
  BY DEF Outcome, NotAsked
<1>2. /\ DOMAIN eng' = Changes /\ eng'.login = Outcome(st) /\ eng'.chain = [eng.chain EXCEPT !.mine = FALSE]
      /\ eng'.rev = eng.rev /\ eng'.due = eng.due /\ eng'.cfg = eng.cfg /\ eng'.auth = eng.auth /\ eng'.pass = eng.pass
      /\ eng'.run = eng.run /\ eng'.cur = eng.cur /\ eng'.hush = eng.hush /\ eng'.tx = eng.tx
  BY DEF Over, Inv, Records, Changes
<1>3. DOMAIN eng'.chain = {"on", "who", "mine"} /\ ~ eng'.chain.mine
  BY <1>2 DEF Inv, SwitchFine
<1>4. SwitchFine'
  BY <1>2, <1>3 DEF Inv, SwitchFine, Mine, Past
<1>5. ~ Pending(eng'.login)
  BY <1>1, <1>2 DEF Pending
<1>6. Counted' /\ eng.rev <= eng'.rev
  BY <1>2 DEF Inv, Truth, Counted
<1>7. EngineMoves(N)
  BY <1>1, <1>2, <1>4, <1>5, <1>6 DEF EngineMoves, Inv, Records, Bounds, Past, Unknown
<1> QED BY <1>1, <1>2, <1>5, <1>7 DEF CurKept

\* The browser login fails.
LEMMA LoginFailsKeeps == ASSUME Inv, LoginFails PROVE Inv'
<1>1. /\ Pending(eng.login)
      /\ eng' = Over("error")
      /\ wire' = wire \o Answer(FALSE, NotAsked)
      /\ job' = IF job.k = "manual" THEN Job("answered") ELSE job
      /\ UNCHANGED <<loads, done, win, saves, auto>>
  BY DEF LoginFails, Tell, JobAnswered
<1>2. PICK N : /\ Letter(Answer(FALSE, NotAsked), N)
               /\ \A m \in N : \/ eng.asked /\ m.k = "added" /\ m.login = NotAsked
                               \/ job.k = "manual" /\ m = JobReply("manual", FALSE, NotAsked.auth)
               /\ eng.asked => \E m \in N : m.k = "added"
  BY AnswerOf
<1>3. Carries(wire', wire, N, 0) /\ \A m \in N : \E j \in 1..Len(wire') : wire'[j] = m
  BY <1>1, <1>2, Mailed DEF Inv, OnTheWay
<1>4. /\ DOMAIN job' = {"k", "todo"}
      /\ job.k = "manual" => job'.k = "answered"
      /\ job.k # "manual" => job' = job
  BY <1>1 DEF Job, NoJob, Inv, Records
<1>5. EngineMoves(N) /\ eng'.due = eng.due /\ eng'.run = eng.run /\ CurKept
  BY <1>1, OverMoves
<1>6. Mail(N)
  BY <1>2, <1>4, <1>5 DEF Mail, Tells, IsPoll, Reads, Manual, JobReply, EngineMoves, Past, Unknown, NotAsked
<1>7. eng.asked => \E m \in N : Makes(m) /\ OnItsWay'
  <2>1. \A m \in N : m.k = "added" => Makes(m)
    BY DEF Makes
  <2> QED BY <1>2, <1>3, <2>1, MakesOne
<1> QED BY <1>1, <1>3, <1>4, <1>5, <1>6, <1>7, EngineKeeps DEF Inv, Records

\* The browser login completes, and those who wait for it are answered.
LEMMA LoginEndsKeeps ==
  ASSUME Inv, Pending(eng.login), DOMAIN eng' = Changes, eng'.cfg = eng.cfg, eng'.pass = eng.pass, eng'.auth = eng.auth,
         eng'.login.st = "completed", eng'.login.auth \in Past', eng'.rev \in {eng.rev, eng.rev + 1}, eng'.due = eng'.rev,
         DOMAIN eng'.tx = DOMAIN eng.tx, eng'.tx.auth \in {eng.tx.auth, Unknown}, DOMAIN eng'.chain = DOMAIN eng.chain, ~ Mine',
         NEW news, news.k = "event", NEW l, l.auth \in Past', wire' = wire \o (<<news>> \o Answer(TRUE, l)), JobAnswered,
         UNCHANGED <<loads, done, win, saves, auto>>
  PROVE  Inv'
<1>1. PICK N : /\ Letter(Answer(TRUE, l), N)
               /\ \A m \in N : \/ eng.asked /\ m.k = "added" /\ m.login = l
                               \/ job.k = "manual" /\ m = JobReply("manual", TRUE, l.auth)
               /\ eng.asked => \E m \in N : m.k = "added"
  BY AnswerOf
<1>2. \A m \in N : m.k \in {"added", "job"} /\ Tells(m) \in Past' /\ (m.k = "job" => job.k = "manual" /\ m.ok)
  BY <1>1 DEF JobReply, Tells
<1> DEFINE M == {news} \cup N
<1>3. Carries(wire', wire, M, 0) /\ \A m \in M : \E j \in 1..Len(wire') : wire'[j] = m
  <2>1. Letter(<<news>>, {news})
    BY LetterOne
  <2>2. \A m \in {news}, n \in N : ~ Clash(m, n)
    BY <1>2 DEF Clash, Manual, Loaded
  <2>3. Letter(<<news>> \o Answer(TRUE, l), M)
    BY <1>1, <2>1, <2>2, LetterJoined
  <2>4. Row(wire)
    BY DEF Inv, OnTheWay
  <2> DEFINE r == <<news>> \o Answer(TRUE, l)
  <2>5. Letter(r, M) /\ wire' = wire \o r
    BY <2>3
  <2> HIDE DEF M, r
  <2> QED BY <2>4, <2>5, Mailed
<1>4. OnItsWay'
  <2>1. Makes(news)
    BY DEF Makes
  <2> QED BY <1>3, <2>1, MakesOne
<1>5. eng.asked => \E m \in M : m.k = "added" /\ Makes(m)
  BY <1>1 DEF Makes
<1>6. Past' = Past /\ Unknown \in Past'
  BY DEF Past, Inv, Bounds, Unknown
<1>7. EngineMoves(M)
  <2>1. Counted' /\ eng.rev <= eng'.rev
    BY DEF Inv, Truth, Counted
  <2>2. OnWire("cancelled") => \E m \in M : m.k = "added" /\ OnWire("added")'
    <3> HAVE OnWire("cancelled")
    <3>1. eng.asked
      BY DEF Inv, Verdicts, CancelledIsAsked
    <3> QED BY <1>3, <1>5, <3>1 DEF OnWire
  <2>3. SwitchFine'
    BY <1>6 DEF Inv, SwitchFine
  <2>4. ~ Pending(eng'.login)
    BY DEF Pending
  <2> QED BY <1>6, <2>1, <2>2, <2>3, <2>4 DEF EngineMoves, Inv, Records, Bounds
<1>8. DOMAIN job' = {"k", "todo"} /\ (job.k = "manual" => job'.k = "answered") /\ (job.k # "manual" => job' = job)
  BY DEF JobAnswered, Job, NoJob, Inv, Records
<1>9. Mail(M)
  <2>1. Tells(news) \in Past'
    BY <1>6 DEF Tells
  <2> QED BY <1>2, <1>8, <2>1 DEF Mail, IsPoll, Reads, Manual
<1>10. eng.asked => \E m \in M : Makes(m) /\ OnItsWay'
  BY <1>4, <1>5
<1> HIDE DEF M
<1> QED BY <1>3, <1>4, <1>7, <1>8, <1>9, <1>10, EngineKeeps DEF Inv, Records

\* An account was signed in again.
LEMMA LoginCompletesKeeps == ASSUME Inv, LoginCompletes PROVE Inv'
<1>1. PICK who \in SignsIn, auth \in {eng.auth, Unknown} :
        /\ eng' = [Changed(eng) EXCEPT !.login = Completed(who, None, auth), !.asked = FALSE, !.target = FALSE]
        /\ Tell(<<Event(None)>> \o Answer(TRUE, [eng'.login EXCEPT !.st = "reauthorized"]))
  BY DEF LoginCompletes
<1>2. /\ Pending(eng.login) /\ JobAnswered /\ ~ Mine
      /\ UNCHANGED <<loads, done, win, saves, auto>>
  BY DEF LoginCompletes
<1>3. DOMAIN eng = Changes /\ DOMAIN Changed(eng) = Changes
  BY ChangedIs DEF Inv, Records, Like
<1>4. /\ DOMAIN eng' = Changes /\ eng'.cfg = eng.cfg /\ eng'.pass = eng.pass /\ eng'.auth = eng.auth
      /\ eng'.due = eng.rev + 1 /\ eng'.rev = eng.rev + 1 /\ eng'.tx = eng.tx /\ eng'.chain = eng.chain
      /\ eng'.login = Completed(who, None, auth)
  <2> DEFINE e == Changed(eng)
  <2>1. /\ Like(e, eng) /\ e.rev = eng.rev + 1 /\ e.due = eng.rev + 1 /\ e.auth = eng.auth /\ e.tx = eng.tx
    BY <1>3, ChangedIs
  <2>2. eng' = [e EXCEPT !.login = Completed(who, None, auth), !.asked = FALSE, !.target = FALSE]
    BY <1>1
  <2> HIDE DEF e
  <2> QED BY <2>1, <2>2 DEF Like, Changes
<1> DEFINE l == [eng'.login EXCEPT !.st = "reauthorized"]
<1>5. l.auth = auth /\ eng'.login.st = "completed" /\ eng'.login.auth = auth
  BY <1>4 DEF Completed
<1>6. auth \in Past'
  BY <1>4 DEF Past, Inv, Bounds, Unknown
<1>7. wire' = wire \o (<<Event(None)>> \o Answer(TRUE, l)) /\ Event(None).k = "event"
  BY <1>1 DEF Tell, Event
<1>8. ~ Mine'
  BY <1>2, <1>4 DEF Mine
<1> HIDE DEF l
<1> QED BY <1>2, <1>4, <1>5, <1>6, <1>7, <1>8, LoginEndsKeeps

\* An account was saved, to be switched to.
LEMMA LoginSavesKeeps == ASSUME Inv, LoginSaves PROVE Inv'
<1>1. PICK who \in SignsIn : eng' = [Untold(eng) EXCEPT !.chain = [on |-> TRUE, who |-> who, mine |-> TRUE]]
  BY DEF LoginSaves
<1>2. Pending(eng.login) /\ UNCHANGED <<job, wire, loads, done, win, saves, auto>>
  BY DEF LoginSaves
<1>3. Carries(wire', wire, {}, 0) /\ Mail({})
  BY <1>2, QuietMail DEF Inv, OnTheWay
<1> DEFINE e == Untold(eng)
<1>4. /\ Like(e, eng) /\ e.rev = eng.rev + 1 /\ e.due = eng.due /\ e.auth = eng.auth /\ e.cur = eng.cur /\ e.hush = eng.hush
      /\ e.tx = eng.tx
  BY ChangedIs DEF Inv, Records
<1>5. eng' = [e EXCEPT !.chain = [on |-> TRUE, who |-> who, mine |-> TRUE]]
  BY <1>1
<1> HIDE DEF e
<1>6. /\ DOMAIN eng' = Changes /\ eng'.chain = [on |-> TRUE, who |-> who, mine |-> TRUE]
      /\ eng'.cfg = eng.cfg /\ eng'.pass = eng.pass /\ eng'.run = eng.run /\ eng'.asked = eng.asked /\ eng'.login = eng.login
      /\ eng'.rev = eng.rev + 1 /\ eng'.due = eng.due /\ eng'.auth = eng.auth /\ eng'.cur = eng.cur /\ eng'.hush = eng.hush
      /\ eng'.tx = eng.tx
  BY <1>4, <1>5 DEF Like, Changes
<1>7. DOMAIN eng'.chain = {"on", "who", "mine"}
  BY <1>6
<1>8. SwitchFine'
  BY <1>2, <1>6, <1>7 DEF Inv, SwitchFine, Mine, Past
<1>9. EngineMoves({})
  <2>1. Counted' /\ eng.rev <= eng'.rev
    BY <1>6 DEF Inv, Truth, Counted
  <2> QED BY <1>6, <1>8, <2>1 DEF EngineMoves, Inv, Records, Bounds, Past
<1> QED BY <1>2, <1>3, <1>6, <1>9, EngineKeeps DEF Inv, Records, CurKept

\* A switch has written the login and the index, or has put back what was there.
LEMMA SwitchMovesKeeps ==
  ASSUME Inv, UNCHANGED <<job, wire, loads, done, win, saves, auto>>, Like(eng', eng),
         eng'.rev = eng.rev + 1, eng'.due = eng.due, eng'.auth = eng.auth + 1, eng'.hush = eng.rev + 1,
         DOMAIN eng'.tx = DOMAIN eng.tx, eng'.tx.auth \in {eng.tx.auth, eng'.auth}
  PROVE  Inv'
<1>1. Carries(wire', wire, {}, 0) /\ Mail({})
  BY QuietMail DEF Inv, OnTheWay
<1>2. EngineMoves({}) /\ eng'.asked = eng.asked
  BY SameLogin
<1>3. CurKept /\ eng'.run = eng.run
  BY DEF CurKept, Like
<1> QED BY <1>1, <1>2, <1>3, EngineKeeps DEF Inv, Records

\* A switch writes.
LEMMA SwitchWritesKeeps == ASSUME Inv, SwitchWrites PROVE Inv'
<1>1. PICK by, a : eng' = [Hushed(eng) EXCEPT !.cur = a, !.tx = [by |-> by, st |-> "written", who |-> a, was |-> eng.cur, auth |-> eng.auth + 1]]
  BY DEF SwitchWrites
<1>2. UNCHANGED <<job, wire, loads, done, win, saves, auto>>
  BY DEF SwitchWrites
<1> DEFINE e == Hushed(eng)
           t == [by |-> by, st |-> "written", who |-> a, was |-> eng.cur, auth |-> eng.auth + 1]
<1>3. /\ Like(e, eng) /\ e.rev = eng.rev + 1 /\ e.due = eng.due /\ e.auth = eng.auth + 1 /\ e.hush = eng.rev + 1
  BY ChangedIs DEF Inv, Records
<1>4. DOMAIN t = DOMAIN eng.tx /\ t.auth = eng.auth + 1
  BY DEF Inv, SwitchFine
<1>5. eng' = [e EXCEPT !.cur = a, !.tx = t]
  BY <1>1
<1> HIDE DEF e, t
<1>6. /\ Like(eng', eng) /\ eng'.rev = e.rev /\ eng'.due = e.due /\ eng'.auth = e.auth /\ eng'.hush = e.hush /\ eng'.tx = t
  BY <1>3, <1>5 DEF Like, Changes
<1> QED BY <1>2, <1>3, <1>4, <1>6, SwitchMovesKeeps

\* A switch is undone.
LEMMA SwitchUndoneKeeps == ASSUME Inv, SwitchUndone PROVE Inv'
<1>1. PICK back : eng' = [Hushed(eng) EXCEPT !.cur = back, !.tx.st = "undone"]
  BY DEF SwitchUndone
<1>2. UNCHANGED <<job, wire, loads, done, win, saves, auto>>
  BY DEF SwitchUndone
<1> DEFINE e == Hushed(eng)
<1>3. /\ Like(e, eng) /\ e.rev = eng.rev + 1 /\ e.due = eng.due /\ e.auth = eng.auth + 1 /\ e.hush = eng.rev + 1 /\ e.tx = eng.tx
  BY ChangedIs DEF Inv, Records
<1>4. eng' = [e EXCEPT !.cur = back, !.tx.st = "undone"]
  BY <1>1
<1> HIDE DEF e
<1>5. /\ Like(eng', eng) /\ eng'.rev = e.rev /\ eng'.due = e.due /\ eng'.auth = e.auth /\ eng'.hush = e.hush
      /\ eng'.tx = [e.tx EXCEPT !.st = "undone"]
  BY <1>3, <1>4 DEF Like, Changes
<1>6. DOMAIN eng'.tx = DOMAIN eng.tx /\ eng'.tx.auth = eng.tx.auth
  BY <1>3, <1>5 DEF Inv, SwitchFine
<1> QED BY <1>2, <1>3, <1>5, <1>6, SwitchMovesKeeps

\* The switch of a login has ended, in time to complete it or not.
LEMMA LoginSwitchedKeeps == ASSUME Inv, NEW switched \in BOOLEAN, LoginSwitched(switched) PROVE Inv'
<1> DEFINE who == eng.chain.who
           f == LetGo(eng, "login", who)
           over == [f EXCEPT !.chain = NoChain]
           badge == IF eng.target /\ ~ Written("login", who) THEN None ELSE who
<1>1. /\ eng.chain.on /\ UNCHANGED <<loads, done, win, saves, auto>>
      /\ IF ~ Mine THEN eng' = over /\ UNCHANGED <<wire, job>>
         ELSE /\ \E auth \in IF switched THEN {Verdict("login")} ELSE {eng.auth, Unknown} :
                   /\ eng' = [Announced(over) EXCEPT !.login = Completed(who, badge, auth), !.asked = FALSE, !.target = FALSE]
                   /\ Tell(<<Event(IF switched THEN who ELSE None)>>
                           \o Answer(TRUE, [eng'.login EXCEPT !.st = "reauthorized", !.badge = who]))
              /\ JobAnswered
  BY DEF LoginSwitched
<1>2. /\ DOMAIN eng = Changes /\ DOMAIN eng.tx = DOMAIN NoSwitch /\ NoSwitch.auth = Unknown
      /\ DOMAIN eng.chain = {"on", "who", "mine"} /\ DOMAIN NoChain = {"on", "who", "mine"} /\ ~ NoChain.on
  BY NoSwitchOf DEF Inv, Records, SwitchFine, NoChain
<1>3. /\ Like(f, eng) /\ f.rev = eng.rev /\ f.due = eng.due /\ f.auth = eng.auth /\ f.cur = eng.cur /\ f.hush = eng.hush
      /\ f.tx \in {eng.tx, NoSwitch}
  BY <1>2, LetGoOf
<1> HIDE DEF f
<1>4. /\ DOMAIN over = Changes /\ over.chain = NoChain
      /\ over.cfg = eng.cfg /\ over.pass = eng.pass /\ over.run = eng.run /\ over.asked = eng.asked /\ over.login = eng.login
      /\ over.rev = eng.rev /\ over.due = eng.due /\ over.auth = eng.auth /\ over.cur = eng.cur /\ over.hush = eng.hush
      /\ over.tx \in {eng.tx, NoSwitch}
  BY <1>3 DEF Like, Changes
<1>5. eng.auth \in Past /\ Verdict("login") \in Past /\ Unknown \in Past
  BY DEF Verdict, Inv, SwitchFine, Bounds, Past, Unknown
<1> HIDE DEF over, badge, who
<1>6. CASE ~ Mine
  <2>1. eng' = over /\ UNCHANGED <<wire, job>>
    BY <1>1, <1>6
  <2>2. Carries(wire', wire, {}, 0) /\ Mail({})
    BY <2>1, QuietMail DEF Inv, OnTheWay
  <2>3. SwitchFine'
    BY <1>2, <1>4, <2>1 DEF Inv, SwitchFine, Mine, Past, Bounds, Unknown
  <2>4. EngineMoves({})
    <3>1. Counted' /\ eng.rev <= eng'.rev
      BY <1>4, <2>1 DEF Inv, Truth, Counted
    <3> QED BY <1>2, <1>4, <2>1, <2>3, <3>1 DEF EngineMoves, Inv, Bounds, Past
  <2> QED BY <1>1, <1>4, <2>1, <2>2, <2>4, EngineKeeps DEF Inv, Records, CurKept
<1>7. CASE Mine
  <2> DEFINE e == Announced(over)
  <2>1. PICK auth \in IF switched THEN {Verdict("login")} ELSE {eng.auth, Unknown} :
          /\ eng' = [e EXCEPT !.login = Completed(who, badge, auth), !.asked = FALSE, !.target = FALSE]
          /\ Tell(<<Event(IF switched THEN who ELSE None)>>
                  \o Answer(TRUE, [eng'.login EXCEPT !.st = "reauthorized", !.badge = who]))
    BY <1>1, <1>7
  <2>2. /\ Like(e, over) /\ e.rev = over.rev /\ e.due = over.rev /\ e.auth = over.auth /\ e.tx = over.tx
    BY <1>4, AnnouncedOf
  <2> HIDE DEF e
  <2>3. /\ DOMAIN eng' = Changes /\ eng'.cfg = eng.cfg /\ eng'.pass = eng.pass /\ eng'.auth = eng.auth
        /\ eng'.rev = eng.rev /\ eng'.due = eng'.rev /\ eng'.tx \in {eng.tx, NoSwitch} /\ eng'.chain = NoChain
        /\ eng'.login = Completed(who, badge, auth)
    BY <1>4, <2>1, <2>2 DEF Like, Changes
  <2> DEFINE l == [eng'.login EXCEPT !.st = "reauthorized", !.badge = who]
             news == Event(IF switched THEN who ELSE None)
  <2>4. l.auth = auth /\ eng'.login.st = "completed" /\ eng'.login.auth = auth
    BY <2>3 DEF Completed
  <2>5. auth \in Past'
    BY <1>5, <2>1, <2>3 DEF Past
  <2>6. wire' = wire \o (<<news>> \o Answer(TRUE, l)) /\ news.k = "event"
    BY <2>1 DEF Tell, Event
  <2>7. ~ Mine'
    BY <1>2, <2>3 DEF Mine
  <2>8. Pending(eng.login) /\ JobAnswered
    BY <1>1, <1>7, Zenon DEF Inv, SwitchFine
  <2>9. /\ DOMAIN eng'.tx = DOMAIN eng.tx /\ eng'.tx.auth \in {eng.tx.auth, Unknown}
        /\ DOMAIN eng'.chain = DOMAIN eng.chain
    BY <1>2, <2>3
  <2> HIDE DEF l, news
  <2>10. /\ eng'.login.st = "completed" /\ eng'.login.auth \in Past' /\ l.auth \in Past'
         /\ eng'.rev \in {eng.rev, eng.rev + 1} /\ eng'.tx.auth \in {eng.tx.auth, Unknown}
    BY <2>3, <2>4, <2>5, <2>9
  <2> QED BY <1>1, <2>3, <2>6, <2>7, <2>8, <2>9, <2>10, LoginEndsKeeps, Zenon
<1> QED BY <1>6, <1>7

-----------------------------------------------------------------------------
(* What the user and the timers do                                         *)

\* The user asks for an operation on all accounts.
LEMMA OrderKeeps == ASSUME Inv, NEW k \in Orders, Order(k) PROVE Inv'
<1>1. /\ job = NoJob /\ DOMAIN job' = {"k", "todo"} /\ job'.k = k
      /\ UNCHANGED <<eng, wire, loads, done, win, saves, auto>>
  BY DEF Order
<1>2. Carries(wire', wire, {}, 0) /\ Mail({})
  BY <1>1, QuietMail DEF Inv, OnTheWay
<1>3. job.k = "no" /\ job'.k \notin {"status", "answered"}
  BY <1>1 DEF NoJob, Orders
<1>4. EngineMoves({}) /\ CurKept
  BY <1>1, EngineCountsOn
<1> QED BY <1>1, <1>2, <1>3, <1>4, EngineKeeps DEF Inv, Records

\* The user starts or stops the daemon.
LEMMA ToggleKeeps == ASSUME Inv, Toggle PROVE Inv'
<1> DEFINE reply == JobReply("toggle", TRUE, Unknown)
<1>1. /\ job = NoJob /\ job' = Job("answered")
      /\ eng' = Toggled(~ win.run)
      /\ wire' = wire \o <<reply>>
      /\ UNCHANGED <<loads, done, win, saves, auto>>
  BY DEF Toggle, Tell
<1>2. DOMAIN job' = {"k", "todo"} /\ job'.k = "answered" /\ job.k = "no"
  BY <1>1 DEF Job, NoJob
<1>3. Carries(wire', wire, {reply}, 0) /\ \E j \in 1..Len(wire') : wire'[j] = reply
  BY <1>1, LetterOne, Mailed DEF Inv, OnTheWay
<1>4. /\ DOMAIN eng' = Changes /\ eng'.cfg = eng.cfg /\ eng'.auth = eng.auth /\ eng'.pass = eng.pass
      /\ eng'.login = eng.login /\ eng'.asked = eng.asked /\ eng'.due = eng.due /\ eng'.rev = eng.rev
      /\ eng'.tx = eng.tx /\ eng'.chain = eng.chain
  BY <1>1 DEF Toggled, Inv, Records, Changes
<1>5. EngineMoves({reply})
  <2>1. SwitchFine'
    BY <1>4 DEF Inv, SwitchFine, Mine, Past
  <2>2. Counted' /\ eng.rev <= eng'.rev
    BY <1>4 DEF Inv, Truth, Counted
  <2>3. /\ DOMAIN eng' = DOMAIN eng /\ eng'.auth \in Nat /\ eng.auth <= eng'.auth /\ eng'.login.auth <= eng.login.auth
        /\ eng'.pass \in Past' /\ eng'.login.auth \in Past'
    BY <1>4 DEF Inv, Records, Bounds, Past
  <2> QED BY <1>4, <2>1, <2>2, <2>3 DEF EngineMoves
<1>6. Mail({reply})
  BY <1>2, <1>5 DEF Mail, Tells, IsPoll, Reads, Manual, JobReply, EngineMoves, Past, Unknown
<1>7. OnItsWay'
  <2>1. Makes(reply)
    BY DEF Makes, JobReply
  <2> QED BY <1>3, <2>1, MakesOne
<1> HIDE DEF reply
<1> QED BY <1>1, <1>2, <1>3, <1>4, <1>5, <1>6, <1>7, EngineKeeps DEF Inv, Records

\* The user brings the address of the login.
LEMMA PasteKeeps == ASSUME Inv, Paste PROVE Inv'
<1> DEFINE reply == JobReply("manual", FALSE, Unknown)
<1>1. job = NoJob /\ UNCHANGED <<eng, loads, done, win, saves, auto>>
  BY DEF Paste
<1>2. job.k = "no"
  BY <1>1 DEF NoJob
<1>3. (\A N : EngineMoves(N)) /\ CurKept
  BY <1>1, EngineCountsOn
<1>4. CASE job' = Job("manual") /\ wire' = wire
  <2>1. Carries(wire', wire, {}, 0) /\ Mail({})
    BY <1>4, QuietMail DEF Inv, OnTheWay
  <2>2. DOMAIN job' = {"k", "todo"} /\ job'.k = "manual"
    BY <1>4 DEF Job, NoJob
  <2> QED BY <1>1, <1>2, <1>3, <2>1, <2>2, EngineKeeps DEF Inv, Records
<1>5. CASE job' = Job("answered") /\ wire' = wire \o <<reply>>
  <2>1. Carries(wire', wire, {reply}, 0)
    BY <1>5, LetterOne, Mailed DEF Inv, OnTheWay
  <2>2. DOMAIN job' = {"k", "todo"} /\ job'.k = "answered"
    BY <1>5 DEF Job, NoJob
  <2>3. Mail({reply})
    BY <1>2, <1>3, <2>2 DEF Mail, Tells, IsPoll, Reads, Manual, JobReply, EngineMoves, Past, Unknown
  <2> HIDE DEF reply
  <2> QED BY <1>1, <1>2, <1>3, <2>1, <2>2, <2>3, EngineKeeps DEF Inv, Records
<1> QED BY <1>4, <1>5 DEF Paste, Tell

\* The user cancels the login.
LEMMA CancelLoginKeeps == ASSUME Inv, CancelLogin PROVE Inv'
<1> DEFINE cancelled == [k |-> "cancelled"]
<1>1. /\ eng' = Over("cancelled")
      /\ wire' = wire \o (Answer(FALSE, NotAsked) \o <<cancelled>>)
      /\ job' = IF job.k = "manual" THEN Job("answered") ELSE job
      /\ UNCHANGED <<loads, done, win, saves, auto>>
  BY DEF CancelLogin, Tell, JobAnswered
<1>2. PICK N : /\ Letter(Answer(FALSE, NotAsked), N)
               /\ \A m \in N : \/ eng.asked /\ m.k = "added" /\ m.login = NotAsked
                               \/ job.k = "manual" /\ m = JobReply("manual", FALSE, NotAsked.auth)
               /\ eng.asked => \E m \in N : m.k = "added"
  BY AnswerOf
<1> DEFINE M == N \cup {cancelled}
<1>3. Carries(wire', wire, M, 0) /\ \A m \in M : \E j \in 1..Len(wire') : wire'[j] = m
  <2>1. Letter(<<cancelled>>, {cancelled})
    BY LetterOne
  <2>2. \A m \in N, n \in {cancelled} : ~ Clash(m, n)
    BY <1>2 DEF Clash, Manual, Loaded, JobReply
  <2>3. Letter(Answer(FALSE, NotAsked) \o <<cancelled>>, M)
    BY <1>2, <2>1, <2>2, LetterJoined
  <2> HIDE DEF cancelled
  <2> QED BY <1>1, <2>3, Mailed DEF Inv, OnTheWay
<1>4. /\ DOMAIN job' = {"k", "todo"}
      /\ job.k = "manual" => job'.k = "answered"
      /\ job.k # "manual" => job' = job
  BY <1>1 DEF Job, NoJob, Inv, Records
<1>5. \A P : /\ EngineMoves(P) /\ eng'.due = eng.due /\ eng'.run = eng.run /\ CurKept
            /\ eng'.login.auth = Unknown /\ ~ Pending(eng'.login)
  BY <1>1, OverMoves
<1>6. EngineMoves(M)
  BY <1>5
<1>7. Mail(M)
  <2>1. Unknown \in Past' /\ NotAsked.auth = Unknown
    BY <1>6 DEF EngineMoves, Past, Unknown, NotAsked
  <2>2. \A m \in N : m.k \in {"added", "job"} /\ Tells(m) \in Past'
                     /\ (m.k = "job" => job.k = "manual" /\ m.auth = Unknown)
    BY <1>2, <2>1 DEF JobReply, Tells
  <2>3. cancelled.k = "cancelled" /\ Tells(cancelled) \in Past'
    BY <2>1 DEF Tells
  <2> HIDE DEF cancelled
  <2> QED BY <1>4, <1>5, <2>1, <2>2, <2>3 DEF Mail, IsPoll, Reads, Manual
<1>8. eng.asked => \E m \in M : Makes(m) /\ OnItsWay'
  <2>1. \A m \in N : m.k = "added" => Makes(m)
    BY DEF Makes
  <2> HIDE DEF cancelled
  <2> QED BY <1>2, <1>3, <2>1, MakesOne
<1> HIDE DEF M
<1> QED BY <1>1, <1>3, <1>4, <1>5, <1>6, <1>7, <1>8, EngineKeeps DEF Inv, Records

\* The window polls the login.
LEMMA PollKeeps == ASSUME Inv, Poll PROVE Inv'
<1> DEFINE poll == Status("poll", eng.login)
<1>1. Pending(win.login) /\ wire' = wire \o <<poll>> /\ UNCHANGED <<eng, job, loads, done, win, saves, auto>>
  BY DEF Poll, Tell
<1>2. Carries(wire', wire, {poll}, 0)
  BY <1>1, LetterOne, Mailed DEF Inv, OnTheWay
<1>3. EngineMoves({poll}) /\ CurKept
  BY <1>1, EngineCountsOn
<1>4. Mail({poll})
  BY <1>1, <1>3 DEF Mail, Tells, IsPoll, Reads, Manual, Status, EngineMoves
<1> HIDE DEF poll
<1> QED BY <1>1, <1>2, <1>3, <1>4, EngineKeeps DEF Inv, Records

\* The periodic sync begins.
LEMMA SyncTimerKeeps == ASSUME Inv, SyncTimer PROVE Inv'
<1>1. /\ auto.st = "off" /\ \E n \in 1..MaxStale : auto' = Started(n)
      /\ UNCHANGED <<eng, job, wire, loads, done, win, saves>>
  BY DEF SyncTimer
<1>2. Carries(wire', wire, {}, 0) /\ Mail({})
  BY <1>1, QuietMail DEF Inv, OnTheWay
<1>3. EngineMoves({}) /\ CurKept
  BY <1>1, EngineCountsOn
<1>4. auto'.st = "asking" /\ DOMAIN auto' = {"st", "left"}
  BY <1>1 DEF Started
<1> QED BY <1>1, <1>2, <1>3, <1>4, EngineKeeps DEF Inv, Records
-----------------------------------------------------------------------------
(* What arrives                                                            *)

\* The first message is taken, and of some kinds there is no other.
LEMMA TakenFirst ==
  ASSUME Inv, NEW k, Told(k)
  PROVE  /\ Carries(Tail(wire), wire, {}, 1)
         /\ Len(wire) \in Nat /\ 1 \in 1..Len(wire) /\ wire[1] = Msg /\ Msg.k = k /\ Tells(Msg) \in Past
         /\ k \in {"saved", "job", "auto"} => \A i \in 2..Len(wire) : wire[i].k # k
         /\ Manual(Msg) => \A i \in 2..Len(wire) : ~ Manual(wire[i])
<1>1. Row(wire) /\ wire # <<>> /\ Msg.k = k
  BY DEF Told, Msg, Inv, OnTheWay
<1>2. Len(wire) \in Nat \ {0} /\ Msg = wire[1]
  BY <1>1, Popped DEF Msg
<1>3. Carries(Tail(wire), wire, {}, 1)
  BY <1>1, CarriesTail
<1>4. Tells(Msg) \in Past
  BY <1>2 DEF Inv, Bounds
<1>5. k \in {"saved", "job", "auto"} => \A i \in 2..Len(wire) : wire[i].k # k
  BY <1>1, <1>2 DEF Inv, OnTheWay, Clash
<1>6. Manual(Msg) => \A i \in 2..Len(wire) : ~ Manual(wire[i])
  BY <1>1, <1>2 DEF Inv, OnTheWay, Clash
<1> QED BY <1>1, <1>2, <1>3, <1>4, <1>5, <1>6

\* The same of a step that does no more to the wire.
LEMMA Taken ==
  ASSUME Inv, NEW k, Told(k), wire' = Tail(wire)
  PROVE  /\ Carries(wire', wire, {}, 1)
         /\ Len(wire) \in Nat /\ 1 \in 1..Len(wire) /\ wire[1] = Msg /\ Msg.k = k /\ Tells(Msg) \in Past
         /\ k \in {"saved", "job", "auto"} => \A i \in 2..Len(wire) : wire[i].k # k
  BY TakenFirst

\* Showing a verdict changes nothing else.
LEMMA ShowAuthOf ==
  ASSUME NEW w, DOMAIN w = WinFields, NEW a
  PROVE  LET r == ShowAuth(w, a)
         IN  /\ DOMAIN r = WinFields /\ r.auth \in {w.auth, a} /\ (a = Unknown => r = w)
             /\ r.login = w.login /\ r.told = w.told /\ r.patch = w.patch /\ r.saved = w.saved /\ r.at = w.at /\ r.run = w.run
             /\ r.cfg = w.cfg /\ r.chosen = w.chosen /\ r.ahead = w.ahead /\ r.cur = w.cur
  BY DEF ShowAuth, WinFields

\* Showing an account as the current one changes nothing else.
LEMMA BadgedOf ==
  ASSUME NEW w, DOMAIN w = WinFields, NEW a
  PROVE  LET r == Badged(w, a)
         IN  /\ DOMAIN r = WinFields /\ r.auth = w.auth
             /\ r.login = w.login /\ r.told = w.told /\ r.patch = w.patch /\ r.saved = w.saved /\ r.at = w.at /\ r.run = w.run
             /\ r.cfg = w.cfg /\ r.chosen = w.chosen /\ r.ahead = w.ahead
  BY DEF Badged, WinFields

\* An engine that stays as it is goes on.
LEMMA SameEngine == ASSUME Inv, eng' = eng, NEW N PROVE EngineMoves(N) /\ Past' = Past /\ CurKept
  BY EngineCountsOn DEF Past

\* Nothing told is nothing amiss.
LEMMA NoMail == Mail({})
  BY DEF Mail

\* What a continuation carries: the login of a poll, or none.
LEMMA ThenOf == ASSUME Inv, NEW k PROVE Then(k).login.auth \in Past /\ Then(k).k = k
  BY DEF Then, NotAsked, Inv, Bounds, Past, Unknown

\* An event puts a reload off.
LEMMA EventArrivesKeeps == ASSUME Inv, EventArrives PROVE Inv'
<1>1. /\ Told("event") /\ win' = [Badged(win, Msg.cur) EXCEPT !.patch = TRUE] /\ wire' = Tail(wire)
      /\ UNCHANGED <<eng, job, loads, done, saves, auto>>
  BY DEF EventArrives
<1>2. Carries(wire', wire, {}, 1) /\ wire[1].k = "event"
  BY <1>1, Taken
<1>3. /\ DOMAIN win' = WinFields /\ win'.patch = TRUE /\ win'.login = win.login /\ win'.auth = win.auth /\ Stays
  BY <1>1, BadgedOf DEF Inv, Records, WinFields, Stays, LastLoad
<1>4. Owed'
  BY <1>3 DEF Owed
<1>5. JobMoves(1) /\ win'.auth \in Past' /\ ShownIsNoNewer' /\ EngineMoves({}) /\ DOMAIN auto' = {"st", "left"}
  BY <1>1, <1>3, SameEngine DEF JobMoves, Inv, Records, JobTold, Bounds, ShownIsNoNewer, Judged, Verdicts
<1> QED BY <1>1, <1>2, <1>3, <1>4, <1>5, NoMail, StepKeeps DEF Loaded, CurKept

\* The reload that was put off begins.
LEMMA PatchReloadKeeps == ASSUME Inv, PatchReload PROVE Inv'
<1>1. /\ win' = [win EXCEPT !.patch = FALSE] /\ Begin(Then("show"))
      /\ UNCHANGED <<eng, job, wire, saves, auto>>
  BY DEF PatchReload
<1>2. Carries(wire', wire, {}, 0)
  BY <1>1, CarriesSame DEF Inv, OnTheWay
<1>3. DOMAIN win' = WinFields /\ win'.auth = win.auth /\ win'.login = win.login /\ Stays
  BY <1>1 DEF Inv, Records, WinFields, Stays, LastLoad
<1>4. JobMoves(0) /\ win'.auth \in Past /\ LoginShown
  BY <1>1, <1>3 DEF JobMoves, Inv, Records, JobTold, Bounds, LoginShown
<1> QED BY <1>1, <1>2, <1>3, <1>4, ThenOf, BeginAlone

\* The daemon tells of a pass.
LEMMA TickArrivesKeeps == ASSUME Inv, TickArrives PROVE Inv'
<1>1. /\ Told("tick") /\ win' = ShowAuth(win, Msg.auth) /\ wire' = Tail(wire) /\ Begin(Then("sync"))
      /\ UNCHANGED <<eng, job, saves, auto>>
  BY DEF TickArrives
<1>2. Carries(wire', wire, {}, 1) /\ wire[1].k = "tick" /\ Msg.auth \in Past
  BY <1>1, Taken DEF Tells
<1>3. DOMAIN win' = WinFields /\ win'.auth \in {win.auth, Msg.auth} /\ win'.login = win.login /\ Stays
  BY <1>1, ShowAuthOf DEF Inv, Records, Stays, LastLoad
<1>4. JobMoves(1) /\ win'.auth \in Past /\ LoginShown
  BY <1>1, <1>2, <1>3 DEF JobMoves, Inv, Records, JobTold, Bounds, LoginShown
<1> QED BY <1>1, <1>2, <1>3, <1>4, ThenOf, BeginAlone DEF Loaded

\* An operation on an account is answered.
LEMMA ReplyArrivesKeeps == ASSUME Inv, ReplyArrives PROVE Inv'
<1>1. /\ Told("reply") /\ wire' = Tail(wire) /\ UNCHANGED <<eng, job, saves, auto>>
      /\ win' = IF Msg.kind = "switch" /\ Msg.ok THEN ShowAuth(Badged(win, Msg.a), Msg.auth) ELSE win
      /\ IF Msg.ok \/ Msg.kind \in {"refresh", "token"}
         THEN Begin(Then(IF Msg.kind = "token" THEN "show" ELSE "sync"))
         ELSE \/ Msg.kind = "switch" /\ Begin(Then("show"))
              \/ UNCHANGED <<loads, done>>
  BY DEF ReplyArrives
<1>2. Carries(wire', wire, {}, 1) /\ wire[1] = Msg /\ Msg.k = "reply" /\ Msg.auth \in Past
  BY <1>1, Taken DEF Tells
<1>3. DOMAIN win' = WinFields /\ win'.auth \in {win.auth, Msg.auth} /\ win'.login = win.login /\ Stays
  <2>1. CASE Msg.kind = "switch" /\ Msg.ok
    <3> DEFINE b == Badged(win, Msg.a)
    <3>1. DOMAIN b = WinFields /\ b.auth = win.auth /\ b.login = win.login
          /\ b.cfg = win.cfg /\ b.chosen = win.chosen /\ b.saved = win.saved /\ b.at = win.at /\ b.told = win.told
      BY BadgedOf DEF Inv, Records
    <3> HIDE DEF b
    <3>2. win' = ShowAuth(b, Msg.auth)
      BY <1>1, <2>1 DEF b
    <3> QED BY <3>1, <3>2, ShowAuthOf DEF Stays, LastLoad
  <2>2. CASE ~ (Msg.kind = "switch" /\ Msg.ok)
    BY <1>1, <2>2 DEF Inv, Records, Stays, LastLoad
  <2> QED BY <2>1, <2>2
<1>4. JobMoves(1) /\ win'.auth \in Past /\ LoginShown
  BY <1>1, <1>2, <1>3 DEF JobMoves, Inv, Records, JobTold, Bounds, LoginShown
<1>5. ASSUME NEW k \in {"show", "sync"}, Begin(Then(k)) PROVE Inv'
  BY <1>1, <1>2, <1>3, <1>4, <1>5, ThenOf, BeginAlone DEF Loaded
<1>6. CASE UNCHANGED <<loads, done>> /\ ~ Msg.ok /\ Msg.kind \notin {"refresh", "token"}
  <2>1. win' = win /\ ~ Makes(wire[1])
    BY <1>1, <1>2, <1>6 DEF Makes
  <2>2. Owed => Owed'
    <3> HAVE Owed
    <3> QED BY <1>1, <1>2, <2>1, KeepsOwed
  <2>3. /\ EngineMoves({}) /\ win'.auth \in Past' /\ ShownIsNoNewer' /\ DOMAIN auto' = {"st", "left"}
        /\ Shown => Shown'
    BY <1>1, <1>6, <2>1, SameEngine DEF Inv, Records, Bounds, ShownIsNoNewer, Judged, Verdicts, Shown
  <2>4. eng' = eng /\ loads' = loads /\ done' = done /\ saves' = saves /\ auto' = auto /\ CurKept
    BY <1>1, <1>6 DEF CurKept
  <2>5. wire[1].k # "added" /\ ~ Loaded(wire[1])
    BY <1>2 DEF Loaded
  <2>6. win'.login = win.login /\ DOMAIN win' = WinFields /\ Stays /\ JobMoves(1)
    BY <1>3, <1>4
  <2> QED BY <1>2, <2>2, <2>3, <2>4, <2>5, <2>6, NoMail, StepKeeps
<1> QED BY <1>1, <1>5, <1>6

\* What follows the answer to an operation on all accounts.
LEMMA JobOverKeeps ==
  ASSUME Inv, Told("job"), wire' = Tail(wire), job' \in {NoJob, Job("imported")},
         win' = win \/ win' = ShowAuth(win, Msg.auth),
         UNCHANGED <<eng, saves, auto>>,
         \/ \E k : Begin(Then(k)) /\ k # "synced"
         \/ UNCHANGED <<loads, done>> /\ ~ Makes(Msg) /\ (Msg.ok => win' = win)
  PROVE  Inv'
<1>1. /\ Carries(wire', wire, {}, 1) /\ wire[1] = Msg /\ Msg.k = "job" /\ Msg.auth \in Past /\ 1 \in 1..Len(wire)
      /\ \A i \in 2..Len(wire) : wire[i].k # "job"
  BY Taken DEF Tells
<1>2. JobMoves(1)
  <2>1. job.k = "answered"
    BY <1>1 DEF Inv, JobTold
  <2>2. \A i \in 2..Len(wire) : ~ Manual(wire[i])
    BY <1>1, <2>1 DEF Inv, JobTold
  <2> QED BY <1>1, <2>2 DEF JobMoves, Job, NoJob
<1>3. DOMAIN win' = WinFields /\ win'.auth \in Past /\ win'.login = win.login /\ Stays
  BY <1>1, ShowAuthOf DEF Inv, Records, Stays, LastLoad, Bounds
<1>4. LoginShown
  BY <1>3 DEF LoginShown
<1>5. ASSUME NEW k, Begin(Then(k)), k # "synced" PROVE Inv'
  <2>1. Then(k).k # "synced" /\ Then(k).login.auth \in Past
    BY <1>5, ThenOf
  <2> QED BY <1>1, <1>2, <1>3, <1>4, <1>5, <2>1, BeginAlone DEF Loaded
<1>6. CASE UNCHANGED <<loads, done>> /\ ~ Makes(Msg) /\ (Msg.ok => win' = win)
  <2>1. win' = win
    <3>1. Msg.ok \/ Msg.auth = Unknown
      BY <1>1 DEF Inv, JobTold
    <3> QED BY <1>6, <3>1, ShowAuthOf DEF Inv, Records
  <2>2. Owed => Owed'
    <3> HAVE Owed
    <3> QED BY <1>1, <1>6, <2>1, KeepsOwed
  <2>3. job.k # "status" /\ job'.k # "status"
    BY <1>1 DEF Inv, JobTold, Job, NoJob
  <2>4. /\ EngineMoves({}) /\ win'.auth \in Past' /\ ShownIsNoNewer' /\ DOMAIN auto' = {"st", "left"}
        /\ Shown => Shown'
    BY <1>6, <2>1, <2>3, SameEngine DEF Inv, Records, Bounds, ShownIsNoNewer, Judged, Verdicts, Shown
  <2> QED BY <1>1, <1>2, <1>3, <1>6, <2>2, <2>4, NoMail, StepKeeps DEF Loaded, CurKept
<1> QED BY <1>5, <1>6

\* So do the answers to all of these.
LEMMA AnswersKeep ==
  ASSUME Inv,
         \/ AllArrives \/ VerifyArrives \/ ToggleArrives
         \/ ResolveArrives \/ ImportArrives \/ ImportedArrives
  PROVE  Inv'
<1>1. /\ Told("job") /\ wire' = Tail(wire) /\ job' \in {NoJob, Job("imported")}
      /\ win' = win \/ win' = ShowAuth(win, Msg.auth)
      /\ UNCHANGED <<eng, saves, auto>>
  BY DEF AllArrives, VerifyArrives, ToggleArrives, ResolveArrives, ImportArrives, ImportedArrives, JobOver
<1>2. ASSUME NEW k \in {"show", "sync"}, Begin(Then(k)) PROVE Inv'
  BY <1>1, <1>2, JobOverKeeps
<1>3. ASSUME UNCHANGED <<loads, done>>, ~ Makes(Msg), Msg.ok => win' = win PROVE Inv'
  BY <1>1, <1>3, JobOverKeeps
<1>4. Msg.k = "job"
  BY <1>1 DEF Told, Msg
<1>5. CASE AllArrives
  <2>1. Msg.kind = "all" /\ win' = win /\ IF Msg.ok THEN Begin(Then("sync")) ELSE UNCHANGED <<loads, done>>
    BY <1>5 DEF AllArrives, JobOver, LoadIf
  <2>2. ~ Msg.ok => ~ Makes(Msg)
    BY <1>4, <2>1 DEF Makes
  <2> QED BY <1>2, <1>3, <2>1, <2>2
<1>6. CASE VerifyArrives
  <2>1. Msg.kind = "verify" /\ win' = win /\ IF Msg.ok THEN Begin(Then("show")) ELSE UNCHANGED <<loads, done>>
    BY <1>6 DEF VerifyArrives, JobOver, LoadIf
  <2>2. ~ Msg.ok => ~ Makes(Msg)
    BY <1>4, <2>1 DEF Makes
  <2> QED BY <1>2, <1>3, <2>1, <2>2
<1>7. CASE ToggleArrives
  BY <1>2, <1>7 DEF ToggleArrives
<1>8. CASE ResolveArrives
  <2>1. Msg.kind = "resolve" /\ IF Msg.ok THEN Begin(Then("sync")) ELSE UNCHANGED <<loads, done>>
    BY <1>8 DEF ResolveArrives, JobOver, LoadIf
  <2>2. ~ Msg.ok => ~ Makes(Msg)
    BY <1>4, <2>1 DEF Makes
  <2> QED BY <1>2, <1>3, <2>1, <2>2
<1>9. CASE ImportArrives
  <2>1. Msg.kind = "import" /\ win' = win /\ (Begin(Then("show")) \/ UNCHANGED <<loads, done>>)
    BY <1>9 DEF ImportArrives
  <2>2. ~ Makes(Msg)
    BY <1>4, <2>1 DEF Makes
  <2> QED BY <1>2, <1>3, <2>1, <2>2
<1>10. CASE ImportedArrives
  BY <1>2, <1>10 DEF ImportedArrives
<1> QED BY <1>5, <1>6, <1>7, <1>8, <1>9, <1>10

\* A manual completion is answered, and the status read.
LEMMA ManualArrivesKeeps == ASSUME Inv, ManualArrives PROVE Inv'
<1> DEFINE status == Status("manual", eng.login)
<1>1. /\ Told("job") /\ wire' = Append(Tail(wire), status) /\ win' = ShowAuth(win, Msg.auth) /\ job' = Job("status")
      /\ UNCHANGED <<eng, loads, done, saves, auto>> /\ Msg.kind = "manual"
  BY DEF ManualArrives
<1>2. /\ Carries(Tail(wire), wire, {}, 1) /\ 1 \in 1..Len(wire) /\ Len(wire) \in Nat
      /\ wire[1] = Msg /\ Msg.k = "job" /\ Msg.auth \in Past
      /\ \A i \in 2..Len(wire) : wire[i].k # "job"
  BY <1>1, TakenFirst DEF Tells
<1>3. Carries(wire', wire, {status}, 1)
  <2>1. Letter(<<status>>, {status})
    BY LetterOne
  <2>2. wire' = Tail(wire) \o <<status>>
    BY <1>1, AppendIsConcat, Popped DEF Row, Inv, OnTheWay, Told
  <2> HIDE DEF status
  <2> QED BY <1>2, <2>1, <2>2, CarriesMore DEF Letter
<1>4. status.k = "status" /\ ~ Reads(status) /\ ~ IsPoll(status) /\ Tells(status) = eng.login.auth
  BY DEF Status, Reads, IsPoll, Tells
<1> HIDE DEF status
<1>5. JobMoves(1) /\ job'.k = "status" /\ job.k = "answered"
  <2>1. job.k = "answered"
    BY <1>2 DEF Inv, JobTold
  <2>2. \A i \in 2..Len(wire) : ~ Manual(wire[i])
    BY <1>2, <2>1 DEF Inv, JobTold
  <2> QED BY <1>1, <1>2, <2>1, <2>2 DEF JobMoves, Job, NoJob
<1>6. /\ DOMAIN win' = WinFields /\ win'.auth \in {win.auth, Msg.auth} /\ win'.login = win.login /\ Stays
      /\ win'.patch = win.patch /\ (Shown => Shown')
  BY <1>1, ShowAuthOf DEF Inv, Records, Stays, LastLoad, Shown
<1>7. EngineMoves({status}) /\ Past' = Past
  BY <1>1, SameEngine
<1>8. win'.auth \in Past' /\ ShownIsNoNewer' /\ DOMAIN auto' = {"st", "left"}
  BY <1>1, <1>2, <1>5, <1>6, <1>7 DEF Inv, Records, Bounds, ShownIsNoNewer
<1>10. Mail({status})
  BY <1>4, <1>5, <1>7 DEF Mail, Inv, Bounds
<1>9. Owed => Owed'
  <2> HAVE Owed
  <2>1. ~ Makes(wire[1])
    BY <1>1, <1>2 DEF Makes
  <2> QED BY <1>1, <1>3, <1>6, <2>1, KeepsOwed
<1> QED BY <1>1, <1>2, <1>3, <1>5, <1>6, <1>7, <1>8, <1>9, <1>10, StepKeeps DEF Loaded, CurKept

\* An answer that says the login is over leaves no poll behind.
LEMMA TakenAndDisposed ==
  ASSUME Inv, NEW k, Told(k), NEW l, wire' = Disposed(Tail(wire), l)
  PROVE  /\ Carries(wire', wire, {}, 1)
         /\ ~ Pending(l) => \A i \in 1..Len(wire') : ~ IsPoll(wire'[i])
<1>1. Carries(Tail(wire), wire, {}, 1) /\ Row(wire) /\ wire # <<>>
  BY TakenFirst DEF Told, Inv, OnTheWay
<1>2. Row(Tail(wire))
  BY <1>1 DEF Carries
<1>3. /\ Carries(wire', Tail(wire), {}, 0)
      /\ ~ Pending(l) => \A i \in 1..Len(wire') : ~ IsPoll(wire'[i])
  BY <1>2, DisposedOf
<1>4. Carries(wire', wire, {}, 1)
  BY <1>1, <1>3, CarriesPopped
<1> QED BY <1>3, <1>4

\* The status read after it is shown, and a load begun.
LEMMA ManualShownKeeps == ASSUME Inv, ManualShown PROVE Inv'
<1> DEFINE poll == [k |-> "poll", login |-> Msg.login]
<1>1. /\ Told("status") /\ wire' = Disposed(Tail(wire), Msg.login) /\ win' = [win EXCEPT !.login = Msg.login]
      /\ Begin(poll) /\ job' = NoJob /\ UNCHANGED <<eng, saves, auto>>
  BY DEF ManualShown
<1>2. wire[1] = Msg /\ Msg.k = "status" /\ Msg.login.auth \in Past
  BY <1>1, TakenFirst DEF Tells
<1>3. Carries(wire', wire, {}, 1) /\ (~ Pending(Msg.login) => \A i \in 1..Len(wire') : ~ IsPoll(wire'[i]))
  BY <1>1, TakenAndDisposed
<1>4. DOMAIN win' = WinFields /\ win'.auth = win.auth /\ win'.login = Msg.login /\ Stays
  BY <1>1 DEF Inv, Records, WinFields, Stays, LastLoad
<1>5. JobMoves(1)
  <2>1. Manual(Msg) /\ 1 \in 1..Len(wire) /\ Len(wire) \in Nat /\ \A i \in 2..Len(wire) : ~ Manual(wire[i])
    BY <1>1, <1>2, TakenFirst DEF ManualShown, Manual
  <2>2. job.k = "status"
    BY <1>2, <2>1 DEF Inv, JobTold
  <2>3. \A i \in 2..Len(wire) : wire[i].k # "job"
    BY <2>1, <2>2 DEF Inv, JobTold
  <2> QED BY <1>1, <2>1, <2>3 DEF JobMoves, NoJob
<1>6. win'.auth \in Past /\ LoginShown
  BY <1>3, <1>4 DEF Inv, Bounds, LoginShown
<1>7. poll.k # "synced" /\ poll.login.auth \in Past
  BY <1>2
<1> HIDE DEF poll
<1> QED BY <1>1, <1>2, <1>3, <1>4, <1>5, <1>6, <1>7, BeginAlone DEF Loaded

\* The first status that is not pending ends the polling.
LEMMA PollAnsweredKeeps == ASSUME Inv, PollAnswered PROVE Inv'
<1> DEFINE poll == [k |-> "poll", login |-> Msg.login]
<1>1. /\ Told("status") /\ wire' = Disposed(Tail(wire), Msg.login) /\ win' = [win EXCEPT !.login = Msg.login]
      /\ IF Pending(Msg.login) THEN UNCHANGED <<loads, done>> ELSE Begin(poll)
      /\ UNCHANGED <<eng, job, saves, auto>>
  BY DEF PollAnswered
<1>2. wire[1] = Msg /\ Msg.k = "status" /\ Msg.login.auth \in Past /\ ~ Makes(wire[1])
  BY <1>1, TakenFirst DEF Tells, Makes
<1>3. Carries(wire', wire, {}, 1) /\ (~ Pending(Msg.login) => \A i \in 1..Len(wire') : ~ IsPoll(wire'[i]))
  BY <1>1, TakenAndDisposed
<1>4. /\ DOMAIN win' = WinFields /\ win'.auth = win.auth /\ win'.login = Msg.login /\ win'.patch = win.patch
      /\ Stays /\ (Shown => Shown')
  BY <1>1 DEF Inv, Records, WinFields, Stays, LastLoad, Shown
<1>5. JobMoves(1) /\ win'.auth \in Past /\ LoginShown
  BY <1>1, <1>3, <1>4 DEF JobMoves, Inv, Records, JobTold, Bounds, LoginShown
<1>6. CASE ~ Pending(Msg.login)
  <2>1. poll.k # "synced" /\ poll.login.auth \in Past
    BY <1>2
  <2>2. Begin(poll)
    BY <1>1, <1>6
  <2> HIDE DEF poll
  <2> QED BY <1>1, <1>2, <1>3, <1>4, <1>5, <2>1, <2>2, BeginAlone DEF Loaded
<1>7. CASE Pending(Msg.login)
  <2>1. Owed => Owed'
    <3> HAVE Owed
    <3> QED BY <1>1, <1>2, <1>3, <1>4, KeepsOwed
  <2>2. UNCHANGED <<loads, done>>
    BY <1>1, <1>7
  <2>3. /\ EngineMoves({}) /\ win'.auth \in Past' /\ ShownIsNoNewer' /\ DOMAIN auto' = {"st", "left"}
    BY <1>1, <1>4, <2>2, SameEngine DEF Inv, Records, Bounds, ShownIsNoNewer, Judged, Verdicts
  <2>4. Pending(win'.login)
    BY <1>4, <1>7
  <2> QED BY <1>1, <1>2, <1>3, <1>4, <1>5, <2>1, <2>2, <2>3, <2>4, NoMail, StepKeeps DEF Loaded, CurKept
<1> QED BY <1>6, <1>7

\* The call for an account is answered, and a load begun.
LEMMA AddEndsKeeps == ASSUME Inv, AddEnds PROVE Inv'
<1> DEFINE cont(k) == [k |-> k, login |-> Msg.login]
<1>1. /\ Told("added") /\ wire' = Tail(wire) /\ win' = ShowAuth(win, Msg.login.auth)
      /\ \E k \in {"add", "adderr", "readd", "readderr"} : Begin(cont(k))
      /\ UNCHANGED <<eng, job, saves, auto>>
  BY DEF AddEnds
<1>2. Carries(wire', wire, {}, 1) /\ wire[1].k = "added" /\ Msg.login.auth \in Past
  BY <1>1, Taken DEF Tells
<1>3. DOMAIN win' = WinFields /\ win'.auth \in {win.auth, Msg.login.auth} /\ win'.login = win.login /\ Stays
  BY <1>1, ShowAuthOf DEF Inv, Records, Stays, LastLoad
<1>4. JobMoves(1) /\ win'.auth \in Past /\ LoginShown
  BY <1>1, <1>2, <1>3 DEF JobMoves, Inv, Records, JobTold, Bounds, LoginShown
<1>5. ASSUME NEW c, Begin(c), c.k # "synced", c.login = Msg.login PROVE Inv'
  BY <1>1, <1>2, <1>3, <1>4, <1>5, BeginAlone DEF Loaded
<1>6. PICK k \in {"add", "adderr", "readd", "readderr"} : Begin(cont(k))
  BY <1>1
<1>7. cont(k).k # "synced" /\ cont(k).login = Msg.login
  OBVIOUS
<1> HIDE DEF cont
<1> QED BY <1>5, <1>6, <1>7

\* The user asks something of an account.
LEMMA AskKeeps == ASSUME Inv, NEW a \in Accounts, NEW kind \in Kinds, Ask(a, kind) PROVE Inv'
<1>1. /\ UNCHANGED <<eng, job, wire, win, saves, auto>>
      /\ \/ UNCHANGED <<loads, done>>
         \/ \E k \in {"sync", "show"} : Begin(Then(k))
  BY DEF Ask
<1>2. Carries(wire', wire, {}, 0)
  BY <1>1, CarriesSame DEF Inv, OnTheWay
<1>3. JobMoves(0) /\ DOMAIN win' = WinFields /\ win'.auth \in Past /\ LoginShown /\ Stays
  BY <1>1 DEF JobMoves, Inv, Records, JobTold, Bounds, LoginShown, Stays, LastLoad
<1>4. ASSUME NEW k \in {"sync", "show"}, Begin(Then(k)) PROVE Inv'
  BY <1>1, <1>2, <1>3, <1>4, ThenOf, BeginAlone
<1>5. CASE UNCHANGED <<loads, done>>
  <2>1. EngineMoves({}) /\ CurKept
    BY <1>1, EngineCountsOn
  <2> QED BY <1>1, <1>2, <1>5, <2>1, NoMail, EngineKeeps DEF Inv, Records
<1> QED BY <1>1, <1>4, <1>5

\* The verdict of a status about to be shown: no load that would be judged is behind it.
LEMMA StatusShown ==
  ASSUME Inv, Told("status"), Msg.for \in {"add", "adderr", "cancel"}, NEW s \in Slots, Judged(s)
  PROVE  Msg.login.auth <= loads[s].auth
<1>1. 1 \in 1..Len(wire) /\ Len(wire) \in Nat /\ wire[1] = Msg /\ Msg.k = "status"
  BY TakenFirst
<1>2. Reads(wire[1])
  BY <1>1 DEF Reads
<1>3. loads[s].st \in {"inspected", "sent"}
  BY DEF Judged, Inv, LoadsFine
<1>4. After(1, s)
  <2>1. ASSUME loads[s].st = "sent" PROVE After(1, s)
    <3>1. PICK i \in 1..Len(wire) : Loaded(wire[i]) /\ wire[i].s = s
      BY <2>1 DEF Inv, Answered
    <3>2. i \in 2..Len(wire)
      BY <1>1, <3>1 DEF Loaded
    <3> QED BY <3>1, <3>2 DEF After
  <2> QED BY <1>3, <2>1 DEF After
<1>5. \A j \in 1..(1 - 1) : FALSE
  OBVIOUS
<1> QED BY <1>1, <1>2, <1>4, <1>5 DEF Inv, Verdicts, StatusIsNoNewer

\* The status read after that call and its load is told.
LEMMA StatusReadKeeps == ASSUME Inv, StatusRead PROVE Inv'
<1>1. /\ Told("status") /\ Msg.for \in {"add", "adderr"} /\ wire' = Tail(wire)
      /\ win' \in {win, Report(win, Msg.login)}
      /\ UNCHANGED <<eng, job, loads, done, saves, auto>>
  BY DEF StatusRead
<1>2. Carries(wire', wire, {}, 1) /\ wire[1] = Msg /\ Msg.k = "status" /\ Msg.login.auth \in Past /\ ~ Makes(wire[1])
  BY <1>1, Taken DEF Tells, Makes
<1>3. Reported(win', win, {Msg.login.auth})
  <2>1. DOMAIN win = WinFields
    BY DEF Inv, Records
  <2> QED BY <1>1, <2>1, ReportOf DEF Reported
<1>4. JobMoves(1) /\ win'.auth \in Past /\ Stays /\ DOMAIN auto' = {"st", "left"}
  BY <1>1, <1>2, <1>3 DEF JobMoves, Inv, Records, JobTold, Bounds, Stays, LastLoad, Reported
<1>5. ShownIsNoNewer'
  BY <1>1, <1>3, StatusShown DEF ShownIsNoNewer, Judged, Inv, Verdicts, Reported
<1>6. Shown => Shown'
  BY <1>1, <1>3 DEF Shown, Reported
<1>7. Owed => Owed'
  <2> HAVE Owed
  <2>1. win'.patch = win.patch
    BY <1>3 DEF Reported
  <2> QED BY <1>1, <1>2, <2>1, KeepsOwed
<1>8. EngineMoves({}) /\ Past' = Past
  BY <1>1, SameEngine
<1>9. DOMAIN win' = WinFields /\ win'.login = win.login
  BY <1>3 DEF Reported
<1> QED BY <1>1, <1>2, <1>4, <1>5, <1>6, <1>7, <1>8, <1>9, NoMail, StepKeeps DEF Loaded, CurKept

\* A cancellation is answered, and the status read.
LEMMA CancelAnsweredKeeps == ASSUME Inv, CancelAnswered PROVE Inv'
<1> DEFINE status == Status("cancel", eng.login)
<1>1. /\ Told("cancelled") /\ wire' = Append(Tail(wire), status)
      /\ UNCHANGED <<eng, job, loads, done, win, saves, auto>>
  BY DEF CancelAnswered
<1>2. /\ Carries(Tail(wire), wire, {}, 1) /\ 1 \in 1..Len(wire) /\ wire[1].k = "cancelled"
  BY <1>1, TakenFirst
<1>3. Carries(wire', wire, {status}, 1)
  <2>1. Letter(<<status>>, {status})
    BY LetterOne
  <2>2. wire' = Tail(wire) \o <<status>>
    BY <1>1, AppendIsConcat, Popped DEF Row, Inv, OnTheWay, Told
  <2> HIDE DEF status
  <2> QED BY <1>2, <2>1, <2>2, CarriesMore DEF Letter
<1>4. status.k = "status" /\ ~ IsPoll(status) /\ ~ Manual(status) /\ Tells(status) = eng.login.auth
      /\ status.login = eng.login
  BY DEF Status, IsPoll, Manual, Tells
<1> HIDE DEF status
<1>5. EngineMoves({status}) /\ Past' = Past
  BY <1>1, SameEngine
<1>6. OnWire("cancelled")
  BY <1>2 DEF OnWire
<1>7. Mail({status})
  BY <1>4, <1>5, <1>6 DEF Mail, Inv, Bounds, Verdicts, CancelIsNoNewer
<1>8. /\ JobMoves(1) /\ DOMAIN win' = WinFields /\ win'.auth \in Past' /\ Stays
      /\ ShownIsNoNewer' /\ DOMAIN auto' = {"st", "left"} /\ (Shown => Shown')
  BY <1>1, <1>5 DEF JobMoves, Inv, Records, JobTold, Bounds, Stays, LastLoad, ShownIsNoNewer, Judged, Verdicts, Shown
<1>9. Owed => Owed'
  <2> HAVE Owed
  <2>1. ~ Makes(wire[1])
    BY <1>2 DEF Makes
  <2> QED BY <1>1, <1>3, <2>1, KeepsOwed
<1> QED BY <1>1, <1>2, <1>3, <1>5, <1>7, <1>8, <1>9, StepKeeps DEF Loaded, CurKept

\* The status read after it is shown.
LEMMA CancelShownKeeps == ASSUME Inv, CancelShown PROVE Inv'
<1> DEFINE seen == [win EXCEPT !.login = Msg.login]
<1>1. /\ Told("status") /\ Msg.for = "cancel" /\ wire' = Disposed(Tail(wire), Msg.login)
      /\ win' = Report(seen, Msg.login)
      /\ UNCHANGED <<eng, job, loads, done, saves, auto>>
  BY DEF CancelShown
<1>2. wire[1] = Msg /\ Msg.k = "status" /\ Msg.login.auth \in Past /\ ~ Makes(wire[1])
  BY <1>1, TakenFirst DEF Tells, Makes
<1>3. Carries(wire', wire, {}, 1) /\ (~ Pending(Msg.login) => \A i \in 1..Len(wire') : ~ IsPoll(wire'[i]))
  BY <1>1, TakenAndDisposed
<1>4. /\ DOMAIN seen = WinFields /\ seen.auth = win.auth /\ seen.login = Msg.login /\ seen.patch = win.patch
      /\ seen.cfg = win.cfg /\ seen.chosen = win.chosen /\ seen.saved = win.saved
      /\ seen.at = win.at /\ seen.told = win.told /\ seen.run = win.run /\ seen.ahead = win.ahead /\ seen.cur = win.cur
  BY DEF Inv, Records, WinFields
<1> HIDE DEF seen
<1>5. Reported(win', seen, {Msg.login.auth})
  BY <1>1, <1>4, ReportOf
<1>6. JobMoves(1) /\ win'.auth \in Past /\ Stays /\ DOMAIN auto' = {"st", "left"}
  BY <1>1, <1>2, <1>4, <1>5 DEF JobMoves, Inv, Records, JobTold, Bounds, Stays, LastLoad, Reported
<1>7. ShownIsNoNewer'
  BY <1>1, <1>4, <1>5, StatusShown DEF ShownIsNoNewer, Judged, Inv, Verdicts, Reported
<1>8. Shown => Shown'
  BY <1>1, <1>4, <1>5 DEF Shown, Reported
<1>9. Owed => Owed'
  <2> HAVE Owed
  <2>1. win'.patch = win.patch
    BY <1>4, <1>5 DEF Reported
  <2> QED BY <1>1, <1>2, <1>3, <2>1, KeepsOwed
<1>10. EngineMoves({}) /\ Past' = Past
  BY <1>1, SameEngine
<1>11. DOMAIN win' = WinFields /\ (Pending(win'.login) \/ \A i \in 1..Len(wire') : ~ IsPoll(wire'[i]))
  BY <1>3, <1>4, <1>5 DEF Reported
<1> QED BY <1>1, <1>2, <1>3, <1>6, <1>7, <1>8, <1>9, <1>10, <1>11, NoMail, StepKeeps DEF Loaded, CurKept

\* The automatic sync goes on to the next account, or loads once.
LEMMA AutoGoesOnKeeps == ASSUME Inv, AutoGoesOn PROVE Inv'
<1>1. /\ Told("auto") /\ wire' = Tail(wire) /\ UNCHANGED <<eng, job, win, saves>>
      /\ \/ auto' = Started(auto.left - 1) /\ UNCHANGED <<loads, done>>
         \/ auto' = [st |-> "loading", left |-> 0] /\ Begin(Then("synced"))
  BY DEF AutoGoesOn
<1>2. /\ Carries(wire', wire, {}, 1) /\ 1 \in 1..Len(wire) /\ wire[1].k = "auto"
      /\ \A i \in 2..Len(wire) : wire[i].k # "auto"
  BY <1>1, Taken
<1>3. auto.st = "answered"
  BY <1>2 DEF Inv, AutoTold
<1>4. JobMoves(1) /\ DOMAIN win' = WinFields /\ win'.auth \in Past /\ LoginShown /\ Stays
  BY <1>1 DEF JobMoves, Inv, Records, JobTold, Bounds, LoginShown, Stays, LastLoad
<1>5. CASE auto' = Started(auto.left - 1) /\ UNCHANGED <<loads, done>>
  <2>1. auto'.st = "asking" /\ DOMAIN auto' = {"st", "left"}
    BY <1>5 DEF Started
  <2>2. EngineMoves({}) /\ Past' = Past
    BY <1>1, SameEngine
  <2>3. ShownIsNoNewer' /\ (Shown => Shown')
    BY <1>1, <1>5 DEF Inv, ShownIsNoNewer, Judged, Verdicts, Shown
  <2>4. Owed'
    BY <2>1 DEF Owed
  <2> QED BY <1>1, <1>2, <1>3, <1>4, <1>5, <2>1, <2>2, <2>3, <2>4, NoMail, StepKeeps DEF Loaded, CurKept
<1>6. CASE auto' = [st |-> "loading", left |-> 0] /\ Begin(Then("synced"))
  <2>1. auto'.st = "loading" /\ DOMAIN auto' = {"st", "left"}
    BY <1>6
  <2>2. LoadRecords
    BY DEF Inv, Records, LoadRecords, LoadFields
  <2>3. PICK s : Opened(loads', loads, s, Then("synced"))
    BY <1>6, <2>2, BegunOf DEF Begin, Room, LoadRecords
  <2>4. SavesQueued'
    <3>1. KeptOnWay(1)
      BY <2>3, OpenedOnWay DEF Inv
    <3> QED BY <1>1, <1>2, <1>4, <3>1, KeepsSaves DEF Inv, Stays, LastLoad
  <2>6. Then("synced").login.auth \in Past
    BY ThenOf
  <2>5. AutoTold'
    <3>1. \A t \in Slots : Has(loads'[t].conts, "synced") => t = s
      BY <1>3, <2>3, OpenedSynced DEF Inv, AutoTold
    <3>2. \A i \in 1..Len(wire') : wire'[i].k # "auto"
      BY <1>2, ComesFrom
    <3> QED BY <2>1, <3>1, <3>2 DEF AutoTold
  <2> QED BY <1>1, <1>2, <1>4, <1>6, <2>1, <2>4, <2>5, <2>6, BeginKeeps DEF Loaded, Stays
<1> QED BY <1>1, <1>5, <1>6
-----------------------------------------------------------------------------
(* The queue of saves                                                      *)

\* A save begins, is queued, or gives way to the next: what is queued is loaded later.
LEMMA SaveMoves ==
  ASSUME Inv, NEW N, NEW d \in {0, 1}, Carries(wire', wire, N, d),
         \A m \in N : m.k = "saved", N # {} => \A i \in (d + 1)..Len(wire) : wire[i].k # "saved",
         d = 1 => wire[1].k = "saved",
         DOMAIN eng' = DOMAIN eng, eng'.auth = eng.auth, eng'.pass = eng.pass, eng'.login = eng.login,
         eng'.asked = eng.asked, eng'.due = eng.due, eng'.rev = eng.rev, eng'.tx = eng.tx, eng'.chain = eng.chain,
         DOMAIN win' = WinFields, win'.login = win.login, win'.auth = win.auth, LastLoad,
         UNCHANGED <<job, loads, done, auto>>, SavesQueued', saves' # <<>>
  PROVE  Inv'
<1>1. Owed' /\ Past' = Past
  BY DEF Owed, Past
<1>2. Len(wire) \in Nat
  BY RowLength DEF Inv, OnTheWay
<1>3. \A i \in (d + 1)..Len(wire) : i \in 1..Len(wire)
  BY <1>2
<1>4. KeptOnWay(d)
  BY <1>3 DEF KeptOnWay, Inv, OnTheWay
<1>5. \A m \in N : /\ ~ Loaded(m) /\ ~ IsPoll(m) /\ ~ Manual(m) /\ ~ Reads(m) /\ Tells(m) = Unknown
                   /\ m.k \notin {"snapshot", "job", "auto", "cancelled", "added"}
  BY DEF Loaded, IsPoll, Manual, Reads, Tells
<1>6. OnTheWay'
  <2>1. ASSUME NEW m \in N, NEW i \in (d + 1)..Len(wire) PROVE ~ Clash(wire[i], m)
    BY <1>5, <2>1 DEF Clash
  <2> QED BY <1>4, <1>5, <2>1, KeepsOnTheWay DEF Inv
<1>7. PendingTold'
  BY <1>4, <1>5, KeepsPending DEF Inv
<1>8. Bounds'
  <2>1. Unknown \in Past
    BY DEF Inv, Bounds, Past, Unknown
  <2>2. win'.told.auth \in Past
    BY DEF Inv, Bounds, LastLoad
  <2> QED BY <1>1, <1>5, <2>1, <2>2, KeepsBounds DEF Inv, Bounds, Past
<1>9. JobTold'
  BY <1>5, KeepsJob DEF Inv, JobTold
<1>10. Verdicts'
  <2>1. JudgedBefore /\ ShownIsNoNewer'
    BY DEF JudgedBefore, Judged, ShownIsNoNewer, Inv, Verdicts
  <2>2. d = 1 => wire[1].k # "added"
    OBVIOUS
  <2>3. eng'.login.auth <= eng.login.auth
    BY DEF Inv, Bounds, Past
  <2> QED BY <1>5, <1>8, <2>1, <2>2, <2>3, KeepsVerdicts DEF Inv
<1>11. AutoTold'
  BY <1>5, KeepsAuto DEF Inv
<1>12. Truth'
  <2>1. Counted' /\ eng.rev <= eng'.rev /\ win'.at \in 0..eng'.rev
    BY DEF Inv, Truth, Counted, Seen, LastLoad
  <2> QED BY <1>1, <1>4, <1>5, <2>1, KeepsTruth DEF Inv
<1>13. LoadsFine' /\ Records'
  BY DEF Inv, LoadsFine, Records
<1>14. Answered'
  <2>1. d = 1 => ~ Loaded(wire[1])
    BY DEF Loaded
  <2> QED BY <2>1, KeepsAnswered DEF Inv
<1>15. SwitchFine'
  BY <1>1 DEF Inv, SwitchFine, Mine
<1> QED BY <1>15, <1>6, <1>7, <1>8, <1>9, <1>10, <1>11, <1>12, <1>13, <1>14 DEF Inv

\* What is sent to be saved.
LEMMA SendOf ==
  ASSUME Inv, NEW q, NEW d \in {0, 1}, Carries(q, wire, {}, d), NEW v, Send(eng, q, v)
  PROVE  \E m : /\ Carries(wire', wire, {m}, d) /\ m.k = "saved" /\ (m.ok => eng'.cfg = v)
                /\ DOMAIN eng' = DOMAIN eng /\ eng'.auth = eng.auth /\ eng'.pass = eng.pass
                /\ eng'.login = eng.login /\ eng'.asked = eng.asked /\ eng'.due = eng.due /\ eng'.rev = eng.rev
                /\ eng'.tx = eng.tx /\ eng'.chain = eng.chain
<1>1. ASSUME NEW m, wire' = Append(q, m) PROVE Carries(wire', wire, {m}, d)
  <2>1. Letter(<<m>>, {m})
    BY LetterOne
  <2>2. wire' = q \o <<m>>
    BY <1>1, AppendIsConcat DEF Row, Carries
  <2> QED BY <2>1, <2>2, CarriesMore DEF Letter
<1>2. CASE eng' = [eng EXCEPT !.cfg = v] /\ wire' = Append(q, [k |-> "saved", ok |-> TRUE])
  <2> DEFINE m == [k |-> "saved", ok |-> TRUE]
  <2>1. Carries(wire', wire, {m}, d)
    BY <1>1, <1>2
  <2>2. /\ eng'.cfg = v
        /\ DOMAIN eng' = DOMAIN eng /\ eng'.auth = eng.auth /\ eng'.pass = eng.pass
        /\ eng'.login = eng.login /\ eng'.asked = eng.asked /\ eng'.due = eng.due /\ eng'.rev = eng.rev
        /\ eng'.tx = eng.tx /\ eng'.chain = eng.chain
    BY <1>2 DEF Inv, Records
  <2>3. m.k = "saved"
    OBVIOUS
  <2> QED BY <2>1, <2>2, <2>3
<1>3. CASE eng' = eng /\ wire' = Append(q, [k |-> "saved", ok |-> FALSE])
  <2> DEFINE m == [k |-> "saved", ok |-> FALSE]
  <2>1. Carries(wire', wire, {m}, d) /\ m.k = "saved" /\ ~ m.ok
    BY <1>1, <1>3
  <2> QED BY <1>3, <2>1
<1> QED BY <1>2, <1>3 DEF Send

\* The user chooses an interval, and it is queued.
LEMMA ChooseKeeps == ASSUME Inv, NEW v \in Intervals, Choose(v) PROVE Inv'
<1>1. /\ win' = [win EXCEPT !.cfg = v, !.chosen = v] /\ saves' = Append(saves, v)
      /\ IF saves = <<>> THEN Send(eng, wire, v) ELSE UNCHANGED <<eng, wire>>
      /\ UNCHANGED <<job, loads, done, auto>>
  BY DEF Choose
<1>2. /\ DOMAIN win' = WinFields /\ win'.login = win.login /\ win'.auth = win.auth /\ win'.cfg = v /\ win'.chosen = v /\ LastLoad
  BY <1>1 DEF Inv, Records, WinFields, LastLoad
<1>3. /\ Row(saves') /\ Len(saves') = Len(saves) + 1 /\ Len(saves) \in Nat
      /\ \A i \in 1..Len(saves) : saves'[i] = saves[i]
      /\ saves'[Len(saves')] = v
  BY <1>1, Appended, RowLength DEF Inv, SavesQueued
<1>4. saves' # <<>>
  BY <1>3, Empty
<1>5. Carries(wire, wire, {}, 0)
  BY CarriesSame DEF Inv, OnTheWay
<1>6. CASE saves = <<>>
  <2>1. PICK m : /\ Carries(wire', wire, {m}, 0) /\ m.k = "saved" /\ (m.ok => eng'.cfg = v)
                 /\ DOMAIN eng' = DOMAIN eng /\ eng'.auth = eng.auth /\ eng'.pass = eng.pass
                 /\ eng'.login = eng.login /\ eng'.asked = eng.asked /\ eng'.due = eng.due /\ eng'.rev = eng.rev
                 /\ eng'.tx = eng.tx /\ eng'.chain = eng.chain
    BY <1>1, <1>5, <1>6, SendOf
  <2>2. \A i \in 1..Len(wire) : wire[i].k # "saved"
    BY <1>6 DEF Inv, SavesQueued
  <2>3. saves'[1] = v
    BY <1>3, <1>6, Empty
  <2>4. SavesQueued'
    <3>1. \A i \in 1..Len(wire') : wire'[i].k = "saved" => wire'[i] = m
      BY <2>1, <2>2, ComesFrom
    <3> QED BY <1>2, <1>3, <1>4, <2>1, <2>3, <3>1 DEF SavesQueued
  <2>5. \A i \in (0 + 1)..Len(wire) : wire[i].k # "saved"
    BY <2>2
  <2> QED BY <1>1, <1>2, <1>4, <2>1, <2>4, <2>5, SaveMoves
<1>7. CASE saves # <<>>
  <2>1. UNCHANGED <<eng, wire>>
    BY <1>1, <1>7
  <2>2. saves'[1] = saves[1]
    <3>1. Len(saves) # 0
      BY <1>7, Popped DEF Inv, SavesQueued
    <3> QED BY <1>3, <3>1
  <2>3. SavesQueued'
    BY <1>2, <1>3, <1>4, <1>7, <2>1, <2>2 DEF SavesQueued, Inv
  <2> QED BY <1>1, <1>2, <1>4, <1>5, <2>1, <2>3, SaveMoves
<1> QED BY <1>6, <1>7

\* A save is answered: the next is sent, or a load begun.
LEMMA SaveEndsKeeps == ASSUME Inv, SaveEnds PROVE Inv'
<1>1. /\ Told("saved") /\ saves' = Tail(saves) /\ win' = [win EXCEPT !.saved = Msg.ok]
      /\ IF Len(saves) > 1
         THEN Send(eng, Tail(wire), saves[2]) /\ UNCHANGED <<loads, done>>
         ELSE wire' = Tail(wire) /\ eng' = eng /\ Begin(Then("show"))
      /\ UNCHANGED <<job, auto>>
  BY DEF SaveEnds
<1>2. /\ Carries(Tail(wire), wire, {}, 1) /\ 1 \in 1..Len(wire) /\ wire[1] = Msg /\ wire[1].k = "saved"
      /\ \A i \in 2..Len(wire) : wire[i].k # "saved"
  BY <1>1, TakenFirst
<1>3. DOMAIN win' = WinFields /\ win'.login = win.login /\ win'.auth = win.auth
      /\ win'.cfg = win.cfg /\ win'.chosen = win.chosen /\ win'.saved = Msg.ok /\ LastLoad
  BY <1>1 DEF Inv, Records, WinFields, LastLoad
<1>4. saves # <<>>
  BY <1>2 DEF Inv, SavesQueued
<1>5. /\ win.cfg = win.chosen /\ saves[Len(saves)] = win.chosen
      /\ Msg.ok => eng.cfg = saves[1]
  BY <1>2, <1>4 DEF Inv, SavesQueued
<1>6. /\ Row(saves') /\ Len(saves) \in Nat \ {0} /\ Len(saves') = Len(saves) - 1
      /\ \A i \in 1..Len(saves') : saves'[i] = saves[i + 1]
  BY <1>1, <1>4, Popped DEF Inv, SavesQueued
<1>7. CASE Len(saves) > 1
  <2>1. PICK m : /\ Carries(wire', wire, {m}, 1) /\ m.k = "saved" /\ (m.ok => eng'.cfg = saves[2])
                 /\ DOMAIN eng' = DOMAIN eng /\ eng'.auth = eng.auth /\ eng'.pass = eng.pass
                 /\ eng'.login = eng.login /\ eng'.asked = eng.asked /\ eng'.due = eng.due /\ eng'.rev = eng.rev
                 /\ eng'.tx = eng.tx /\ eng'.chain = eng.chain
    <3> DEFINE q == Tail(wire)
               v == saves[2]
    <3>1. Send(eng, q, v) /\ Carries(q, wire, {}, 1)
      BY <1>1, <1>2, <1>7
    <3> HIDE DEF q, v
    <3>2. 1 \in {0, 1}
      OBVIOUS
    <3>3. \E m : /\ Carries(wire', wire, {m}, 1) /\ m.k = "saved" /\ (m.ok => eng'.cfg = v)
                 /\ DOMAIN eng' = DOMAIN eng /\ eng'.auth = eng.auth /\ eng'.pass = eng.pass
                 /\ eng'.login = eng.login /\ eng'.asked = eng.asked /\ eng'.due = eng.due /\ eng'.rev = eng.rev
                 /\ eng'.tx = eng.tx /\ eng'.chain = eng.chain
      BY <3>1, <3>2, SendOf
    <3> QED BY <3>3 DEF v
  <2>2. saves'[1] = saves[2] /\ saves'[Len(saves')] = saves[Len(saves)]
    BY <1>6, <1>7
  <2>3. saves' # <<>>
    BY <1>6, <1>7, Empty
  <2>4. SavesQueued'
    <3>1. \A i \in 1..Len(wire') : wire'[i].k = "saved" => wire'[i] = m
      BY <1>2, <2>1, ComesFrom
    <3> QED BY <1>3, <1>5, <1>6, <2>1, <2>2, <2>3, <3>1 DEF SavesQueued
  <2>5. UNCHANGED <<job, loads, done, auto>>
    BY <1>1, <1>7
  <2>6. \A i \in (1 + 1)..Len(wire) : wire[i].k # "saved"
    BY <1>2
  <2> QED BY <1>2, <1>3, <2>1, <2>3, <2>4, <2>5, <2>6, SaveMoves
<1>8. CASE ~ Len(saves) > 1
  <2>1. wire' = Tail(wire) /\ eng' = eng /\ Begin(Then("show")) /\ UNCHANGED <<job, auto>>
    BY <1>1, <1>8
  <2>2. Len(saves) = 1 /\ saves' = <<>>
    <3>1. Len(saves) = 1 /\ Len(saves') = 0
      BY <1>6, <1>8
    <3>2. saves' # <<>> => Len(saves') # 0
      BY <1>6, Popped
    <3> QED BY <3>1, <3>2
  <2>3. LoadRecords
    BY DEF Inv, Records, LoadRecords, LoadFields
  <2>4. PICK s : Opened(loads', loads, s, Then("show"))
    BY <2>1, <2>3, BegunOf DEF Begin, Room, LoadRecords
  <2>5. Asked'
    BY <2>1, <2>3, <2>4, OpenedKeeps DEF Begin, Inv
  <2>6. Carries(wire', wire, {}, 1)
    BY <1>2, <2>1
  <2>7. KeptOnWay(1)
    BY <2>4, OpenedOnWay DEF Inv
  <2>8. OnTheWay'
    BY <2>6, <2>7, KeepsOnTheWay DEF Inv
  <2>9. SavesQueued'
    <3>1. \A i \in 1..Len(wire') : ~ Shows(wire'[i], loads')
      BY <2>5, <2>8 DEF Asked, OnTheWay, Shows, Loaded
    <3>2. \A i \in 1..Len(wire') : wire'[i].k # "saved"
      BY <1>2, <2>6, ComesFrom
    <3> QED BY <1>3, <1>5, <1>6, <2>1, <2>2, <3>1, <3>2 DEF SavesQueued
  <2>10. AutoTold'
    <3>1. \A t \in Slots : Has(loads'[t].conts, "synced") => Has(loads[t].conts, "synced")
      <4>1. Then("show").k # "synced"
        BY ThenOf
      <4> QED BY <2>4, <4>1, OpenedSynced
    <3> QED BY <2>1, <2>6, <3>1, KeepsAuto DEF Inv
  <2>11. JobMoves(1) /\ win'.auth \in Past /\ LoginShown /\ DOMAIN auto' = {"st", "left"}
    BY <1>3, <2>1 DEF JobMoves, Inv, Records, JobTold, Bounds, LoginShown
  <2> QED BY <1>2, <1>3, <2>1, <2>6, <2>9, <2>10, <2>11, ThenOf, BeginKeeps DEF Loaded
<1> QED BY <1>7, <1>8
-----------------------------------------------------------------------------
(* A login begins                                                          *)

\* The user starts a login, and the loads in flight are dropped.
LEMMA StartLoginKeeps == ASSUME Inv, NEW target \in BOOLEAN, StartLogin(target) PROVE Inv'
<1> DEFINE added == [k |-> "added", ok |-> FALSE, re |-> target, login |-> NotAsked]
<1>1. /\ win' = [win EXCEPT !.login = Outcome("pending"), !.report = NotAsked]
      /\ loads' = Invalidated(loads) /\ UNCHANGED <<job, done, saves, auto>>
      /\ ~ Pending(win.login)
      /\ \/ /\ ~ Pending(eng.login)
            /\ eng' = [eng EXCEPT !.login = Outcome("pending"), !.asked = TRUE, !.target = target]
            /\ wire' = wire
         \/ eng' = eng /\ wire' = wire \o <<added>>
  BY DEF StartLogin, MarkPending, Tell
<1>2. /\ DOMAIN win' = WinFields /\ Pending(win'.login) /\ win'.auth = win.auth /\ win'.patch = win.patch
      /\ win'.cfg = win.cfg /\ win'.chosen = win.chosen /\ win'.saved = win.saved
      /\ win'.at = win.at /\ win'.told = win.told /\ win'.run = win.run /\ win'.ahead = win.ahead /\ win'.cur = win.cur
  BY <1>1 DEF Inv, Records, WinFields, Outcome, NotAsked, Pending
<1>3. /\ DOMAIN loads' = Slots
      /\ \A s \in Slots : /\ DOMAIN loads'[s] = LoadFields /\ loads'[s].cur = FALSE
                          /\ loads'[s].st = loads[s].st /\ loads'[s].auth = loads[s].auth
                          /\ loads'[s].latest = loads[s].latest /\ loads'[s].conts = loads[s].conts
  BY <1>1 DEF Invalidated, Inv, Records, LoadFields
<1>4. /\ DOMAIN eng' = DOMAIN eng /\ eng'.cfg = eng.cfg /\ eng'.auth = eng.auth /\ eng'.pass = eng.pass
      /\ eng'.due = eng.due /\ eng'.rev = eng.rev /\ eng'.run = eng.run /\ eng'.cur = eng.cur
      /\ eng'.login = eng.login \/ eng'.login.auth = Unknown
      /\ eng.asked => eng'.asked
      /\ Pending(eng'.login) => Pending(eng.login) \/ eng'.asked
      /\ Pending(eng.login) => eng'.login = eng.login
      /\ eng'.tx = eng.tx /\ eng'.chain = eng.chain /\ eng'.hush = eng.hush
  BY <1>1 DEF Inv, Records, Changes, Outcome, NotAsked
<1>5. PICK N \in SUBSET {added} : Carries(wire', wire, N, 0) /\ Owed'
  <2>1. CASE eng' = [eng EXCEPT !.login = Outcome("pending"), !.asked = TRUE, !.target = target] /\ wire' = wire
    <3>1. Carries(wire', wire, {}, 0)
      BY <2>1, CarriesSame DEF Inv, OnTheWay
    <3>2. eng'.asked
      BY <2>1 DEF Inv, Records
    <3> QED BY <3>1, <3>2 DEF Owed
  <2>2. CASE eng' = eng /\ wire' = wire \o <<added>>
    <3>1. Carries(wire', wire, {added}, 0) /\ \E j \in 1..Len(wire') : wire'[j] = added
      BY <2>2, LetterOne, Mailed DEF Inv, OnTheWay
    <3>2. Makes(added)
      BY DEF Makes
    <3>3. Owed'
      BY <3>1, <3>2, MakesOne DEF Owed
    <3> QED BY <3>1, <3>3
  <2> QED BY <1>1, <2>1, <2>2
<1>6. \A m \in N : /\ m.k = "added" /\ ~ Loaded(m) /\ ~ IsPoll(m) /\ ~ Manual(m) /\ Tells(m) = Unknown
                   /\ \A n : ~ Clash(n, m)
  BY DEF Loaded, IsPoll, Manual, Tells, Clash, NotAsked
<1> HIDE DEF added
<1>7. Len(wire) \in Nat /\ \A i \in (0 + 1)..Len(wire) : i \in 1..Len(wire)
  BY RowLength DEF Inv, OnTheWay
<1>8. KeptOnWay(0)
  BY <1>3, <1>7 DEF KeptOnWay, Inv, OnTheWay
<1>9. OnTheWay'
  BY <1>5, <1>6, <1>8, KeepsOnTheWay DEF Inv
<1>10. Answered'
  BY <1>3, <1>5, KeepsAnswered DEF Inv
<1>11. SavesQueued'
  BY <1>1, <1>2, <1>4, <1>5, <1>6, <1>8, KeepsSaves DEF Inv
<1>12. PendingTold'
  <2>1. /\ Len(wire') \in Nat
        /\ \A i \in 1..Len(wire') : wire'[i] \in N \/ \E j \in (0 + 1)..Len(wire) : j \in 1..Len(wire) /\ wire'[i] = wire[j]
    BY <1>5, ComesFrom
  <2>2. \A i \in 1..Len(wire') : ~ IsPoll(wire'[i])
    BY <1>1, <1>6, <2>1 DEF Inv, PendingTold
  <2>3. \A i \in 1..Len(wire') : ~ Shows(wire'[i], loads')
    BY <1>3, <1>9 DEF Shows, OnTheWay, Loaded
  <2> QED BY <1>2, <2>2, <2>3 DEF PendingTold
<1>13. Bounds'
  <2>1. Past' = Past /\ Unknown \in Past /\ win'.told.auth \in Past
    BY <1>2, <1>4 DEF Inv, Bounds, Past, Unknown
  <2> QED BY <1>2, <1>3, <1>4, <1>5, <1>6, <2>1, KeepsBounds DEF Inv, Bounds, Past
<1>14. JobTold'
  BY <1>1, <1>5, <1>6, KeepsJob DEF Inv, JobTold
<1>15. Verdicts'
  <2>1. \A s \in Slots : ~ Judged(s)'
    BY <1>3 DEF Judged
  <2> QED BY <1>4, <1>5, <1>6, <2>1, VerdictsReset DEF Inv, Verdicts
<1>16. AutoTold'
  BY <1>1, <1>3, <1>5, <1>6, KeepsAuto DEF Inv
<1>17. Truth'
  <2>1. Counted' /\ eng.rev <= eng'.rev /\ win'.at \in 0..eng'.rev
    BY <1>2, <1>4 DEF Inv, Truth, Counted, Seen
  <2>2. \A m \in N : m.k # "snapshot"
    BY <1>6
  <2> QED BY <1>1, <1>4, <1>5, <1>8, <2>1, <2>2, KeepsTruth DEF Inv
<1>18. LoadsFine'
  BY <1>1, <1>3 DEF Inv, LoadsFine
<1>19. Records'
  BY <1>1, <1>2, <1>3, <1>4 DEF Inv, Records, LoadFields
<1>20. SwitchFine'
  BY <1>4 DEF Inv, SwitchFine, Mine, Past
<1> QED BY <1>20, <1>9, <1>10, <1>11, <1>12, <1>13, <1>14, <1>15, <1>16, <1>17, <1>18, <1>19 DEF Inv
-----------------------------------------------------------------------------
(* A load is under way in the main process                                 *)

\* It goes on: it sees the verdict, or it is answered.
LEMMA LoadGoesOn ==
  ASSUME Inv, NEW s \in Slots, loads[s].st \in {"asked", "inspected"},
         NEW N, Carries(wire', wire, N, 0),
         \A m \in N : /\ Loaded(m) /\ m.s = s /\ loads[s].st = "inspected" /\ loads'[s].st = "sent"
                      /\ m.k = "snapshot" => /\ m.auth = loads[s].auth /\ m.login = eng.login
                                             /\ m.rev = eng.rev /\ Fresh(m, eng),
         DOMAIN loads' = Slots, \A t \in Slots : DOMAIN loads'[t] = LoadFields,
         \A t \in Slots : /\ loads'[t].cur = loads[t].cur /\ loads'[t].latest = loads[t].latest
                          /\ loads'[t].conts = loads[t].conts
                          /\ t # s => loads'[t].st = loads[t].st /\ loads'[t].auth = loads[t].auth,
         \/ loads[s].st = "asked" /\ loads'[s].st = "inspected" /\ loads'[s].auth \in {Unknown, eng.auth}
         \/ /\ loads[s].st = "inspected" /\ loads'[s].st = "sent" /\ loads'[s].auth = loads[s].auth
            /\ \E i \in 1..Len(wire') : wire'[i] \in N,
         UNCHANGED <<eng, job, done, win, saves, auto>>
  PROVE  Inv'
<1>1. Len(wire) \in Nat /\ \A i \in (0 + 1)..Len(wire) : i \in 1..Len(wire)
  BY RowLength DEF Inv, OnTheWay
<1>2. \A i \in 1..Len(wire) : Loaded(wire[i]) => wire[i].s # s
  BY DEF Inv, OnTheWay
<1>3. KeptOnWay(0)
  BY <1>1, <1>2 DEF KeptOnWay, Inv, OnTheWay
<1>4. \A m \in N : /\ ~ IsPoll(m) /\ ~ Manual(m) /\ ~ Reads(m) /\ ~ Makes(m)
                   /\ m.k \in {"snapshot", "broken"}
                   /\ \A i \in 1..Len(wire) : ~ Clash(wire[i], m)
  BY <1>2 DEF Loaded, IsPoll, Manual, Reads, Clash, Makes
<1>5. OnTheWay'
  BY <1>1, <1>3, <1>4, KeepsOnTheWay DEF Inv
<1>6. Past' = Past /\ Unknown \in Past /\ eng.auth \in Past
  BY DEF Inv, Bounds, Past, Unknown
<1>7. Bounds'
  <2>1. \A m \in N : Tells(m) \in Past /\ (m.k = "snapshot" => m.login.auth \in Past)
    BY <1>4, <1>6 DEF Tells, Inv, Bounds
  <2>2. \A t \in Slots : loads'[t].auth \in Past
    BY <1>6 DEF Inv, Bounds
  <2> QED BY <1>6, <2>1, <2>2, KeepsBounds DEF Inv, Bounds, Past
<1>8. Answered'
  <2>1. ASSUME NEW t \in Slots, loads'[t].st = "sent"
        PROVE  \E i \in 1..Len(wire') : Loaded(wire'[i]) /\ wire'[i].s = t
    <3>1. CASE t = s
      BY <2>1, <3>1
    <3>2. CASE t # s
      <4>1. PICK j \in 1..Len(wire) : Loaded(wire[j]) /\ wire[j].s = t
        BY <2>1, <3>2 DEF Inv, Answered
      <4>2. ~ IsPoll(wire[j]) /\ j \in (0 + 1)..Len(wire)
        BY <1>1, <4>1 DEF Loaded, IsPoll
      <4> QED BY <4>1, <4>2, ComesFrom
    <3> QED BY <3>1, <3>2
  <2> QED BY <2>1 DEF Answered
<1>9. SavesQueued'
  BY <1>3, <1>4, KeepsSaves DEF Inv, Fresh
<1>10. PendingTold'
  BY <1>3, <1>4, KeepsPending DEF Inv
<1>11. JobTold'
  BY <1>4, KeepsJob DEF Inv, JobTold
<1>12. Verdicts'
  <2>1. JudgedBefore
    BY DEF JudgedBefore, Judged
  <2>2. ShownIsNoNewer'
    BY DEF ShownIsNoNewer, Judged, Inv, Verdicts, Bounds, Past
  <2>3. eng'.login.auth <= eng.login.auth
    BY DEF Inv, Bounds, Past
  <2> QED BY <1>4, <1>7, <2>1, <2>2, <2>3, KeepsVerdicts DEF Inv
<1>13. AutoTold'
  BY <1>4, KeepsAuto DEF Inv
<1>14. Truth'
  <2>1. Counted' /\ eng.rev <= eng'.rev /\ win'.at \in 0..eng'.rev /\ eng.rev \in 0..eng'.rev
    BY DEF Inv, Truth, Counted, Seen
  <2>2. Owed => Owed'
    <3> HAVE Owed
    <3> QED BY KeepsOwed
  <2>3. \A m \in N : m.k = "snapshot" => m.rev \in 0..eng'.rev /\ Fresh(m, eng')
    BY <2>1 DEF Fresh
  <2>4. CurKept /\ (Shown => Shown')
    BY DEF CurKept, Shown
  <2> QED BY <1>3, <2>1, <2>2, <2>3, <2>4, KeepsTruth DEF Inv
<1>15. LoadsFine'
  BY DEF Inv, LoadsFine
<1>16. Records'
  BY DEF Inv, Records, LoadFields
<1>17. SwitchFine'
  BY <1>6 DEF Inv, SwitchFine, Mine
<1> QED BY <1>17, <1>5, <1>7, <1>8, <1>9, <1>10, <1>11, <1>12, <1>13, <1>14, <1>15, <1>16 DEF Inv

\* The snapshot looks at the official login.
LEMMA LoadInspectsKeeps == ASSUME Inv, NEW s \in Slots, LoadInspects(s) PROVE Inv'
<1>1. /\ loads[s].st = "asked" /\ UNCHANGED <<eng, job, wire, done, win, saves, auto>>
      /\ \/ loads' = [loads EXCEPT ![s].st = "inspected", ![s].auth = eng.auth]
         \/ loads' = [loads EXCEPT ![s].st = "inspected"]
  BY DEF LoadInspects
<1>2. Carries(wire', wire, {}, 0)
  BY <1>1, CarriesSame DEF Inv, OnTheWay
<1>3. loads[s].auth = Unknown
  BY <1>1 DEF Inv, LoadsFine
<1>4. /\ DOMAIN loads' = Slots
      /\ \A t \in Slots : /\ DOMAIN loads'[t] = LoadFields
                          /\ loads'[t].cur = loads[t].cur /\ loads'[t].latest = loads[t].latest
                          /\ loads'[t].conts = loads[t].conts
                          /\ t # s => loads'[t].st = loads[t].st /\ loads'[t].auth = loads[t].auth
      /\ loads'[s].st = "inspected" /\ loads'[s].auth \in {Unknown, eng.auth}
  BY <1>1, <1>3 DEF Inv, Records, LoadFields
<1> QED BY <1>1, <1>2, <1>4, LoadGoesOn

\* The snapshot is answered, or breaks.
LEMMA LoadAnswersKeeps == ASSUME Inv, NEW s \in Slots, LoadAnswers(s) \/ LoadFails(s) PROVE Inv'
<1>1. /\ loads[s].st = "inspected" /\ loads' = [loads EXCEPT ![s].st = "sent"]
      /\ wire' \in {wire \o <<Snapshot(s)>>, wire \o <<[k |-> "broken", s |-> s]>>}
      /\ UNCHANGED <<eng, job, done, win, saves, auto>>
  BY DEF LoadAnswers, LoadFails, Tell
<1>2. PICK m \in {Snapshot(s), [k |-> "broken", s |-> s]} : wire' = wire \o <<m>>
  BY <1>1
<1>3. Carries(wire', wire, {m}, 0) /\ \E i \in 1..Len(wire') : wire'[i] \in {m}
  BY <1>2, LetterOne, Mailed DEF Inv, OnTheWay
<1>4. /\ DOMAIN loads' = Slots
      /\ \A t \in Slots : /\ DOMAIN loads'[t] = LoadFields
                          /\ loads'[t].cur = loads[t].cur /\ loads'[t].latest = loads[t].latest
                          /\ loads'[t].conts = loads[t].conts
                          /\ t # s => loads'[t].st = loads[t].st /\ loads'[t].auth = loads[t].auth
      /\ loads'[s].st = "sent" /\ loads'[s].auth = loads[s].auth
  BY <1>1 DEF Inv, Records, LoadFields
<1>5. /\ Loaded(m) /\ m.s = s
      /\ m.k = "snapshot" => m.auth = loads[s].auth /\ m.login = eng.login /\ m.rev = eng.rev /\ Fresh(m, eng)
  BY DEF Snapshot, Loaded, Fresh, Inv, Truth, Counted
<1> QED BY <1>1, <1>3, <1>4, <1>5, LoadGoesOn
-----------------------------------------------------------------------------
(* A load ends                                                             *)

\* A sequence after another has the elements of both.
LEMMA HasBoth ==
  ASSUME NEW q, Row(q), NEW r, Row(r)
  PROVE  /\ Row(q \o r)
         /\ \A i \in 1..Len(q \o r) : \/ \E j \in 1..Len(q) : (q \o r)[i] = q[j]
                                      \/ \E j \in 1..Len(r) : (q \o r)[i] = r[j]
         /\ \A k : Has(q \o r, k) => Has(q, k) \/ Has(r, k)
<1> DEFINE w == q \o r
<1>1. Len(q) \in Nat /\ Len(r) \in Nat
  BY RowLength
<1>2. /\ Row(w) /\ Len(w) = Len(q) + Len(r)
      /\ \A i \in 1..Len(q) : w[i] = q[i]
      /\ \A i \in 1..Len(r) : w[Len(q) + i] = r[i]
  BY Joined
<1>3. DOMAIN w = 1..Len(w) /\ DOMAIN q = 1..Len(q) /\ DOMAIN r = 1..Len(r)
  BY <1>2 DEF Row
<1> HIDE DEF w
<1>4. ASSUME NEW i \in 1..Len(w)
      PROVE  \/ \E j \in 1..Len(q) : w[i] = q[j]
             \/ \E j \in 1..Len(r) : w[i] = r[j]
  <2>1. CASE i <= Len(q)
    BY <1>1, <1>2, <2>1
  <2>2. CASE i > Len(q)
    <3>1. i - Len(q) \in 1..Len(r) /\ Len(q) + (i - Len(q)) = i
      BY <1>1, <1>2, <2>2
    <3> QED BY <1>2, <3>1
  <2> QED BY <1>1, <2>1, <2>2
<1>5. \A k : Has(w, k) => Has(q, k) \/ Has(r, k)
  BY <1>3, <1>4 DEF Has
<1> QED BY <1>2, <1>4, <1>5 DEF w

\* The load in slot t has ended; the others are as they were, but one may have its callers.
Ended1(L, t, waits) ==
  /\ DOMAIN L = Slots /\ \A i \in Slots : DOMAIN L[i] = LoadFields /\ Row(L[i].conts)
  /\ L[t].st = "free" /\ L[t].auth = Unknown /\ L[t].cur = FALSE /\ L[t].latest = FALSE /\ L[t].conts = <<>>
  /\ \A i \in Slots \ {t} : /\ L[i].st = loads[i].st /\ L[i].auth = loads[i].auth
                            /\ L[i].cur = loads[i].cur /\ L[i].latest = loads[i].latest
                            /\ \/ L[i].conts = loads[i].conts
                               \/ waits /\ loads[i].latest /\ L[i].conts = loads[i].conts \o loads[t].conts

\* What is left of the loads when one has ended.
LEMMA SettledOf ==
  ASSUME LoadRecords, NEW t \in Slots, NEW good
  PROVE  Ended1(Settled(t, good), t, Waits(t, good))
<1> DEFINE waits == Waits(t, good)
           L == [i \in Slots |-> IF i = t THEN Free
                                 ELSE IF waits /\ loads[i].latest
                                      THEN [loads[i] EXCEPT !.conts = loads[i].conts \o loads[t].conts]
                                      ELSE loads[i]]
<1>1. Settled(t, good) = L
  BY DEF Settled
<1> HIDE DEF waits
<1>2. /\ L[t].st = "free" /\ L[t].auth = Unknown /\ L[t].cur = FALSE /\ L[t].latest = FALSE /\ L[t].conts = <<>>
      /\ DOMAIN L[t] = LoadFields
  BY DEF Free, LoadFields
<1>3. Row(L[t].conts)
  BY <1>2, Empty
<1>4. ASSUME NEW i \in Slots \ {t}
      PROVE  /\ L[i].st = loads[i].st /\ L[i].auth = loads[i].auth /\ DOMAIN L[i] = LoadFields
             /\ L[i].cur = loads[i].cur /\ L[i].latest = loads[i].latest
             /\ \/ L[i].conts = loads[i].conts
                \/ waits /\ loads[i].latest /\ L[i].conts = loads[i].conts \o loads[t].conts
  <2>1. L[i] = IF waits /\ loads[i].latest THEN [loads[i] EXCEPT !.conts = loads[i].conts \o loads[t].conts] ELSE loads[i]
    OBVIOUS
  <2>2. DOMAIN loads[i] = LoadFields
    BY DEF LoadRecords
  <2>3. CASE waits /\ loads[i].latest
    <3> DEFINE r == loads[i].conts \o loads[t].conts
    <3>1. L[i] = [loads[i] EXCEPT !.conts = r]
      BY <2>1, <2>3
    <3> HIDE DEF r, L
    <3>2. /\ L[i].st = loads[i].st /\ L[i].auth = loads[i].auth /\ DOMAIN L[i] = LoadFields
          /\ L[i].cur = loads[i].cur /\ L[i].latest = loads[i].latest /\ L[i].conts = r
      BY <2>2, <3>1 DEF LoadFields
    <3> QED BY <2>3, <3>2 DEF r
  <2>4. CASE ~ (waits /\ loads[i].latest)
    <3>1. L[i] = loads[i]
      BY <2>1, <2>4
    <3> HIDE DEF L
    <3> QED BY <2>2, <3>1
  <2> QED BY <2>3, <2>4
<1>5. DOMAIN L = Slots
  OBVIOUS
<1> HIDE DEF L
<1>6. ASSUME NEW i \in Slots PROVE DOMAIN L[i] = LoadFields /\ Row(L[i].conts)
  <2>1. CASE i = t
    BY <1>2, <1>3, <2>1
  <2>2. CASE i # t
    <3>1. Row(loads[i].conts) /\ Row(loads[t].conts)
      BY DEF LoadRecords
    <3>2. Row(loads[i].conts \o loads[t].conts)
      BY <3>1, HasBoth
    <3> QED BY <1>4, <2>2, <3>1, <3>2
  <2> QED BY <2>1, <2>2
<1> QED BY <1>1, <1>2, <1>4, <1>5, <1>6 DEF Ended1, waits

\* The same of the next state, in which another load may have begun.
EndedLoads(t, waits, cont) ==
  \E L : /\ Ended1(L, t, waits)
         /\ \/ loads' = L
            \/ done' = "none" /\ \E s : Opened(loads', L, s, cont)

\* The loads are still in order once one has ended.
LEMMA EndedShape ==
  ASSUME Inv, NEW t \in Slots, loads[t].st = "sent", NEW cont, NEW waits, EndedLoads(t, waits, cont),
         \A i \in Slots \ {t} : loads'[i].latest => done' = "none",
         Len(wire) \in Nat, 1 \in 1..Len(wire), Loaded(wire[1]), wire[1].s = t
  PROVE  /\ LoadRecords' /\ LoadsFine' /\ KeptOnWay(1)
         /\ \A i \in Slots : loads'[i].st = "sent" => i # t /\ loads[i].st = "sent"
<1>1. PICK L : /\ Ended1(L, t, waits)
               /\ \/ loads' = L
                  \/ done' = "none" /\ \E s : Opened(loads', L, s, cont)
  BY DEF EndedLoads
<1>2. ASSUME NEW i \in (1 + 1)..Len(wire), Loaded(wire[i])
      PROVE  wire[i].s \in Slots \ {t} /\ loads[wire[i].s].st = "sent"
  <2>1. i \in 1..Len(wire) /\ 1 < i
    OBVIOUS
  <2>2. ~ Clash(wire[1], wire[i])
    BY <2>1 DEF Inv, OnTheWay
  <2> QED BY <1>2, <2>1, <2>2 DEF Inv, OnTheWay, Clash
\* Each load of the next state has just begun, has just ended, or was there.
<1>3. ASSUME NEW i \in Slots
      PROVE  /\ DOMAIN loads'[i] = LoadFields /\ Row(loads'[i].conts)
             /\ \/ /\ done' = "none" /\ loads'[i].st = "asked" /\ loads'[i].auth = Unknown
                   /\ loads'[i].latest /\ (i = t \/ loads[i].st = "free")
                   /\ \A j \in Slots : loads'[j].latest => j = i
                \/ i = t /\ loads'[i].st = "free" /\ ~ loads'[i].cur /\ ~ loads'[i].latest /\ loads'[i].conts = <<>>
                \/ /\ i # t /\ loads'[i].st = loads[i].st /\ loads'[i].auth = loads[i].auth
                   /\ loads'[i].cur => loads[i].cur /\ loads'[i].latest
                   /\ loads'[i].latest => loads[i].latest
                   /\ loads[i].st = "free" => loads'[i].conts = loads[i].conts
  <2>1. CASE i = t
    <3>1. L[i].st = "free" /\ ~ L[i].cur /\ ~ L[i].latest /\ L[i].conts = <<>>
          /\ DOMAIN L[i] = LoadFields /\ Row(L[i].conts)
      BY <1>1, <2>1 DEF Ended1
    <3>2. ASSUME done' = "none", NEW s \in Slots, Opened(loads', L, s, cont), i = s
          PROVE  /\ done' = "none" /\ loads'[i].st = "asked" /\ loads'[i].auth = Unknown /\ loads'[i].latest
                 /\ L[i].st = "free"
                 /\ \A j \in Slots : loads'[j].latest => j = i
                 /\ DOMAIN loads'[i] = LoadFields /\ Row(loads'[i].conts)
      BY <3>2 DEF Opened
    <3>3. ASSUME NEW s \in Slots, Opened(loads', L, s, cont), i # s
          PROVE  /\ loads'[i].st = "free" /\ ~ loads'[i].cur /\ ~ loads'[i].latest /\ loads'[i].conts = <<>>
                 /\ DOMAIN loads'[i] = LoadFields /\ Row(loads'[i].conts)
      BY <3>1, <3>3 DEF Opened
    <3>4. \A s : Opened(loads', L, s, cont) => s \in Slots
      BY DEF Opened
    <3> QED BY <1>1, <2>1, <3>1, <3>2, <3>3, <3>4
  <2>2. CASE i # t
    <3>1. /\ DOMAIN L[i] = LoadFields /\ Row(L[i].conts)
          /\ L[i].st = loads[i].st /\ L[i].auth = loads[i].auth
          /\ L[i].cur = loads[i].cur /\ L[i].latest = loads[i].latest
          /\ L[i].conts = loads[i].conts \/ loads[i].latest
      BY <1>1, <2>2 DEF Ended1
    <3>2. /\ loads[i].cur => loads[i].latest
          /\ loads[i].latest => loads[i].st # "free"
      BY DEF Inv, LoadsFine
    <3>3. ASSUME done' = "none", NEW s \in Slots, Opened(loads', L, s, cont), i = s
          PROVE  /\ done' = "none" /\ loads'[i].st = "asked" /\ loads'[i].auth = Unknown /\ loads'[i].latest
                 /\ L[i].st = "free"
                 /\ \A j \in Slots : loads'[j].latest => j = i
                 /\ DOMAIN loads'[i] = LoadFields /\ Row(loads'[i].conts)
      BY <3>3 DEF Opened
    <3>4. ASSUME NEW s \in Slots, Opened(loads', L, s, cont), i # s
          PROVE  /\ loads'[i].st = L[i].st /\ loads'[i].auth = L[i].auth /\ loads'[i].conts = L[i].conts
                 /\ loads'[i].cur = FALSE /\ loads'[i].latest = FALSE
                 /\ DOMAIN loads'[i] = LoadFields /\ Row(loads'[i].conts)
      BY <3>4 DEF Opened
    <3>5. \A s : Opened(loads', L, s, cont) => s \in Slots
      BY DEF Opened
    <3>6. CASE loads' = L
      BY <2>2, <3>1, <3>2, <3>6
    <3>7. ASSUME done' = "none", NEW s, Opened(loads', L, s, cont)
          PROVE  \/ /\ done' = "none" /\ loads'[i].st = "asked" /\ loads'[i].auth = Unknown /\ loads'[i].latest
                    /\ loads[i].st = "free"
                    /\ \A j \in Slots : loads'[j].latest => j = i
                    /\ DOMAIN loads'[i] = LoadFields /\ Row(loads'[i].conts)
                 \/ /\ loads'[i].st = loads[i].st /\ loads'[i].auth = loads[i].auth
                    /\ loads'[i].cur = FALSE /\ loads'[i].latest = FALSE
                    /\ loads[i].st = "free" => loads'[i].conts = loads[i].conts
                    /\ DOMAIN loads'[i] = LoadFields /\ Row(loads'[i].conts)
      <4>1. CASE i = s
        BY <3>1, <3>3, <3>5, <3>7, <4>1
      <4>2. CASE i # s
        BY <3>1, <3>2, <3>4, <3>5, <3>7, <4>2
      <4> QED BY <4>1, <4>2
    <3> QED BY <1>1, <2>2, <3>6, <3>7
  <2> QED BY <2>1, <2>2
<1>4. DOMAIN loads' = Slots
  BY <1>1 DEF Ended1, Opened
<1>5. LoadRecords'
  BY <1>3, <1>4 DEF LoadRecords
<1>6. LoadsFine'
  <2>1. ASSUME NEW i \in Slots
        PROVE  /\ loads'[i].st \in {"free", "asked", "inspected", "sent"}
               /\ loads'[i].st = "asked" => loads'[i].auth = Unknown
               /\ loads'[i].st = "free" => loads'[i].conts = <<>>
               /\ loads'[i].latest => loads'[i].st # "free"
    BY <1>3 DEF Inv, LoadsFine
  <2>2. ASSUME NEW i \in Slots PROVE loads'[i].cur => loads'[i].latest
    BY <1>3
  <2>3. ASSUME NEW i \in Slots, loads'[i].latest PROVE done' = "none"
    BY <1>3, <2>3
  <2>4. ASSUME NEW i \in Slots, NEW j \in Slots, loads'[i].latest, loads'[j].latest PROVE i = j
    BY <1>3, <2>4 DEF Inv, LoadsFine
  <2> QED BY <2>1, <2>2, <2>3, <2>4 DEF LoadsFine
<1>7. \A i \in Slots : loads'[i].st = "sent" => i # t /\ loads[i].st = "sent"
  BY <1>3
<1>8. KeptOnWay(1)
  <2> SUFFICES ASSUME NEW i \in (1 + 1)..Len(wire), Loaded(wire[i])
               PROVE  LET u == wire[i].s
                      IN  /\ loads'[u].st = "sent" /\ loads'[u].auth = loads[u].auth
                          /\ loads'[u].cur => loads[u].cur
    BY DEF KeptOnWay
  <2> DEFINE u == wire[i].s
  <2>1. u \in Slots \ {t} /\ loads[u].st = "sent"
    BY <1>2
  <2> HIDE DEF u
  <2>2. loads'[u].st = "sent" /\ loads'[u].auth = loads[u].auth /\ (loads'[u].cur => loads[u].cur)
    BY <1>3, <2>1
  <2> QED BY <2>2 DEF u
<1> QED BY <1>5, <1>6, <1>7, <1>8

\* Where the callers of a load come from.
LEMMA EndedConts ==
  ASSUME LoadRecords, NEW t \in Slots, NEW cont, NEW waits, EndedLoads(t, waits, cont),
         NEW i \in Slots, NEW j \in 1..Len(loads'[i].conts)
  PROVE  \/ loads'[i].conts[j] = cont
         \/ i # t /\ \E n \in 1..Len(loads[i].conts) : loads'[i].conts[j] = loads[i].conts[n]
         \/ i # t /\ waits /\ loads[i].latest /\ \E n \in 1..Len(loads[t].conts) : loads'[i].conts[j] = loads[t].conts[n]
<1>1. PICK L : /\ Ended1(L, t, waits)
               /\ \/ loads' = L
                  \/ done' = "none" /\ \E s : Opened(loads', L, s, cont)
  BY DEF EndedLoads
<1>2. ASSUME NEW k \in 1..Len(L[i].conts)
      PROVE  \/ i # t /\ \E n \in 1..Len(loads[i].conts) : L[i].conts[k] = loads[i].conts[n]
             \/ i # t /\ waits /\ loads[i].latest /\ \E n \in 1..Len(loads[t].conts) : L[i].conts[k] = loads[t].conts[n]
  <2>1. CASE i = t
    BY <1>1, <1>2, <2>1, Empty DEF Ended1
  <2>2. CASE i # t /\ L[i].conts = loads[i].conts
    BY <1>2, <2>2
  <2>3. CASE i # t /\ waits /\ loads[i].latest /\ L[i].conts = loads[i].conts \o loads[t].conts
    <3>1. Row(loads[i].conts) /\ Row(loads[t].conts)
      BY DEF LoadRecords
    <3>2. \/ \E n \in 1..Len(loads[i].conts) : L[i].conts[k] = loads[i].conts[n]
          \/ \E n \in 1..Len(loads[t].conts) : L[i].conts[k] = loads[t].conts[n]
      <4> DEFINE q == loads[i].conts
                 r == loads[t].conts
                 w == q \o r
      <4>1. Row(q) /\ Row(r) /\ L[i].conts = w
        BY <2>3, <3>1
      <4> HIDE DEF q, r
      <4>2. \A n \in 1..Len(w) : \/ \E m \in 1..Len(q) : w[n] = q[m]
                                 \/ \E m \in 1..Len(r) : w[n] = r[m]
        BY <4>1, HasBoth
      <4> HIDE DEF w
      <4>3. \/ \E m \in 1..Len(q) : L[i].conts[k] = q[m]
            \/ \E m \in 1..Len(r) : L[i].conts[k] = r[m]
        BY <1>2, <4>1, <4>2
      <4> QED BY <4>3 DEF q, r
    <3> QED BY <2>3, <3>2
  <2> QED BY <1>1, <2>1, <2>2, <2>3 DEF Ended1
<1>3. CASE loads' = L
  BY <1>2, <1>3
<1>4. ASSUME NEW s, Opened(loads', L, s, cont)
      PROVE  loads'[i].conts[j] = cont \/ (j \in 1..Len(L[i].conts) /\ loads'[i].conts[j] = L[i].conts[j])
  <2>1. CASE i = s
    <3>1. loads'[i].conts = <<cont>>
      BY <1>4, <2>1 DEF Opened
    <3>2. j = 1 /\ loads'[i].conts[j] = cont
      BY <3>1, One
    <3> QED BY <3>2
  <2>2. CASE i # s
    BY <1>4, <2>2 DEF Opened
  <2> QED BY <2>1, <2>2
<1> QED BY <1>1, <1>2, <1>3, <1>4

\* Nothing they carry is newer than the engine's verdict.
LEMMA EndedPast ==
  ASSUME Inv, NEW t \in Slots, NEW cont, NEW waits, EndedLoads(t, waits, cont), eng' = eng,
         cont.login.auth \in Past, LoadRecords', \A i \in Slots : loads'[i].auth \in {Unknown, loads[i].auth}
  PROVE  LoadsPast'
<1>1. Past' = Past /\ Unknown \in Past
  BY DEF Past, Inv, Bounds, Unknown
<1>2. LoadRecords
  BY DEF Inv, Records, LoadRecords, LoadFields
<1>3. ASSUME NEW i \in Slots, NEW j \in 1..Len(loads'[i].conts) PROVE loads'[i].conts[j].login.auth \in Past
  BY <1>2, EndedConts DEF Inv, Bounds
<1>4. \A i \in Slots : loads'[i].auth \in Past
  BY <1>1 DEF Inv, Bounds
<1> QED BY <1>1, <1>3, <1>4 DEF LoadsPast

\* A load follows the automatic sync only if it did, or if the one that ended
\* did and its callers now wait for it.
LEMMA EndedSynced ==
  ASSUME Inv, NEW t \in Slots, NEW cont, cont.k # "synced", NEW waits, EndedLoads(t, waits, cont), LoadRecords',
         NEW i \in Slots, Has(loads'[i].conts, "synced")
  PROVE  \/ i # t /\ Has(loads[i].conts, "synced")
         \/ i # t /\ waits /\ loads[i].latest /\ Has(loads[t].conts, "synced")
<1>1. LoadRecords
  BY DEF Inv, Records, LoadRecords, LoadFields
<1>2. DOMAIN loads'[i].conts = 1..Len(loads'[i].conts)
  BY DEF LoadRecords, Row
<1>3. \A u \in Slots : DOMAIN loads[u].conts = 1..Len(loads[u].conts)
  BY <1>1 DEF LoadRecords, Row
<1>4. PICK j \in 1..Len(loads'[i].conts) : loads'[i].conts[j].k = "synced"
  BY <1>2 DEF Has
<1>5. \/ loads'[i].conts[j] = cont
      \/ i # t /\ \E n \in 1..Len(loads[i].conts) : loads'[i].conts[j] = loads[i].conts[n]
      \/ i # t /\ waits /\ loads[i].latest /\ \E n \in 1..Len(loads[t].conts) : loads'[i].conts[j] = loads[t].conts[n]
  BY <1>1, EndedConts
<1> QED BY <1>3, <1>4, <1>5 DEF Has

\* The automatic sync after a load: begun, over, or as it was.
LEMMA AutoQueued ==
  ASSUME Inv, NEW t \in Slots, NEW conts, conts = <<>> \/ conts = loads[t].conts, NEW got,
         QueueAutoSync(got /\ SyncMayStart(conts), Has(conts, "synced"))
  PROVE  /\ DOMAIN auto' = {"st", "left"}
         /\ \/ auto' = auto /\ ~ Has(conts, "synced")
            \/ auto'.st \in {"asking", "off"} /\ Has(conts, "synced") /\ auto.st = "loading"
            \/ auto'.st = "asking" /\ auto.st = "off"
<1>1. auto.st = "loading" \/ ~ Has(conts, "synced")
  <2>1. ~ Has(<<>>, "synced")
    BY DEF Has
  <2> QED BY <2>1 DEF Inv, AutoTold
<1>2. SyncMayStart(conts) => auto.st = "off" \/ Has(conts, "synced")
  <2> HAVE SyncMayStart(conts)
  <2>1. PICK i \in DOMAIN conts : auto.st = "off" \/ \E j \in 1..(i - 1) : conts[j].k = "synced"
    BY DEF SyncMayStart
  <2>2. Row(conts)
    BY Empty DEF Inv, Records
  <2>3. Len(conts) \in Nat /\ DOMAIN conts = 1..Len(conts)
    BY <2>2 DEF Row
  <2>4. \A j \in 1..(i - 1) : j \in DOMAIN conts
    BY <2>3
  <2> QED BY <2>1, <2>4 DEF Has
<1>3. \A n : Started(n).st = "asking" /\ DOMAIN Started(n) = {"st", "left"}
  BY DEF Started
<1>4. NoSync.st = "off" /\ DOMAIN NoSync = {"st", "left"}
  BY DEF NoSync
<1>5. CASE got /\ SyncMayStart(conts) /\ \E n \in 1..MaxStale : auto' = Started(n)
  BY <1>1, <1>2, <1>3, <1>5
<1>6. CASE auto' = IF Has(conts, "synced") THEN NoSync ELSE auto
  BY <1>1, <1>4, <1>6 DEF Inv, Records
<1> QED BY <1>5, <1>6 DEF QueueAutoSync

\* What is shown when a load arrives, before its callers are told.
LEMMA AppliedOf ==
  ASSUME Inv, NEW m
  PROVE  LET r == Applied(m)
         IN  /\ DOMAIN r = WinFields /\ r.at = m.rev /\ r.cur = m.cur /\ r.run = m.run /\ r.cfg = ShownInterval(m)
             /\ r.login = Merged(win.login, m.login) /\ r.told = m.login /\ r.ahead = FALSE /\ r.auth \in {win.auth, m.auth}
             /\ r.patch = win.patch /\ r.saved = win.saved /\ r.chosen = win.chosen
<1> DEFINE w == ShowAuth(win, m.auth)
<1>1. /\ DOMAIN w = WinFields /\ w.auth \in {win.auth, m.auth}
      /\ w.patch = win.patch /\ w.saved = win.saved /\ w.chosen = win.chosen
  BY ShowAuthOf DEF Inv, Records
<1> HIDE DEF w
<1> DEFINE r == [w EXCEPT !.at = m.rev, !.cur = m.cur, !.run = m.run, !.cfg = ShownInterval(m),
                          !.login = Merged(win.login, m.login), !.told = m.login, !.ahead = FALSE]
<1>2. Applied(m) = r
  BY DEF Applied, w
<1>3. /\ DOMAIN r = WinFields /\ r.at = m.rev /\ r.cur = m.cur /\ r.run = m.run /\ r.cfg = ShownInterval(m)
      /\ r.login = Merged(win.login, m.login) /\ r.told = m.login /\ r.ahead = FALSE /\ r.auth = w.auth
      /\ r.patch = w.patch /\ r.saved = w.saved /\ r.chosen = w.chosen
  BY <1>1 DEF WinFields
<1> HIDE DEF r
<1> QED BY <1>1, <1>2, <1>3

\* The status messages of the calls that waited for the load.
LEMMA StatusesAsked ==
  ASSUME Inv, NEW k, Told(k), NEW conts, Row(conts), NEW same, NEW l,
         wire' = Disposed(Tail(wire), l) \o AsksStatus(conts, same)
  PROVE  \E N : /\ Carries(wire', wire, N, 1)
                /\ \A m \in N : m.k = "status" /\ m.for \in {"add", "adderr"} /\ m.login = eng.login
                /\ Len(conts) = 0 => N = {}
                /\ ~ Pending(l) => \A i \in 1..Len(wire') : ~ IsPoll(wire'[i])
<1> DEFINE q == Disposed(Tail(wire), l)
           r == AsksStatus(conts, same)
           N == {r[i] : i \in 1..Len(r)}
<1>1. /\ Row(r) /\ \A i \in 1..Len(r) : r[i] \in {Status("add", eng.login), Status("adderr", eng.login)}
      /\ Len(conts) = 0 => Len(r) = 0
  BY AsksStatusOf
<1>2. Carries(Tail(wire), wire, {}, 1) /\ Row(wire) /\ wire # <<>>
  BY TakenFirst DEF Told, Inv, OnTheWay
<1>3. Row(Tail(wire))
  BY <1>2 DEF Carries
<1>4. /\ Carries(q, Tail(wire), {}, 0)
      /\ ~ Pending(l) => \A i \in 1..Len(q) : ~ IsPoll(q[i])
  BY <1>3, DisposedOf
<1>5. Carries(q, wire, {}, 1) /\ wire' = q \o r
  BY <1>2, <1>4, CarriesPopped
<1> HIDE DEF q, r
<1>6. \A m \in N : m.k = "status" /\ m.for \in {"add", "adderr"} /\ m.login = eng.login
  BY <1>1 DEF Status
<1>7. \A i \in 1..Len(r) : r[i] \in N
  OBVIOUS
<1>8. Len(conts) = 0 => N = {}
  BY <1>1
<1> HIDE DEF N
<1>9. \A i, j \in 1..Len(r) : i < j => ~ Clash(r[i], r[j])
  BY <1>6, <1>7 DEF Clash, Manual, Loaded
<1>10. Carries(wire', wire, N, 1) /\ Carries(wire', q, N, 0)
  <2>1. Carries(q, q, {}, 0)
    BY <1>4, CarriesSame DEF Carries
  <2> QED BY <1>1, <1>5, <1>7, <1>9, <2>1, CarriesMore
<1>11. ASSUME ~ Pending(l), NEW i \in 1..Len(wire') PROVE ~ IsPoll(wire'[i])
  <2>1. wire'[i] \in N \/ \E j \in 1..Len(q) : wire'[i] = q[j]
    <3>1. Carries(wire', q, N, 0) /\ 0 \in {0, 1}
      BY <1>10
    <3> DEFINE v == wire'
    <3>2. Carries(v, q, N, 0) /\ i \in 1..Len(v)
      BY <3>1
    <3> HIDE DEF v
    <3>3. v[i] \in N \/ \E j \in (0 + 1)..Len(q) : j \in 1..Len(q) /\ v[i] = q[j]
      BY <3>1, <3>2, ComesFrom
    <3> QED BY <3>3 DEF v
  <2>2. \A m \in N : ~ IsPoll(m)
    BY <1>6 DEF IsPoll
  <2> QED BY <1>4, <1>11, <2>1, <2>2
<1> QED BY <1>6, <1>8, <1>10, <1>11

\* The parts that do not depend on who waited for the load.
LEMMA EndsAlike ==
  ASSUME Inv, NEW t \in Slots, loads[t].st = "sent", NEW cont, cont.login.auth \in Past,
         NEW waits, EndedLoads(t, waits, cont),
         \A i \in Slots \ {t} : loads'[i].latest => done' = "none",
         \A i \in Slots : loads'[i].auth \in {Unknown, loads[i].auth},
         wire # <<>>, Loaded(wire[1]), wire[1].s = t,
         NEW N, Carries(wire', wire, N, 1),
         \A m \in N : m.k = "status" /\ m.for \in {"add", "adderr"} /\ m.login = eng.login,
         UNCHANGED <<eng, job, saves>>, DOMAIN auto' = {"st", "left"},
         DOMAIN win' = WinFields, win'.auth \in Past, win'.told.auth \in Past, win'.at \in 0..eng.rev, win'.chosen = win.chosen, win'.saved = win.saved,
         win'.cfg = win.cfg \/ (saves = <<>> /\ ~ win.saved), LoginShown
  PROVE  /\ Records' /\ LoadsFine' /\ OnTheWay' /\ Answered' /\ SavesQueued' /\ PendingTold' /\ Bounds' /\ JobTold'
         /\ Counted' /\ Seen' /\ SwitchFine' /\ KeptOnWay(1)
<1>1. Row(wire) /\ Len(wire) \in Nat /\ 1 \in 1..Len(wire)
  BY Popped DEF Inv, OnTheWay
<1>2. /\ LoadRecords' /\ LoadsFine' /\ KeptOnWay(1)
      /\ \A i \in Slots : loads'[i].st = "sent" => i # t /\ loads[i].st = "sent"
  BY <1>1, EndedShape
<1>3. Past' = Past
  BY DEF Past
<1>4. \A m \in N : /\ ~ Loaded(m) /\ ~ IsPoll(m) /\ ~ Manual(m) /\ m.k \notin {"saved", "snapshot", "job", "auto"}
                   /\ Tells(m) = eng.login.auth
                   /\ \A n : ~ Clash(n, m)
  BY DEF Loaded, IsPoll, Manual, Tells, Clash
<1>5. OnTheWay'
  BY <1>2, <1>4, KeepsOnTheWay DEF Inv
<1>6. Answered'
  <2>1. ASSUME NEW u \in Slots, loads'[u].st = "sent"
        PROVE  \E i \in 1..Len(wire') : Loaded(wire'[i]) /\ wire'[i].s = u
    <3>1. u # t /\ loads[u].st = "sent"
      BY <1>2, <2>1
    <3>2. PICK j \in 1..Len(wire) : Loaded(wire[j]) /\ wire[j].s = u
      BY <3>1 DEF Inv, Answered
    <3>3. ~ IsPoll(wire[j]) /\ j \in (1 + 1)..Len(wire)
      BY <1>1, <3>1, <3>2 DEF Loaded, IsPoll
    <3>4. 1 \in {0, 1}
      OBVIOUS
    <3> QED BY <3>2, <3>3, <3>4, ComesFrom
  <2> QED BY <2>1 DEF Answered
<1>7. SavesQueued'
  BY <1>2, <1>4, KeepsSaves DEF Inv
<1>8. PendingTold'
  BY <1>2, <1>4, KeepsPending DEF Inv, LoginShown
<1>9. Bounds'
  <2>1. LoadsPast'
    BY <1>2, EndedPast
  <2> QED BY <1>3, <1>4, <2>1, KeepsBounds DEF Inv, Bounds, LoadsPast, Past
<1>10. JobTold'
  BY <1>4, KeepsJob DEF Inv, JobTold
<1>11. Counted'
  BY DEF Inv, Truth, Counted
<1>12. Records'
  BY <1>2 DEF Inv, Records, LoadRecords, LoadFields
<1>13. Seen'
  <2>1. Seen /\ Counted /\ eng.rev <= eng'.rev /\ win'.at \in 0..eng'.rev /\ 1 \in {0, 1}
    BY DEF Inv, Truth, Counted
  <2> QED BY <1>4, <1>11, <2>1, KeepsSeen
<1>14. SwitchFine'
  BY <1>3 DEF Inv, SwitchFine, Mine
<1> QED BY <1>13, <1>14, <1>2, <1>5, <1>6, <1>7, <1>8, <1>9, <1>10, <1>11, <1>12

\* How the loads stand once one has ended, and another has begun if its caller asked again.
LEMMA EndedStands ==
  ASSUME Inv, NEW t \in Slots, loads[t].st = "sent", NEW good \in BOOLEAN, good => loads[t].cur,
         NEW again \in BOOLEAN, again => ~ Waits(t, good), NEW ending,
         loads' = IF again THEN Begun(Settled(t, good), Then("show")) ELSE Settled(t, good),
         done' = IF again THEN "none" ELSE IF loads[t].latest THEN ending ELSE done
  PROVE  /\ EndedLoads(t, Waits(t, good), Then("show"))
         /\ \A i \in Slots \ {t} : loads'[i].latest => done' = "none"
         /\ \A i \in Slots : loads'[i].auth \in {Unknown, loads[i].auth}
         /\ again => Asked'
         /\ ~ again /\ ~ Waits(t, good) => \A i \in Slots : ~ loads'[i].cur
         /\ Waits(t, good) => /\ done' = done /\ done = "none" /\ ~ loads[t].cur /\ ~ loads'[t].cur
                              /\ \A i \in Slots \ {t} : /\ loads'[i].cur = loads[i].cur
                                                        /\ loads'[i].st = loads[i].st
                                                        /\ loads'[i].auth = loads[i].auth
<1> DEFINE L == Settled(t, good)
           w == Waits(t, good)
<1>1. LoadRecords
  BY DEF Inv, Records, LoadRecords, LoadFields
<1>2. Ended1(L, t, w)
  BY <1>1, SettledOf
<1>3. w => ~ good /\ ~ loads[t].latest /\ done = "none"
  BY DEF Waits
<1>4. /\ loads[t].cur => loads[t].latest
      /\ \A i \in Slots : /\ loads[i].cur => loads[i].latest
                          /\ loads[i].latest => done = "none" /\ loads[i].st # "free"
                          /\ loads[i].latest /\ loads[t].latest => i = t
  BY DEF Inv, LoadsFine
<1>5. ~ w => \A i \in Slots \ {t} : ~ loads[i].latest /\ ~ loads[i].cur
  BY <1>4 DEF Waits
<1> HIDE DEF L, w
<1>6. CASE again
  <2>1. \A i \in Slots : DOMAIN L[i] = LoadFields /\ Row(L[i].conts)
    BY <1>2 DEF Ended1
  <2>2. t \in FreeSlots(L)
    BY <1>2 DEF Ended1, FreeSlots
  <2> DEFINE c == Then("show")
  <2> HIDE DEF c
  <2>3. PICK s : Opened(Begun(L, c), L, s, c)
    BY <2>1, <2>2, BegunOf
  <2>4. Opened(loads', L, s, c) /\ done' = "none" /\ ~ w
    BY <1>6, <2>3 DEF L, c, w
  <2>5. EndedLoads(t, w, c)
    BY <1>2, <2>4 DEF EndedLoads
  <2>6. Asked'
    BY <2>4 DEF Opened, Asked
  <2>7. \A i \in Slots : loads'[i].auth \in {Unknown, loads[i].auth}
    BY <1>2, <2>4 DEF Opened, Ended1
  <2> QED BY <1>6, <2>4, <2>5, <2>6, <2>7 DEF c, w
<1>7. CASE ~ again
  <2>1. loads' = L /\ done' = IF loads[t].latest THEN ending ELSE done
    BY <1>7 DEF L
  <2>2. EndedLoads(t, w, Then("show"))
    BY <1>2, <2>1 DEF EndedLoads
  <2>3. ~ loads'[t].cur /\ ~ loads'[t].latest /\ loads'[t].auth = Unknown
    BY <1>2, <2>1 DEF Ended1
  <2>4. \A i \in Slots \ {t} : /\ loads'[i].cur = loads[i].cur /\ loads'[i].latest = loads[i].latest
                               /\ loads'[i].st = loads[i].st /\ loads'[i].auth = loads[i].auth
    BY <1>2, <2>1 DEF Ended1
  <2>5. ASSUME NEW i \in Slots \ {t}, loads'[i].latest PROVE done' = "none"
    BY <1>4, <2>1, <2>4, <2>5
  <2>6. \A i \in Slots : loads'[i].auth \in {Unknown, loads[i].auth}
    BY <2>3, <2>4
  <2>7. ~ w => \A i \in Slots : ~ loads'[i].cur
    BY <1>5, <2>3, <2>4
  <2>8. w => done' = done /\ done = "none" /\ ~ loads[t].cur
    BY <1>3, <1>4, <2>1
  <2> QED BY <1>7, <2>2, <2>3, <2>4, <2>5, <2>6, <2>7, <2>8 DEF w
<1> QED BY <1>6, <1>7

\* What is shown once a load has ended and its callers were told.
LEMMA EndsShown ==
  ASSUME Inv, NEW t \in Slots, wire # <<>>, Loaded(wire[1]), wire[1].s = t,
         NEW good \in BOOLEAN, good => wire[1].k = "snapshot" /\ loads[t].cur,
         NEW conts, conts = <<>> \/ conts = loads[t].conts, NEW got, NEW same,
         win' = ReportAll(IF good THEN Applied(wire[1]) ELSE win, conts, got, same)
  PROVE  /\ DOMAIN win' = WinFields /\ win'.auth \in Past /\ win'.told.auth \in Past /\ win'.at \in 0..eng.rev
         /\ win'.chosen = win.chosen /\ win'.saved = win.saved /\ win'.patch = win.patch
         /\ win'.cfg = win.cfg \/ (saves = <<>> /\ ~ win.saved)
         /\ win'.login = IF good THEN Merged(win.login, wire[1].login) ELSE win.login
         /\ ~ good => /\ win'.at = win.at /\ win'.run = win.run /\ win'.cfg = win.cfg
                      /\ win.ahead => win'.ahead
                      /\ win'.ahead \/ win'.cur = win.cur
         /\ good => /\ win'.at = wire[1].rev /\ win'.run = wire[1].run
                    /\ saves = <<>> => win'.cfg = wire[1].cfg
                    /\ win'.ahead \/ win'.cur = wire[1].cur
         /\ ~ good /\ conts = <<>> => win'.auth = win.auth
<1> DEFINE m == wire[1]
           shown == IF good THEN Applied(m) ELSE win
           A == UNION {{conts[i].login.auth, shown.told.auth, Unknown} : i \in 1..Len(conts)}
<1>1. Len(wire) \in Nat /\ 1 \in 1..Len(wire)
  BY Popped DEF Inv, OnTheWay
<1>2. good => m.k = "snapshot" /\ m.auth \in Past /\ m.login.auth \in Past /\ m.rev \in 0..eng.rev
  BY <1>1 DEF Inv, Bounds, Tells, Truth, Seen
<1>3. /\ DOMAIN shown = WinFields /\ shown.auth \in Past /\ shown.told.auth \in Past /\ shown.at \in 0..eng.rev
      /\ shown.patch = win.patch /\ shown.saved = win.saved /\ shown.chosen = win.chosen
      /\ ~ good => shown = win
      /\ good => /\ shown.at = m.rev /\ shown.cur = m.cur /\ shown.run = m.run /\ shown.cfg = ShownInterval(m)
                 /\ shown.login = Merged(win.login, m.login)
  <2>1. CASE good
    <3> DEFINE r == Applied(m)
    <3>1. /\ DOMAIN r = WinFields /\ r.at = m.rev /\ r.cur = m.cur /\ r.run = m.run /\ r.cfg = ShownInterval(m)
          /\ r.login = Merged(win.login, m.login) /\ r.told = m.login /\ r.auth \in {win.auth, m.auth}
          /\ r.patch = win.patch /\ r.saved = win.saved /\ r.chosen = win.chosen
      BY AppliedOf
    <3>2. shown = r
      BY <2>1
    <3> HIDE DEF r, shown
    <3> QED BY <1>2, <2>1, <3>1, <3>2 DEF Inv, Bounds
  <2>2. CASE ~ good
    BY <2>2 DEF Inv, Records, Bounds, Truth, Seen
  <2> QED BY <2>1, <2>2
<1>4. Row(conts)
  BY Empty DEF Inv, Records
<1>5. Len(conts) \in Nat
  BY <1>4, RowLength
<1>6. Reported(win', shown, A)
  <2> DEFINE v == shown
             B == UNION {{conts[i].login.auth, v.told.auth, Unknown} : i \in 1..Len(conts)}
  <2>1. DOMAIN v = WinFields /\ win' = ReportAll(v, conts, got, same) /\ A = B
    BY <1>3
  <2> HIDE DEF v, A
  <2>2. Reported(win', v, B)
    BY <1>5, <2>1, ReportAllOf
  <2> QED BY <2>1, <2>2 DEF v
<1>7. A \subseteq Past
  <2>1. ASSUME NEW i \in 1..Len(conts) PROVE conts[i].login.auth \in Past
    BY Empty DEF Inv, Bounds
  <2> DEFINE u == shown.told.auth
             P == Past
  <2>3. u \in P /\ Unknown \in P /\ \A i \in 1..Len(conts) : conts[i].login.auth \in P
    <3>1. Unknown \in Past
      BY DEF Inv, Bounds, Past, Unknown
    <3> QED BY <1>3, <2>1, <3>1
  <2>4. A = UNION {{conts[i].login.auth, u, Unknown} : i \in 1..Len(conts)}
    OBVIOUS
  <2> HIDE DEF A, u, P
  <2>5. \A x \in A : x \in P
    BY <2>3, <2>4, Zenon
  <2> QED BY <2>5 DEF P
<1>8. conts = <<>> => A = {}
  BY Empty
<1> HIDE DEF A, shown
<1>9. /\ DOMAIN win' = WinFields /\ win'.auth \in A \cup {shown.auth}
      /\ win'.login = shown.login /\ win'.patch = shown.patch /\ win'.saved = shown.saved
      /\ win'.at = shown.at /\ win'.told = shown.told /\ win'.run = shown.run /\ win'.cfg = shown.cfg /\ win'.chosen = shown.chosen
      /\ shown.ahead => win'.ahead
      /\ win'.ahead \/ win'.cur = shown.cur
  BY <1>6 DEF Reported
\* The interval shown is the one chosen, which a snapshot about to be shown has too.
<1>10. win'.cfg = win.cfg \/ (saves = <<>> /\ ~ win.saved)
  <2>1. CASE ~ good
    BY <1>3, <1>9, <2>1
  <2>2. CASE good /\ saves # <<>>
    BY <1>3, <1>9, <2>2 DEF ShownInterval, SaveInFlight
  <2>3. CASE good /\ saves = <<>> /\ win.saved
    <3>1. Shows(m, loads)
      BY <2>3 DEF Shows
    <3>2. m.cfg = win.chosen /\ win.cfg = win.chosen
      BY <1>1, <2>3, <3>1 DEF Inv, SavesQueued
    <3> QED BY <1>3, <1>9, <2>3, <3>2 DEF ShownInterval, SaveInFlight
  <2> QED BY <2>1, <2>2, <2>3
<1>11. good /\ saves = <<>> => win'.cfg = m.cfg
  BY <1>3, <1>9 DEF ShownInterval, SaveInFlight
<1> QED BY <1>3, <1>7, <1>8, <1>9, <1>10, <1>11

\* The automatic sync is told of as before.
LEMMA EndsAuto ==
  ASSUME Inv, NEW t \in Slots, NEW waits, EndedLoads(t, waits, Then("show")), LoadRecords',
         NEW conts, conts = IF waits THEN <<>> ELSE loads[t].conts,
         NEW got, QueueAutoSync(got /\ SyncMayStart(conts), Has(conts, "synced")),
         NEW N, Carries(wire', wire, N, 1), \A m \in N : m.k # "auto"
  PROVE  AutoTold'
<1>1. \/ auto' = auto /\ ~ Has(conts, "synced")
      \/ auto'.st \in {"asking", "off"} /\ Has(conts, "synced") /\ auto.st = "loading"
      \/ auto'.st = "asking" /\ auto.st = "off"
  <2>1. conts = <<>> \/ conts = loads[t].conts
    OBVIOUS
  <2> QED BY <2>1, AutoQueued
<1>2. /\ \A i \in 1..Len(wire) : wire[i].k = "auto" => auto.st = "answered"
      /\ \A s \in Slots : Has(loads[s].conts, "synced") => auto.st = "loading"
      /\ \A s, u \in Slots : Has(loads[s].conts, "synced") /\ Has(loads[u].conts, "synced") => s = u
  BY DEF Inv, AutoTold
<1>3. \A s \in Slots : Has(loads'[s].conts, "synced") =>
        \/ s # t /\ Has(loads[s].conts, "synced")
        \/ s # t /\ waits /\ loads[s].latest /\ Has(loads[t].conts, "synced")
  <2>1. Then("show").k # "synced"
    BY DEF Then
  <2> DEFINE c == Then("show")
  <2> HIDE DEF c
  <2>2. c.k # "synced" /\ EndedLoads(t, waits, c)
    BY <2>1 DEF c
  <2> QED BY <2>2, EndedSynced
<1>4. ASSUME NEW i \in 1..Len(wire'), wire'[i].k = "auto" PROVE auto'.st = "answered"
  <2>1. 1 \in {0, 1}
    OBVIOUS
  <2>2. OnWire("auto")'
    BY <1>4 DEF OnWire
  <2>3. OnWire("auto") \/ \E m \in N : m.k = "auto"
    BY <2>1, <2>2, ComesOnWire
  <2> QED BY <1>1, <1>2, <2>3 DEF OnWire
<1>5. ~ Has(<<>>, "synced")
  BY DEF Has
<1>6. ASSUME NEW s \in Slots, Has(loads'[s].conts, "synced") PROVE auto'.st = "loading"
  BY <1>1, <1>2, <1>3, <1>5, <1>6
<1>7. ASSUME NEW s \in Slots, NEW u \in Slots, Has(loads'[s].conts, "synced"), Has(loads'[u].conts, "synced")
      PROVE  s = u
  <2>1. \A i, j \in Slots : loads[i].latest /\ loads[j].latest => i = j
    BY DEF Inv, LoadsFine
  <2> QED BY <1>2, <1>3, <1>7, <2>1
<1> QED BY <1>4, <1>6, <1>7 DEF AutoTold

\* A load arrives, whole or broken: it is shown or dropped, and its callers go
\* on.
LEMMA LoadArrivesKeeps == ASSUME Inv, LoadArrives PROVE Inv'
<1> DEFINE m == wire[1]
           t == m.s
           good == m.k = "snapshot" /\ loads[t].cur
           waits == Waits(t, good)
           conts == Woken(t, good)
           got == Result(t, good)
           shown == IF good THEN Applied(m) ELSE win
           again == got /\ Has(conts, "first")
           c == Then("show")
<1>1. PICK k : k \in {"snapshot", "broken"} /\ Told(k)
  BY DEF LoadArrives
<1>2. Row(wire) /\ wire # <<>> /\ Len(wire) \in Nat /\ 1 \in 1..Len(wire) /\ m = Msg /\ Loaded(m)
  BY <1>1, TakenFirst DEF Told, Loaded, Inv, OnTheWay
<1>3. LoadEnds(m, good)
  BY <1>2 DEF LoadArrives, IsCurrent
<1>4. PICK same \in BOOLEAN : /\ win' = ReportAll(shown, conts, got, same)
                            /\ wire' = Disposed(Tail(wire), shown.login) \o AsksStatus(conts, same)
  BY <1>3 DEF LoadEnds
<1>5. /\ loads' = IF again THEN Begun(Settled(t, good), c) ELSE Settled(t, good)
      /\ done' = IF again THEN "none" ELSE IF loads[t].latest THEN Ending(m, good) ELSE done
      /\ QueueAutoSync(got /\ SyncMayStart(conts), Has(conts, "synced"))
      /\ UNCHANGED <<eng, op, job, saves>>
  BY <1>3 DEF LoadEnds
<1>6. t \in Slots /\ loads[t].st = "sent"
  BY <1>2 DEF Inv, OnTheWay
<1>7. /\ conts = IF waits THEN <<>> ELSE loads[t].conts
      /\ waits => ~ good
      /\ good \in BOOLEAN /\ again \in BOOLEAN
      /\ again => ~ waits
  BY DEF Woken, Waits, Has
<1>8. good => m.k = "snapshot" /\ loads[t].cur
  OBVIOUS
<1>9. m.k = "snapshot" /\ loads[t].cur => good
  OBVIOUS
<1>10. ~ good => Ending(m, good) = IF m.k = "broken" /\ loads[t].cur THEN "broken" ELSE "dropped"
  BY DEF Ending, IsCurrent
<1>11. /\ EndedLoads(t, waits, c)
       /\ \A i \in Slots \ {t} : loads'[i].latest => done' = "none"
       /\ \A i \in Slots : loads'[i].auth \in {Unknown, loads[i].auth}
       /\ again => Asked'
       /\ ~ again /\ ~ waits => \A i \in Slots : ~ loads'[i].cur
       /\ waits => /\ done' = done /\ done = "none" /\ ~ loads[t].cur /\ ~ loads'[t].cur
                   /\ \A i \in Slots \ {t} : /\ loads'[i].cur = loads[i].cur
                                             /\ loads'[i].st = loads[i].st
                                             /\ loads'[i].auth = loads[i].auth
  <2> DEFINE ending == Ending(m, good)
             T == t
  <2> HIDE DEF ending, good, got, conts, again, T
  <2>1. T \in Slots /\ loads[T].st = "sent" /\ good \in BOOLEAN /\ (good => loads[T].cur)
        /\ again \in BOOLEAN /\ (again => ~ Waits(T, good))
        /\ loads' = (IF again THEN Begun(Settled(T, good), Then("show")) ELSE Settled(T, good))
        /\ done' = IF again THEN "none" ELSE IF loads[T].latest THEN ending ELSE done
    BY <1>5, <1>6, <1>7, <1>8 DEF ending, T
  <2>2. /\ EndedLoads(T, Waits(T, good), Then("show"))
        /\ \A i \in Slots \ {T} : loads'[i].latest => done' = "none"
        /\ \A i \in Slots : loads'[i].auth \in {Unknown, loads[i].auth}
        /\ again => Asked'
        /\ ~ again /\ ~ Waits(T, good) => \A i \in Slots : ~ loads'[i].cur
        /\ Waits(T, good) => /\ done' = done /\ done = "none" /\ ~ loads[T].cur /\ ~ loads'[T].cur
                             /\ \A i \in Slots \ {T} : /\ loads'[i].cur = loads[i].cur
                                                       /\ loads'[i].st = loads[i].st
                                                       /\ loads'[i].auth = loads[i].auth
    BY <2>1, EndedStands
  <2> QED BY <2>2 DEF T
<1>12. /\ DOMAIN win' = WinFields /\ win'.auth \in Past /\ win'.told.auth \in Past /\ win'.at \in 0..eng.rev
       /\ win'.chosen = win.chosen /\ win'.saved = win.saved /\ win'.patch = win.patch
       /\ win'.cfg = win.cfg \/ (saves = <<>> /\ ~ win.saved)
       /\ win'.login = IF good THEN Merged(win.login, m.login) ELSE win.login
       /\ ~ good => /\ win'.at = win.at /\ win'.run = win.run /\ win'.cfg = win.cfg
                    /\ win.ahead => win'.ahead
                    /\ win'.ahead \/ win'.cur = win.cur
       /\ good => /\ win'.at = m.rev /\ win'.run = m.run
                  /\ saves = <<>> => win'.cfg = m.cfg
                  /\ win'.ahead \/ win'.cur = m.cur
       /\ ~ good /\ conts = <<>> => win'.auth = win.auth
  <2> DEFINE T == t
  <2>1. /\ T \in Slots /\ m.s = T /\ good \in BOOLEAN /\ (good => m.k = "snapshot" /\ loads[T].cur)
        /\ conts = <<>> \/ conts = loads[T].conts
    BY <1>6, <1>7, <1>8
  <2> HIDE DEF conts, good, got, T
  <2> QED BY <1>2, <1>4, <2>1, EndsShown
<1>13. shown.login = win'.login
  BY <1>12, AppliedOf
<1>14. Row(conts)
  BY <1>7, <1>6, Empty DEF Inv, Records
<1>15. PICK N : /\ Carries(wire', wire, N, 1)
                /\ \A n \in N : n.k = "status" /\ n.for \in {"add", "adderr"} /\ n.login = eng.login
                /\ Len(conts) = 0 => N = {}
                /\ ~ Pending(shown.login) => \A i \in 1..Len(wire') : ~ IsPoll(wire'[i])
  <2> DEFINE l == shown.login
             w == wire'
  <2>1. w = Disposed(Tail(wire), l) \o AsksStatus(conts, same)
    BY <1>4
  <2> HIDE DEF conts, l, shown
  <2>2. wire' = Disposed(Tail(wire), l) \o AsksStatus(conts, same)
    BY <2>1
  <2>3. \E N : /\ Carries(wire', wire, N, 1)
               /\ \A n \in N : n.k = "status" /\ n.for \in {"add", "adderr"} /\ n.login = eng.login
               /\ Len(conts) = 0 => N = {}
               /\ ~ Pending(l) => \A i \in 1..Len(wire') : ~ IsPoll(wire'[i])
    BY <1>1, <1>14, <2>2, StatusesAsked
  <2> QED BY <2>3 DEF l
<1>16. LoginShown
  BY <1>13, <1>15 DEF LoginShown
<1>17. c.login.auth \in Past /\ c.k # "synced"
  BY ThenOf DEF Then
<1> HIDE DEF good, conts, got, shown, again, waits, m, t, c
<1>18. /\ wire # <<>> /\ Loaded(wire[1]) /\ wire[1].s = t
  BY <1>2 DEF m, t
<1>19. QueueAutoSync(got /\ SyncMayStart(conts), Has(conts, "synced"))
  BY <1>5
<1>20. /\ DOMAIN auto' = {"st", "left"}
       /\ \/ auto' = auto
          \/ auto.st \notin {"asking", "answered"}
  <2>1. conts = <<>> \/ conts = loads[t].conts
    BY <1>7
  <2> QED BY <1>6, <1>19, <2>1, AutoQueued
<1>21. /\ Records' /\ LoadsFine' /\ OnTheWay' /\ Answered' /\ SavesQueued' /\ PendingTold' /\ Bounds' /\ JobTold'
       /\ Counted' /\ Seen' /\ SwitchFine' /\ KeptOnWay(1)
  BY <1>5, <1>6, <1>11, <1>12, <1>15, <1>16, <1>17, <1>18, <1>20, EndsAlike
<1>22. AutoTold'
  <2>1. LoadRecords'
    BY <1>21 DEF Records, LoadRecords, LoadFields
  <2>2. \A n \in N : n.k # "auto"
    BY <1>15
  <2>3. EndedLoads(t, waits, Then("show"))
    BY <1>11 DEF c
  <2> QED BY <1>6, <1>7, <1>15, <1>19, <2>1, <2>2, <2>3, EndsAuto
<1>23. Verdicts'
  <2>1. CASE waits
    <3>1. N = {} /\ win'.auth = win.auth
      BY <1>7, <1>12, <1>15, <2>1, Empty
    <3>2. ASSUME NEW s \in Slots, Judged(s)'
          PROVE  /\ Judged(s) /\ loads'[s].auth = loads[s].auth
                 /\ loads'[s].st = "inspected" => loads[s].st = "inspected"
      BY <1>11, <2>1, <3>2 DEF Judged
    <3>3. JudgedBefore
      BY <3>2 DEF JudgedBefore
    <3>4. ShownIsNoNewer'
      BY <1>5, <3>1, <3>2 DEF ShownIsNoNewer, Inv, Verdicts
    <3>5. wire[1].k # "added" /\ 1 \in {0, 1}
      BY <1>18 DEF Loaded
    <3>6. eng'.login.auth <= eng.login.auth
      BY <1>5 DEF Inv, Bounds, Past
    <3> QED BY <1>5, <1>15, <1>21, <3>1, <3>3, <3>4, <3>5, <3>6, KeepsVerdicts DEF Inv
  <2>2. CASE ~ waits
    <3>1. \A s \in Slots : ~ Judged(s)'
      BY <1>11, <1>21, <2>2 DEF Judged, Asked, LoadsFine
    <3>2. \A n \in N : n.k # "cancelled"
      BY <1>15
    <3>3. 1 \in {0, 1}
      OBVIOUS
    <3> QED BY <1>5, <1>15, <3>1, <3>2, <3>3, VerdictsReset DEF Inv, Verdicts
  <2> QED BY <2>1, <2>2
<1>24. Truth'
  <2>1. CASE again
    BY <1>11, <1>21, <2>1, AskedIsTrue
  <2>2. CASE ~ again
    <3>1. Owed => Owed'
      <4>1. ~ Makes(wire[1]) /\ 1 \in {0, 1}
        BY <1>18 DEF Makes, Loaded
      <4> HAVE Owed
      <4> QED BY <1>5, <1>12, <1>15, <1>20, <4>1, KeepsOwed
    <3>2. good => Shown' \/ Owed'
      <4> SUFFICES ASSUME good, ~ Owed' PROVE Shown'
        OBVIOUS
      <4>1. Shows(m, loads)
        BY DEF good, m, t, Shows
      <4>2. Fresh(m, eng)
        BY <1>2, <3>1, <4>1 DEF m, Inv, Truth, FreshOrOwed
      <4>3. saves = <<>>
        BY <1>5 DEF Owed
      <4> QED BY <1>5, <1>12, <4>2, <4>3 DEF Fresh, Shown
    <3>3. Shown => Shown' \/ Owed'
      BY <1>5, <1>12, <3>2 DEF Shown
    <3>4. done = "broken" => done' = "broken"
      BY <1>5, <1>6, <2>2 DEF Inv, LoadsFine
    <3>5. ASSUME NEW s \in Slots, loads[s].cur
          PROVE  \/ \E i \in Slots : loads'[i].cur
                 \/ Owed' \/ Shown' \/ done' = "broken"
      <4>1. CASE waits
        BY <1>11, <3>5, <4>1
      <4>2. CASE good
        BY <3>2, <4>2
      <4>3. CASE ~ waits /\ ~ good
        <5>1. loads[s].latest /\ done = "none"
          BY <3>5 DEF Inv, LoadsFine
        <5>2. loads[t].latest
          BY <4>3, <5>1 DEF waits, Waits
        <5>3. s = t
          BY <1>6, <5>1, <5>2 DEF Inv, LoadsFine
        <5>4. m.k = "broken"
          BY <1>2, <1>9, <3>5, <4>3, <5>3 DEF Loaded
        <5>5. Ending(m, good) = "broken"
          BY <1>10, <3>5, <4>3, <5>3, <5>4
        <5> QED BY <1>5, <2>2, <5>2, <5>5
      <4> QED BY <4>1, <4>2, <4>3
    <3>6. (\A n \in N : n.k # "snapshot") /\ eng.rev <= eng'.rev /\ win'.at \in 0..eng'.rev /\ CurKept
      BY <1>5, <1>12, <1>15 DEF CurKept, Inv, Truth, Counted
    <3>7. 1 \in {0, 1}
      OBVIOUS
    <3> QED BY <1>5, <1>15, <1>21, <3>1, <3>3, <3>4, <3>5, <3>6, <3>7, KeepsTruth DEF Inv
  <2> QED BY <2>1, <2>2
<1> QED BY <1>21, <1>22, <1>23, <1>24 DEF Inv
-----------------------------------------------------------------------------
(* The start                                                               *)

\* The slots when no load is in flight.
LEMMA NoLoadsOf ==
  /\ DOMAIN NoLoads = Slots
  /\ \A s \in Slots : /\ DOMAIN NoLoads[s] = LoadFields /\ Row(NoLoads[s].conts)
                      /\ NoLoads[s].st = "free" /\ NoLoads[s].auth = Unknown
                      /\ NoLoads[s].cur = FALSE /\ NoLoads[s].latest = FALSE /\ NoLoads[s].conts = <<>>
<1>1. /\ DOMAIN NoLoads = Slots
      /\ \A s \in Slots : /\ DOMAIN NoLoads[s] = LoadFields
                          /\ NoLoads[s].st = "free" /\ NoLoads[s].auth = Unknown
                          /\ NoLoads[s].cur = FALSE /\ NoLoads[s].latest = FALSE /\ NoLoads[s].conts = <<>>
  BY DEF NoLoads, Free, LoadFields
<1> QED BY <1>1, Empty

\* The invariant holds at the start, whatever the start is.
LEMMA InitInv == Init => Inv
<1> SUFFICES ASSUME Init PROVE Inv
  OBVIOUS
<1> DEFINE settled == left.start \in {"settled", "open"}
           login == IF left.start \in {"restored", "open"} THEN Outcome("pending") ELSE NotAsked
           c == Then("first")
<1>1. /\ eng = [rev |-> 1, due |-> 1, cur |-> Current, cfg |-> Interval, auth |-> 1, pass |-> Unknown, run |-> TRUE, stale |-> FALSE,
                asked |-> FALSE, target |-> FALSE, login |-> login, hush |-> 0, tx |-> NoSwitch, chain |-> NoChain]
      /\ win = [login |-> IF settled THEN login ELSE NotAsked, told |-> NotAsked, report |-> NotAsked, patch |-> FALSE,
                ahead |-> FALSE, saved |-> FALSE, at |-> IF settled THEN 1 ELSE 0, run |-> settled, cur |-> IF settled THEN Current ELSE None,
                cfg |-> IF settled THEN Interval ELSE Default, chosen |-> Default,
                auth |-> IF settled THEN 1 ELSE Unknown]
      /\ loads = IF settled THEN NoLoads ELSE Begun(NoLoads, c)
      /\ done = IF settled THEN "good" ELSE "none"
      /\ job = NoJob /\ wire = <<>> /\ saves = <<>> /\ auto = NoSync
  BY DEF Init
<1>2. login.auth = Unknown
  BY DEF Outcome, NotAsked
<1>3. settled \in BOOLEAN
  OBVIOUS
<1> HIDE DEF settled, login
<1>4. /\ DOMAIN eng = Changes
      /\ eng.rev = 1 /\ eng.due = 1 /\ eng.auth = 1 /\ eng.pass = Unknown /\ eng.login = login
      /\ eng.cfg = Interval /\ eng.cur = Current /\ eng.run = TRUE /\ eng.asked = FALSE
      /\ eng.hush = 0 /\ eng.tx = NoSwitch /\ eng.chain = NoChain
  BY <1>1 DEF Changes
<1>5. /\ DOMAIN win = WinFields
      /\ win.saved = FALSE /\ win.told = NotAsked /\ win.at \in {0, 1} /\ win.auth = IF settled THEN 1 ELSE Unknown
      /\ settled => win.at = 1 /\ win.run = TRUE /\ win.cfg = Interval /\ win.cur = Current
  BY <1>1, <1>3 DEF WinFields
<1>6. /\ Row(wire) /\ Len(wire) = 0 /\ Row(saves) /\ saves = <<>>
  BY <1>1, Empty
<1>7. DOMAIN job = {"k", "todo"} /\ job.k = "no" /\ DOMAIN auto = {"st", "left"} /\ auto.st = "off"
  BY <1>1 DEF NoJob, NoSync
<1>8. \/ settled /\ loads = NoLoads /\ done = "good"
      \/ ~ settled /\ done = "none" /\ \E s : Opened(loads, NoLoads, s, c)
  <2>1. 1 \in FreeSlots(NoLoads)
    <3>1. 1 \in Slots
      BY ConstantsAssumption DEF Slots
    <3> QED BY <3>1, NoLoadsOf DEF FreeSlots
  <2> HIDE DEF c
  <2>2. \E s : Opened(Begun(NoLoads, c), NoLoads, s, c)
    BY <2>1, NoLoadsOf, BegunOf
  <2> QED BY <1>1, <1>3, <2>2
<1>9. /\ DOMAIN loads = Slots
      /\ \A s \in Slots : /\ DOMAIN loads[s] = LoadFields /\ Row(loads[s].conts)
                          /\ loads[s].st \in {"free", "asked"} /\ loads[s].auth = Unknown
                          /\ loads[s].cur = loads[s].latest
                          /\ loads[s].latest => done = "none" /\ loads[s].st = "asked"
                          /\ loads[s].st = "free" => loads[s].conts = <<>>
                          /\ loads[s].conts \in {<<>>, <<c>>}
      /\ \A s, t \in Slots : loads[s].latest /\ loads[t].latest => s = t
      /\ settled \/ \E s \in Slots : loads[s].cur
  <2> HIDE DEF c
  <2>1. CASE settled /\ loads = NoLoads /\ done = "good"
    BY <2>1, NoLoadsOf
  <2>2. ASSUME ~ settled, done = "none", NEW s \in Slots, Opened(loads, NoLoads, s, c)
        PROVE  /\ DOMAIN loads = Slots
               /\ \A i \in Slots : /\ DOMAIN loads[i] = LoadFields /\ Row(loads[i].conts)
                                   /\ loads[i].st \in {"free", "asked"} /\ loads[i].auth = Unknown
                                   /\ loads[i].cur = loads[i].latest
                                   /\ loads[i].latest => done = "none" /\ loads[i].st = "asked"
                                   /\ loads[i].st = "free" => loads[i].conts = <<>>
                                   /\ loads[i].conts \in {<<>>, <<c>>}
                                   /\ loads[i].latest => i = s
               /\ loads[s].cur
    BY <2>2, NoLoadsOf DEF Opened
  <2>3. \A s : Opened(loads, NoLoads, s, c) => s \in Slots
    BY DEF Opened
  <2> QED BY <1>8, <2>1, <2>2, <2>3
<1>16. \A q \in {<<>>, <<c>>} : /\ ~ Has(q, "synced")
                               /\ \A i \in 1..Len(q) : q[i].login.auth = Unknown
  <2>1. ~ Has(<<>>, "synced") /\ Len(<<>>) = 0
    BY DEF Has
  <2>2. c.k # "synced" /\ c.login.auth = Unknown
    BY DEF Then, NotAsked
  <2> HIDE DEF c
  <2>3. DOMAIN <<c>> = {1} /\ Len(<<c>>) = 1 /\ <<c>>[1] = c
    OBVIOUS
  <2>4. ~ Has(<<c>>, "synced") /\ \A i \in 1..Len(<<c>>) : <<c>>[i].login.auth = Unknown
    BY <2>2, <2>3 DEF Has
  <2> QED BY <2>1, <2>4
<1> HIDE DEF c
<1>10. Records
  BY <1>4, <1>5, <1>7, <1>9 DEF Records, LoadFields
<1>11. LoadsFine
  BY <1>9 DEF LoadsFine
<1>12. OnTheWay /\ Answered /\ SavesQueued /\ PendingTold /\ JobTold /\ AutoTold
  BY <1>5, <1>6, <1>7, <1>9, <1>16 DEF OnTheWay, Answered, SavesQueued, PendingTold, JobTold, AutoTold
<1>13. Bounds
  BY <1>2, <1>4, <1>5, <1>6, <1>9, <1>16 DEF Bounds, Past, Unknown, NotAsked
<1>14. Verdicts
  BY <1>6, <1>9 DEF Verdicts, ShownIsNoNewer, StatusIsNoNewer, CancelIsNoNewer, CancelledIsAsked, Judged, OnWire
<1>15. Truth
  <2>1. Counted /\ FreshOrOwed /\ Seen
    BY <1>4, <1>5, <1>6 DEF Counted, FreshOrOwed, Seen
  <2>2. settled => Shown
    <3>1. eng.run = TRUE
      BY <1>1, Zenon
    <3>2. win.run = settled
      BY <1>1, Zenon
    <3>3. settled => settled = TRUE
      BY <1>3, Zenon
    <3>4. settled => win.run = eng.run
      BY <3>1, <3>2, <3>3, Zenon
    <3> QED BY <1>4, <1>5, <3>4 DEF Shown
  <2>3. ShownOrOwed
    BY <1>9, <2>2 DEF ShownOrOwed
  <2> QED BY <2>1, <2>3 DEF Truth
<1>17. SwitchFine
  <2>1. DOMAIN NoChain = {"on", "who", "mine"} /\ ~ NoChain.on
    BY DEF NoChain
  <2> QED BY <1>4, <1>13, <2>1, NoSwitchOf DEF SwitchFine, Mine, Bounds, Past, Unknown
<1> QED BY <1>10, <1>11, <1>12, <1>13, <1>14, <1>15, <1>17 DEF Inv
-----------------------------------------------------------------------------
(* Every step                                                              *)

\* It holds when nothing changes.
LEMMA SameStays == ASSUME Inv, UNCHANGED vars PROVE Inv'
<1>1. UNCHANGED <<eng, op, job, wire, loads, done, win, saves, auto, left>>
  BY DEF vars
<1>2. Records' /\ LoadsFine' /\ OnTheWay' /\ Answered'
  BY <1>1 DEF Inv, Records, LoadsFine, OnTheWay, Answered
<1>3. SavesQueued' /\ PendingTold' /\ Bounds' /\ JobTold'
  BY <1>1 DEF Inv, SavesQueued, PendingTold, Bounds, JobTold, Shows, Past
<1>4. Verdicts'
  BY <1>1 DEF Inv, Verdicts, ShownIsNoNewer, StatusIsNoNewer, CancelIsNoNewer, CancelledIsAsked, Judged, OnWire, After
<1>5. AutoTold'
  BY <1>1 DEF Inv, AutoTold
<1>6. Truth'
  BY <1>1 DEF Inv, Truth, Counted, FreshOrOwed, ShownOrOwed, Seen, Fresh, Shown, Shows, Owed, OnItsWay
<1>7. SwitchFine'
  BY <1>1 DEF Inv, SwitchFine, Mine, Past
<1> QED BY <1>2, <1>3, <1>4, <1>5, <1>6, <1>7 DEF Inv

\* Every step keeps the invariant.
LEMMA NextKeeps == Inv /\ [Next]_vars => Inv'
<1> SUFFICES ASSUME Inv, [Next]_vars PROVE Inv'
  OBVIOUS
<1>1. CASE Main
  <2>1. ASSUME NEW a \in Accounts, OpSucceeds(a) PROVE Inv'
    BY <2>1, OpSucceedsKeeps
  <2>2. ASSUME NEW a \in Accounts, OpFails(a) PROVE Inv'
    BY <2>2, OpFailsKeeps
  <2>3. ASSUME NEW s \in Slots, LoadInspects(s) \/ LoadAnswers(s) \/ LoadFails(s) PROVE Inv'
    BY <2>3, LoadInspectsKeeps, LoadAnswersKeeps
  <2>4. ASSUME NEW switched \in BOOLEAN, LoginSwitched(switched) PROVE Inv'
    BY <2>4, LoginSwitchedKeeps
  <2> QED BY <1>1, <2>1, <2>2, <2>3, <2>4, LoginSavesKeeps, SwitchWritesKeeps, SwitchUndoneKeeps, AutoRefreshedKeeps, JobRefreshesKeeps, JobSucceedsKeeps, JobFailsKeeps,
             PassBeginsKeeps, PassEndsKeeps, OfficialChangesKeeps, LoginCompletesKeeps, LoginFailsKeeps DEF Main
<1>2. CASE Arrive
  BY <1>2, LoadArrivesKeeps, EventArrivesKeeps, TickArrivesKeeps, ReplyArrivesKeeps, AutoGoesOnKeeps, SaveEndsKeeps,
     AddEndsKeeps, StatusReadKeeps, PollAnsweredKeeps, CancelAnsweredKeeps, CancelShownKeeps, AnswersKeep,
     ManualArrivesKeeps, ManualShownKeeps DEF Arrive
<1>3. CASE User
  <2>1. ASSUME NEW a \in Accounts, NEW kind \in Kinds, Ask(a, kind) PROVE Inv'
    BY <2>1, AskKeeps
  <2>2. ASSUME NEW v \in Intervals, Choose(v) PROVE Inv'
    BY <2>2, ChooseKeeps
  <2>3. ASSUME NEW target \in BOOLEAN, StartLogin(target) PROVE Inv'
    BY <2>3, StartLoginKeeps
  <2>4. ASSUME NEW k \in Orders, Order(k) PROVE Inv'
    BY <2>4, OrderKeeps
  <2> QED BY <1>3, <2>1, <2>2, <2>3, <2>4, CancelLoginKeeps, PasteKeeps, ToggleKeeps DEF User
<1>4. CASE Timers
  BY <1>4, PatchReloadKeeps, PollKeeps, SyncTimerKeeps DEF Timers
<1>5. CASE UNCHANGED vars
  BY <1>5, SameStays
<1> QED BY <1>1, <1>2, <1>3, <1>4, <1>5 DEF Next
-----------------------------------------------------------------------------
(* What follows from the invariant                                         *)

\* In every reachable state the invariant holds.
THEOREM DashboardInvariant == Spec => []Inv
<1> QED BY InitInv, NextKeeps, PTL DEF Spec

\* The interval shown is the one chosen last, from the click on: the save queue
\* and the snapshots cannot put another in its place (config-save-queue.ts).
THEOREM TheChoiceIsKept == Spec => []ChosenKept
<1>1. Inv => ChosenKept
  BY DEF Inv, SavesQueued, ChosenKept
<1> QED BY <1>1, DashboardInvariant, PTL

\* No snapshot shows a verdict older than the one shown (LoadSequence).
THEOREM NoVerdictGoesBack == Spec => []NoOlderVerdict
<1>1. Inv => NoOlderVerdict
  <2> SUFFICES ASSUME Inv, Told("snapshot"), IsCurrent(Msg.s), Msg.auth # Unknown, job # Job("status")
               PROVE  Msg.auth >= win.auth
    BY DEF NoOlderVerdict
  <2>1. /\ Len(wire) \in Nat /\ 1 \in 1..Len(wire) /\ wire[1] = Msg /\ Msg.k = "snapshot"
    BY TakenFirst
  <2>2. Msg.s \in Slots /\ Msg.auth = loads[Msg.s].auth
    BY <2>1 DEF Inv, OnTheWay, Loaded
  <2>3. Judged(Msg.s)
    BY <2>2 DEF Judged, IsCurrent
  <2>4. job.k # "status"
    BY DEF Inv, JobTold
  <2>5. win.auth <= loads[Msg.s].auth
    BY <2>2, <2>3, <2>4 DEF Inv, Verdicts, ShownIsNoNewer
  <2>6. win.auth \in Nat /\ loads[Msg.s].auth \in Nat
    BY <2>2 DEF Inv, Bounds, Past
  <2> QED BY <2>2, <2>5, <2>6
<1> QED BY <1>1, DashboardInvariant, PTL

\* At rest the window shows what the engine tells of (useDesktopEvents.ts,
\* useAccountActions.ts).
THEOREM RestShowsTruth == Spec => []QuietShowsTruth
<1>1. Inv => QuietShowsTruth
  <2> SUFFICES ASSUME Inv, Quiet, done # "broken" PROVE Shown
    BY DEF QuietShowsTruth, Shown
  <2>1. Len(wire) = 0
    BY Empty DEF Quiet
  <2>2. ~ Owed
    BY <2>1 DEF Owed, OnItsWay, Quiet
  <2>3. \A s \in Slots : ~ loads[s].cur
    BY DEF Inv, LoadsFine, Quiet, FreeSlots
  <2> QED BY <2>2, <2>3 DEF Inv, Truth, ShownOrOwed
<1> QED BY <1>1, DashboardInvariant, PTL

\* A step of the main process shows nothing.
LEMMA MainShowsNothing == ASSUME Main PROVE win' = win
<1>1. ASSUME NEW a \in Accounts, OpSucceeds(a) \/ OpFails(a) PROVE win' = win
  BY <1>1 DEF OpSucceeds, OpFails
<1>2. ASSUME NEW s \in Slots, LoadInspects(s) \/ LoadAnswers(s) \/ LoadFails(s) PROVE win' = win
  BY <1>2 DEF LoadInspects, LoadAnswers, LoadFails
<1>3. CASE AutoRefreshed \/ JobRefreshes \/ JobSucceeds \/ JobFails
  BY <1>3 DEF AutoRefreshed, JobRefreshes, JobSucceeds, JobFails
<1>4. CASE PassBegins \/ PassEnds \/ OfficialChanges \/ LoginCompletes \/ LoginFails \/ LoginSaves
  BY <1>4 DEF PassBegins, PassEnds, OfficialChanges, LoginCompletes, LoginFails, LoginSaves
<1>5. CASE SwitchWrites \/ SwitchUndone \/ \E switched \in BOOLEAN : LoginSwitched(switched)
  BY <1>5 DEF SwitchWrites, SwitchUndone, LoginSwitched
<1> QED BY <1>1, <1>2, <1>3, <1>4, <1>5 DEF Main

\* Nor does one of the user or of a timer close the login shown.
LEMMA UserKeepsLogin ==
  ASSUME Inv, User \/ Timers, Pending(win.login)
  PROVE  win'.login = win.login
<1>1. CASE \E a \in Accounts, kind \in Kinds : Ask(a, kind)
  BY <1>1 DEF Ask
<1>2. CASE \E v \in Intervals : Choose(v)
  BY <1>2 DEF Choose, Inv, Records, WinFields
<1>3. CASE \E target \in BOOLEAN : StartLogin(target)
  BY <1>3 DEF StartLogin
<1>4. CASE (\E k \in Orders : Order(k)) \/ CancelLogin \/ Paste \/ Toggle
  BY <1>4 DEF Order, CancelLogin, Paste, Toggle
<1>5. CASE PatchReload
  BY <1>5 DEF PatchReload, Inv, Records, WinFields
<1>6. CASE Poll \/ SyncTimer
  BY <1>6 DEF Poll, SyncTimer
<1> QED BY <1>1, <1>2, <1>3, <1>4, <1>5, <1>6 DEF User, Timers

\* What arrives shows a login that is open as it is: a poll or a snapshot that looked
\* before it began is not on its way.
LEMMA ArrivalsKeepPending ==
  ASSUME Inv, Arrive, Pending(win.login), Pending(eng.login), ~ CancelShown, ~ ManualShown
  PROVE  Pending(win'.login)
<1>1. DOMAIN win = WinFields
  BY DEF Inv, Records
<1>2. CASE LoadArrives
  <2> DEFINE m == wire[1]
             t == m.s
             good == m.k = "snapshot" /\ loads[t].cur
             conts == Woken(t, good)
  <2>1. Row(wire) /\ wire # <<>> /\ Len(wire) \in Nat /\ 1 \in 1..Len(wire) /\ m = Msg /\ Loaded(m)
    BY <1>2, TakenFirst DEF LoadArrives, Told, Loaded, Inv, OnTheWay
  <2>2. \E same \in BOOLEAN : win' = ReportAll(IF good THEN Applied(m) ELSE win, conts, Result(t, good), same)
    BY <1>2, <2>1 DEF LoadArrives, LoadEnds, IsCurrent
  <2>3. t \in Slots /\ good \in BOOLEAN /\ (good => m.k = "snapshot" /\ loads[t].cur)
        /\ (conts = <<>> \/ conts = loads[t].conts)
    BY <2>1 DEF Inv, OnTheWay, Woken
  <2>4. good => Pending(m.login)
    BY <2>1 DEF Inv, PendingTold, Shows
  <2> DEFINE T == t
  <2>5. T \in Slots /\ wire[1].s = T /\ (good => wire[1].k = "snapshot" /\ loads[T].cur)
        /\ (conts = <<>> \/ conts = loads[T].conts)
    BY <2>3
  <2> HIDE DEF good, conts, T
  <2>6. win'.login = IF good THEN Merged(win.login, wire[1].login) ELSE win.login
    BY <2>1, <2>2, <2>3, <2>5, EndsShown
  <2> QED BY <2>4, <2>6 DEF Merged
<1>3. CASE PollAnswered
  <2>1. 1 \in 1..Len(wire) /\ wire[1] = Msg /\ IsPoll(Msg)
    BY <1>3, TakenFirst DEF PollAnswered, IsPoll
  <2>2. win' = [win EXCEPT !.login = Msg.login]
    BY <1>3 DEF PollAnswered
  <2> QED BY <1>1, <2>1, <2>2 DEF Inv, PendingTold, WinFields
<1>4. CASE EventArrives
  <2>1. win' = [Badged(win, Msg.cur) EXCEPT !.patch = TRUE]
    BY <1>4 DEF EventArrives
  <2> QED BY <1>1, <2>1, BadgedOf DEF WinFields
<1>5. CASE TickArrives \/ ResolveArrives \/ ManualArrives
  <2>1. win' = ShowAuth(win, Msg.auth)
    BY <1>5 DEF TickArrives, ResolveArrives, ManualArrives
  <2> QED BY <1>1, <2>1, ShowAuthOf
<1>6. CASE ReplyArrives
  <2> DEFINE b == Badged(win, Msg.a)
  <2>1. DOMAIN b = WinFields /\ b.login = win.login
    BY <1>1, BadgedOf
  <2>2. win' = win \/ win' = ShowAuth(b, Msg.auth)
    BY <1>6 DEF ReplyArrives
  <2> HIDE DEF b
  <2> QED BY <2>1, <2>2, ShowAuthOf
<1>7. CASE StatusRead
  <2>1. win' = win \/ win' = Report(win, Msg.login)
    BY <1>7 DEF StatusRead
  <2> QED BY <1>1, <2>1, ReportOf DEF Reported
<1>8. CASE SaveEnds
  BY <1>1, <1>8 DEF SaveEnds, WinFields
<1>9. CASE AutoGoesOn \/ CancelAnswered \/ AllArrives \/ VerifyArrives \/ ToggleArrives
           \/ ImportArrives \/ ImportedArrives
  BY <1>9 DEF AutoGoesOn, CancelAnswered, AllArrives, VerifyArrives, ToggleArrives, ImportArrives, ImportedArrives
<1>10. CASE AddEnds
  <2>1. win' = ShowAuth(win, Msg.login.auth)
    BY <1>10 DEF AddEnds
  <2> QED BY <1>1, <2>1, ShowAuthOf
<1> QED BY <1>10, <1>2, <1>3, <1>4, <1>5, <1>6, <1>7, <1>8, <1>9 DEF Arrive

\* A login open in the browser stays open in the window, unless a cancellation or a
\* manual completion has read otherwise (usePolling, LoadSequence).
THEOREM OpenLoginIsShown == Spec => PendingKept
<1> DEFINE Step == Pending(win.login) /\ Pending(eng.login) /\ ~ CancelShown /\ ~ ManualShown => Pending(win'.login)
<1>1. Inv /\ [Next]_vars => [Step]_vars
  <2> SUFFICES ASSUME Inv, Next, Pending(win.login), Pending(eng.login), ~ CancelShown, ~ ManualShown
               PROVE  Pending(win'.login)
    OBVIOUS
  <2>1. CASE Main
    BY <2>1, MainShowsNothing
  <2>2. CASE User \/ Timers
    BY <2>2, UserKeepsLogin
  <2>3. CASE Arrive
    BY <2>3, ArrivalsKeepPending
  <2> QED BY <2>1, <2>2, <2>3 DEF Next
<1> QED BY <1>1, DashboardInvariant, PTL DEF PendingKept, Spec
=============================================================================
