--------------------------- MODULE RequestProofs ---------------------------
(***************************************************************************)
(* A request on its way: the worker process it is made in                  *)
(* (EngineWorkerHost) and the routes it takes from there (HttpClient), for *)
(* any number of requests, workers, hosts and proxies.                     *)
(*                                                                         *)
(* That a request which may not be repeated goes out at most once is not   *)
(* inductive: it says nothing of a request that may still go out.  Safe    *)
(* adds that such a request has not gone out.  Likewise of the worker:     *)
(* SentCall counts what a call may still send.                             *)
(*                                                                         *)
(* Of the routes: what a failure forgets is forgotten for every host, and  *)
(* each step of a request leaves it less to do.  Of the worker: Budget     *)
(* counts the restarts, OneProcess the processes.                          *)
(***************************************************************************)
EXTENDS HttpClient, EngineWorkerHost, SequenceTheorems, WellFoundedInduction, TLAPS

Fields == {"at", "host", "verb", "first", "route", "todo", "again", "taken", "hops", "acted"}

\* The places from which a request goes out without asking whether it may be repeated.
OnItsWay == {"routed", "lookup", "sent", "pause"}

MayGoOut(q) ==
  q.at # "over" /\ (q.verb # "post" \/ q.first = None \/ q.again = TRUE \/ q.at \in OnItsWay)

Safe(q) ==
  /\ DOMAIN q = Fields
  /\ q.acted \in {0, 1}
  /\ MayGoOut(q) => q.acted = 0

IInv == DOMAIN req = Reqs /\ \A r \in Reqs : Safe(req[r])
-----------------------------------------------------------------------------
(* One request                                                             *)

LEMMA OverIsSafe ==
  ASSUME NEW q, q.acted \in {0, 1}
  PROVE  Safe(Over(q))
  BY DEF Over, Idle, Safe, Fields, MayGoOut

\* A route is found for a request: the first, or the second.
LEMMA RoutedIsSafe ==
  ASSUME NEW q, NEW route, Safe(q), q.at # "over"
  PROVE  Safe(Routed(q, route))
<1>1. CASE q.first = None
  BY <1>1 DEF Safe, Routed, MayGoOut, Fields, OnItsWay
<1>2. CASE q.first # None
  BY <1>2 DEF Safe, Routed, MayGoOut, Fields, OnItsWay
<1> QED
  BY <1>1, <1>2

\* It waits for a probe, or for the candidates.
LEMMA WaitingIsSafe ==
  ASSUME NEW q, Safe(q), q.at # "over"
  PROVE  /\ Safe([q EXCEPT !.at = "collect"])
         /\ \A s, route : Safe([q EXCEPT !.at = "probe", !.todo = s, !.route = route])
  BY DEF Safe, MayGoOut, Fields, OnItsWay

LEMMA SentIsSafe ==
  ASSUME NEW q, NEW taken, NEW hops, Safe(q), MayGoOut(q)
  PROVE  Safe(Sent(q, taken, hops))
  BY DEF Safe, Sent, MayGoOut, Fields, OnItsWay

\* What has become of a request whose attempt failed.
LEMMA OutcomesAreSafe ==
  ASSUME NEW q, Safe(q), q.at = "sent", NEW why, NEW p \in Outcomes(q, why)
  PROVE  /\ p.acted \in {0, 1} /\ DOMAIN p = Fields
         /\ p.at = q.at /\ p.verb = q.verb /\ p.first = q.first /\ p.route = q.route
         /\ (p.verb # "post" \/ why \in Unreachable) => p.acted = 0
<1>1. q.acted = 0
  BY DEF Safe, MayGoOut, OnItsWay
<1>2. CASE p = q
  BY <1>1, <1>2 DEF Safe
<1>3. CASE p # q
  <2>1. p = [q EXCEPT !.acted = q.acted + 1] /\ q.verb = "post" /\ why \notin Unreachable
    BY <1>3 DEF Outcomes, Acted, Repeatable
  <2> QED
    BY <1>1, <2>1 DEF Safe, Fields
<1> QED
  BY <1>2, <1>3

LEMMA ViaIsARoute == ASSUME NEW route PROVE Via(route) # None
  BY ConstantsAssumption DEF Via
-----------------------------------------------------------------------------
(* The steps                                                               *)

LEMMA InitIInv == Init => IInv
  BY DEF Init, IInv, Idle, Safe, Fields, MayGoOut

LEMMA SetKeeps ==
  ASSUME NEW r \in Reqs, NEW q, IInv, Set(r, q), Safe(q)
  PROVE  IInv'
  BY DEF IInv, Set, Safe, MayGoOut

LEMMA BeginKeeps ==
  ASSUME NEW r \in Reqs, NEW h, NEW verb, IInv, Begin(r, h, verb)
  PROVE  IInv'
<1> DEFINE q == [Idle EXCEPT !.host = h, !.verb = verb]
<1>1. Safe(q) /\ q.at # "over"
  BY DEF Idle, Safe, Fields, MayGoOut
<1> HIDE DEF q
<1>2. \A route : Safe(Routed(q, route))
  BY <1>1, RoutedIsSafe
<1>3. Safe([q EXCEPT !.at = "probeLive"]) /\ Safe([q EXCEPT !.at = "collect"])
  BY <1>1 DEF Safe, MayGoOut, Fields, OnItsWay
<1>4. Safe(Resolving(q, byHost[h], h \in direct, live))
  BY <1>2, <1>3 DEF Resolving
<1>5. Set(r, Resolving(q, byHost[h], h \in direct, live))
  BY DEF Begin, q
<1> QED
  BY <1>4, <1>5, SetKeeps

LEMMA ResolveKeeps ==
  ASSUME NEW r \in Reqs, IInv, ResolveStep(r)
  PROVE  IInv'
<1>1. Safe(req[r])
  BY DEF IInv
<1>2. req[r].at # "over"
  BY DEF ResolveStep, ProbeLive, Collect, ProbeFails, ProbeAnswers
<1>3. \A route : Safe(Routed(req[r], route))
  BY <1>1, <1>2, RoutedIsSafe
<1>4. ASSUME NEW s, NEW route, Probing(r, s, route) PROVE IInv'
  BY <1>1, <1>2, <1>3, <1>4, WaitingIsSafe, SetKeeps DEF Probing
<1>5. CASE ProbeLive(r)
  BY <1>1, <1>2, <1>3, <1>5, WaitingIsSafe, SetKeeps DEF ProbeLive
<1>6. CASE Collect(r)
  BY <1>4, <1>6 DEF Collect
<1>7. CASE ProbeFails(r)
  BY <1>4, <1>7 DEF ProbeFails
<1>8. CASE ProbeAnswers(r)
  BY <1>3, <1>8, SetKeeps DEF ProbeAnswers
<1> QED
  BY <1>5, <1>6, <1>7, <1>8 DEF ResolveStep

LEMMA SendKeeps ==
  ASSUME NEW r \in Reqs, IInv, SendStep(r)
  PROVE  IInv'
<1> DEFINE q == req[r]
<1>1. Safe(q)
  BY DEF IInv
<1>2. q.acted \in {0, 1}
  BY <1>1 DEF Safe
<1>3. q.at \in OnItsWay => MayGoOut(q)
  BY DEF MayGoOut, OnItsWay
<1>4. Safe(Over(q))
  BY <1>2, OverIsSafe
<1>5. q.at \in OnItsWay => \A taken, hops : Safe(Sent(q, taken, hops))
  BY <1>1, <1>3, SentIsSafe
<1>6. q.at = "sent" => \A why : \A p \in Outcomes(q, why) : Safe(Over(p))
  BY <1>1, OutcomesAreSafe, OverIsSafe
<1>7. ASSUME End(r) PROVE IInv'
  BY <1>4, <1>7, SetKeeps DEF End
<1>8. CASE TakeRoute(r)
  <2>1. q.at = "routed"
    BY <1>8 DEF TakeRoute
  <2>2. Safe([q EXCEPT !.at = "lookup"])
    BY <1>1, <2>1 DEF Safe, MayGoOut, Fields, OnItsWay
  <2> QED
    BY <1>5, <1>7, <1>8, <2>1, <2>2, SetKeeps DEF TakeRoute, OnItsWay
<1>9. CASE LookUp(r)
  BY <1>5, <1>7, <1>9, SetKeeps DEF LookUp, OnItsWay
<1>10. CASE FollowRedirect(r)
  BY <1>5, <1>10, SetKeeps DEF FollowRedirect, OnItsWay
<1>11. CASE Answer(r)
  <2>1. q.at = "sent"
    BY <1>11 DEF Answer
  <2>2. Acted(q) \in Outcomes(q, "broken")
    BY DEF Outcomes, Unreachable
  <2> QED
    BY <1>6, <1>11, <2>1, <2>2, SetKeeps DEF Answer
<1>12. CASE PauseBeforeRetry(r)
  <2>1. PICK why \in Reasons(q) : \E p \in Outcomes(q, why) :
          Retries(q, why) /\ Set(r, [p EXCEPT !.at = "pause", !.hops = 0])
    BY <1>12 DEF PauseBeforeRetry
  <2>2. PICK p \in Outcomes(q, why) :
          Retries(q, why) /\ Set(r, [p EXCEPT !.at = "pause", !.hops = 0])
    BY <2>1
  <2>3. p.acted = 0 /\ DOMAIN p = Fields
    BY <1>1, <1>12, <2>2, OutcomesAreSafe DEF PauseBeforeRetry, Retries, Repeatable
  <2>4. Safe([p EXCEPT !.at = "pause", !.hops = 0])
    BY <2>3 DEF Safe, Fields
  <2> QED
    BY <2>2, <2>4, SetKeeps
<1>13. CASE Retry(r)
  BY <1>5, <1>13, SetKeeps DEF Retry, OnItsWay
<1>14. CASE FirstFails(r)
  <2>1. PICK why \in Reasons(q) : \E p \in Outcomes(q, why) :
          Set(r, [p EXCEPT !.at = "collect", !.first = Via(p.route), !.route = None,
                           !.taken = 0, !.hops = 0, !.again = Again(p, why)])
    BY <1>14 DEF FirstFails
  <2>2. PICK p \in Outcomes(q, why) :
          Set(r, [p EXCEPT !.at = "collect", !.first = Via(p.route), !.route = None,
                           !.taken = 0, !.hops = 0, !.again = Again(p, why)])
    BY <2>1
  <2>3. p.acted \in {0, 1} /\ DOMAIN p = Fields
        /\ ((p.verb # "post" \/ why \in Unreachable) => p.acted = 0)
    BY <1>1, <1>14, OutcomesAreSafe DEF FirstFails
  <2>4. Again(p, why) = TRUE => p.acted = 0
    BY <2>3 DEF Again, Repeatable
  <2>5. Via(p.route) # None
    BY ViaIsARoute
  <2> DEFINE again == Again(p, why)
             first == Via(p.route)
  <2> HIDE DEF again, first
  <2>6. Safe([p EXCEPT !.at = "collect", !.first = first, !.route = None,
                       !.taken = 0, !.hops = 0, !.again = again])
    BY <2>3, <2>4, <2>5 DEF Safe, MayGoOut, Fields, OnItsWay, again, first
  <2> QED
    BY <2>2, <2>6, SetKeeps DEF again, first
<1>15. CASE FailOver(r)
  <2>1. CASE q.again /\ Via(q.route) # q.first
    <3>1. MayGoOut(q)
      BY <1>15, <2>1 DEF FailOver, MayGoOut
    <3> QED
      BY <1>1, <1>15, <2>1, <3>1, SentIsSafe, SetKeeps DEF FailOver
  <2>2. CASE ~ (q.again /\ Via(q.route) # q.first)
    BY <1>7, <1>15, <2>2 DEF FailOver
  <2> QED
    BY <2>1, <2>2
<1>16. CASE SecondFails(r)
  BY <1>6, <1>16, SetKeeps DEF SecondFails
<1> QED
  BY <1>8, <1>9, <1>10, <1>11, <1>12, <1>13, <1>14, <1>15, <1>16 DEF SendStep

LEMMA NextKeeps == IInv /\ [Next]_vars => IInv'
<1> SUFFICES ASSUME IInv, [Next]_vars PROVE IInv'
  OBVIOUS
<1>1. CASE \E r \in Reqs : Step(r)
  BY <1>1, ResolveKeeps, SendKeeps DEF Step
<1>2. CASE \E r \in Reqs : \E h \in Hosts, verb \in Verbs : Begin(r, h, verb)
  BY <1>2, BeginKeeps
<1>3. CASE Expire
  BY <1>3 DEF Expire, IInv, Safe, MayGoOut
<1>4. CASE UNCHANGED vars
  BY <1>4 DEF vars, IInv, Safe, MayGoOut
<1> QED
  BY <1>1, <1>2, <1>3, <1>4 DEF Next
-----------------------------------------------------------------------------
\* A POST that may not be repeated is acted on at most once over both of its routes,
\* whatever fails on them and whatever the other requests find or forget meanwhile
\* (httpJsonLocal, withOneRetry, isUnreachableProxyError).
THEOREM ActedOnOnce == Spec => []PostOnce
<1>1. IInv => PostOnce
  <2> SUFFICES ASSUME IInv, NEW r \in Reqs PROVE req[r].acted <= 1
    BY DEF PostOnce
  <2>1. req[r].acted \in {0, 1}
    BY DEF IInv, Safe
  <2> QED
    BY <2>1
<1> QED
  BY <1>1, InitIInv, NextKeeps, PTL DEF Spec
-----------------------------------------------------------------------------
(***************************************************************************)
(* What was found.  ForgottenForAll is not inductive: a probe that answers *)
(* would break it if what it probed were no proxy.  Typed says that the    *)
(* first of what a request is to probe is one, and Remembered that what is *)
(* found are proxies.  The same facts bound what is left to a request.     *)
(***************************************************************************)
Most == 2 * (Len(Found) + 2)

Tried(s) ==
  /\ s \in Seq(Proxies \cup {None})
  /\ Len(s) <= Most
  /\ s # <<>> => Head(s) \in Proxies

Typed(q) ==
  /\ q \in Request
  /\ Tried(q.todo)
  /\ q.at = "probe" => q.todo # <<>> /\ q.route \in {Direct, Forged}

Remembered ==
  /\ live \in Proxies \cup {None}
  /\ byHost \in [Hosts -> Proxies \cup {None}]
  /\ direct \subseteq Hosts
  /\ failed \subseteq Proxies
  /\ good \in Proxies \cup {None} /\ env \in Proxies \cup {None}

TInv ==
  /\ Remembered
  /\ req \in [Reqs -> Request] /\ \A r \in Reqs : Typed(req[r])
  /\ ForgottenForAll

Below == {ss \in Nat \X Nat : ss[1] < ss[2]}

LEMMA SmallestIn ==
  ASSUME NEW T \in SUBSET Nat, T # {}
  PROVE  \E i \in T : \A j \in T : i <= j
<1>1. IsWellFoundedOn(Below, Nat)
  BY NatLessThanWellFounded, Zenon DEF OpToRel, Below
<1>2. \E i \in T : \A j \in T : <<j, i>> \notin Below
  BY <1>1, WFMin, Zenon
<1>3. \A i, j \in T : <<j, i>> \notin Below => i <= j
  BY SMT DEF Below
<1> QED
  BY <1>2, <1>3

LEMMA HintsAre ==
  ASSUME Remembered
  PROVE  Hints \in Seq(Proxies \cup {None}) /\ Len(Hints) = Len(Found) + 2
  BY ConstantsAssumption DEF Remembered, Hints

LEMMA CandidatesAre ==
  ASSUME Remembered
  PROVE  Candidates \in Seq(Proxies \cup {None}) /\ Len(Candidates) = Most
<1>1. Hints \in Seq(Proxies \cup {None}) /\ Len(Hints) = Len(Found) + 2
  BY HintsAre
<1>2. Len(Found) \in Nat
  BY ConstantsAssumption
<1>3. ASSUME NEW i \in 1 .. 2 * Len(Hints) PROVE Candidates[i] \in Proxies \cup {None}
  <2>1. (i + 1) \div 2 \in 1 .. Len(Hints)
    BY <1>1, <1>2
  <2>2. Hints[(i + 1) \div 2] \in Proxies \cup {None}
    BY <1>1, <2>1, ElementOfSeq
  <2> QED
    BY <2>2, <1>3, ConstantsAssumption DEF Candidates
<1> QED
  BY <1>1, <1>2, <1>3 DEF Candidates, Most

\* What is left of them begins with one that may be probed.
LEMMA FromIs ==
  ASSUME NEW s \in Seq(Proxies \cup {None})
  PROVE  /\ From(s) \in Seq(Proxies \cup {None})
         /\ Len(From(s)) <= Len(s)
         /\ From(s) # <<>> => Head(From(s)) \in Proxies
<1> DEFINE L == {i \in 1 .. Len(s) : s[i] \in Proxies \ failed /\ (i = 1 \/ (Len(s) - i) % 2 = 1)}
           m == CHOOSE i \in L : \A j \in L : i <= j
<1>1. CASE L = {}
  BY <1>1 DEF From
<1>2. CASE L # {}
  <2>1. m \in L
    <3>1. \E i \in L : \A j \in L : i <= j
      <4>1. L \in SUBSET Nat
        OBVIOUS
      <4> QED
        BY <1>2, <4>1, SmallestIn
    <3> QED
      BY <3>1
  <2>2. From(s) = SubSeq(s, m, Len(s))
    BY <1>2 DEF From
  <2>3. m \in 1 .. Len(s) /\ s[m] \in Proxies
    BY <2>1
  <2> HIDE DEF m, L
  <2>4. /\ SubSeq(s, m, Len(s)) \in Seq(Proxies \cup {None})
        /\ Len(SubSeq(s, m, Len(s))) = Len(s) - m + 1
        /\ SubSeq(s, m, Len(s))[1] = s[m]
    BY <2>3
  <2> QED
    BY <2>2, <2>3, <2>4
<1> QED
  BY <1>1, <1>2

-----------------------------------------------------------------------------
(* What becomes of one request, and what is left to it                     *)

LEMMA TypedFields ==
  ASSUME NEW q, Typed(q)
  PROVE  /\ q.host \in Hosts \cup {None} /\ q.verb \in Verbs
         /\ q.first \in Proxies \cup {Direct, None} /\ q.route \in Routes
         /\ q.todo \in Seq(Proxies \cup {None}) /\ q.again \in BOOLEAN
         /\ q.taken \in 0 .. 2 /\ q.hops \in 0 .. MaxHops /\ q.acted \in Nat
  BY DEF Typed, Request

LEMMA NothingTried == Tried(<<>>)
  BY ConstantsAssumption DEF Tried, Most

LEMMA IdleIsTyped == Typed(Idle)
<1>1. Idle \in Request
  BY ConstantsAssumption DEF Idle, Request, Verbs, Routes
<1> QED
  BY <1>1, NothingTried DEF Typed, Idle

LEMMA OverIsTyped ==
  ASSUME NEW q, Typed(q)
  PROVE  Typed(Over(q))
<1>1. Over(q) \in Request /\ Over(q).at = "over" /\ Over(q).todo = <<>>
  BY TypedFields, IdleIsTyped DEF Over, Idle, Request, Typed
<1> QED
  BY <1>1, NothingTried DEF Typed

LEMMA RoutedIsTyped ==
  ASSUME NEW q, Typed(q), NEW route \in Routes
  PROVE  Typed(Routed(q, route))
<1> DEFINE at == IF q.first = None THEN "routed" ELSE "rerouted"
<1>a. at \in {"routed", "rerouted"} /\ <<>> \in Seq(Proxies \cup {None})
  OBVIOUS
<1> HIDE DEF at
<1>b. Routed(q, route) = [q EXCEPT !.at = at, !.route = route, !.todo = <<>>]
  BY DEF Routed, at
<1>1. Routed(q, route) \in Request
  BY <1>a, <1>b DEF Request, Typed
<1>2. Routed(q, route).at # "probe" /\ Routed(q, route).todo = <<>>
  BY <1>a, <1>b DEF Request, Typed
<1> QED
  BY <1>1, <1>2, NothingTried DEF Typed

LEMMA MovedIsTyped ==
  ASSUME NEW q, Typed(q), NEW at \in {"probeLive", "collect", "lookup"}
  PROVE  Typed([q EXCEPT !.at = at])
<1>1. [q EXCEPT !.at = at] \in Request
  BY DEF Request, Typed
<1>2. [q EXCEPT !.at = at].at # "probe" /\ [q EXCEPT !.at = at].todo = q.todo
  BY DEF Request, Typed
<1> QED
  BY <1>1, <1>2 DEF Typed

LEMMA SentIsTyped ==
  ASSUME NEW q, Typed(q), NEW taken \in 0 .. 2, NEW hops \in 0 .. MaxHops
  PROVE  Typed(Sent(q, taken, hops))
<1>1. Sent(q, taken, hops) \in Request
  BY DEF Sent, Request, Typed
<1>2. Sent(q, taken, hops).at = "sent" /\ Sent(q, taken, hops).todo = q.todo
  BY DEF Sent, Request, Typed
<1> QED
  BY <1>1, <1>2 DEF Typed

LEMMA OutcomesAreTyped ==
  ASSUME NEW q, Typed(q), NEW why, NEW p \in Outcomes(q, why)
  PROVE  /\ Typed(p)
         /\ p.at = q.at /\ p.first = q.first /\ p.route = q.route
         /\ p.taken = q.taken /\ p.hops = q.hops
<1>1. CASE p = q
  BY <1>1
<1>2. CASE p # q
  <2>1. p = [q EXCEPT !.acted = q.acted + 1]
    BY <1>2 DEF Outcomes, Acted
  <2>2. p \in Request /\ p.todo = q.todo /\ p.at = q.at
    BY <2>1 DEF Request, Typed
  <2>3. /\ p.first = q.first /\ p.route = q.route
        /\ p.taken = q.taken /\ p.hops = q.hops
    BY <2>1 DEF Request, Typed
  <2> QED
    BY <2>2, <2>3 DEF Typed
<1> QED
  BY <1>1, <1>2

Rest(q) == IF q.first = None THEN PerRoute ELSE 0

LEMMA Bounds ==
  /\ MaxHops \in Nat /\ PerAttempt = MaxHops + 2 /\ Most \in Nat
  /\ PerRoute = Most + 2 * PerAttempt + 5
  BY ConstantsAssumption DEF PerAttempt, PerRoute, Most

\* What is left, by where the request is.
LEMMA LeftIs ==
  ASSUME NEW q, Typed(q)
  PROVE  /\ q.at = "sent" => Left(q) = Rest(q) + 1 + (2 - q.taken) * PerAttempt + MaxHops - q.hops
         /\ q.at = "pause" => Left(q) = Rest(q) + PerAttempt
         /\ q.at = "lookup" => Left(q) = Rest(q) + 2 + 2 * PerAttempt
         /\ q.at \in {"routed", "rerouted"} => Left(q) = Rest(q) + 3 + 2 * PerAttempt
         /\ q.at = "probe" => Left(q) = Rest(q) + 3 + 2 * PerAttempt + Len(q.todo)
         /\ q.at = "collect" => Left(q) = Rest(q) + 4 + 2 * PerAttempt + Most
         /\ q.at = "probeLive" => Left(q) = Rest(q) + 5 + 2 * PerAttempt + Most
         /\ q.at \in {"idle", "over"} /\ q.first = None => Left(q) = 0
         /\ Rest(q) \in {0, PerRoute}
         /\ q.taken \in {0, 1, 2} /\ q.hops \in 0 .. MaxHops /\ Len(q.todo) \in 0 .. Most
<1> DEFINE A == (2 - q.taken) * PerAttempt
<1>1. q.taken \in {0, 1, 2} /\ q.hops \in 0 .. MaxHops /\ Len(q.todo) \in 0 .. Most
  BY TypedFields, Bounds DEF Typed, Tried
<1>2. A \in {0, PerAttempt, 2 * PerAttempt}
  BY <1>1, Bounds
<1> HIDE DEF A
<1>3. Left(q) = (IF q.first = None THEN PerRoute ELSE 0) +
        CASE q.at \in {"idle", "over"} -> IF q.first = None THEN 0 - PerRoute ELSE 0
          [] q.at = "sent" -> 1 + (A + (MaxHops - q.hops))
          [] q.at = "pause" -> PerAttempt
          [] q.at = "lookup" -> 2 + 2 * PerAttempt
          [] q.at \in {"routed", "rerouted"} -> 3 + 2 * PerAttempt
          [] q.at = "probe" -> 3 + 2 * PerAttempt + Len(q.todo)
          [] q.at = "collect" -> 4 + 2 * PerAttempt + 2 * (Len(Found) + 2)
          [] q.at = "probeLive" -> 5 + 2 * PerAttempt + 2 * (Len(Found) + 2)
  BY DEF Left, A
<1>4. q.at = "sent" => Left(q) = Rest(q) + 1 + A + MaxHops - q.hops
  BY <1>1, <1>2, <1>3, Bounds DEF Rest
<1>5. /\ q.at = "pause" => Left(q) = Rest(q) + PerAttempt
      /\ q.at = "lookup" => Left(q) = Rest(q) + 2 + 2 * PerAttempt
      /\ q.at \in {"routed", "rerouted"} => Left(q) = Rest(q) + 3 + 2 * PerAttempt
      /\ q.at = "probe" => Left(q) = Rest(q) + 3 + 2 * PerAttempt + Len(q.todo)
  BY <1>1, <1>3, Bounds DEF Rest
<1>6. /\ q.at = "collect" => Left(q) = Rest(q) + 4 + 2 * PerAttempt + Most
      /\ q.at = "probeLive" => Left(q) = Rest(q) + 5 + 2 * PerAttempt + Most
      /\ q.at \in {"idle", "over"} /\ q.first = None => Left(q) = 0
  BY <1>3, Bounds DEF Rest, Most
<1> QED
  BY <1>1, <1>4, <1>5, <1>6 DEF A, Rest

\* Less is left to p than to q.
Less(p, q) == Typed(p) /\ Left(p) < Left(q)

LEMMA OverIsLess ==
  ASSUME NEW q, Typed(q), q.at \notin {"idle", "over"}, NEW p, Typed(p), p.at = q.at
  PROVE  Less(Over(p), q)
<1>1. Typed(Over(p)) /\ Over(p).at = "over" /\ Over(p).first = None
  BY OverIsTyped DEF Over, Idle
<1>2. Left(Over(p)) = 0
  BY <1>1, LeftIs
<1>3. q.at \in {"probeLive", "collect", "probe", "routed", "rerouted", "lookup", "sent", "pause"}
  BY DEF Typed, Request
<1>4. 0 < Left(q)
  <2> DEFINE A == (2 - q.taken) * PerAttempt
  <2>1. A >= 0
    BY LeftIs, Bounds
  <2> HIDE DEF A
  <2>2. q.at = "sent" => Left(q) = Rest(q) + 1 + A + MaxHops - q.hops
    BY LeftIs DEF A
  <2>3. Rest(q) >= 0 /\ Rest(q) \in Int /\ Len(q.todo) \in 0 .. Most
        /\ q.hops \in 0 .. MaxHops /\ A \in Int
    <3>1. A \in Int
      BY LeftIs, Bounds DEF A
    <3> QED
      BY <3>1, LeftIs, Bounds
  <2>4. CASE q.at = "sent"
    BY <2>1, <2>2, <2>3, <2>4, Bounds
  <2>5. CASE q.at \in {"probeLive", "collect", "probe"}
    BY <2>3, <2>5, LeftIs, Bounds
  <2>6. CASE q.at \in {"routed", "rerouted", "lookup", "pause"}
    BY <2>3, <2>6, LeftIs, Bounds
  <2> QED
    BY <1>3, <2>4, <2>5, <2>6
<1> QED
  BY <1>1, <1>2, <1>4 DEF Less

LEMMA RoutedIsLess ==
  ASSUME NEW q, Typed(q), q.at \in {"probeLive", "collect", "probe"}, NEW route \in Routes
  PROVE  Less(Routed(q, route), q)
<1> DEFINE p == Routed(q, route)
<1>1. p.at \in {"routed", "rerouted"} /\ p.first = q.first
  BY DEF Routed, Typed, Request
<1>2. Typed(p)
  BY RoutedIsTyped
<1> HIDE DEF p
<1>3. Left(p) = Rest(q) + 3 + 2 * PerAttempt
  BY <1>1, <1>2, LeftIs DEF Rest
<1>4. q.at = "probe" => Len(q.todo) >= 1
  BY TypedFields, EmptySeq DEF Typed
<1>5. Left(p) < Left(q)
  BY <1>3, <1>4, LeftIs, Bounds
<1> QED
  BY <1>2, <1>5 DEF Less, p

\* The next proxies to probe, of those not probed yet.
LEMMA ProbeIsLess ==
  ASSUME NEW q, Typed(q), NEW s, Tried(s), s # <<>>, NEW route \in {Direct, Forged},
         q.at = "collect" \/ (q.at = "probe" /\ Len(s) < Len(q.todo))
  PROVE  Less([q EXCEPT !.at = "probe", !.todo = s, !.route = route], q)
<1> DEFINE p == [q EXCEPT !.at = "probe", !.todo = s, !.route = route]
<1>1. p \in Request
  BY DEF Typed, Request, Tried, Routes
<1>2. p.at = "probe" /\ p.todo = s /\ p.first = q.first /\ p.route = route
  BY DEF Typed, Request
<1> HIDE DEF p
<1>3. Typed(p)
  BY <1>1, <1>2 DEF Typed
<1>4. Left(p) = Rest(q) + 3 + 2 * PerAttempt + Len(s)
  BY <1>2, <1>3, LeftIs DEF Rest
<1>5. Len(s) \in 0 .. Most
  BY DEF Tried
<1>6. Left(p) < Left(q)
  BY <1>4, <1>5, LeftIs, Bounds
<1> QED
  BY <1>3, <1>6 DEF Less, p

LEMMA SentIsLess ==
  ASSUME NEW q, Typed(q), NEW taken \in 0 .. 2, NEW hops \in 0 .. MaxHops,
         \/ q.at \in {"routed", "rerouted", "lookup"} /\ taken = 1
         \/ q.at = "pause" /\ taken = 2
         \/ q.at = "sent" /\ taken = q.taken /\ q.hops < hops
  PROVE  Less(Sent(q, taken, hops), q)
<1> DEFINE p == Sent(q, taken, hops)
<1>1. p.at = "sent" /\ p.taken = taken /\ p.hops = hops /\ p.first = q.first
  BY DEF Sent, Typed, Request
<1>2. Typed(p)
  BY SentIsTyped
<1> HIDE DEF p
<1>3. Left(p) = Rest(q) + 1 + (2 - taken) * PerAttempt + MaxHops - hops
  BY <1>1, <1>2, LeftIs DEF Rest
<1>4. CASE q.at = "sent" /\ taken = q.taken /\ q.hops < hops
  <2> DEFINE A == (2 - taken) * PerAttempt
  <2>1. A \in Int
    BY Bounds
  <2> HIDE DEF A
  <2>2. Left(p) = Rest(q) + 1 + A + MaxHops - hops /\ Left(q) = Rest(q) + 1 + A + MaxHops - q.hops
    BY <1>3, <1>4, LeftIs DEF A
  <2>3. Left(p) < Left(q)
    BY <1>4, <2>1, <2>2, LeftIs, Bounds
  <2> QED
    BY <1>2, <2>3 DEF Less, p
<1>5. CASE q.at \in {"routed", "rerouted", "lookup"} /\ taken = 1
  <2>1. (2 - taken) * PerAttempt = PerAttempt
    BY <1>5, Bounds
  <2>2. Left(p) = Rest(q) + 1 + PerAttempt + MaxHops - hops
    BY <1>3, <2>1
  <2>3. Left(p) < Left(q)
    BY <1>5, <2>2, LeftIs, Bounds
  <2> QED
    BY <1>2, <2>3 DEF Less, p
<1>6. CASE q.at = "pause" /\ taken = 2
  <2>1. (2 - taken) * PerAttempt = 0
    BY <1>6, Bounds
  <2>2. Left(p) < Left(q)
    BY <1>3, <1>6, <2>1, LeftIs, Bounds
  <2> QED
    BY <1>2, <2>2 DEF Less, p
<1> QED
  BY <1>4, <1>5, <1>6

-----------------------------------------------------------------------------
(* The steps                                                               *)

\* The step r takes leaves it less to do.
Goes(r) == \E q : Set(r, q) /\ Less(q, req[r])

LEMMA ProbingGoes ==
  ASSUME NEW r \in Reqs, TInv, NEW s, Tried(s), NEW route \in {Direct, Forged}, Probing(r, s, route),
         req[r].at = "collect" \/ (req[r].at = "probe" /\ Len(s) < Len(req[r].todo))
  PROVE  Goes(r) /\ direct' \subseteq Hosts
<1>1. Typed(req[r]) /\ direct \subseteq Hosts
  BY DEF TInv, Remembered
<1>2. CASE s # <<>>
  BY <1>1, <1>2, ProbeIsLess DEF Probing, Goes
<1>3. CASE s = <<>>
  BY <1>1, <1>3, RoutedIsLess DEF Probing, Goes, Routes
<1> QED
  BY <1>2, <1>3

\* Whatever the probes bring, the route they lead to comes nearer.
LEMMA ResolveGoes ==
  ASSUME NEW r \in Reqs, TInv, ResolveStep(r)
  PROVE  Goes(r) /\ Remembered' /\ ForgottenForAll'
<1>1. Typed(req[r]) /\ Remembered /\ ForgottenForAll
  BY DEF TInv
<1>2. None \notin Proxies
  BY ConstantsAssumption
<1>3. CASE ProbeLive(r)
  <2>1. live \in Routes
    BY <1>1 DEF Remembered, Routes
  <2>2. Less(Routed(req[r], live), req[r])
    BY <1>1, <1>3, <2>1, RoutedIsLess DEF ProbeLive
  <2>3. Less([req[r] EXCEPT !.at = "collect"], req[r])
    <3> DEFINE p == [req[r] EXCEPT !.at = "collect"]
    <3>1. Typed(p)
      BY <1>1, MovedIsTyped
    <3>2. p.at = "collect" /\ p.first = req[r].first
      BY <1>1 DEF Typed, Request
    <3> HIDE DEF p
    <3>3. Left(p) = Rest(req[r]) + 4 + 2 * PerAttempt + Most
      BY <3>1, <3>2, LeftIs DEF Rest
    <3>4. Left(p) < Left(req[r])
      BY <1>1, <1>3, <3>3, LeftIs, Bounds DEF ProbeLive
    <3> QED
      BY <3>1, <3>4 DEF Less, p
  <2>4. Goes(r)
    BY <1>3, <2>2, <2>3 DEF ProbeLive, Goes
  <2> QED
    BY <1>1, <1>3, <2>4 DEF ProbeLive, Remembered, ForgottenForAll
<1>4. CASE Collect(r)
  <2>1. Tried(From(Candidates))
    BY <1>1, CandidatesAre, FromIs DEF Tried
  <2>2. Goes(r) /\ direct' \subseteq Hosts
    BY <1>4, <2>1, ProbingGoes DEF Collect
  <2> QED
    BY <1>1, <1>4, <2>2 DEF Collect, Remembered, ForgottenForAll
<1>5. CASE ProbeFails(r)
  <2> DEFINE todo == req[r].todo
  <2>1. todo \in Seq(Proxies \cup {None}) /\ todo # <<>> /\ Len(todo) <= Most
    BY <1>1, <1>5 DEF ProbeFails, Typed, Tried
  <2>2. Tail(todo) \in Seq(Proxies \cup {None}) /\ Len(Tail(todo)) = Len(todo) - 1
    BY <2>1
  <2>3. Tried(From(Tail(todo))) /\ Len(From(Tail(todo))) < Len(todo)
    <3> DEFINE rest == From(Tail(todo))
    <3>1. /\ rest \in Seq(Proxies \cup {None}) /\ Len(rest) <= Len(Tail(todo))
          /\ rest # <<>> => Head(rest) \in Proxies
      BY <2>2, FromIs
    <3> HIDE DEF rest
    <3>2. Len(rest) < Len(todo) /\ Len(rest) <= Most
      BY <2>1, <2>2, <3>1, Bounds
    <3> QED
      BY <3>1, <3>2 DEF Tried, rest
  <2>4. req[r].route \in {Direct, Forged}
    BY <1>1, <1>5 DEF ProbeFails, Typed
  <2>5. Goes(r) /\ direct' \subseteq Hosts
    BY <1>5, <2>3, <2>4, ProbingGoes DEF ProbeFails
  <2> QED
    BY <1>1, <1>5, <2>5 DEF ProbeFails, Remembered, ForgottenForAll
<1>6. CASE ProbeAnswers(r)
  <2>1. Head(req[r].todo) \in Proxies
    BY <1>1, <1>6 DEF ProbeAnswers, Typed, Tried
  <2>2. Goes(r)
    BY <1>1, <1>6, <2>1, RoutedIsLess DEF ProbeAnswers, Goes, Routes
  <2> QED
    BY <1>1, <1>2, <1>6, <2>1, <2>2 DEF ProbeAnswers, Remembered, ForgottenForAll
<1> QED
  BY <1>3, <1>4, <1>5, <1>6 DEF ResolveStep

\* Sending changes nothing of what was found, except that a first failure forgets it.
LEMMA SendGoes ==
  ASSUME NEW r \in Reqs, TInv, SendStep(r)
  PROVE  Goes(r) /\ Remembered' /\ ForgottenForAll'
<1> DEFINE q == req[r]
<1>1. Typed(q) /\ Remembered /\ ForgottenForAll
  BY DEF TInv
<1>2. MaxHops \in Nat /\ 0 \in 0 .. MaxHops /\ Inherited \in Proxies \cup {None}
  BY ConstantsAssumption
<1>3. UNCHANGED memory => Remembered' /\ ForgottenForAll'
  BY <1>1 DEF memory, Remembered, ForgottenForAll
<1>4. ASSUME UNCHANGED <<live, byHost, direct, failed, good>>, env' \in Proxies \cup {None}
      PROVE  Remembered' /\ ForgottenForAll'
  BY <1>1, <1>4 DEF Remembered, ForgottenForAll
<1>5. env \in Proxies \cup {None} /\ \A route : Applied(route) \in Proxies \cup {None}
  BY <1>1, <1>2 DEF Remembered, Applied
<1>6. ASSUME q.at \notin {"idle", "over"}, End(r) PROVE Goes(r)
  BY <1>1, <1>6, OverIsLess DEF End, Goes
<1>7. CASE TakeRoute(r)
  <2>1. q.at = "routed"
    BY <1>7 DEF TakeRoute
  <2>2. Less(Sent(q, 1, 0), q)
    BY <1>1, <1>2, <2>1, SentIsLess
  <2>3. Less([q EXCEPT !.at = "lookup"], q)
    <3> DEFINE p == [q EXCEPT !.at = "lookup"]
    <3>1. Typed(p) /\ p.at = "lookup" /\ p.first = q.first
      BY <1>1, MovedIsTyped DEF Typed, Request
    <3> HIDE DEF p
    <3>2. Left(p) = Rest(q) + 2 + 2 * PerAttempt
      BY <3>1, LeftIs DEF Rest
    <3>3. Left(p) < Left(q)
      BY <1>1, <2>1, <3>2, LeftIs, Bounds
    <3> QED
      BY <3>1, <3>3 DEF Less, p
  <2>4. CASE q.route = None
    BY <1>4, <1>5, <1>6, <1>7, <2>1, <2>4 DEF TakeRoute
  <2>5. CASE q.route # None
    BY <1>4, <1>5, <1>7, <2>2, <2>3, <2>5 DEF TakeRoute, Goes
  <2> QED
    BY <2>4, <2>5
<1>8. CASE LookUp(r)
  <2>1. q.at = "lookup"
    BY <1>8 DEF LookUp
  <2>2. Less(Sent(q, 1, 0), q)
    BY <1>1, <1>2, <2>1, SentIsLess
  <2> QED
    BY <1>3, <1>6, <1>8, <2>1, <2>2 DEF LookUp, Goes
<1>9. CASE FollowRedirect(r)
  <2>1. q.at = "sent" /\ q.hops < MaxHops /\ q.hops \in 0 .. MaxHops /\ q.taken \in 0 .. 2
    BY <1>1, <1>9, TypedFields DEF FollowRedirect
  <2>2. q.hops + 1 \in 0 .. MaxHops /\ q.hops < q.hops + 1
    BY <1>2, <2>1
  <2>3. Less(Sent(q, q.taken, q.hops + 1), q)
    BY <1>1, <2>1, <2>2, SentIsLess
  <2> QED
    BY <1>3, <1>9, <2>3 DEF FollowRedirect, Goes
<1>10. CASE Answer(r)
  <2>1. q.at = "sent" /\ Acted(q) \in Outcomes(q, "broken")
    BY <1>10 DEF Answer, Outcomes, Unreachable
  <2>2. Less(Over(Acted(q)), q)
    BY <1>1, <2>1, OutcomesAreTyped, OverIsLess
  <2> QED
    BY <1>3, <1>10, <2>2 DEF Answer, Goes
<1>11. CASE PauseBeforeRetry(r)
  <2>1. PICK why \in Reasons(q) : \E p \in Outcomes(q, why) :
          Retries(q, why) /\ Set(r, [p EXCEPT !.at = "pause", !.hops = 0])
    BY <1>11 DEF PauseBeforeRetry
  <2>2. PICK p \in Outcomes(q, why) :
          Retries(q, why) /\ Set(r, [p EXCEPT !.at = "pause", !.hops = 0])
    BY <2>1
  <2>3. Typed(p) /\ p.first = q.first /\ q.at = "sent" /\ q.taken = 1
    BY <1>1, <1>11, <2>2, OutcomesAreTyped DEF PauseBeforeRetry, Retries
  <2> DEFINE n == [p EXCEPT !.at = "pause", !.hops = 0]
  <2>4. n \in Request /\ n.at = "pause" /\ n.first = q.first /\ n.todo = p.todo
    BY <1>2, <2>3 DEF Typed, Request
  <2>5. Set(r, n)
    BY <2>2
  <2> HIDE DEF n
  <2>6. Typed(n)
    BY <2>3, <2>4 DEF Typed
  <2>7. Left(n) = Rest(q) + PerAttempt
    BY <2>4, <2>6, LeftIs DEF Rest
  <2>8. (2 - q.taken) * PerAttempt = PerAttempt
    BY <2>3, Bounds
  <2>9. Left(n) < Left(q)
    <3>1. Left(q) = Rest(q) + 1 + (2 - q.taken) * PerAttempt + MaxHops - q.hops
      BY <1>1, <2>3, LeftIs
    <3>2. Rest(q) \in {0, PerRoute} /\ q.hops \in 0 .. MaxHops
      BY <1>1, LeftIs
    <3>3. Left(q) = Rest(q) + 1 + PerAttempt + MaxHops - q.hops
      BY <2>8, <3>1
    <3> QED
      BY <2>7, <3>2, <3>3, Bounds
  <2> QED
    BY <1>3, <1>11, <2>5, <2>6, <2>9 DEF PauseBeforeRetry, Goes, Less
<1>12. CASE Retry(r)
  <2>1. Less(Sent(q, 2, 0), q)
    BY <1>1, <1>2, <1>12, SentIsLess DEF Retry
  <2> QED
    BY <1>3, <1>12, <2>1 DEF Retry, Goes
<1>13. CASE FirstFails(r)
  <2>1. PICK why \in Reasons(q) : \E p \in Outcomes(q, why) :
          Set(r, [p EXCEPT !.at = "collect", !.first = Via(p.route), !.route = None,
                           !.taken = 0, !.hops = 0, !.again = Again(p, why)])
    BY <1>13 DEF FirstFails
  <2>2. PICK p \in Outcomes(q, why) :
          Set(r, [p EXCEPT !.at = "collect", !.first = Via(p.route), !.route = None,
                           !.taken = 0, !.hops = 0, !.again = Again(p, why)])
    BY <2>1
  <2> DEFINE again == Again(p, why)
             first == Via(p.route)
  <2>3. again \in BOOLEAN
    BY DEF Again, Repeatable
  <2>4. first \in Proxies \cup {Direct} /\ first # None
    BY ConstantsAssumption DEF Via
  <2>5. Typed(p) /\ q.at = "sent" /\ q.first = None
    BY <1>1, <1>13, OutcomesAreTyped DEF FirstFails
  <2> HIDE DEF again, first
  <2> DEFINE n == [p EXCEPT !.at = "collect", !.first = first, !.route = None,
                            !.taken = 0, !.hops = 0, !.again = again]
  <2>6. n \in Request
    <3>1. p \in Request
      BY <2>5 DEF Typed
    <3>2. None \in Routes /\ 0 \in 0 .. 2
      BY DEF Routes
    <3>3. [p EXCEPT !.at = "collect", !.first = first] \in Request
      BY <2>4, <3>1 DEF Request
    <3> DEFINE m == [p EXCEPT !.at = "collect", !.first = first]
    <3>4. n = [m EXCEPT !.route = None, !.taken = 0, !.hops = 0, !.again = again]
      BY <3>1 DEF Request
    <3> HIDE DEF m, n
    <3>5. m \in Request
      BY <3>3 DEF m
    <3>6. [m EXCEPT !.route = None, !.taken = 0, !.hops = 0, !.again = again] \in Request
      BY <1>2, <2>3, <3>2, <3>5 DEF Request
    <3> QED
      BY <3>4, <3>6
  <2>7. n.at = "collect" /\ n.first = first /\ n.todo = p.todo
    BY <2>5 DEF Typed, Request
  <2>8. Set(r, n)
    BY <2>2 DEF again, first
  <2> HIDE DEF n
  <2>9. Typed(n)
    BY <2>5, <2>6, <2>7 DEF Typed
  <2>10. Left(n) = 4 + 2 * PerAttempt + Most
    <3>1. Left(n) = Rest(n) + 4 + 2 * PerAttempt + Most
      BY <2>7, <2>9, LeftIs
    <3>2. Rest(n) = 0
      BY <2>4, <2>7 DEF Rest
    <3> QED
      BY <3>1, <3>2, Bounds
  <2>11. Left(q) > 4 + 2 * PerAttempt + Most
    <3> DEFINE A == (2 - q.taken) * PerAttempt
    <3>1. A \in Int /\ A >= 0
      BY <1>1, LeftIs, Bounds
    <3> HIDE DEF A
    <3>2. Left(q) = PerRoute + 1 + A + MaxHops - q.hops
      BY <1>1, <2>5, LeftIs DEF A, Rest
    <3>3. q.hops \in 0 .. MaxHops
      BY <1>1, TypedFields
    <3> QED
      BY <3>1, <3>2, <3>3, Bounds
  <2>12. Goes(r)
    BY <2>8, <2>9, <2>10, <2>11, Bounds DEF Goes, Less
  <2>13. Remembered' /\ ForgottenForAll'
    BY <1>1, <1>13 DEF FirstFails, Remembered, ForgottenForAll, Forgotten
  <2> QED
    BY <2>12, <2>13
<1>14. CASE FailOver(r)
  <2>1. q.at = "rerouted"
    BY <1>14 DEF FailOver
  <2>2. Less(Sent(q, 1, 0), q)
    BY <1>1, <1>2, <2>1, SentIsLess
  <2>3. CASE q.again /\ Via(q.route) # q.first
    BY <1>4, <1>5, <1>14, <2>2, <2>3 DEF FailOver, Goes
  <2>4. CASE ~ (q.again /\ Via(q.route) # q.first)
    BY <1>4, <1>5, <1>6, <1>14, <2>1, <2>4 DEF FailOver
  <2> QED
    BY <2>3, <2>4
<1>15. CASE SecondFails(r)
  <2>1. PICK why \in Reasons(q) : \E p \in Outcomes(q, why) : Set(r, Over(p))
    BY <1>15 DEF SecondFails
  <2>2. PICK p \in Outcomes(q, why) : Set(r, Over(p))
    BY <2>1
  <2>3. Less(Over(p), q)
    BY <1>1, <1>15, <2>2, OutcomesAreTyped, OverIsLess DEF SecondFails
  <2> QED
    BY <1>3, <1>15, <2>2, <2>3 DEF SecondFails, Goes
<1> QED
  BY <1>7, <1>8, <1>9, <1>10, <1>11, <1>12, <1>13, <1>14, <1>15 DEF SendStep

\* A request that is not in progress begins; nothing is forgotten by that.
LEMMA BeginGoes ==
  ASSUME NEW r \in Reqs, NEW h \in Hosts, NEW verb \in Verbs, TInv, Begin(r, h, verb)
  PROVE  /\ \E q : Set(r, q) /\ Typed(q)
         /\ ~ Busy(r) /\ UNCHANGED memory
<1> DEFINE q == [Idle EXCEPT !.host = h, !.verb = verb]
<1>1. q \in Request /\ q.at = "idle" /\ q.todo = <<>>
  BY IdleIsTyped DEF Typed, Idle, Request
<1>2. Typed(q)
  BY <1>1, NothingTried DEF Typed
<1> HIDE DEF q
<1>3. Direct \in Routes /\ Proxies \subseteq Routes
  BY DEF Routes
<1>4. Typed(Resolving(q, byHost[h], h \in direct, live))
  BY <1>2, <1>3, RoutedIsTyped, MovedIsTyped DEF Resolving
<1> QED
  BY <1>4 DEF Begin, q

LEMMA InitTInv == Init => TInv
<1> SUFFICES ASSUME Init PROVE TInv
  OBVIOUS
<1>1. Remembered /\ ForgottenForAll
  BY ConstantsAssumption DEF Init, Remembered, ForgottenForAll
<1>2. Typed(Idle) /\ Idle \in Request
  BY IdleIsTyped DEF Typed
<1>3. req = [r \in Reqs |-> Idle]
  BY DEF Init
<1> HIDE DEF Init
<1>4. req \in [Reqs -> Request] /\ \A r \in Reqs : Typed(req[r])
  BY <1>2, <1>3
<1> QED
  BY <1>1, <1>4 DEF TInv

LEMMA GoesKeeps ==
  ASSUME NEW r \in Reqs, NEW q, TInv, Set(r, q), Typed(q), Remembered', ForgottenForAll'
  PROVE  TInv'
<1>1. /\ req' \in [Reqs -> Request]
      /\ \A s \in Reqs : req'[s] = IF s = r THEN q ELSE req[s]
  BY DEF TInv, Set, Typed
<1>2. \A s \in Reqs : Typed(req'[s])
  BY <1>1 DEF TInv
<1>3. /\ \A s \in Reqs : Typed(req[s])'
      /\ Request' = Request
  BY <1>2 DEF Typed, Tried, Most, Request, Routes, Verbs
<1> QED
  BY <1>1, <1>3 DEF TInv

LEMMA StepGoes ==
  ASSUME NEW r \in Reqs, TInv, Step(r)
  PROVE  Goes(r) /\ TInv'
<1>1. Goes(r) /\ Remembered' /\ ForgottenForAll'
  BY ResolveGoes, SendGoes DEF Step
<1> QED
  BY <1>1, GoesKeeps DEF Goes, Less

LEMMA NextTInv == TInv /\ [Next]_vars => TInv'
<1> SUFFICES ASSUME TInv, [Next]_vars PROVE TInv'
  OBVIOUS
<1>1. CASE \E r \in Reqs : Step(r)
  BY <1>1, StepGoes
<1>2. ASSUME NEW r \in Reqs, NEW h \in Hosts, NEW verb \in Verbs, Begin(r, h, verb)
      PROVE  TInv'
  <2>1. UNCHANGED memory
    BY <1>2, BeginGoes
  <2>2. Remembered' /\ ForgottenForAll'
    BY <2>1 DEF TInv, memory, Remembered, ForgottenForAll
  <2> QED
    BY <1>2, <2>2, BeginGoes, GoesKeeps
<1>3. ASSUME UNCHANGED <<live, byHost, good, env, req>>, failed' \subseteq Proxies, direct' \subseteq Hosts
      PROVE  TInv'
  <2>1. (\A r \in Reqs : Typed(req[r])) /\ req \in [Reqs -> Request]
    BY DEF TInv
  <2>2. (\A r \in Reqs : Typed(req[r])') /\ (req \in [Reqs -> Request])'
    BY <1>3, <2>1 DEF Typed, Tried, Most, Request, Routes, Verbs
  <2> QED
    BY <1>3, <2>2 DEF TInv, Remembered, ForgottenForAll
<1>4. CASE Expire
  BY <1>3, <1>4 DEF Expire, TInv, Remembered
<1>5. CASE UNCHANGED vars
  BY <1>3, <1>5 DEF vars, memory, TInv, Remembered
<1> QED
  BY <1>1, <1>2, <1>4, <1>5 DEF Next

LEMMA AlwaysTInv == Spec => []TInv
  BY InitTInv, NextTInv, PTL DEF Spec

\* What the requests remember are proxies and hosts, and what a request holds is what
\* a request may hold, whatever was found and forgotten by the others.
THEOREM TypesAreRight == Spec => []TypeOK
<1>1. TInv => TypeOK
  BY DEF TInv, Remembered, TypeOK
<1> QED
  BY <1>1, AlwaysTInv, PTL

\* A request that fails forgets what was found for every host, and no probe that ends
\* later brings it back for one of them only (invalidateLiveProxy, resolveLiveProxy).
THEOREM ForgottenIsForgotten == Spec => []ForgottenForAll
<1>1. TInv => ForgottenForAll
  BY DEF TInv
<1> QED
  BY <1>1, AlwaysTInv, PTL

\* Each step of a request leaves it less to do, however the memory that it resolves
\* from changes under it: with what is left being bounded, every request ends.
THEOREM EveryStepLeavesLess == Spec => EveryStepCounts
<1>1. TInv /\ [Next]_vars => [\A r \in Reqs : Busy(r) /\ req'[r] # req[r] => Left(req'[r]) < Left(req[r])]_vars
  <2> SUFFICES ASSUME TInv, Next, NEW r \in Reqs, Busy(r), req'[r] # req[r]
               PROVE  Left(req'[r]) < Left(req[r])
    OBVIOUS
  <2>1. ASSUME NEW s \in Reqs, NEW q, Set(s, q) PROVE s = r /\ q = req'[r]
    BY <2>1 DEF Set, TInv
  <2>2. CASE \E s \in Reqs : Step(s)
    BY <2>1, <2>2, StepGoes DEF Goes, Less
  <2>3. CASE \E s \in Reqs : \E h \in Hosts, verb \in Verbs : Begin(s, h, verb)
    BY <2>1, <2>3, BeginGoes
  <2>4. CASE Expire
    BY <2>4 DEF Expire
  <2> QED
    BY <2>2, <2>3, <2>4 DEF Next
<1> QED
  BY <1>1, AlwaysTInv, PTL DEF Spec, EveryStepCounts
-----------------------------------------------------------------------------
(* The worker that makes a request                                         *)

\* A request may still go out from the worker it was posted to and from the main
\* process: what went out and what may yet go out from the worker come to one as long
\* as the main process may have to run it, and to two in the end.
SentCall(r) ==
  /\ r.sent <= 2
  /\ r.trip = "posted" => r.sent <= 1
  /\ r.st \in {"rpc", "local"} => r.sent <= 1 /\ (r.trip = "posted" => r.sent = 0)

\* With prompt exits there is one worker process at a time.
OneProcess ==
  promptExit => \A v, w \in Workers :
                   proc[v] # "unused" /\ proc[w] # "unused" => v = w

\* The restarts since the last answer are counted, and a timer is set only while
\* there is one left.
Budget == /\ forks <= restartCount
          /\ restartCount <= MaxRestarts
          /\ restartTimer > 0 => restartCount < MaxRestarts

HostInv == /\ HostTypeOK /\ OneProcess /\ NoOrphan /\ Budget
           /\ \A c \in Calls : SentCall(call[c])

\* Rejecting the pending calls leaves no call pending and no request to send a third time.
LEMMA FailedAllSafe ==
  ASSUME call \in [Calls -> CallState], \A c \in Calls : SentCall(call[c])
  PROVE  /\ FailedAll \in [Calls -> CallState]
         /\ \A c \in Calls : /\ FailedAll[c].st # "rpc"
                             /\ FailedAll[c].at = call[c].at
                             /\ SentCall(FailedAll[c])
<1>1. ASSUME NEW c \in Calls
      PROVE  /\ FailedAll[c] \in CallState
             /\ FailedAll[c].st # "rpc"
             /\ FailedAll[c].at = call[c].at
             /\ SentCall(FailedAll[c])
  <2>1. CASE call[c].st = "rpc"
    <3>1. FailedAll[c] = [call[c] EXCEPT !.st = AfterDown(call[c].kind)]
      BY <2>1 DEF FailedAll
    <3>2. call[c] \in CallState /\ SentCall(call[c])
      OBVIOUS
    <3> QED
      BY <2>1, <3>1, <3>2 DEF CallState, AfterDown, EngineAfterDown, HostAfterDown, SentCall
  <2>2. CASE call[c].st # "rpc"
    BY <2>2 DEF FailedAll
  <2> QED
    BY <2>1, <2>2
<1> QED
  BY <1>1 DEF FailedAll

\* Changing one call only matters for that call.
LEMMA OneCall ==
  ASSUME call \in [Calls -> CallState], \A c \in Calls : SentCall(call[c]),
         NEW d \in Calls, NEW r \in CallState, SentCall(r),
         call' = [call EXCEPT ![d] = r],
         r.st = "rpc" => alive' /\ r.at = child',
         \A c \in Calls : call[c].st = "rpc" => alive' /\ call[c].at = child'
  PROVE  /\ call' \in [Calls -> CallState]
         /\ \A c \in Calls : SentCall(call'[c])
         /\ \A c \in Calls : call'[c].st = "rpc" => alive' /\ call'[c].at = child'
  OBVIOUS

\* Initially one worker runs and nothing is pending.
LEMMA HostBegins ==
  ASSUME HostInit
  PROVE  HostInv
<1>1. PICK w \in Workers : /\ child = w /\ alive = TRUE
                           /\ proc = [v \in Workers |-> IF v = w THEN "running" ELSE "unused"]
  BY DEF HostInit
<1>2. HostTypeOK
  <2>1. NoCall \in CallState /\ NoCall.st # "rpc"
    BY DEF CallState, NoCall, Entry
  <2>2. /\ call \in [Calls -> CallState]
        /\ \A c \in Calls : call[c].st # "rpc"
    BY <2>1 DEF HostInit
  <2>3. child \in Workers \cup {NoWorker} /\ child # NoWorker /\ alive \in BOOLEAN /\ alive
    BY <1>1, HostAssumption
  <2>4. proc \in [Workers -> {"unused", "running", "dying"}]
    BY <1>1
  <2>5. stopping \in BOOLEAN /\ gaveUp \in BOOLEAN /\ promptExit \in BOOLEAN
    BY Zenon DEF HostInit
  <2>6. restartTimer \in 0..1 /\ restartCount \in Nat /\ forks \in Nat
    BY DEF HostInit
  <2> QED
    BY <2>2, <2>3, <2>4, <2>5, <2>6 DEF HostTypeOK
<1>3. OneProcess /\ NoOrphan
  BY <1>1 DEF OneProcess, NoOrphan
<1>4. Budget
  BY HostAssumption DEF HostInit, Budget
<1>5. \A c \in Calls : SentCall(call[c])
  BY DEF HostInit, SentCall, NoCall, Entry
<1> QED
  BY <1>2, <1>3, <1>4, <1>5 DEF HostInv

\* A step of one call that leaves the host and the processes alone.
LEMMA CallKeeps ==
  ASSUME HostInv, NEW c \in Calls,
         \/ Rpc(c, "get") \/ Rpc(c, "post")
         \/ RunsLocally(c) \/ Forget(c) \/ Sends(c) \/ WorkerAnswers(c)
  PROVE  HostInv'
<1>1. /\ call \in [Calls -> CallState] /\ call[c] \in CallState
      /\ \A d \in Calls : SentCall(call[d])
      /\ \A d \in Calls : call[d].st = "rpc" => alive /\ call[d].at = child
      /\ alive <=> child # NoWorker
      /\ child \in Workers \cup {NoWorker}
  BY DEF HostInv, HostTypeOK
<1>2. UNCHANGED <<host, proc, history>>
  BY DEF Rpc, RunsLocally, Forget, Sends, WorkerAnswers
<1>3. \E r \in CallState : /\ SentCall(r)
                           /\ call' = [call EXCEPT ![c] = r]
                           /\ r.st = "rpc" => alive /\ r.at = child
  <2>1. ASSUME NEW kind \in {"get", "post"}, Rpc(c, kind)
        PROVE  \E r \in CallState : /\ SentCall(r)
                                    /\ call' = [call EXCEPT ![c] = r]
                                    /\ r.st = "rpc" => alive /\ r.at = child
    <3>1. ASSUME NEW st \in {"local", "settled"}
          PROVE  LET r == Entry(kind, st, NoWorker, "none") IN
                 r \in CallState /\ SentCall(r) /\ r.st # "rpc"
      BY DEF Entry, CallState, SentCall
    <3>2. LET r == Entry(kind, "rpc", child, "posted") IN
          r \in CallState /\ SentCall(r) /\ r.at = child
      BY <1>1 DEF Entry, CallState, SentCall
    <3> QED
      BY <2>1, <3>1, <3>2 DEF Rpc
  <2>2. CASE RunsLocally(c)
    <3> DEFINE r == [call[c] EXCEPT !.st = "settled", !.sent = @ + 1]
    <3>1. call' = [call EXCEPT ![c] = r]
      BY <1>1, <2>2 DEF RunsLocally
    <3>2. r \in CallState /\ SentCall(r) /\ r.st = "settled"
      BY <1>1, <2>2 DEF RunsLocally, SentCall, CallState
    <3> QED BY <3>1, <3>2
  <2>3. CASE Forget(c)
    <3>1. NoCall \in CallState /\ SentCall(NoCall) /\ NoCall.st # "rpc"
      BY DEF SentCall, CallState, NoCall, Entry
    <3> QED BY <2>3, <3>1 DEF Forget
  <2>4. CASE Sends(c)
    <3> DEFINE r == [call[c] EXCEPT !.trip = "sent", !.sent = @ + 1]
    <3>1. call' = [call EXCEPT ![c] = r]
      BY <1>1, <2>4 DEF Sends
    <3>2. r \in CallState /\ SentCall(r) /\ r.st = call[c].st /\ r.at = call[c].at
      BY <1>1, <2>4 DEF Sends, SentCall, CallState
    <3> QED BY <1>1, <3>1, <3>2
  <2>5. CASE WorkerAnswers(c)
    <3> DEFINE r == [call[c] EXCEPT !.trip = "answered"]
    <3>1. call' = [call EXCEPT ![c] = r]
      BY <1>1, <2>5 DEF WorkerAnswers
    <3>2. r \in CallState /\ SentCall(r) /\ r.st = call[c].st /\ r.at = call[c].at
      BY <1>1, <2>5 DEF WorkerAnswers, SentCall, CallState
    <3> QED BY <1>1, <3>1, <3>2
  <2> QED
    BY <2>1, <2>2, <2>3, <2>4, <2>5
<1>4. /\ call' \in [Calls -> CallState]
      /\ \A d \in Calls : SentCall(call'[d])
      /\ \A d \in Calls : call'[d].st = "rpc" => alive' /\ call'[d].at = child'
  <2>1. PICK r \in CallState : /\ SentCall(r)
                               /\ call' = [call EXCEPT ![c] = r]
                               /\ r.st = "rpc" => alive /\ r.at = child
    BY <1>3
  <2>2. UNCHANGED <<alive, child>>
    BY <1>2 DEF host
  <2>3. \A d \in Calls : call[d].st = "rpc" => alive' /\ call[d].at = child'
    BY <1>1, <2>2
  <2>4. call \in [Calls -> CallState] /\ \A d \in Calls : SentCall(call[d])
    BY <1>1
  <2>5. r.st = "rpc" => alive' /\ r.at = child'
    BY <2>1, <2>2
  <2>6. call' \in [Calls -> CallState] /\ \A d \in Calls : call'[d] = IF d = c THEN r ELSE call[d]
    BY <2>1, <2>4
  <2> QED
    BY <2>1, <2>3, <2>4, <2>5, <2>6
<1>5. HostTypeOK'
  BY <1>2, <1>4 DEF HostInv, HostTypeOK, host, history
<1>6. (OneProcess /\ NoOrphan /\ Budget)'
  BY <1>2 DEF HostInv, OneProcess, NoOrphan, Budget, host, history
<1> QED
  BY <1>4, <1>5, <1>6 DEF HostInv

\* An answer gives the restarts back.
LEMMA MessageKeeps ==
  ASSUME HostInv, NEW c \in Calls, OnMessage(c)
  PROVE  HostInv'
<1> DEFINE r == [call[c] EXCEPT !.trip = "none", !.st = IF @ = "rpc" THEN "settled" ELSE @]
<1>1. /\ call \in [Calls -> CallState] /\ call[c] \in CallState
      /\ \A d \in Calls : SentCall(call[d])
      /\ \A d \in Calls : call[d].st = "rpc" => alive /\ call[d].at = child
  BY DEF HostInv, HostTypeOK
<1>2. call' = [call EXCEPT ![c] = r]
  BY <1>1 DEF OnMessage
<1>3. r \in CallState /\ SentCall(r) /\ r.st # "rpc"
  BY <1>1 DEF OnMessage, SentCall, CallState
<1>4. UNCHANGED <<child, alive, stopping, restartTimer, proc, gaveUp, promptExit>>
      /\ restartCount' = 0 /\ forks' = 0
  BY DEF OnMessage
<1>5. /\ call' \in [Calls -> CallState]
      /\ \A d \in Calls : SentCall(call'[d])
      /\ \A d \in Calls : call'[d].st = "rpc" => alive' /\ call'[d].at = child'
  <2> HIDE DEF r
  <2> QED BY <1>1, <1>2, <1>3, <1>4, OneCall
<1>6. HostTypeOK'
  BY <1>4, <1>5 DEF HostInv, HostTypeOK
<1>7. (OneProcess /\ NoOrphan)'
  BY <1>4 DEF HostInv, OneProcess, NoOrphan
<1>8. Budget'
  BY <1>4, HostAssumption DEF HostInv, Budget, HostTypeOK
<1> QED
  BY <1>5, <1>6, <1>7, <1>8 DEF HostInv

\* Scheduling a restart: at most one timer, and only while a restart is left.
LEMMA ScheduleKeeps ==
  ASSUME HostTypeOK, Budget, ScheduleRestart, UNCHANGED <<restartCount, forks>>
  PROVE  restartTimer' \in 0..1 /\ Budget'
<1>1. restartTimer \in 0..1 /\ restartCount \in Nat
  BY DEF HostTypeOK
<1>2. CASE MaySchedule
  BY <1>1, <1>2, HostAssumption DEF ScheduleRestart, MaySchedule, Budget
<1>3. CASE ~ MaySchedule
  BY <1>1, <1>3, HostAssumption DEF ScheduleRestart, Budget
<1> QED
  BY <1>2, <1>3

\* What goes wrong with the worker, or ends it: all calls are rejected.
LEMMA DownKeeps ==
  ASSUME HostInv,
         \/ \E c \in Calls : CallTimesOut(c)
         \/ \E w \in Workers : ErrorEvent(w) \/ ExitEvent(w)
         \/ StopWorker
  PROVE  HostInv'
<1>1. /\ call \in [Calls -> CallState] /\ \A d \in Calls : SentCall(call[d])
      /\ proc \in [Workers -> {"unused", "running", "dying"}]
      /\ child \in Workers \cup {NoWorker}
  BY DEF HostInv, HostTypeOK
<1>2. /\ alive' = FALSE /\ child' = NoWorker
      /\ UNCHANGED <<restartCount, forks, gaveUp, promptExit>>
      /\ stopping' \in BOOLEAN
  BY DEF CallTimesOut, ErrorEvent, ExitEvent, StopWorker, OnWorkerExit, history, HostInv, HostTypeOK
<1>3. /\ call' \in [Calls -> CallState]
      /\ \A d \in Calls : SentCall(call'[d]) /\ call'[d].st # "rpc"
  <2>1. CASE call' = FailedAll
    BY <1>1, <2>1, FailedAllSafe
  <2>2. ASSUME NEW w \in Workers,
               call' = [c \in Calls |-> IF call[c].at = w
                              THEN [FailedAll[c] EXCEPT !.trip = "none", !.at = NoWorker]
                              ELSE FailedAll[c]]
        PROVE  /\ call' \in [Calls -> CallState]
               /\ \A d \in Calls : SentCall(call'[d]) /\ call'[d].st # "rpc"
    <3>1. ASSUME NEW r \in CallState, SentCall(r), r.st # "rpc"
          PROVE  LET q == [r EXCEPT !.trip = "none", !.at = NoWorker] IN
                 q \in CallState /\ SentCall(q) /\ q.st # "rpc"
      BY <3>1 DEF CallState, SentCall
    <3>2. \A d \in Calls : /\ FailedAll[d] \in CallState
                           /\ SentCall(FailedAll[d]) /\ FailedAll[d].st # "rpc"
      BY <1>1, FailedAllSafe
    <3>3. ASSUME NEW d \in Calls
          PROVE  call'[d] \in CallState /\ SentCall(call'[d]) /\ call'[d].st # "rpc"
      BY <2>2, <3>1, <3>2
    <3> QED
      BY <2>2, <3>3
  <2> QED
    BY <2>1, <2>2 DEF CallTimesOut, ErrorEvent, ExitEvent, StopWorker
<1>4. restartTimer' \in 0..1 /\ Budget'
  <2>1. CASE StopWorker
    BY <2>1 DEF StopWorker, history, HostInv, Budget
  <2>2. CASE ScheduleRestart
    BY <1>2, <2>2, ScheduleKeeps DEF HostInv
  <2> QED
    BY <2>1, <2>2 DEF CallTimesOut, ErrorEvent, ExitEvent, OnWorkerExit
<1>5. proc' \in [Workers -> {"unused", "running", "dying"}]
  BY <1>1 DEF CallTimesOut, ErrorEvent, ExitEvent, StopWorker, Killed
<1>6. (OneProcess /\ NoOrphan)'
  <2>1. CASE proc' = Killed
    BY <1>1, <1>2, <2>1 DEF HostInv, OneProcess, NoOrphan, Killed
  <2>2. ASSUME NEW w \in Workers, ErrorEvent(w)
        PROVE  (OneProcess /\ NoOrphan)'
    BY <1>1, <1>2, <2>2 DEF HostInv, OneProcess, NoOrphan, ErrorEvent
  <2>3. ASSUME NEW w \in Workers, ExitEvent(w)
        PROVE  (OneProcess /\ NoOrphan)'
    BY <1>1, <1>2, <2>3 DEF HostInv, OneProcess, NoOrphan, ExitEvent
  <2> QED
    BY <2>1, <2>2, <2>3 DEF CallTimesOut, StopWorker
<1>7. HostTypeOK'
  BY <1>2, <1>3, <1>4, <1>5 DEF HostInv, HostTypeOK
<1> QED
  BY <1>3, <1>4, <1>6, <1>7 DEF HostInv

\* A worker dies; the host does not know yet.
LEMMA DiesKeeps ==
  ASSUME HostInv, NEW w \in Workers, Dies(w)
  PROVE  HostInv'
<1>1. UNCHANGED <<child, alive, stopping, restartTimer, restartCount, call, forks, gaveUp, promptExit>>
  BY DEF Dies, host, history
<1>2. proc' \in [Workers -> {"unused", "running", "dying"}]
  BY DEF Dies, HostInv, HostTypeOK
<1>3. HostTypeOK'
  BY <1>1, <1>2 DEF HostInv, HostTypeOK
<1>4. (OneProcess /\ NoOrphan)'
  BY <1>1 DEF Dies, HostInv, OneProcess, NoOrphan, HostTypeOK
<1>5. Budget' /\ \A c \in Calls : SentCall(call'[c])
  BY <1>1 DEF HostInv, Budget
<1> QED
  BY <1>3, <1>4, <1>5 DEF HostInv

\* The restart timer fires.
LEMMA RestartKeeps ==
  ASSUME HostInv, Restart
  PROVE  HostInv'
<1>1. /\ restartTimer \in 0..1 /\ restartCount \in Nat /\ forks \in Nat
      /\ restartTimer' = 0 /\ UNCHANGED <<stopping, call>>
  BY DEF Restart, HostInv, HostTypeOK
<1>2. CASE stopping \/ alive
  <2>1. UNCHANGED <<child, alive, restartCount, proc, forks, gaveUp, promptExit>>
    BY <1>2 DEF Restart, history
  <2>2. HostTypeOK'
    BY <1>1, <2>1 DEF HostInv, HostTypeOK
  <2>3. (OneProcess /\ NoOrphan)'
    BY <2>1 DEF HostInv, OneProcess, NoOrphan
  <2>4. Budget' /\ \A c \in Calls : SentCall(call'[c])
    BY <1>1, <2>1 DEF HostInv, Budget
  <2> QED
    BY <2>2, <2>3, <2>4 DEF HostInv
<1>3. CASE ~ (stopping \/ alive)
  <2>1. /\ restartCount' = restartCount + 1
        /\ forks' = IF forks > MaxRestarts THEN forks ELSE forks + 1
        /\ (\E w \in Workers : Forked(w)) \/ ForkFails
    BY <1>3 DEF Restart, Counted
  <2>2. Budget'
    BY <1>1, <2>1, HostAssumption DEF Restart, HostInv, Budget
  <2>3. \A c \in Calls : call[c].st # "rpc"
    BY <1>3 DEF HostInv, HostTypeOK
  <2>4. child = NoWorker
    BY <1>3 DEF HostInv, HostTypeOK
  <2>5. /\ child' \in Workers \cup {NoWorker} /\ alive' \in BOOLEAN /\ gaveUp' \in BOOLEAN
        /\ promptExit' = promptExit
        /\ alive' <=> child' # NoWorker
        /\ proc' \in [Workers -> {"unused", "running", "dying"}]
    BY <2>1, HostAssumption DEF Forked, ForkFails, HostInv, HostTypeOK, Restart
  <2>6. HostTypeOK'
    BY <1>1, <2>1, <2>3, <2>5 DEF HostInv, HostTypeOK
  <2>7. (OneProcess /\ NoOrphan)'
    <3> SUFFICES ASSUME promptExit, promptExit' PROVE (OneProcess /\ NoOrphan)'
      BY <2>5 DEF OneProcess, NoOrphan
    <3>1. \A w \in Workers : proc[w] = "unused"
      BY <2>4, HostAssumption DEF Restart, HostInv, NoOrphan, HostTypeOK
    <3>2. ASSUME NEW w \in Workers, Forked(w)
          PROVE  (OneProcess /\ NoOrphan)'
      BY <3>1, <3>2 DEF Forked, OneProcess, NoOrphan, HostInv, HostTypeOK
    <3>3. CASE ForkFails
      BY <3>1, <3>3 DEF ForkFails, OneProcess, NoOrphan
    <3> QED
      BY <2>1, <3>2, <3>3
  <2>8. \A c \in Calls : SentCall(call'[c])
    BY <1>1 DEF HostInv
  <2> QED
    BY <2>2, <2>6, <2>7, <2>8 DEF HostInv
<1> QED
  BY <1>2, <1>3

\* The invariant is inductive: one step of the proof per action.
LEMMA HostGoesOn ==
  ASSUME HostInv, [HostNext]_hostVars
  PROVE  HostInv'
<1>1. ASSUME NEW c \in Calls, CallStep(c) PROVE HostInv'
  BY <1>1, CallKeeps, MessageKeeps, DownKeeps DEF CallStep
<1>2. ASSUME NEW w \in Workers, WorkerStep(w) PROVE HostInv'
  BY <1>2, DiesKeeps, DownKeeps DEF WorkerStep
<1>3. CASE Restart
  BY <1>3, RestartKeeps
<1>4. CASE StopWorker
  BY <1>4, DownKeeps
<1>5. CASE UNCHANGED hostVars
  BY <1>5 DEF hostVars, host, history, HostInv, HostTypeOK, OneProcess, NoOrphan, Budget
<1> QED
  BY <1>1, <1>2, <1>3, <1>4, <1>5 DEF HostNext

\* The invariant holds throughout.
LEMMA HostAlways == HostSpec => []HostInv
<1>1. HostInit => HostInv
  BY HostBegins
<1>2. HostInv /\ [HostNext]_hostVars => HostInv'
  BY HostGoesOn
<1> QED
  BY <1>1, <1>2, PTL DEF HostSpec

\* The variables keep their types, and a call is pending only with the current worker.
THEOREM TypesCorrect ==
  HostSpec => []HostTypeOK
<1>1. HostInv => HostTypeOK
  BY DEF HostInv
<1> QED
  BY <1>1, HostAlways, PTL

\* A request goes out twice at most, and once as long as its worker may answer, however
\* workers hang, die and are replaced: the two fallbacks (host and engine) do not add up.
THEOREM GoesOutTwiceAtMost ==
  HostSpec => []RepeatedOnce
<1>1. HostInv => RepeatedOnce
  BY DEF HostInv, RepeatedOnce, SentCall
<1> QED
  BY <1>1, HostAlways, PTL

\* A worker that never answers is restarted at most MaxRestarts times.
THEOREM RestartsAreBounded ==
  HostSpec => []RestartsBounded
<1>1. HostInv => RestartsBounded
  BY HostAssumption DEF HostInv, HostTypeOK, Budget, RestartsBounded
<1> QED
  BY <1>1, HostAlways, PTL

\* With prompt exits, every running worker is the one the host knows.
THEOREM NobodyOrphaned ==
  HostSpec => []NoOrphan
<1>1. HostInv => NoOrphan
  BY DEF HostInv
<1> QED
  BY <1>1, HostAlways, PTL
=============================================================================
