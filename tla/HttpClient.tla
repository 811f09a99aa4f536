----------------------------- MODULE HttpClient -----------------------------
(***************************************************************************)
(* Requests of the engine (http-client.js) and the route each one takes: a *)
(* local proxy that was discovered and probed, or the direct connection    *)
(* (proxy-resolve.js).  Concurrent requests share what was discovered:     *)
(*                                                                         *)
(*   live     liveSignature, the proxy found last                          *)
(*   byHost   liveByHost, the proxy found for a host                       *)
(*   direct   directByHost, the hosts for which none was found (30 s)      *)
(*   failed   failedProxies, the proxies that failed a request (60 s)      *)
(*   good     lastGood in network.json                                     *)
(*   env      the proxy in the process's environment                       *)
(*                                                                         *)
(* What happens between two awaits is one step.                            *)
(***************************************************************************)
EXTENDS Integers, Sequences

CONSTANTS Reqs,      \* requests that may be in progress together
          Hosts,
          Proxies,   \* proxies that may be found on this computer
          Found,     \* the order in which they are: settings, editor, known ports
          Socks,     \* the same port tried as a SOCKS proxy (socksFallbackUrl), or None
          Inherited, \* the proxy of the environment the program was started with, or None
          MaxHops,   \* redirects that are followed
          Direct,    \* the route without a proxy
          Forged,    \* no proxy, and the host's address looks forged ("none")
          None

ASSUME ConstantsAssumption ==
  /\ Found \in Seq(Proxies)
  /\ Socks \in [Proxies -> Proxies \cup {None}]
  /\ Inherited \in Proxies \cup {None}
  /\ {Direct, Forged, None} \cap Proxies = {}
  /\ Direct \notin {Forged, None} /\ Forged # None
  /\ MaxHops \in Nat

VARIABLES live, byHost, direct, failed, good, env,
          req    \* the requests in progress

memory == <<live, byHost, direct, failed, good, env>>
vars == <<memory, req>>

\* A request that may be repeated (a GET; a POST that only reads is one that is not
\* redirected), and a POST that may not.
Verbs == {"get", "post"}

\* A request.  first: the route that failed, None during the first attempt.
\* todo: the proxies to probe, the first one being probed.  again: it may go out on
\* another route.  taken: how often it took this route.  acted: how often a server
\* acted on a POST that may not be repeated.
Idle == [at |-> "idle", host |-> None, verb |-> "get", first |-> None, route |-> None,
         todo |-> <<>>, again |-> FALSE, taken |-> 0, hops |-> 0, acted |-> 0]

Init ==
  /\ live = None
  /\ byHost = [h \in Hosts |-> None]
  /\ direct = {}
  /\ failed = {}
  /\ good \in Proxies \cup {None}
  /\ env = Inherited
  /\ req = [r \in Reqs |-> Idle]

Busy(r) == req[r].at \notin {"idle", "over"}
Set(r, q) == req' = [req EXCEPT ![r] = q]
\* Answered, or ended with an error.
Over(q) == [Idle EXCEPT !.at = "over", !.acted = q.acted]
End(r) == Set(r, Over(req[r]))

Repeatable(q) == q.verb # "post"
-----------------------------------------------------------------------------
(* Which route (resolveLiveProxy)                                          *)

Routed(q, route) ==
  [q EXCEPT !.at = IF q.first = None THEN "routed" ELSE "rerouted", !.route = route,
            !.todo = <<>>]

\* The answer is remembered; or the proxy found last is probed for this host; or
\* the name is looked up and the candidates are collected.
Resolving(q, known, isDirect, last) ==
  CASE known \in Proxies \ failed -> Routed(q, known)
    [] known \notin Proxies \ failed /\ isDirect -> Routed(q, Direct)
    [] OTHER -> [q EXCEPT !.at = IF last \in Proxies \ failed THEN "probeLive" ELSE "collect"]

Begin(r, h, verb) ==
  /\ ~ Busy(r)
  /\ Set(r, Resolving([Idle EXCEPT !.host = h, !.verb = verb], byHost[h], h \in direct, live))
  /\ UNCHANGED memory

\* The probe was of the proxy known then; the route is what liveSignature is now.
ProbeLive(r) ==
  /\ req[r].at = "probeLive"
  /\ \/ /\ byHost' = [byHost EXCEPT ![req[r].host] = live]
        /\ Set(r, Routed(req[r], live))
     \/ /\ Set(r, [req[r] EXCEPT !.at = "collect"])
        /\ UNCHANGED byHost
  /\ UNCHANGED <<live, direct, failed, good, env>>

\* What names a proxy, in the order it is asked for.
Hints == <<good, env>> \o Found

\* collectCandidates: each hint, the first time it is met, followed by its SOCKS
\* form.  None where there is nothing to try.
Candidates ==
  [i \in 1 .. 2 * Len(Hints) |->
     LET k == (i + 1) \div 2
     IN IF Hints[k] \in {None} \cup {Hints[j] : j \in 1 .. k - 1} THEN None
        ELSE IF i % 2 = 1 THEN Hints[k] ELSE Socks[Hints[k]]]

\* The first that is to be probed and what follows it: the proxies that failed
\* lately are passed over with their SOCKS form, which is tried only right after
\* its proxy was.
From(s) ==
  LET live_ == {i \in 1 .. Len(s) : s[i] \in Proxies \ failed /\ (i = 1 \/ (Len(s) - i) % 2 = 1)}
  IN IF live_ = {} THEN <<>>
     ELSE SubSeq(s, CHOOSE i \in live_ : \A j \in live_ : i <= j, Len(s))

\* No proxy: that is remembered for the host, unless its address looks forged.
Probing(r, s, fallback) ==
  IF s # <<>>
  THEN /\ Set(r, [req[r] EXCEPT !.at = "probe", !.todo = s, !.route = fallback])
       /\ UNCHANGED direct
  ELSE /\ Set(r, Routed(req[r], fallback))
       /\ direct' = direct \cup ({req[r].host} \cap (IF fallback = Direct THEN Hosts ELSE {}))

Collect(r) ==
  /\ req[r].at = "collect"
  /\ \E fallback \in {Direct, Forged} : Probing(r, From(Candidates), fallback)
  /\ UNCHANGED <<live, byHost, failed, good, env>>

ProbeFails(r) ==
  /\ req[r].at = "probe"
  /\ Probing(r, From(Tail(req[r].todo)), req[r].route)
  /\ UNCHANGED <<live, byHost, failed, good, env>>

\* Found and kept, whatever became of the proxy while it was probed.
ProbeAnswers(r) == LET p == Head(req[r].todo) IN
  /\ req[r].at = "probe"
  /\ live' = p
  /\ byHost' = [byHost EXCEPT ![req[r].host] = p]
  /\ direct' = direct \ {req[r].host}
  /\ good' = p
  /\ Set(r, Routed(req[r], p))
  /\ UNCHANGED <<failed, env>>
-----------------------------------------------------------------------------
(* Sending (httpJsonLocal, withOneRetry, nodeHttpJson)                     *)

Via(route) == IF route \in Proxies THEN route ELSE Direct

\* syncProxyEnv
Applied(route) == IF route \in Proxies THEN route ELSE Inherited

Sent(q, taken, hops) ==
  [q EXCEPT !.at = "sent", !.taken = taken, !.hops = hops]

\* Without a route there is nothing to apply (a TypeError).  Without a proxy the
\* name is looked up again first.
TakeRoute(r) == LET q == req[r] IN
  /\ q.at = "routed"
  /\ IF q.route = None
     THEN End(r) /\ UNCHANGED env
     ELSE /\ env' = Applied(q.route)
          /\ Set(r, IF q.route \in Proxies THEN Sent(q, 1, 0) ELSE [q EXCEPT !.at = "lookup"])
  /\ UNCHANGED <<live, byHost, direct, failed, good>>

\* A forged address: network_unavailable.
LookUp(r) ==
  /\ req[r].at = "lookup"
  /\ End(r) \/ Set(r, Sent(req[r], 1, 0))
  /\ UNCHANGED memory

\* A redirect of a GET is followed, a few times.
FollowRedirect(r) ==
  /\ req[r].at = "sent"
  /\ req[r].verb = "get" /\ req[r].hops < MaxHops
  /\ Set(r, Sent(req[r], req[r].taken, req[r].hops + 1))
  /\ UNCHANGED memory

Acted(q) == IF Repeatable(q) THEN q ELSE [q EXCEPT !.acted = @ + 1]

Answer(r) ==
  /\ req[r].at = "sent"
  /\ Set(r, Over(Acted(req[r])))
  /\ UNCHANGED memory

\* How an attempt fails: the connection refused, or its target not found or out of
\* reach, before anything was sent; the connection broken or out of time, the body
\* unreadable; and, from a proxy, a gateway status, which of a request that may not
\* be repeated is its answer.
Reasons(q) == {"refused", "nowhere", "broken", "timeout", "unreadable"}
              \cup IF q.route \in Proxies /\ Repeatable(q) THEN {"gateway"} ELSE {}

\* isUnreachableProxyError, isTransientNetworkError with time left
Unreachable == {"refused", "nowhere"}
Transient == {"nowhere", "broken"}

\* Nobody, or the server, has acted on the attempt that failed.
Outcomes(q, why) == IF why \in Unreachable THEN {q} ELSE {q, Acted(q)}

\* Mutant: a POST fails over whatever had happened.
AgainAlways(q, why) == TRUE

\* Mutant: nobody counts.
RetriesForever(q, why) == Repeatable(q) /\ why \in Transient

\* withOneRetry
Retries(q, why) == Repeatable(q) /\ why \in Transient /\ q.taken = 1

\* May it go out on another route?  A POST only if its proxy was never reached.
Again(q, why) == Repeatable(q) \/ (q.route \in Proxies /\ why \in Unreachable)

PauseBeforeRetry(r) ==
  /\ req[r].at = "sent"
  /\ \E why \in Reasons(req[r]) : \E q \in Outcomes(req[r], why) :
       Retries(req[r], why) /\ Set(r, [q EXCEPT !.at = "pause", !.hops = 0])
  /\ UNCHANGED memory

Retry(r) ==
  /\ req[r].at = "pause"
  /\ Set(r, Sent(req[r], 2, 0))
  /\ UNCHANGED memory

\* Mutant: only what was found for this host is forgotten.
ForgottenHostOnly(h) == [byHost EXCEPT ![h] = None]

\* invalidateLiveProxy
Forgotten(h) == [x \in Hosts |-> None]

\* The first route has failed: its proxy is marked, everything found is forgotten,
\* and a route is resolved anew, in the same turn as far as the first await.
FirstFails(r) ==
  /\ req[r].at = "sent" /\ req[r].first = None
  /\ failed' = failed \cup ({req[r].route} \cap Proxies)
  /\ good' = IF good = req[r].route THEN None ELSE good
  /\ live' = None
  /\ byHost' = Forgotten(req[r].host)
  /\ direct' = {}
  /\ \E why \in Reasons(req[r]) : \E q \in Outcomes(req[r], why) :
       Set(r, [q EXCEPT !.at = "collect", !.first = Via(q.route), !.route = None,
                        !.taken = 0, !.hops = 0, !.again = Again(q, why)])
  /\ UNCHANGED env

\* A route through another proxy, or without one, has a time of its own.
FailOver(r) == LET q == req[r] IN
  /\ q.at = "rerouted"
  /\ IF q.again /\ Via(q.route) # q.first
     THEN /\ env' = Applied(q.route)
          /\ Set(r, Sent(q, 1, 0))
     ELSE /\ End(r)
          /\ UNCHANGED env
  /\ UNCHANGED <<live, byHost, direct, failed, good>>

SecondFails(r) ==
  /\ req[r].at = "sent" /\ req[r].first # None
  /\ \E why \in Reasons(req[r]) : \E q \in Outcomes(req[r], why) :
       Set(r, Over(q))
  /\ UNCHANGED memory

\* The minute of a failed proxy, or the half minute of a host, is over.
Expire ==
  /\ \/ \E p \in failed : failed' = failed \ {p} /\ UNCHANGED direct
     \/ \E h \in direct : direct' = direct \ {h} /\ UNCHANGED failed
  /\ UNCHANGED <<live, byHost, good, env, req>>
-----------------------------------------------------------------------------
ResolveStep(r) == ProbeLive(r) \/ Collect(r) \/ ProbeFails(r) \/ ProbeAnswers(r)

SendStep(r) == \/ TakeRoute(r) \/ LookUp(r) \/ FollowRedirect(r) \/ Answer(r)
               \/ PauseBeforeRetry(r) \/ Retry(r) \/ FirstFails(r) \/ FailOver(r) \/ SecondFails(r)

Step(r) == ResolveStep(r) \/ SendStep(r)

Next == \/ \E r \in Reqs : Step(r) \/ \E h \in Hosts, verb \in Verbs : Begin(r, h, verb)
        \/ Expire

Spec == Init /\ [][Next]_vars
-----------------------------------------------------------------------------
Routes == Proxies \cup {Direct, Forged, None}
Request ==
  [at : {"idle", "over", "probeLive", "collect", "probe", "routed", "rerouted", "lookup", "sent", "pause"},
   host : Hosts \cup {None}, verb : Verbs, first : Proxies \cup {Direct, None}, route : Routes,
   todo : Seq(Proxies \cup {None}), again : BOOLEAN, taken : 0 .. 2, hops : 0 .. MaxHops, acted : Nat]

\* What is remembered are proxies and hosts; the requests are requests.
TypeOK ==
  /\ live \in Proxies \cup {None}
  /\ byHost \in [Hosts -> Proxies \cup {None}]
  /\ direct \subseteq Hosts
  /\ failed \subseteq Proxies
  /\ good \in Proxies \cup {None} /\ env \in Proxies \cup {None}
  /\ req \in [Reqs -> Request]

\* A request that may not be repeated is acted on at most once, over both routes.
PostOnce == \A r \in Reqs : req[r].acted <= 1

\* What was forgotten is forgotten for every host: a failure leaves no host on the
\* proxy that failed, and a probe that ends later does not bring it back for one.
ForgottenForAll == live = None => \A h \in Hosts : byHost[h] = None

\* What a request may still do at most: two routes, on each the probes, then two
\* attempts with their redirects.
PerAttempt == MaxHops + 2
PerRoute == 2 * (Len(Found) + 2) + 2 * PerAttempt + 5
Left(q) ==
  LET attempts == (2 - q.taken) * PerAttempt + (MaxHops - q.hops)
  IN (IF q.first = None THEN PerRoute ELSE 0) +
     CASE q.at \in {"idle", "over"} -> IF q.first = None THEN 0 - PerRoute ELSE 0
       [] q.at = "sent" -> 1 + attempts
       [] q.at = "pause" -> PerAttempt
       [] q.at = "lookup" -> 2 + 2 * PerAttempt
       [] q.at \in {"routed", "rerouted"} -> 3 + 2 * PerAttempt
       [] q.at = "probe" -> 3 + 2 * PerAttempt + Len(q.todo)
       [] q.at = "collect" -> 4 + 2 * PerAttempt + 2 * (Len(Found) + 2)
       [] q.at = "probeLive" -> 5 + 2 * PerAttempt + 2 * (Len(Found) + 2)

\* Every request ends: whatever the others do to the memory meanwhile, each of its
\* steps leaves it less to do.
EveryStepCounts ==
  [][\A r \in Reqs : Busy(r) /\ req'[r] # req[r] => Left(req'[r]) < Left(req[r])]_vars

=============================================================================
