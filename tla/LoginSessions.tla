--------------------------- MODULE LoginSessions ---------------------------
(***************************************************************************)
(* engine/oauth.js, cursor-oauth.js and antigravity-oauth.js: signing in   *)
(* to Codex, Cursor and Antigravity through the browser.                   *)
(*                                                                         *)
(* Each of the three modules has one variable `active` for the session in  *)
(* progress and one file with the session's pending login.  A session has  *)
(* two lives: what its caller has been told (said), and how far its chain  *)
(* of awaits has come (flow), which goes on when the session is over.      *)
(*                                                                         *)
(*   codex        binding, waiting, exchanging, tokens, switching          *)
(*   cursor       polling <-> checking, tokens, profile                    *)
(*   antigravity  binding, waiting, exchanging, tokens                     *)
(*                                                                         *)
(* In Codex each continuation asks whether its session is still active.    *)
(* In the other two the end of a chain settles whatever session is.        *)
(***************************************************************************)
EXTENDS Naturals

CONSTANTS MaxSessions,  \* bound: sessions that are started in a behaviour
          MaxTries      \* POLL_MAX_TRIES

ASSUME SessionAssumption == MaxSessions \in Nat /\ MaxTries \in Nat \ {0}

Products == {"codex", "cursor", "antigravity"}
Ids == 1..MaxSessions
None == 0   \* no session

VARIABLES up,      \* the application runs
          made,    \* sessions made so far
          active,  \* active[p]: the session of product p in progress, or None
          file,    \* file[p]: the login in the pending file of p, or None
          sess     \* the sessions

vars == <<up, made, active, file, sess>>

\* by: the session whose own end (or timer, or cancellation) settled this one;
\* login: the pending record, named after the session that created it.
Session(p, l, flow, said) ==
  [product |-> p, login |-> l, flow |-> flow, tries |-> 1,
   saved |-> FALSE, said |-> said, by |-> None]

NoSession == Session("codex", None, "over", "unused")

Init ==
  /\ up = TRUE /\ made = 0
  /\ active = [p \in Products |-> None]
  /\ file = [p \in Products |-> None]
  /\ sess = [s \in Ids |-> NoSession]

Live(p) == active[p] # None
-----------------------------------------------------------------------------
(* The end of a session                                                    *)

\* Mutant: what a Codex continuation ends is the active session, whichever it is.
MindsItsOwnNever(p) == FALSE

\* Do the continuations of the module check that their session is the active one?
MindsItsOwn(p) == p = "codex"

\* Mutant: the file of the pending login is kept.
ClearedNot(p) == file

\* clearPendingFile
Cleared(p) == [file EXCEPT ![p] = None]

\* settleActive(how), called in the chain of session s: the chain is over, and the
\* active session of the product, if any, is told.
Settle(p, s, how) ==
  LET a == active[p] IN
  /\ active' = [active EXCEPT ![p] = None]
  /\ file' = IF a = None THEN file ELSE Cleared(p)
  /\ sess' = [x \in Ids |->
                [sess[x] EXCEPT !.flow = IF x = s THEN "over" ELSE @,
                                !.said = IF x = a THEN how ELSE @,
                                !.by   = IF x = a THEN s ELSE @]]

\* The chain stops without telling anyone.
Fades(s) ==
  /\ sess' = [sess EXCEPT ![s].flow = "over"]
  /\ UNCHANGED <<active, file>>

\* The chain of s ends with this outcome.
Ends(p, s, how) ==
  IF MindsItsOwn(p) /\ active[p] # s THEN Fades(s) ELSE Settle(p, s, how)

\* The chain of s goes on, unless it minds that its session is over.
GoesOn(p, s, flow, saved) ==
  IF MindsItsOwn(p) /\ active[p] # s
  THEN /\ sess' = [sess EXCEPT ![s].flow = "over", ![s].saved = saved]
       /\ UNCHANGED <<active, file>>
  ELSE /\ sess' = [sess EXCEPT ![s].flow = flow, ![s].saved = saved]
       /\ UNCHANGED <<active, file>>

\* The session in progress is told and the chain is left alone: a cancellation, the
\* timer of the session (cleared with the session, so it is the session's own).
Stop(p, how) ==
  LET a == active[p] IN
  /\ Live(p)
  /\ active' = [active EXCEPT ![p] = None]
  /\ file' = Cleared(p)
  /\ sess' = [sess EXCEPT ![a].said = how, ![a].by = a]
-----------------------------------------------------------------------------
(* Beginning a session                                                     *)

\* The products whose pending session makes a login of p fail (oauth_in_progress).
InTheWay(p) == IF p = "antigravity" THEN Products ELSE {"codex", "cursor"}

FirstFlow(p) == IF p = "cursor" THEN "polling" ELSE "binding"

\* startPendingSession, startSession
Opens(p, login) ==
  /\ made' = made + 1
  /\ active' = [active EXCEPT ![p] = made + 1]
  /\ sess' = [sess EXCEPT ![made + 1] = Session(p, login, FirstFlow(p), "pending")]

\* oauthLoginFlow, cursorLoginFlow, antigravityLoginFlow: no await before the
\* session is active.
Start(p) ==
  /\ up /\ made < MaxSessions
  /\ \A q \in InTheWay(p) : ~ Live(q)
  /\ Opens(p, made + 1)
  /\ file' = [file EXCEPT ![p] = made + 1]
  /\ UNCHANGED up

\* cancelOAuth, cancelCursorOAuth, cancelAntigravityOAuth.  Codex also clears a
\* file that no session belongs to.
Cancel(p) ==
  /\ up
  /\ \/ Stop(p, "cancelled")
     \/ /\ ~ Live(p) /\ p = "codex"
        /\ file' = Cleared(p)
        /\ UNCHANGED <<active, sess>>
  /\ UNCHANGED <<up, made>>

\* Mutant: a restored session gets no timer.
TimeoutOfNew(p) ==
  /\ Live(p) /\ sess[active[p]].login = active[p]
  /\ Stop(p, "timeout")
  /\ UNCHANGED <<up, made>>

\* The timer of the session in progress.
Timeout(p) ==
  /\ Stop(p, "timeout")
  /\ UNCHANGED <<up, made>>
-----------------------------------------------------------------------------
(* The callback server of Codex and of Antigravity                         *)

Step(s, flow) == /\ up /\ sess[s].flow = flow
                 /\ UNCHANGED <<up, made>>

\* The server listens; the browser is opened.  Antigravity's runPendingFlow throws
\* oauth_cancelled when its session is over by now, Codex closes the server.
Bound(s) ==
  LET p == sess[s].product IN
  /\ Step(s, "binding")
  /\ IF active[p] = s THEN GoesOn(p, s, "waiting", FALSE)
                      ELSE Ends(p, s, "cancelled")

\* The port is taken (or, in Antigravity, the official client is not found).
PortError(s) ==
  /\ Step(s, "binding")
  /\ Ends(sess[s].product, s, "failed")

\* The browser comes back with a code (in Codex the user may also paste the URL:
\* completeOAuthManually), which is POSTed.  The server is closed with its session.
Callback(s) ==
  LET p == sess[s].product IN
  /\ Step(s, "waiting")
  /\ active[p] = s
  /\ sess' = [sess EXCEPT ![s].flow = "exchanging"]
  /\ UNCHANGED <<active, file>>

\* Antigravity: the browser comes back with a refusal or with a wrong state.  (The
\* Codex server answers 400 and goes on waiting.)
Denied(s) ==
  LET p == sess[s].product IN
  /\ Step(s, "waiting")
  /\ p = "antigravity" /\ active[p] = s
  /\ Ends(p, s, "failed")

\* exchangeCode, exchangeGoogleToken
Exchanged(s) ==
  LET p == sess[s].product IN
  /\ Step(s, "exchanging")
  /\ \/ GoesOn(p, s, "tokens", FALSE)
     \/ Ends(p, s, "failed")
-----------------------------------------------------------------------------
(* The polling of Cursor                                                   *)

\* pollForTokens: an answer without tokens, or none, is followed by a pause.
Polled(s) ==
  /\ Step(s, "polling")
  /\ \E flow \in {"tokens", "checking"} : GoesOn("cursor", s, flow, FALSE)

TriesLeft(s) == sess[s].tries < MaxTries

\* The pause is over: a session that is over is an error, which settleActive gets.
PollAgain(s) ==
  /\ Step(s, "checking")
  /\ \/ /\ ~ TriesLeft(s)
        /\ Settle("cursor", s, "timeout")
     \/ /\ TriesLeft(s) /\ active["cursor"] # s
        /\ Settle("cursor", s, "cancelled")
     \/ /\ TriesLeft(s) /\ active["cursor"] = s
        /\ sess' = [sess EXCEPT ![s].flow = "polling", ![s].tries = @ + 1]
        /\ UNCHANGED <<active, file>>
-----------------------------------------------------------------------------
(* Saving the login, under the locks of the product                        *)

\* upsert, upsertCursorAccount, upsertAntigravityAccount; Antigravity is done then.
Saves(s) ==
  LET p == sess[s].product IN
  /\ Step(s, "tokens")
  /\ \/ p # "antigravity" /\ GoesOn(p, s, IF p = "codex" THEN "switching" ELSE "profile", TRUE)
     \/ p = "antigravity" /\ GoesOn(p, s, "saved", TRUE)
     \/ Ends(p, s, "failed")

\* switchCodexAfterOAuth and fetchCursorUserMeta swallow their errors, but for that of
\* reading the index before a switch.
Finishes(s) ==
  /\ \E flow \in {"switching", "profile", "saved"} : Step(s, flow)
  /\ \/ Ends(sess[s].product, s, "completed")
     \/ sess[s].flow = "switching" /\ Ends(sess[s].product, s, "failed")
-----------------------------------------------------------------------------
(* The application ends and starts again                                   *)

Quit ==
  /\ up /\ up' = FALSE
  /\ active' = [p \in Products |-> None]
  /\ sess' = [s \in Ids |->
                [sess[s] EXCEPT !.flow = "over",
                                !.said = IF @ = "pending" THEN "quit" ELSE @]]
  /\ UNCHANGED <<made, file>>

LaunchOrder == [p \in Products |-> CASE p = "codex" -> 1 [] p = "cursor" -> 2 [] OTHER -> 3]

\* loadPending reads each file as pending, as over (expired, or torn with its
\* backup), or not at all (another program holds it).
Restorable(p, read) == file[p] # None /\ read[p] = "pending"

\* The files that are left: those after the restored one are discarded, those
\* before it, or all if none is, are cleared if they are over.
FilesAfter(read) ==
  [p \in Products |->
     IF \E q \in Products : LaunchOrder[q] < LaunchOrder[p] /\ Restorable(q, read) THEN None
     ELSE IF read[p] = "over" THEN None
     ELSE file[p]]

\* restorePendingOAuth, restorePendingCursorOAuth, restorePendingAntigravityOAuth:
\* the first product with a pending login gets a session of this run for it.
Launch ==
  /\ ~ up /\ up' = TRUE
  /\ \E read \in [Products -> {"pending", "over", "locked"}] :
       /\ file' = FilesAfter(read)
       /\ \/ /\ \A p \in Products : ~ Restorable(p, read)
             /\ UNCHANGED <<made, active, sess>>
          \/ \E p \in Products :
               /\ Restorable(p, read)
               /\ \A q \in Products : LaunchOrder[q] < LaunchOrder[p] => ~ Restorable(q, read)
               /\ made < MaxSessions
               /\ Opens(p, file[p])
-----------------------------------------------------------------------------
LoginChain(s) ==
  \/ Bound(s) \/ PortError(s) \/ Callback(s) \/ Denied(s) \/ Exchanged(s)
  \/ Polled(s) \/ PollAgain(s) \/ Saves(s) \/ Finishes(s)

Next ==
  \/ \E p \in Products : Start(p) \/ Cancel(p) \/ Timeout(p)
  \/ \E s \in Ids : LoginChain(s)
  \/ Quit \/ Launch

Spec == Init /\ [][Next]_vars

\* Timers fire.  Nothing is assumed of the browser, the server or the user.
FairSpec == Spec /\ \A p \in Products : WF_vars(Timeout(p))
-----------------------------------------------------------------------------
Flows == {"over", "binding", "waiting", "exchanging", "polling", "checking",
          "tokens", "switching", "profile", "saved"}
Answers == {"unused", "pending", "completed", "cancelled", "timeout", "failed", "quit"}

Record == [product : Products, login : 0..MaxSessions, flow : Flows, tries : 1..MaxTries,
           saved : BOOLEAN, said : Answers, by : 0..MaxSessions]

\* The variables keep their types.
TypeOK ==
  /\ up \in BOOLEAN /\ made \in 0..MaxSessions
  /\ active \in [Products -> 0..MaxSessions]
  /\ file \in [Products -> 0..MaxSessions]
  /\ sess \in [Ids -> Record]

\* The login in progress is the one in its file, so that a restart finds it: no
\* session clears or overwrites the file of another.
PendingIsOnDisk ==
  \A p \in Products : Live(p) => file[p] = sess[active[p]].login

\* A caller that waits for an answer waits for the session in progress: no session
\* is replaced or dropped without settling its promise.
NobodyForgotten ==
  \A s \in Ids : sess[s].said = "pending" => active[sess[s].product] = s

\* Codex and Cursor logins are never pending together, after a restart either.
CodexOrCursor == ~ (Live("codex") /\ Live("cursor"))

\* A Codex session ends by what happened to itself: nothing left over from an
\* earlier session (a late bind error, a late exchange) settles it.
CodexEndsByItself ==
  \A s \in Ids : sess[s].product = "codex" => sess[s].by \in {None, s}

\* The same of a Cursor session.
CursorEndsByItself ==
  \A s \in Ids : sess[s].product = "cursor" => sess[s].by \in {None, s}

\* A login that its user was told is over (completed, cancelled, expired, failed) is
\* not on disk any more, and so no restart takes it up again.
OverIsRemoved ==
  \A s \in Ids : sess[s].said \in {"completed", "cancelled", "timeout", "failed"}
                 => file[sess[s].product] # sess[s].login

\* Every login gets an answer: at the latest its timer's, a restored one too.
EveryLoginEnds ==
  \A s \in Ids : sess[s].said = "pending" ~> sess[s].said # "pending"
=============================================================================
