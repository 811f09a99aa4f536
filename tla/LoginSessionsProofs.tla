------------------------ MODULE LoginSessionsProofs ------------------------
(* What LoginSessions keeps for any number of sessions and of poll attempts. *)
EXTENDS LoginSessions, TLAPS

Over == {"completed", "cancelled", "timeout", "failed"}

\* A session in progress belongs to its product, and its caller waits.
ActiveIsPending ==
  \A p \in Products : Live(p) => /\ up
                                 /\ sess[active[p]].product = p
                                 /\ sess[active[p]].said = "pending"

\* Sessions are numbered as they are made, and so are their logins.
Numbered ==
  /\ \A s \in Ids : s > made => sess[s].said = "unused"
  /\ \A s \in Ids : sess[s].said # "unused" => sess[s].login \in 1..made
  /\ \A p \in Products : file[p] <= made

\* Only Cursor polls.
PollsAreCursors ==
  \A s \in Ids : sess[s].flow \in {"polling", "checking"} => sess[s].product = "cursor"

IInv == /\ TypeOK /\ ActiveIsPending /\ Numbered /\ PollsAreCursors
        /\ PendingIsOnDisk /\ NobodyForgotten /\ CodexOrCursor
        /\ CodexEndsByItself /\ OverIsRemoved

\* What a session is, apart from how far its chain has come.
Alike(r, q) == /\ r.product = q.product /\ r.login = q.login
               /\ r.said = q.said /\ r.by = q.by

\* A step in the chain of s that tells nobody anything.
Moves(s) ==
  /\ UNCHANGED <<up, made, active, file>>
  /\ \E r \in Record :
       /\ Alike(r, sess[s])
       /\ r.flow \in {"polling", "checking"} => r.product = "cursor"
       /\ sess' = [sess EXCEPT ![s] = r]

\* A new session is a record of its type.
LEMMA SessionTyped ==
  ASSUME NEW p \in Products, NEW l \in 0..MaxSessions, NEW flow \in Flows, NEW said \in Answers
  PROVE  /\ Session(p, l, flow, said) \in Record
         /\ Session(p, l, flow, said).product = p
         /\ Session(p, l, flow, said).login = l
         /\ Session(p, l, flow, said).flow = flow
         /\ Session(p, l, flow, said).said = said
         /\ Session(p, l, flow, said).by = None
<1>1. 1 \in 1..MaxTries /\ None \in 0..MaxSessions /\ 0 \in Nat
  BY SessionAssumption DEF None
<1>2. FALSE \in BOOLEAN
  OBVIOUS
<1> QED
  BY <1>1, <1>2 DEF Session, Record

\* Initially there is no session.
LEMMA Initially == Init => IInv
<1> SUFFICES ASSUME Init PROVE IInv
  OBVIOUS
<1>1. NoSession \in Record /\ NoSession.said = "unused" /\ NoSession.flow = "over"
      /\ NoSession.by = None /\ NoSession.product = "codex"
  BY SessionTyped, SessionAssumption DEF NoSession, Products, Flows, Answers, None
<1>2. \A s \in Ids : sess[s] = NoSession
  BY DEF Init
<1>3. TypeOK
  BY <1>1, SessionAssumption DEF Init, TypeOK, None
<1> QED
  BY <1>1, <1>2, <1>3, SessionAssumption
  DEF Init, IInv, ActiveIsPending, Numbered, PollsAreCursors, PendingIsOnDisk, NobodyForgotten,
      CodexOrCursor, CodexEndsByItself, OverIsRemoved, Live, None, Products, Ids

\* The chain of a session goes on or stops, and nobody is told.
LEMMA MovesKeeps ==
  ASSUME IInv, NEW s \in Ids, Moves(s)
  PROVE  IInv'
<1>1. PICK r \in Record : /\ Alike(r, sess[s])
                          /\ r.flow \in {"polling", "checking"} => r.product = "cursor"
                          /\ sess' = [sess EXCEPT ![s] = r]
  BY DEF Moves
<1>2. TypeOK /\ UNCHANGED <<up, made, active, file>>
  BY DEF IInv, Moves
<1>3. /\ sess' \in [Ids -> Record]
      /\ \A x \in Ids : Alike(sess'[x], sess[x])
      /\ \A x \in Ids : x # s => sess'[x] = sess[x]
      /\ sess'[s] = r
  BY <1>1, <1>2 DEF TypeOK, Alike
<1>4. TypeOK'
  BY <1>2, <1>3 DEF TypeOK
<1>5. \A p \in Products : active[p] # None => active[p] \in Ids
  BY <1>2 DEF TypeOK, Ids, None
<1>6. ActiveIsPending' /\ PendingIsOnDisk'
  BY <1>2, <1>3, <1>5 DEF IInv, ActiveIsPending, PendingIsOnDisk, Live, Alike
<1>7. Numbered' /\ NobodyForgotten' /\ OverIsRemoved' /\ CodexEndsByItself'
  BY <1>2, <1>3 DEF IInv, Numbered, NobodyForgotten, OverIsRemoved, CodexEndsByItself, Alike
<1>8. PollsAreCursors'
  BY <1>1, <1>3 DEF IInv, PollsAreCursors
<1>9. CodexOrCursor'
  BY <1>2 DEF IInv, CodexOrCursor, Live
<1> QED
  BY <1>4, <1>6, <1>7, <1>8, <1>9 DEF IInv

\* The session in progress, if any, is told; s is the session that did it, and its
\* own in Codex.  flow is what the chains are afterwards.
LEMMA ToldKeeps ==
  ASSUME IInv, NEW p \in Products, NEW s \in Ids, NEW how \in Over,
         active[p] # None,
         p = "codex" => active[p] = s,
         UNCHANGED <<up, made>>,
         active' = [active EXCEPT ![p] = None],
         file' = [file EXCEPT ![p] = None],
         sess' \in [Ids -> Record],
         \A x \in Ids : /\ sess'[x].product = sess[x].product
                        /\ sess'[x].login = sess[x].login
                        /\ sess'[x].flow \in {sess[x].flow, "over"}
                        /\ sess'[x].said = IF x = active[p] THEN how ELSE sess[x].said
                        /\ sess'[x].by = IF x = active[p] THEN s ELSE sess[x].by
  PROVE  IInv'
<1> DEFINE a == active[p]
<1>1. /\ TypeOK /\ a \in Ids
      /\ sess[a].product = p /\ sess[a].said = "pending"
      /\ made \in Nat
  BY DEF IInv, TypeOK, ActiveIsPending, Live, Ids, None
<1>2. TypeOK'
  <2>1. up' \in BOOLEAN /\ made' \in 0..MaxSessions
    BY <1>1 DEF TypeOK
  <2>2. None \in 0..MaxSessions
    BY SessionAssumption DEF None
  <2>3. active' \in [Products -> 0..MaxSessions] /\ file' \in [Products -> 0..MaxSessions]
    BY <1>1, <2>2 DEF TypeOK
  <2> QED
    BY <2>1, <2>3 DEF TypeOK
<1>3. \A q \in Products : /\ q # p => active'[q] = active[q] /\ file'[q] = file[q]
                          /\ q = p => active'[q] = None /\ file'[q] = None
  BY <1>1 DEF TypeOK
<1>4. \A q \in Products : q # p /\ active[q] # None => active[q] # a /\ active[q] \in Ids
  BY <1>1 DEF IInv, ActiveIsPending, Live, TypeOK, Ids, None
<1>5. ActiveIsPending' /\ PendingIsOnDisk'
  <2> SUFFICES ASSUME NEW q \in Products, active'[q] # None
               PROVE  /\ up' /\ sess'[active'[q]].product = q
                      /\ sess'[active'[q]].said = "pending"
                      /\ file'[q] = sess'[active'[q]].login
    BY DEF ActiveIsPending, PendingIsOnDisk, Live
  <2>1. q # p /\ active'[q] = active[q] /\ file'[q] = file[q] /\ active[q] # None
    BY <1>3
  <2>2. active[q] \in Ids /\ active[q] # a
    BY <1>4, <2>1
  <2>3. up /\ sess[active[q]].product = q /\ sess[active[q]].said = "pending"
        /\ file[q] = sess[active[q]].login
    BY <2>1 DEF IInv, ActiveIsPending, PendingIsOnDisk, Live
  <2> QED
    BY <2>1, <2>2, <2>3
<1>6. Numbered'
  <2>1. \A x \in Ids : sess'[x].said = "unused" <=> sess[x].said = "unused"
    BY <1>1 DEF Over
  <2> QED
    BY <1>1, <1>3, <2>1 DEF IInv, Numbered, None, TypeOK
<1>7. PollsAreCursors'
  BY DEF IInv, PollsAreCursors
<1>8. NobodyForgotten'
  <2> SUFFICES ASSUME NEW x \in Ids, sess'[x].said = "pending"
               PROVE  active'[sess'[x].product] = x
    BY DEF NobodyForgotten
  <2>1. x # a /\ sess[x].said = "pending"
    BY DEF Over
  <2>2. active[sess[x].product] = x /\ sess[x].product \in Products
    BY <1>1, <2>1 DEF IInv, NobodyForgotten, TypeOK, Record
  <2> QED
    BY <1>3, <2>1, <2>2
<1>9. CodexOrCursor'
  BY <1>3 DEF IInv, CodexOrCursor, Live, Products
<1>10. CodexEndsByItself'
  BY <1>1 DEF IInv, CodexEndsByItself
<1>11. OverIsRemoved'
  <2> SUFFICES ASSUME NEW x \in Ids, sess'[x].said \in Over
               PROVE  file'[sess'[x].product] # sess'[x].login
    BY DEF OverIsRemoved, Over
  <2>1. sess[x].product \in Products /\ sess[x].said # "unused"
    BY <1>1 DEF TypeOK, Record, Over
  <2>2. sess[x].login # None
    BY <1>1, <2>1 DEF IInv, Numbered, None
  <2>3. CASE sess[x].product = p
    BY <1>3, <2>1, <2>2, <2>3
  <2>4. CASE sess[x].product # p
    <3>1. sess[x].said \in Over
      BY <1>1, <2>4
    <3>2. file[sess[x].product] # sess[x].login
      BY <3>1 DEF IInv, OverIsRemoved, Over
    <3> QED
      BY <1>3, <2>1, <2>4, <3>2
  <2> QED
    BY <2>3, <2>4
<1> QED
  BY <1>2, <1>5, <1>6, <1>7, <1>8, <1>9, <1>10, <1>11 DEF IInv

\* The step of a chain that ends: it fades, or it tells the session in progress.
LEMMA EndsKeeps ==
  ASSUME IInv, NEW p \in Products, NEW s \in Ids, NEW how \in Over,
         sess[s].product = p, Ends(p, s, how) \/ (p = "cursor" /\ Settle(p, s, how)),
         UNCHANGED <<up, made>>
  PROVE  IInv'
<1>1. TypeOK /\ sess[s] \in Record
  BY DEF IInv, TypeOK
<1>3. ASSUME Fades(s) PROVE IInv'
  <2> DEFINE r == [sess[s] EXCEPT !.flow = "over"]
  <2>1. r \in Record /\ Alike(r, sess[s]) /\ r.flow = "over"
    BY <1>1 DEF Record, Alike, Flows
  <2>2. sess' = [sess EXCEPT ![s] = r]
    BY <1>3 DEF Fades
  <2>3. Moves(s)
    BY <1>3, <2>1, <2>2 DEF Moves, Fades
  <2> QED
    BY <2>3, MovesKeeps
<1>4. ASSUME Settle(p, s, how), p = "codex" => active[p] = s PROVE IInv'
  <2> DEFINE R(x) == [sess[x] EXCEPT !.flow = IF x = s THEN "over" ELSE @,
                                     !.said = IF x = active[p] THEN how ELSE @,
                                     !.by   = IF x = active[p] THEN s ELSE @]
  <2>1. /\ active' = [active EXCEPT ![p] = None]
        /\ file' = IF active[p] = None THEN file ELSE [file EXCEPT ![p] = None]
        /\ sess' = [x \in Ids |-> R(x)]
    BY <1>4 DEF Settle, Cleared
  <2>2. ASSUME NEW x \in Ids
        PROVE  /\ R(x) \in Record
               /\ R(x).product = sess[x].product /\ R(x).login = sess[x].login
               /\ R(x).flow = (IF x = s THEN "over" ELSE sess[x].flow)
               /\ R(x).said = (IF x = active[p] THEN how ELSE sess[x].said)
               /\ R(x).by = (IF x = active[p] THEN s ELSE sess[x].by)
    <3>1. sess[x] \in Record /\ s \in 0..MaxSessions /\ how \in Answers
      BY <1>1, SessionAssumption DEF TypeOK, Ids, Over, Answers
    <3> QED
      BY <3>1 DEF Record, Flows
  <2>3. CASE active[p] # None
    <3>1. file' = [file EXCEPT ![p] = None]
      BY <2>1, <2>3
    <3>2. sess' \in [Ids -> Record]
      BY <2>1, <2>2
    <3>3. \A x \in Ids : sess'[x] = R(x)
      BY <2>1
    <3> HIDE DEF R
    <3>4. \A x \in Ids :
             /\ sess'[x].product = sess[x].product
             /\ sess'[x].login = sess[x].login
             /\ sess'[x].flow \in {sess[x].flow, "over"}
             /\ sess'[x].said = IF x = active[p] THEN how ELSE sess[x].said
             /\ sess'[x].by = IF x = active[p] THEN s ELSE sess[x].by
      BY <2>2, <3>3
    <3> QED
      BY <1>4, <2>1, <2>3, <3>1, <3>2, <3>4, ToldKeeps
  <2>4. CASE active[p] = None
    <3>1. \A x \in Ids : x # active[p]
      BY <2>4 DEF Ids, None
    <3>2. \A x \in Ids : x # s => R(x) = sess[x]
      BY <1>1, <3>1 DEF TypeOK, Record
    <3>3. Alike(R(s), sess[s]) /\ R(s) \in Record /\ R(s).flow = "over"
      BY <2>2, <3>1 DEF Alike
    <3>4. sess' = [sess EXCEPT ![s] = R(s)]
      BY <1>1, <2>1, <3>2 DEF TypeOK
    <3>5. active' = active /\ file' = file
      BY <1>1, <2>1, <2>4 DEF TypeOK
    <3>6. Moves(s)
      BY <3>3, <3>4, <3>5 DEF Moves
    <3> QED
      BY <3>6, MovesKeeps
  <2> QED
    BY <2>3, <2>4
<1> QED
  BY <1>3, <1>4 DEF Ends, MindsItsOwn

\* The step of a chain that goes on.
LEMMA GoesOnKeeps ==
  ASSUME IInv, NEW p \in Products, NEW s \in Ids, NEW flow \in Flows, NEW saved \in BOOLEAN,
         sess[s].product = p, GoesOn(p, s, flow, saved),
         flow \in {"polling", "checking"} => p = "cursor",
         UNCHANGED <<up, made>>
  PROVE  IInv'
<1>1. sess \in [Ids -> Record] /\ sess[s] \in Record
  BY DEF IInv, TypeOK
<1>2. ASSUME NEW f \in Flows, f \in {"polling", "checking"} => p = "cursor",
             sess' = [sess EXCEPT ![s].flow = f, ![s].saved = saved]
      PROVE  \E r \in Record : /\ Alike(r, sess[s])
                               /\ r.flow \in {"polling", "checking"} => r.product = "cursor"
                               /\ sess' = [sess EXCEPT ![s] = r]
  <2> DEFINE r == [sess[s] EXCEPT !.flow = f, !.saved = saved]
  <2>1. r \in Record
    BY <1>1 DEF Record
  <2>2. Alike(r, sess[s]) /\ r.flow = f
    BY <1>1 DEF Record, Alike
  <2>3. sess' = [sess EXCEPT ![s] = r]
    BY <1>1, <1>2
  <2> QED
    BY <1>2, <2>1, <2>2, <2>3 DEF Alike
<1>3. "over" \in Flows
  BY DEF Flows
<1>4. Moves(s)
  BY <1>2, <1>3 DEF GoesOn, Moves
<1> QED
  BY <1>4, MovesKeeps

\* A cancellation or a timer tells the session in progress.
LEMMA StopKeeps ==
  ASSUME IInv, NEW p \in Products, NEW how \in Over, Stop(p, how), UNCHANGED <<up, made>>
  PROVE  IInv'
<1>0. PICK a \in Ids : a = active[p]
  BY DEF IInv, TypeOK, Stop, Live, Ids, None
<1> DEFINE r == [sess[a] EXCEPT !.said = how, !.by = a]
<1>1. /\ active[p] # None /\ sess \in [Ids -> Record] /\ sess[a] \in Record
      /\ a \in 0..MaxSessions /\ how \in Answers
  BY DEF IInv, TypeOK, Stop, Live, Ids, None, Over, Answers
<1>2. /\ active' = [active EXCEPT ![p] = None]
      /\ file' = [file EXCEPT ![p] = None]
  BY DEF Stop, Cleared
<1>6. sess' = [sess EXCEPT ![a] = r]
  BY <1>0, <1>1 DEF Stop
<1>3. /\ r \in Record /\ r.product = sess[a].product /\ r.login = sess[a].login
      /\ r.flow = sess[a].flow /\ r.said = how /\ r.by = a
  BY <1>1 DEF Record
<1> HIDE DEF r
<1>4. /\ sess' \in [Ids -> Record] /\ sess'[a] = r
      /\ \A x \in Ids : x # a => sess'[x] = sess[x]
  BY <1>1, <1>3, <1>6
<1>5. \A x \in Ids :
        /\ sess'[x].product = sess[x].product
        /\ sess'[x].login = sess[x].login
        /\ sess'[x].flow \in {sess[x].flow, "over"}
        /\ sess'[x].said = IF x = active[p] THEN how ELSE sess[x].said
        /\ sess'[x].by = IF x = active[p] THEN a ELSE sess[x].by
  BY <1>0, <1>3, <1>4
<1>7. sess' \in [Ids -> Record] /\ active[p] # None /\ active[p] = a
  BY <1>0, <1>1, <1>4
<1> QED
  BY <1>2, <1>5, <1>7, ToldKeeps

\* A new session for a product that has none, whose login is in its file.  Either
\* the file is the new login's, or the login is of an earlier run of the program.
LEMMA OpensKeeps ==
  ASSUME IInv, NEW p \in Products, NEW login \in 1..MaxSessions, made < MaxSessions,
         Opens(p, login), up', active[p] = None,
         p = "codex" => active["cursor"] = None,
         p = "cursor" => active["codex"] = None,
         login <= made + 1,
         file' \in [Products -> 0..MaxSessions], file'[p] = login,
         \A q \in Products : \/ file'[q] = file[q]
                             \/ file'[q] = None /\ active[q] = None
                             \/ q = p /\ file'[q] = made + 1
  PROVE  IInv'
<1> DEFINE n == made + 1
           r == Session(p, login, FirstFlow(p), "pending")
<1>1. /\ TypeOK /\ n \in Ids /\ made \in Nat /\ n \in 0..MaxSessions
      /\ login \in 0..MaxSessions /\ made' = n
  BY SessionAssumption DEF IInv, TypeOK, Ids, Opens
<1>2. /\ r \in Record /\ r.product = p /\ r.login = login /\ r.said = "pending"
      /\ r.flow = FirstFlow(p) /\ r.by = None
  <2>1. FirstFlow(p) \in Flows /\ "pending" \in Answers
    BY DEF FirstFlow, Flows, Answers
  <2> QED
    BY <1>1, <2>1, SessionTyped
<1> HIDE DEF r
<1>3. /\ active' = [active EXCEPT ![p] = n] /\ sess' = [sess EXCEPT ![n] = r]
      /\ sess' \in [Ids -> Record] /\ sess'[n] = r
      /\ \A x \in Ids : x # n => sess'[x] = sess[x]
      /\ active' \in [Products -> 0..MaxSessions] /\ active'[p] = n
      /\ \A q \in Products : q # p => active'[q] = active[q]
  BY <1>1, <1>2 DEF Opens, TypeOK, r
<1>4. TypeOK'
  <2>1. up' \in BOOLEAN
    OBVIOUS
  <2>2. made' \in 0..MaxSessions
    BY <1>1
  <2> QED
    BY <1>3, <2>1, <2>2 DEF TypeOK
<1>5. \A x \in Ids : x = n => sess[x].said = "unused"
  BY <1>1 DEF IInv, Numbered
<1>6. \A q \in Products : active[q] # None => active[q] \in Ids /\ active[q] # n
  BY <1>1, <1>5 DEF IInv, ActiveIsPending, Live, TypeOK, Ids, None
<1>7. ActiveIsPending' /\ PendingIsOnDisk'
  <2> SUFFICES ASSUME NEW q \in Products, active'[q] # None
               PROVE  /\ up' /\ sess'[active'[q]].product = q
                      /\ sess'[active'[q]].said = "pending"
                      /\ file'[q] = sess'[active'[q]].login
    BY DEF ActiveIsPending, PendingIsOnDisk, Live
  <2>1. CASE q = p
    BY <1>2, <1>3, <2>1
  <2>2. CASE q # p
    <3>1. active'[q] = active[q] /\ active[q] # None /\ file'[q] = file[q]
      BY <1>3, <2>2
    <3>2. sess'[active[q]] = sess[active[q]]
      BY <1>3, <1>6, <3>1
    <3> QED
      BY <3>1, <3>2 DEF IInv, ActiveIsPending, PendingIsOnDisk, Live
  <2> QED
    BY <2>1, <2>2
<1>8. Numbered'
  <2>1. \A q \in Products : file'[q] <= made'
    BY <1>1 DEF IInv, Numbered, TypeOK, None
  <2>2. \A x \in Ids : x > made' => sess'[x].said = "unused"
    BY <1>1, <1>3 DEF IInv, Numbered, Ids
  <2>3. \A x \in Ids : sess'[x].said # "unused" => sess'[x].login \in 1..made'
    BY <1>1, <1>2, <1>3 DEF IInv, Numbered
  <2> QED
    BY <2>1, <2>2, <2>3 DEF Numbered
<1>9. PollsAreCursors'
  BY <1>2, <1>3 DEF IInv, PollsAreCursors, FirstFlow
<1>10. NobodyForgotten'
  <2> SUFFICES ASSUME NEW x \in Ids, sess'[x].said = "pending"
               PROVE  active'[sess'[x].product] = x
    BY DEF NobodyForgotten
  <2>1. CASE x = n
    BY <1>2, <1>3, <2>1
  <2>2. CASE x # n
    <3>1. sess'[x] = sess[x] /\ x # None
      BY <1>3, <2>2 DEF Ids, None
    <3>2. sess[x].product \in Products
      BY <1>1 DEF TypeOK, Record
    <3>3. active[sess[x].product] = x
      BY <3>1 DEF IInv, NobodyForgotten
    <3> QED
      BY <1>3, <2>2, <3>1, <3>2, <3>3
  <2> QED
    BY <2>1, <2>2
<1>11. CodexOrCursor'
  BY <1>3 DEF IInv, CodexOrCursor, Live, Products
<1>12. CodexEndsByItself'
  BY <1>2, <1>3 DEF IInv, CodexEndsByItself
<1>13. OverIsRemoved'
  <2> SUFFICES ASSUME NEW x \in Ids, sess'[x].said \in Over
               PROVE  file'[sess'[x].product] # sess'[x].login
    BY DEF OverIsRemoved, Over
  <2>1. x # n /\ sess'[x] = sess[x]
    BY <1>2, <1>3 DEF Over
  <2>2. /\ sess[x].product \in Products /\ file[sess[x].product] # sess[x].login
        /\ sess[x].login \in 1..made
    BY <1>1, <2>1 DEF IInv, OverIsRemoved, Numbered, TypeOK, Record, Over
  <2> QED
    BY <1>1, <2>1, <2>2 DEF None
<1> QED
  BY <1>4, <1>7, <1>8, <1>9, <1>10, <1>11, <1>12, <1>13 DEF IInv

\* A login is started only when its product, and Codex for Cursor and the other way
\* round, have none.
LEMMA StartKeeps ==
  ASSUME IInv, NEW p \in Products, Start(p)
  PROVE  IInv'
<1>1. /\ made < MaxSessions /\ up' /\ Opens(p, made + 1) /\ made \in Nat
      /\ file' = [file EXCEPT ![p] = made + 1] /\ TypeOK
  BY DEF Start, IInv, TypeOK
<1>2. made + 1 \in 1..MaxSessions
  BY <1>1, SessionAssumption
<1>3. /\ active[p] = None
      /\ p = "codex" => active["cursor"] = None
      /\ p = "cursor" => active["codex"] = None
  BY DEF Start, InTheWay, Live, Products
<1>4. /\ file' \in [Products -> 0..MaxSessions] /\ file'[p] = made + 1
      /\ \A q \in Products : q # p => file'[q] = file[q]
  BY <1>1, <1>2 DEF TypeOK
<1> QED
  BY <1>1, <1>2, <1>3, <1>4, OpensKeeps

\* Cancelling tells the session in progress; Codex also clears a leftover file.
LEMMA CancelKeeps ==
  ASSUME IInv, NEW p \in Products, Cancel(p) \/ Timeout(p)
  PROVE  IInv'
<1>1. UNCHANGED <<up, made>>
  BY DEF Cancel, Timeout
<1>2. "cancelled" \in Over /\ "timeout" \in Over
  BY DEF Over
<1>3. ASSUME Stop(p, "cancelled") \/ Stop(p, "timeout") PROVE IInv'
  BY <1>1, <1>2, <1>3, StopKeeps
<1>4. ASSUME ~ Live(p), file' = Cleared(p), UNCHANGED <<active, sess>> PROVE IInv'
  <2>1. TypeOK /\ file' = [file EXCEPT ![p] = None]
    BY <1>4 DEF IInv, Cleared
  <2>2. \A q \in Products : q # p => file'[q] = file[q]
    BY <2>1 DEF TypeOK
  <2>3. file'[p] = None /\ active[p] = None /\ None \in 0..MaxSessions
    BY <1>4, <2>1, SessionAssumption DEF TypeOK, Live, None
  <2>4. TypeOK'
    <3>1. file' \in [Products -> 0..MaxSessions]
      BY <2>1, <2>3 DEF TypeOK
    <3>2. up' \in BOOLEAN
      BY <1>1, <2>1, Zenon DEF TypeOK
    <3> QED
      BY <1>1, <1>4, <2>1, <3>1, <3>2 DEF TypeOK
  <2>5. ActiveIsPending' /\ CodexOrCursor' /\ NobodyForgotten'
    BY <1>1, <1>4 DEF IInv, ActiveIsPending, CodexOrCursor, NobodyForgotten, Live
  <2>6. PollsAreCursors' /\ CodexEndsByItself'
    BY <1>4 DEF IInv, PollsAreCursors, CodexEndsByItself
  <2>7. PendingIsOnDisk'
    BY <1>4, <2>2, <2>3 DEF IInv, PendingIsOnDisk, Live
  <2>8. Numbered'
    BY <1>1, <1>4, <2>1, <2>2, <2>3 DEF IInv, Numbered, TypeOK, None
  <2>9. OverIsRemoved'
    <3> SUFFICES ASSUME NEW x \in Ids, sess[x].said \in Over
                 PROVE  file'[sess[x].product] # sess[x].login
      BY <1>4 DEF OverIsRemoved, Over
    <3>1. /\ sess[x].product \in Products /\ sess[x].login \in 1..made
          /\ file[sess[x].product] # sess[x].login
      BY <2>1 DEF IInv, OverIsRemoved, Numbered, TypeOK, Record, Over
    <3> QED
      BY <2>1, <2>2, <2>3, <3>1 DEF None, TypeOK
  <2> QED
    BY <2>4, <2>5, <2>6, <2>7, <2>8, <2>9 DEF IInv
<1> QED
  BY <1>3, <1>4 DEF Cancel, Timeout

\* A step in the chain of a session.
LEMMA ChainKeeps ==
  ASSUME IInv, NEW s \in Ids, LoginChain(s)
  PROVE  IInv'
<1> DEFINE p == sess[s].product
<1>1. /\ UNCHANGED <<up, made>> /\ p \in Products /\ sess[s] \in Record
      /\ sess \in [Ids -> Record]
  BY DEF IInv, TypeOK, Record, LoginChain, Bound, PortError, Callback, Denied, Exchanged, Polled,
         PollAgain, Saves, Finishes, Step
<1>2. \A how \in {"cancelled", "timeout", "failed", "completed"} : how \in Over
  BY DEF Over
<1>3. \A flow \in {"waiting", "tokens", "checking", "switching", "profile", "saved"} :
         flow \in Flows
  BY DEF Flows
<1>4. sess[s].flow \in {"polling", "checking"} => p = "cursor"
  BY DEF IInv, PollsAreCursors
<1>5. ASSUME NEW how \in {"cancelled", "timeout", "failed", "completed"},
             Ends(p, s, how) \/ (p = "cursor" /\ Settle(p, s, how))
      PROVE  IInv'
  BY <1>1, <1>2, <1>5, EndsKeeps
<1>6. ASSUME NEW flow \in {"waiting", "tokens", "checking", "switching", "profile", "saved"},
             NEW saved \in BOOLEAN, GoesOn(p, s, flow, saved),
             flow = "checking" => p = "cursor"
      PROVE  IInv'
  BY <1>1, <1>3, <1>6, GoesOnKeeps
<1>7. CASE Bound(s)
  BY <1>5, <1>6, <1>7 DEF Bound
<1>8. CASE PortError(s) \/ Denied(s) \/ Finishes(s)
  BY <1>5, <1>8 DEF PortError, Denied, Finishes
<1>9. CASE Callback(s)
  <2> DEFINE r == [sess[s] EXCEPT !.flow = "exchanging"]
  <2>1. r \in Record /\ Alike(r, sess[s]) /\ r.flow = "exchanging"
    BY <1>1 DEF Record, Alike, Flows
  <2>2. sess' = [sess EXCEPT ![s] = r]
    BY <1>1, <1>9 DEF Callback
  <2>3. Moves(s)
    BY <1>1, <1>9, <2>1, <2>2 DEF Moves, Callback
  <2> QED
    BY <2>3, MovesKeeps
<1>10. CASE Exchanged(s)
  BY <1>5, <1>6, <1>10 DEF Exchanged
<1>11. CASE Polled(s)
  <2>1. p = "cursor"
    BY <1>4, <1>11 DEF Polled, Step
  <2> QED
    BY <1>6, <1>11, <2>1 DEF Polled
<1>12. CASE PollAgain(s)
  <2>1. p = "cursor" /\ sess[s].flow = "checking"
    BY <1>4, <1>12 DEF PollAgain, Step
  <2>2. CASE \E how \in {"cancelled", "timeout"} : Settle("cursor", s, how)
    BY <1>5, <2>1, <2>2
  <2>3. CASE /\ TriesLeft(s)
             /\ sess' = [sess EXCEPT ![s].flow = "polling", ![s].tries = @ + 1]
             /\ UNCHANGED <<active, file>>
    <3> DEFINE r == [sess[s] EXCEPT !.flow = "polling", !.tries = @ + 1]
    <3>1. sess[s].tries + 1 \in 1..MaxTries
      BY <1>1, <2>3, SessionAssumption DEF TriesLeft, Record
    <3>2. r \in Record /\ Alike(r, sess[s])
      BY <1>1, <3>1 DEF Record, Alike, Flows
    <3>3. sess' = [sess EXCEPT ![s] = r]
      BY <1>1, <2>3
    <3>4. Moves(s)
      BY <1>1, <2>1, <2>3, <3>2, <3>3 DEF Moves, Alike
    <3> QED
      BY <3>4, MovesKeeps
  <2> QED
    BY <1>12, <2>2, <2>3 DEF PollAgain
<1>13. CASE Saves(s)
  BY <1>5, <1>6, <1>13 DEF Saves
<1> QED
  BY <1>7, <1>8, <1>9, <1>10, <1>11, <1>12, <1>13 DEF LoginChain

\* When the application ends nothing is in progress; the pending logins stay on disk.
LEMMA QuitKeeps ==
  ASSUME IInv, Quit
  PROVE  IInv'
<1> DEFINE R(s) == [sess[s] EXCEPT !.flow = "over",
                                   !.said = IF @ = "pending" THEN "quit" ELSE @]
<1>1. /\ TypeOK /\ made' = made /\ file' = file /\ up' = FALSE
      /\ active' = [p \in Products |-> None]
      /\ sess' = [s \in Ids |-> R(s)]
  BY DEF IInv, Quit
<1>2. ASSUME NEW s \in Ids
      PROVE  /\ R(s) \in Record
             /\ R(s).product = sess[s].product /\ R(s).login = sess[s].login
             /\ R(s).by = sess[s].by /\ R(s).flow = "over"
             /\ R(s).said = IF sess[s].said = "pending" THEN "quit" ELSE sess[s].said
  <2>1. sess[s] \in Record /\ "quit" \in Answers /\ "over" \in Flows
    BY <1>1 DEF TypeOK, Answers, Flows
  <2> QED
    BY <2>1 DEF Record
<1>3. /\ sess' \in [Ids -> Record]
      /\ \A s \in Ids : sess'[s] = R(s)
  BY <1>1, <1>2
<1> HIDE DEF R
<1>4. TypeOK'
  <2>1. active' \in [Products -> 0..MaxSessions]
    BY <1>1, SessionAssumption DEF None
  <2>2. up' \in BOOLEAN
    BY <1>1
  <2> QED
    BY <1>1, <1>3, <2>1, <2>2 DEF TypeOK
<1>5. ActiveIsPending' /\ PendingIsOnDisk' /\ CodexOrCursor'
  BY <1>1 DEF ActiveIsPending, PendingIsOnDisk, CodexOrCursor, Live, Products
<1>6. Numbered'
  BY <1>1, <1>2, <1>3 DEF IInv, Numbered
<1>7. PollsAreCursors' /\ NobodyForgotten' /\ CodexEndsByItself'
  BY <1>2, <1>3 DEF IInv, PollsAreCursors, NobodyForgotten, CodexEndsByItself
<1>8. OverIsRemoved'
  BY <1>1, <1>2, <1>3 DEF IInv, OverIsRemoved
<1> QED
  BY <1>4, <1>5, <1>6, <1>7, <1>8 DEF IInv

\* A new run takes up at most one login, and may discard others.
LEMMA LaunchKeeps ==
  ASSUME IInv, Launch
  PROVE  IInv'
<1>1. TypeOK /\ ~ up /\ up' = TRUE
  BY DEF IInv, Launch
<1>2. \A p \in Products : active[p] = None
  BY <1>1 DEF IInv, ActiveIsPending, Live
<1>3. PICK read \in [Products -> {"pending", "over", "locked"}] :
        /\ file' = FilesAfter(read)
        /\ \/ UNCHANGED <<made, active, sess>>
           \/ \E p \in Products :
               /\ Restorable(p, read)
               /\ \A q \in Products : LaunchOrder[q] < LaunchOrder[p] => ~ Restorable(q, read)
               /\ made < MaxSessions
               /\ Opens(p, file[p])
  BY DEF Launch
<1>4. /\ file' \in [Products -> 0..MaxSessions]
      /\ \A q \in Products : file'[q] \in {file[q], None}
  BY <1>1, <1>3, SessionAssumption DEF FilesAfter, TypeOK, None
<1>5. CASE UNCHANGED <<made, active, sess>>
  <2>1. up' \in BOOLEAN
    BY <1>1
  <2>2. TypeOK'
    BY <1>1, <1>4, <1>5, <2>1 DEF TypeOK
  <2>3. ActiveIsPending' /\ PendingIsOnDisk' /\ CodexOrCursor'
    BY <1>2, <1>5 DEF ActiveIsPending, PendingIsOnDisk, CodexOrCursor, Live, Products
  <2>4. PollsAreCursors' /\ NobodyForgotten' /\ CodexEndsByItself'
    BY <1>5 DEF IInv, PollsAreCursors, NobodyForgotten, CodexEndsByItself
  <2>5. Numbered'
    BY <1>1, <1>4, <1>5 DEF IInv, Numbered, TypeOK, None
  <2>6. OverIsRemoved'
    <3> SUFFICES ASSUME NEW x \in Ids, sess[x].said \in Over
                 PROVE  file'[sess[x].product] # sess[x].login
      BY <1>5 DEF OverIsRemoved, Over
    <3>1. /\ sess[x].product \in Products /\ sess[x].login \in 1..made
          /\ file[sess[x].product] # sess[x].login
      BY <1>1 DEF IInv, OverIsRemoved, Numbered, TypeOK, Record, Over
    <3> QED
      BY <1>1, <1>4, <3>1 DEF None, TypeOK
  <2> QED
    BY <2>2, <2>3, <2>4, <2>5, <2>6 DEF IInv
<1>6. ASSUME NEW p \in Products, Restorable(p, read),
             \A q \in Products : LaunchOrder[q] < LaunchOrder[p] => ~ Restorable(q, read),
             made < MaxSessions, Opens(p, file[p])
      PROVE  IInv'
  <2>1. file[p] \in 1..MaxSessions /\ file[p] <= made + 1
    BY <1>1, <1>6 DEF IInv, Restorable, Numbered, TypeOK, None
  <2>2. file'[p] = file[p]
    <3>1. ~ (\E q \in Products : LaunchOrder[q] < LaunchOrder[p] /\ Restorable(q, read))
      BY <1>6
    <3>2. read[p] # "over"
      BY <1>6 DEF Restorable
    <3> QED
      BY <1>3, <3>1, <3>2 DEF FilesAfter
  <2>3. "codex" \in Products /\ "cursor" \in Products
    BY DEF Products
  <2> QED
    BY <1>1, <1>2, <1>4, <1>6, <2>1, <2>2, <2>3, OpensKeeps
<1> QED
  BY <1>3, <1>5, <1>6

\* The invariant is inductive.
LEMMA Inductive == IInv /\ [Next]_vars => IInv'
<1> SUFFICES ASSUME IInv, [Next]_vars PROVE IInv'
  OBVIOUS
<1>1. ASSUME NEW p \in Products, Start(p) PROVE IInv'
  BY <1>1, StartKeeps
<1>2. ASSUME NEW p \in Products, Cancel(p) \/ Timeout(p) PROVE IInv'
  BY <1>2, CancelKeeps
<1>3. ASSUME NEW s \in Ids, LoginChain(s) PROVE IInv'
  BY <1>3, ChainKeeps
<1>4. CASE Quit
  BY <1>4, QuitKeeps
<1>5. CASE Launch
  BY <1>5, LaunchKeeps
<1>6. CASE UNCHANGED vars
  BY <1>6 DEF vars, IInv, TypeOK, ActiveIsPending, Numbered, PollsAreCursors, PendingIsOnDisk,
              NobodyForgotten, CodexOrCursor, CodexEndsByItself, OverIsRemoved, Live
<1> QED
  BY <1>1, <1>2, <1>3, <1>4, <1>5, <1>6 DEF Next

\* The invariant holds throughout.
LEMMA Invariant == Spec => []IInv
  BY Initially, Inductive, PTL DEF Spec

\* The variables keep their types.
THEOREM TypesCorrect == Spec => []TypeOK
<1>1. IInv => TypeOK
  BY DEF IInv
<1> QED
  BY <1>1, Invariant, PTL

\* oauth.js, cursor-oauth.js, antigravity-oauth.js: whatever is cancelled, times out,
\* fails or is restored, the login in progress is the one in the pending file.
THEOREM PendingOnDisk == Spec => []PendingIsOnDisk
<1>1. IInv => PendingIsOnDisk
  BY DEF IInv
<1> QED
  BY <1>1, Invariant, PTL

\* Every caller that has no answer yet is the one the session in progress will answer.
THEOREM NobodyIsForgotten == Spec => []NobodyForgotten
<1>1. IInv => NobodyForgotten
  BY DEF IInv
<1> QED
  BY <1>1, Invariant, PTL

\* A login whose user was told it is over is never taken up again by a later run.
THEOREM OverStaysOver == Spec => []OverIsRemoved
<1>1. IInv => OverIsRemoved
  BY DEF IInv
<1> QED
  BY <1>1, Invariant, PTL

\* Codex and Cursor logins exclude each other, and no Codex session is settled by
\* what is left of an earlier one.
THEOREM CodexSessions == Spec => [](CodexOrCursor /\ CodexEndsByItself)
<1>1. IInv => CodexOrCursor /\ CodexEndsByItself
  BY DEF IInv
<1> QED
  BY <1>1, Invariant, PTL
=============================================================================
