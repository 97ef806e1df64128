---------------------------- MODULE AccountsProofs ----------------------------
(***************************************************************************)
(* Proofs about Accounts: sessions are never in two hands, spent tokens    *)
(* stay refused and a logout everywhere is final; a person stays one user  *)
(* and the ledger tells the truth.                                         *)
(***************************************************************************)
EXTENDS Accounts, TLAPS

Issued(t) == t \in Token /\ issue[t].user \in User /\ issue[t].root \in Token

Root(t) == issue[t].root

CutRoots == {k.root : k \in cut}

\* A token has a session or none, and sessions of one sign-in have one user;
\* what clients hold and what was cut goes back to sessions that were made.
IssuedSound ==
  /\ \A t \in Token : issue[t] = NoIssue \/ Issued(t)
  /\ \A t \in Token : Issued(t) => Issued(Root(t)) /\ issue[Root(t)].user = issue[t].user
  /\ \A t \in held : Issued(t)
  /\ \A a \in access : Issued(a.token) /\ a.expires <= clock + AccessTtl
  /\ cut \subseteq [root : Token, at : Nat]
  /\ \A k \in cut : Issued(k.root) /\ k.at <= clock

\* A token has one row at most, of the session made for it.
RowsSound ==
  /\ \A s \in sessions : Issued(s.token) /\ s.user = issue[s.token].user
  /\ \A r, s \in sessions : r.token = s.token => r = s

\* The row of a spent token is there, revoked, until it expires.
SpentRows ==
  /\ spent \subseteq [token : Token, expires : Nat]
  /\ \A t \in spent : clock < t.expires =>
       \E s \in sessions : s.token = t.token /\ s.expires = t.expires /\ s.revoked

\* Of a sign-in that was logged out everywhere no row is live, and no access token
\* outlasts what one signed at that moment would have.
CutForGood ==
  \A k \in cut :
    /\ \A s \in sessions : issue[s.token].root = k.root => s.revoked
    /\ \A a \in access : issue[a.token].root = k.root => a.expires <= k.at + AccessTtl

\* The invariant of the tables and of what clients hold.
TablesInv ==
  /\ IssuedSound /\ RowsSound /\ SpentRows
  /\ OneLivePerSignIn /\ CutForGood

\* The call may replace the session of its token: the sign-in was not cut.
MayRotate(k) == Issued(k.token) /\ k.user = issue[k.token].user /\ Root(k.token) \notin CutRoots

Dead(root) == \A s \in sessions : Root(s.token) = root => s.revoked

Live(t) == \E s \in sessions : s.token = t /\ ~s.revoked

\* What a call that is under way may count on, while it holds the lock.
CallSound(k) ==
  /\ k.now <= clock
  /\ k.pc \in {"finding", "binding", "auditing", "colliding"} => k.token = NoToken
  /\ k.pc \in {"binding", "auditing", "revoking", "opening", "answering"} => k.user \in User
  /\ k.pc \in {"matching", "revoking", "answering"} => Issued(k.token)
  /\ k.pc \in {"revoking", "answering"} => MayRotate(k)
  /\ k.pc = "revoking" => Live(k.token)
  /\ k.pc = "opening" /\ k.token # NoToken => MayRotate(k) /\ Dead(Root(k.token))

CallsInv ==
  /\ \A c \in Caller : call[c].pc # "idle" => lock = c
  /\ \A c \in Caller : CallSound(call[c])
  /\ \A l \in links : l.user \in User

SessionsInv == TypeOK /\ TablesInv /\ CallsInv

-----------------------------------------------------------------------------

LEMMA InitSessions == Init => SessionsInv
<1> SUFFICES ASSUME Init PROVE SessionsInv
  OBVIOUS
<1>1. TypeOK
  BY DEF Init, TypeOK, Call, Idle, Label, NoIssue
<1>2. TablesInv
  <2>1. \A t \in Token : issue[t] = NoIssue /\ ~Issued(t)
    BY AccountsConstants DEF Init, NoIssue, Issued
  <2>2. QED
    BY <2>1 DEF Init, TablesInv, IssuedSound, RowsSound, SpentRows, OneLivePerSignIn, CutForGood
<1>3. CallsInv
  BY DEF Init, CallsInv, CallSound, Idle
<1>4. QED
  BY <1>1, <1>2, <1>3 DEF SessionsInv

\* While somebody works, nobody else does; while nobody holds the lock, nobody does.
LEMMA OthersIdle ==
  ASSUME CallsInv, NEW c \in Caller, lock = NoCaller \/ lock = c, NEW d \in Caller, d # c
  PROVE  call[d].pc = "idle"
BY AccountsConstants DEF CallsInv

\* One call's step keeps what is known of all calls when it is known of its own.
LEMMA OneCallStep ==
  ASSUME TypeOK, CallsInv, NEW c \in Caller, lock = NoCaller \/ lock = c,
         NEW k \in Call, Move(c, k), CallSound(k)',
         clock' \in Nat, clock <= clock',
         lock' = c \/ (lock' = NoCaller /\ k.pc = "idle"),
         \A l \in links' : l.user \in User
  PROVE  /\ call' \in [Caller -> Call]
         /\ lock' \in Caller \union {NoCaller}
         /\ CallsInv'
<1>1. \A d \in Caller : call'[d] = IF d = c THEN k ELSE call[d]
  BY DEF Move, TypeOK
<1>2. call' \in [Caller -> Call]
  BY DEF Move, TypeOK
<1>3. ASSUME NEW d \in Caller, d # c PROVE call'[d].pc = "idle" /\ CallSound(call[d])'
  <2>1. call[d].pc = "idle" /\ call[d] \in Call /\ call[d].now <= clock
    BY <1>3, OthersIdle DEF CallsInv, CallSound, TypeOK
  <2>2. QED
    BY <1>1, <1>3, <2>1 DEF CallSound, Call, TypeOK
<1>4. ASSUME NEW d \in Caller PROVE CallSound(call[d])'
  <2>1. CASE d = c
    BY <1>1, <2>1
  <2>2. CASE d # c
    BY <1>3, <2>2
  <2>3. QED
    BY <2>1, <2>2
<1>5. \A d \in Caller : call'[d].pc # "idle" => lock' = d
  BY <1>1, <1>3
<1>6. QED
  BY <1>2, <1>4, <1>5 DEF CallsInv

sessionVars == <<clock, sessions, clients, issue, spent, cut>>

LEMMA QuietKept ==
  ASSUME UNCHANGED sessionVars
  PROVE  /\ TablesInv => TablesInv'
         /\ \A k : CallSound(k) => CallSound(k)'
<1>1. /\ UNCHANGED clock /\ UNCHANGED sessions /\ UNCHANGED held /\ UNCHANGED access
      /\ UNCHANGED issue /\ UNCHANGED spent /\ UNCHANGED cut
  BY DEF sessionVars, clients
<1>2. \A t : Issued(t)' <=> Issued(t)
  BY <1>1 DEF Issued
<1>3. TablesInv => TablesInv'
  BY <1>1, <1>2 DEF TablesInv, IssuedSound, RowsSound, SpentRows, OneLivePerSignIn,
       CutForGood, Root
<1>4. \A k : CallSound(k) => CallSound(k)'
  BY <1>1, <1>2 DEF CallSound, MayRotate, Dead, Live, Root, CutRoots
<1>5. QED
  BY <1>3, <1>4

\* A step of c's call that no session, token or logout comes of.
LEMMA QuietStep ==
  ASSUME SessionsInv, NEW c \in Caller, lock = NoCaller \/ lock = c,
         NEW k \in Call, Move(c, k), CallSound(k),
         lock' = c \/ (lock' = NoCaller /\ k.pc = "idle"),
         \A l \in links' : l.user \in User,
         UNCHANGED sessionVars
  PROVE  SessionsInv'
<1>1. CallSound(k)' /\ TablesInv'
  BY QuietKept DEF SessionsInv
<1>2. clock' \in Nat /\ clock <= clock'
  BY DEF sessionVars, SessionsInv, TypeOK
<1>3. call' \in [Caller -> Call] /\ lock' \in Caller \union {NoCaller} /\ CallsInv'
  BY <1>1, <1>2, OneCallStep DEF SessionsInv
<1>4. TypeOK'
  BY <1>3 DEF SessionsInv, TypeOK, sessionVars, clients
<1>5. QED
  BY <1>1, <1>3, <1>4 DEF SessionsInv

LEMMA ReturnQuiet ==
  ASSUME SessionsInv, NEW c \in Caller, lock = c, Return(c),
         UNCHANGED links, UNCHANGED sessionVars
  PROVE  SessionsInv'
<1>1. Idle \in Call /\ CallSound(Idle)
  BY DEF Idle, Call, Label, CallSound, SessionsInv, TypeOK
<1>2. \A l \in links' : l.user \in User
  BY DEF SessionsInv, CallsInv
<1>3. QED
  BY <1>1, <1>2, QuietStep DEF Return, Idle

LEMMA BeginSteps ==
  ASSUME SessionsInv, NEW c \in Caller
  PROVE  /\ \A cl \in Claims : BeginLogin(c, cl) => SessionsInv'
         /\ \A cl \in Claims : BeginLink(c, cl) => SessionsInv'
         /\ \A t \in Token : BeginRefresh(c, t) => SessionsInv'
<1>1. ASSUME NEW k \in Call, CallSound(k), Begin(c, k) PROVE SessionsInv'
  <2>1. Move(c, k) /\ lock = NoCaller /\ lock' = c /\ UNCHANGED links /\ UNCHANGED sessionVars
    BY <1>1 DEF Begin, Enter, tables, history, clients, sessionVars
  <2>2. QED
    BY <1>1, <2>1, QuietStep DEF SessionsInv, CallsInv
<1>2. clock \in Nat
  BY DEF SessionsInv, TypeOK
<1>3. ASSUME NEW cl \in Claims, BeginLogin(c, cl) PROVE SessionsInv'
  <2> DEFINE k == [Idle EXCEPT !.pc = "finding", !.claims = cl, !.now = clock]
  <2>1. k \in Call /\ k.pc = "finding" /\ k.token = NoToken /\ k.now = clock
    BY <1>2 DEF Idle, Call, Label
  <2>2. Begin(c, k)
    BY <1>3 DEF BeginLogin
  <2> HIDE DEF k
  <2>3. CallSound(k)
    BY <1>2, <2>1 DEF CallSound
  <2>4. QED
    BY <1>1, <2>1, <2>2, <2>3
<1>4. ASSUME NEW cl \in Claims, BeginLink(c, cl) PROVE SessionsInv'
  <2>1. PICK a \in access :
          /\ VerifyAccess(a, clock) # Invalid
          /\ Begin(c, [Idle EXCEPT !.pc = "finding", !.acting = VerifyAccess(a, clock),
                                   !.claims = cl, !.now = clock])
    BY <1>4 DEF BeginLink
  <2>2. VerifyAccess(a, clock) \in User
    BY <2>1 DEF VerifyAccess, SessionsInv, TypeOK
  <2> DEFINE u == VerifyAccess(a, clock)
             k == [Idle EXCEPT !.pc = "finding", !.acting = u, !.claims = cl, !.now = clock]
  <2>3. k \in Call /\ k.pc = "finding" /\ k.token = NoToken /\ k.now = clock
    <3> HIDE DEF u
    <3>1. u \in User
      BY <2>2 DEF u
    <3>2. QED
      BY <1>2, <3>1 DEF Idle, Call, Label
  <2>4. Begin(c, k)
    BY <2>1
  <2> HIDE DEF k
  <2>5. CallSound(k)
    BY <1>2, <2>3 DEF CallSound
  <2>6. QED
    BY <1>1, <2>3, <2>4, <2>5
<1>5. ASSUME NEW t \in Token, BeginRefresh(c, t) PROVE SessionsInv'
  <2> DEFINE k == [Idle EXCEPT !.pc = "matching", !.token = t, !.now = clock]
  <2>1. Issued(t)
    BY <1>5 DEF BeginRefresh, SessionsInv, TablesInv, IssuedSound
  <2>2. k \in Call /\ k.pc = "matching" /\ k.token = t /\ k.now = clock
    BY <1>2, <1>5 DEF Idle, Call, Label
  <2>3. Begin(c, k)
    BY <1>5 DEF BeginRefresh
  <2> HIDE DEF k
  <2>4. CallSound(k)
    BY <1>2, <2>1, <2>2 DEF CallSound
  <2>5. QED
    BY <1>1, <2>2, <2>3, <2>4
<1>6. QED
  BY <1>3, <1>4, <1>5

\* A call that is under way holds the lock, and is as it should be.
LEMMA Busy ==
  ASSUME SessionsInv, NEW c \in Caller, call[c].pc # "idle"
  PROVE  lock = c /\ call[c] \in Call /\ CallSound(call[c])
BY DEF SessionsInv, CallsInv, TypeOK

LEMMA FindUserStep ==
  ASSUME SessionsInv, NEW c \in Caller, FindUser(c)
  PROVE  SessionsInv'
<1> DEFINE k == call[c]
<1>1. k.pc = "finding" /\ lock = c /\ k \in Call /\ CallSound(k)
  BY Busy DEF FindUser, At
<1>2. UNCHANGED sessionVars /\ UNCHANGED links /\ \A l \in links : l.user \in User
  BY DEF FindUser, tables, history, clients, sessionVars, SessionsInv, CallsInv
<1>3. k.token = NoToken /\ k.now <= clock
  BY <1>1 DEF CallSound
<1>4. ASSUME NEW u \in User, NEW label \in {"opening", "binding"},
             Move(c, [k EXCEPT !.pc = label, !.user = u]), UNCHANGED lock
      PROVE  SessionsInv'
  <2> DEFINE n == [k EXCEPT !.pc = label, !.user = u]
  <2>1. n \in Call /\ n.pc = label /\ n.user = u /\ n.token = k.token /\ n.now = k.now
    BY <1>1 DEF Call, Label
  <2> HIDE DEF n
  <2>2. CallSound(n)
    BY <1>3, <2>1 DEF CallSound
  <2>3. Move(c, n)
    BY <1>4 DEF n
  <2> HIDE DEF k
  <2>4. QED
    BY <1>1, <1>2, <1>4, <2>1, <2>2, <2>3, QuietStep
<1>5. ASSUME Goto(c, "colliding"), UNCHANGED lock PROVE SessionsInv'
  <2> DEFINE n == [k EXCEPT !.pc = "colliding"]
  <2>1. n \in Call /\ n.pc = "colliding" /\ n.token = k.token /\ n.now = k.now
    BY <1>1 DEF Call, Label
  <2> HIDE DEF n
  <2>2. CallSound(n)
    BY <1>3, <2>1 DEF CallSound
  <2>3. Move(c, n)
    BY <1>5 DEF Goto, n
  <2> HIDE DEF k
  <2>4. QED
    BY <1>1, <1>2, <1>5, <2>1, <2>2, <2>3, QuietStep
<1>6. Owners(IdentityOf(c)) \subseteq User
  BY <1>2 DEF Owners
<1>7. Outcome(c) = "link" => k.acting \in User
  BY <1>1 DEF Outcome, ResolveLink, Call
<1>8. Outcome(c) \in {"sign_in", "provision", "link", "already_linked", "collision"}
  BY DEF Outcome, ResolveLink
<1>9. CASE Outcome(c) = "sign_in"
  BY <1>4, <1>6, <1>9 DEF FindUser
<1>10. CASE Outcome(c) = "provision"
  BY <1>4, <1>10 DEF FindUser
<1>11. CASE Outcome(c) = "link"
  BY <1>4, <1>7, <1>11 DEF FindUser
<1>12. CASE Outcome(c) = "already_linked"
  BY <1>1, <1>2, <1>12, ReturnQuiet DEF FindUser
<1>13. CASE Outcome(c) = "collision"
  BY <1>5, <1>13 DEF FindUser
<1>14. QED
  BY <1>8, <1>9, <1>10, <1>11, <1>12, <1>13

LEMMA BindingSteps ==
  ASSUME SessionsInv, NEW c \in Caller
  PROVE  /\ LinkIdentity(c) => SessionsInv'
         /\ Audit(c) => SessionsInv'
         /\ AuditLost(c) => SessionsInv'
         /\ AuditCollision(c) => SessionsInv'
         /\ StatementFails(c) => SessionsInv'
<1> DEFINE k == call[c]
<1>1. \A l \in links : l.user \in User
  BY DEF SessionsInv, CallsInv
<1>2. ASSUME k.pc \in {"binding", "auditing"}, NEW label \in {"auditing", "opening"},
             Goto(c, label), UNCHANGED lock, UNCHANGED sessionVars,
             \A l \in links' : l.user \in User
      PROVE  SessionsInv'
  <2> DEFINE n == [k EXCEPT !.pc = label]
  <2>1. lock = c /\ k \in Call /\ CallSound(k)
    BY <1>2, Busy
  <2>2. k.now <= clock /\ k.token = NoToken /\ k.user \in User
    BY <1>2, <2>1 DEF CallSound
  <2>3. n \in Call /\ n.pc = label /\ n.user = k.user /\ n.token = k.token /\ n.now = k.now
    BY <2>1 DEF Call, Label
  <2> HIDE DEF n
  <2>4. CallSound(n)
    BY <2>2, <2>3 DEF CallSound
  <2>5. Move(c, n)
    BY <1>2 DEF Goto, n
  <2> HIDE DEF k
  <2>6. QED
    BY <1>2, <2>1, <2>3, <2>4, <2>5, QuietStep
<1>3. ASSUME LinkIdentity(c) PROVE SessionsInv'
  <2>1. k.pc = "binding" /\ UNCHANGED sessionVars
    BY <1>3 DEF LinkIdentity, At, sessionVars, clients, history
  <2>2. lock = c /\ k.user \in User
    BY <2>1, Busy DEF CallSound
  <2>3. CASE Owners(IdentityOf(c)) = {}
    <3>1. /\ links' = links \union {IdentityLink(IdentityOf(c), k.user)}
          /\ Goto(c, "auditing") /\ UNCHANGED lock
      BY <1>3, <2>3 DEF LinkIdentity
    <3>2. \A l \in links' : l.user \in User
      BY <1>1, <2>2, <3>1 DEF IdentityLink
    <3>3. QED
      BY <1>2, <2>1, <3>1, <3>2
  <2>4. CASE Owners(IdentityOf(c)) # {}
    BY <1>3, <2>1, <2>2, <2>4, ReturnQuiet DEF LinkIdentity
  <2>5. QED
    BY <2>3, <2>4
<1>4. ASSUME At(c, "auditing"), AfterAudit(c), UNCHANGED links, UNCHANGED sessionVars
      PROVE  SessionsInv'
  <2>1. k.pc = "auditing" /\ lock = c
    BY <1>4, Busy DEF At
  <2>2. CASE k.acting = NoUser
    BY <1>1, <1>2, <1>4, <2>1, <2>2 DEF AfterAudit
  <2>3. CASE k.acting # NoUser
    BY <1>4, <2>1, <2>3, ReturnQuiet DEF AfterAudit
  <2>4. QED
    BY <2>2, <2>3
<1>5. ASSUME Audit(c) PROVE SessionsInv'
  BY <1>4, <1>5 DEF Audit, sessionVars, clients, history
<1>6. ASSUME AuditLost(c) PROVE SessionsInv'
  BY <1>4, <1>6 DEF AuditLost, sessionVars, clients, tables
<1>7. ASSUME AuditCollision(c) PROVE SessionsInv'
  <2>1. lock = c /\ UNCHANGED links /\ UNCHANGED sessionVars
    BY <1>7, Busy DEF AuditCollision, At, sessionVars, clients, history
  <2>2. QED
    BY <1>7, <2>1, ReturnQuiet DEF AuditCollision
<1>8. ASSUME StatementFails(c) PROVE SessionsInv'
  <2>1. lock = c /\ UNCHANGED links /\ UNCHANGED sessionVars
    BY <1>8, Busy DEF StatementFails, At, sessionVars, clients, history, tables
  <2>2. QED
    BY <1>8, <2>1, ReturnQuiet DEF StatementFails
<1>9. QED
  BY <1>3, <1>5, <1>6, <1>7, <1>8

\* A refresh goes on only with a row that is live, so its sign-in was not cut.
LEMMA MatchStep ==
  ASSUME SessionsInv, NEW c \in Caller, MatchSession(c)
  PROVE  SessionsInv'
<1> DEFINE k == call[c]
           found == RowsOf(k.token)
<1>1. k.pc = "matching" /\ lock = c /\ k \in Call /\ CallSound(k)
  BY Busy DEF MatchSession, At
<1>2. Issued(k.token) /\ k.now <= clock
  BY <1>1 DEF CallSound
<1>3. UNCHANGED sessionVars /\ UNCHANGED links /\ \A l \in links : l.user \in User
  BY DEF MatchSession, tables, history, clients, sessionVars, SessionsInv, CallsInv
<1>4. CASE EvaluateRefresh(found, k.now) = "rotate"
  <2>1. PICK s \in found : Move(c, [k EXCEPT !.pc = "revoking", !.user = s.user])
    BY <1>4 DEF MatchSession
  <2>2. \E r \in found : ~r.revoked
    BY <1>4 DEF EvaluateRefresh
  <2>3. s \in sessions /\ s.token = k.token /\ ~s.revoked
    BY <2>1, <2>2 DEF RowsOf, SessionsInv, TablesInv, RowsSound
  <2>4. s.user = issue[k.token].user
    BY <2>3 DEF SessionsInv, TablesInv, RowsSound
  <2>5. Root(k.token) \notin CutRoots
    BY <2>3 DEF Root, CutRoots, SessionsInv, TablesInv, CutForGood
  <2>6. UNCHANGED lock
    BY <1>4 DEF MatchSession
  <2> DEFINE n == [k EXCEPT !.pc = "revoking", !.user = s.user]
  <2>7. s.user \in User
    BY <1>2, <2>4 DEF Issued
  <2>8. n \in Call /\ n.pc = "revoking" /\ n.user = s.user /\ n.token = k.token /\ n.now = k.now
    BY <1>1, <2>7 DEF Call, Label
  <2>9. Move(c, n)
    BY <2>1
  <2> HIDE DEF n
  <2>10. CallSound(n)
    BY <1>2, <2>3, <2>4, <2>5, <2>7, <2>8 DEF CallSound, MayRotate, Live
  <2> HIDE DEF k
  <2>11. QED
    BY <1>1, <1>3, <2>6, <2>8, <2>9, <2>10, QuietStep
<1>5. CASE EvaluateRefresh(found, k.now) # "rotate"
  BY <1>1, <1>3, <1>5, ReturnQuiet DEF MatchSession
<1>6. QED
  BY <1>4, <1>5

-----------------------------------------------------------------------------
(* The steps that change the sessions *)

Marked(s) == [token |-> s.token, user |-> s.user, expires |-> s.expires, revoked |-> TRUE]

\* What UPDATE sessions SET revoked = 1 leaves of the table.
LEMMA RowsAfter ==
  ASSUME sessions \subseteq Row, NEW rows \in SUBSET sessions, RevokeRows(rows)
  PROVE  /\ \A n \in sessions' : \E s \in sessions : n = IF s \in rows THEN Marked(s) ELSE s
         /\ \A s \in sessions : (IF s \in rows THEN Marked(s) ELSE s) \in sessions'
         /\ sessions' \subseteq Row
<1>1. ASSUME NEW s \in sessions
      PROVE  [s EXCEPT !.revoked = TRUE] = Marked(s) /\ Marked(s) \in Row
  <2> DEFINE n == [s EXCEPT !.revoked = TRUE]
  <2>1. /\ n \in Row /\ n.token = s.token /\ n.user = s.user /\ n.expires = s.expires
        /\ n.revoked = TRUE
    BY DEF Row
  <2> HIDE DEF n
  <2>2. n = [token |-> n.token, user |-> n.user, expires |-> n.expires, revoked |-> n.revoked]
    BY <2>1 DEF Row
  <2>3. n = Marked(s)
    BY <2>1, <2>2 DEF Marked
  <2>4. QED
    BY <2>1, <2>3 DEF n
<1>2. sessions' = (sessions \ rows) \union {Marked(s) : s \in rows}
  BY <1>1 DEF RevokeRows, Revoked
<1>3. QED
  BY <1>1, <1>2

LEMMA RevokeKeeps ==
  ASSUME TypeOK, TablesInv, NEW rows \in SUBSET sessions, RevokeRows(rows),
         clock' = clock, issue' = issue
  PROVE  /\ RowsSound' /\ SpentRows' /\ OneLivePerSignIn'
         /\ \A k \in cut : \A s \in sessions' : Root(s.token) = k.root => s.revoked
<1>1. /\ \A n \in sessions' : \E s \in sessions : n = IF s \in rows THEN Marked(s) ELSE s
      /\ \A s \in sessions : (IF s \in rows THEN Marked(s) ELSE s) \in sessions'
      /\ sessions \subseteq Row
  BY RowsAfter DEF TypeOK
<1>2. \A t : Issued(t)' <=> Issued(t)
  BY DEF Issued
<1>3. RowsSound'
  <2>1. \A n \in sessions' : Issued(n.token)' /\ n.user = issue'[n.token].user
    BY <1>1, <1>2 DEF TablesInv, RowsSound, Marked
  <2>2. ASSUME NEW m \in sessions', NEW n \in sessions', m.token = n.token PROVE m = n
    <3>1. PICK r \in sessions : m = IF r \in rows THEN Marked(r) ELSE r
      BY <1>1
    <3>2. PICK s \in sessions : n = IF s \in rows THEN Marked(s) ELSE s
      BY <1>1
    <3>3. r.token = s.token
      BY <2>2, <3>1, <3>2 DEF Marked
    <3>4. r = s
      BY <3>3 DEF TablesInv, RowsSound
    <3>5. QED
      BY <3>1, <3>2, <3>4
  <2>3. QED
    BY <2>1, <2>2 DEF RowsSound
<1>4. SpentRows'
  <2>1. spent' = spent \union {[token |-> s.token, expires |-> s.expires] : s \in rows}
    BY DEF RevokeRows
  <2>2. spent' \subseteq [token : Token, expires : Nat]
    BY <1>1, <2>1 DEF TablesInv, SpentRows, Row
  <2>3. ASSUME NEW t \in spent, clock < t.expires
        PROVE  \E n \in sessions' : n.token = t.token /\ n.expires = t.expires /\ n.revoked
    <3>1. PICK s \in sessions : s.token = t.token /\ s.expires = t.expires /\ s.revoked
      BY <2>3 DEF TablesInv, SpentRows
    <3>2. QED
      BY <1>1, <3>1 DEF Marked
  <2>4. ASSUME NEW s \in rows
        PROVE  \E n \in sessions' : n.token = s.token /\ n.expires = s.expires /\ n.revoked
    BY <1>1 DEF Marked
  <2>5. QED
    BY <2>1, <2>2, <2>3, <2>4 DEF SpentRows
<1>5. OneLivePerSignIn'
  BY <1>1 DEF TablesInv, OneLivePerSignIn, Marked
<1>6. ASSUME NEW k \in cut, NEW n \in sessions', Root(n.token) = k.root PROVE n.revoked
  BY <1>1, <1>6 DEF TablesInv, CutForGood, Root, Marked
<1>7. QED
  BY <1>3, <1>4, <1>5, <1>6

\* Once the presented session is revoked its sign-in has no live one.
LEMMA RevokeSessionStep ==
  ASSUME SessionsInv, NEW c \in Caller, RevokeSession(c)
  PROVE  SessionsInv'
<1> PICK k : k = call[c]
  OBVIOUS
<1> DEFINE n == [k EXCEPT !.pc = "opening"]
           rows == {s \in RowsOf(k.token) : ~s.revoked}
<1>1. k.pc = "revoking" /\ lock = c /\ k \in Call /\ CallSound(k)
  BY Busy DEF RevokeSession, At
<1>2. MayRotate(k) /\ Live(k.token) /\ k.user \in User /\ k.now <= clock
  BY <1>1 DEF CallSound
<1>3. rows \in SUBSET sessions /\ RevokeRows(rows)
  BY DEF RevokeSession, RowsOf
<1>4. /\ clock' = clock /\ issue' = issue /\ cut' = cut /\ links' = links /\ lock' = lock
      /\ held' = held /\ access' = access
  BY DEF RevokeSession, clients
<1>5. Move(c, n)
  BY DEF RevokeSession, Goto
<1>6. n \in Call /\ n.pc = "opening" /\ n.user = k.user /\ n.token = k.token /\ n.now = k.now
  BY <1>1 DEF Call, Label
<1> HIDE DEF n
<1>7. /\ RowsSound' /\ SpentRows' /\ OneLivePerSignIn'
      /\ \A x \in cut : \A s \in sessions' : Root(s.token) = x.root => s.revoked
  BY <1>3, <1>4, RevokeKeeps DEF SessionsInv
<1>8. /\ \A m \in sessions' : \E s \in sessions : m = IF s \in rows THEN Marked(s) ELSE s
      /\ sessions' \subseteq Row
  BY <1>3, RowsAfter DEF SessionsInv, TypeOK
<1>9. \A t : Issued(t)' <=> Issued(t)
  BY <1>4 DEF Issued
<1>10. TablesInv'
  BY <1>4, <1>7, <1>9 DEF SessionsInv, TablesInv, IssuedSound, CutForGood, Root
<1>11. Dead(Root(k.token))'
  <2>1. PICK r \in sessions : r.token = k.token /\ ~r.revoked
    BY <1>2 DEF Live
  <2>2. ASSUME NEW s \in sessions, Root(s.token) = Root(k.token), ~s.revoked PROVE s \in rows
    BY <2>1, <2>2 DEF Root, RowsOf, SessionsInv, TablesInv, OneLivePerSignIn
  <2>3. QED
    BY <1>4, <1>8, <2>2 DEF Dead, Root, Marked
<1>12. CallSound(n)'
  <2>1. MayRotate(n)' /\ Dead(Root(n.token))'
    BY <1>2, <1>4, <1>6, <1>9, <1>11 DEF MayRotate, Root, CutRoots, Dead
  <2>2. QED
    BY <1>2, <1>4, <1>6, <2>1 DEF CallSound
<1>13. \A l \in links' : l.user \in User
  BY <1>4 DEF SessionsInv, CallsInv
<1>14. clock \in Nat
  BY DEF SessionsInv, TypeOK
<1> HIDE DEF rows
<1>15. call' \in [Caller -> Call] /\ lock' \in Caller \union {NoCaller} /\ CallsInv'
  BY <1>1, <1>4, <1>5, <1>6, <1>12, <1>13, <1>14, OneCallStep DEF SessionsInv
<1>16. TypeOK'
  BY <1>4, <1>8, <1>15 DEF SessionsInv, TypeOK
<1>17. QED
  BY <1>10, <1>15, <1>16 DEF SessionsInv

LEMMA AnswerStep ==
  ASSUME SessionsInv, NEW c \in Caller, Answer(c)
  PROVE  SessionsInv'
<1> DEFINE k == call[c]
           a == AccessClaims(k.token, k.user, k.now)
<1>1. k.pc = "answering" /\ lock = c /\ k \in Call /\ CallSound(k)
  BY Busy DEF Answer, At
<1>2. MayRotate(k) /\ k.user \in User /\ k.now <= clock /\ k.now \in Nat /\ clock \in Nat
  BY <1>1 DEF CallSound, Call, SessionsInv, TypeOK
<1>3. /\ clock' = clock /\ issue' = issue /\ cut' = cut /\ links' = links
      /\ sessions' = sessions /\ spent' = spent
      /\ held' = held \union {k.token} /\ access' = access \union {a}
  BY DEF Answer, tables
<1>4. /\ a = [token |-> k.token, user |-> k.user, expires |-> k.now + AccessTtl]
      /\ Issued(k.token) /\ a.expires \in Nat /\ a.expires <= clock + AccessTtl
  BY <1>2, AccountsConstants DEF AccessClaims, MayRotate
<1>5. \A t : Issued(t)' <=> Issued(t)
  BY <1>3 DEF Issued
<1>6. CutForGood'
  BY <1>2, <1>3, <1>4 DEF SessionsInv, TablesInv, CutForGood, MayRotate, CutRoots, Root
<1>7. TablesInv'
  BY <1>3, <1>4, <1>5, <1>6
     DEF SessionsInv, TablesInv, IssuedSound, RowsSound, SpentRows, OneLivePerSignIn, Root
<1>8. Idle \in Call /\ CallSound(Idle)'
  BY <1>2, <1>3 DEF Idle, Call, Label, CallSound
<1>9. \A l \in links' : l.user \in User
  BY <1>3 DEF SessionsInv, CallsInv
<1>10. Move(c, Idle) /\ lock' = NoCaller /\ Idle.pc = "idle"
  BY DEF Answer, Return, Idle
<1>11. a \in [token : Token, user : User, expires : Nat]
  BY <1>2, <1>4 DEF Issued
<1> HIDE DEF k, a
<1>12. call' \in [Caller -> Call] /\ lock' \in Caller \union {NoCaller} /\ CallsInv'
  BY <1>1, <1>2, <1>3, <1>8, <1>9, <1>10, OneCallStep DEF SessionsInv
<1>13. TypeOK'
  BY <1>3, <1>4, <1>11, <1>12 DEF SessionsInv, TypeOK, Issued
<1>14. QED
  BY <1>7, <1>12, <1>13 DEF SessionsInv

\* A new session is of a fresh token; of a sign-in of its own, or one that has
\* no live session and was not cut.
LEMMA OpenSessionStep ==
  ASSUME SessionsInv, NEW c \in Caller, OpenSession(c)
  PROVE  SessionsInv'
<1> PICK k : k = call[c]
  OBVIOUS
<1>1. k.pc = "opening" /\ lock = c /\ k \in Call /\ CallSound(k)
  BY Busy DEF OpenSession, At
<1>2. /\ k.user \in User /\ k.now <= clock /\ k.now \in Nat /\ clock \in Nat
      /\ k.token # NoToken => MayRotate(k) /\ Dead(Root(k.token))
  BY <1>1 DEF CallSound, Call, SessionsInv, TypeOK
<1> DEFINE root(t) == IF k.token = NoToken THEN t ELSE issue[k.token].root
<1>3. PICK t \in Token :
        /\ FreshToken(t)
        /\ CreateSession(Session(t, k.user, k.now))
        /\ issue' = [issue EXCEPT ![t] = [user |-> k.user, root |-> root(t)]]
        /\ Move(c, [k EXCEPT !.pc = "answering", !.token = t])
  BY DEF OpenSession
<1> DEFINE top == root(t)
           n == [k EXCEPT !.pc = "answering", !.token = t]
           new == Session(t, k.user, k.now)
<1>4. /\ clock' = clock /\ cut' = cut /\ links' = links /\ lock' = lock
      /\ held' = held /\ access' = access /\ spent' = spent
      /\ sessions' = sessions \union {new}
  BY <1>3 DEF OpenSession, clients, CreateSession
<1>5. /\ new = [token |-> t, user |-> k.user, expires |-> k.now + RefreshTtl, revoked |-> FALSE]
      /\ new \in Row
  BY <1>2, AccountsConstants DEF Session, Row
<1>6. /\ n \in Call /\ n.pc = "answering" /\ n.user = k.user /\ n.token = t /\ n.now = k.now
      /\ Move(c, n)
  BY <1>1, <1>3 DEF Call, Label
<1> HIDE DEF n, new
<1>7. ~Issued(t)
  BY <1>3, AccountsConstants DEF FreshToken, NoIssue, Issued
<1>8. /\ top \in Token
      /\ top = t \/ (Issued(top) /\ issue[top].user = k.user /\ Dead(top) /\ Root(top) \in Token)
      /\ top \notin CutRoots
      /\ top # t => \E p \in Token : Issued(p) /\ Root(p) = top
  <2>1. CASE k.token = NoToken
    BY <1>7, <2>1 DEF CutRoots, SessionsInv, TablesInv, IssuedSound
  <2>2. CASE k.token # NoToken
    <3>1. Issued(k.token) /\ top = Root(k.token) /\ k.user = issue[k.token].user
      BY <1>2, <2>2 DEF MayRotate, Root
    <3>2. Issued(top) /\ issue[top].user = k.user
      BY <3>1 DEF SessionsInv, TablesInv, IssuedSound, Issued
    <3>3. QED
      BY <1>2, <2>2, <3>1, <3>2 DEF MayRotate, Issued, Root
  <2>3. QED
    BY <2>1, <2>2
<1>9. /\ issue'[t] = [user |-> k.user, root |-> top]
      /\ \A p \in Token : p # t => issue'[p] = issue[p]
      /\ issue' \in [Token -> [user : User \union {NoUser}, root : Token \union {NoToken}]]
  BY <1>2, <1>3, <1>8 DEF SessionsInv, TypeOK
<1> HIDE DEF top, root
<1>10. /\ Issued(t)' /\ Root(t)' = top
       /\ \A p : Issued(p) => Issued(p)' /\ p # t /\ issue'[p] = issue[p] /\ Root(p)' = Root(p)
       /\ \A p \in Token : Issued(p)' => p = t \/ Issued(p)
  BY <1>2, <1>7, <1>8, <1>9 DEF Issued, Root
<1>11. \A s \in sessions :
         /\ Issued(s.token) /\ s.user = issue[s.token].user
         /\ Issued(s.token)' /\ s.token # t /\ issue'[s.token] = issue[s.token]
  BY <1>10 DEF SessionsInv, TablesInv, RowsSound
<1>12. IssuedSound'
  <2>1. \A p \in Token : issue'[p] = NoIssue \/ Issued(p)'
    BY <1>9, <1>10 DEF SessionsInv, TablesInv, IssuedSound
  <2>2. ASSUME NEW p \in Token, Issued(p)'
        PROVE  Issued(Root(p))' /\ issue'[Root(p)'].user = issue'[p].user
    <3>1. CASE p = t
      BY <1>8, <1>9, <1>10, <3>1
    <3>2. CASE p # t
      <4>1. Issued(p) /\ Issued(Root(p)) /\ issue[Root(p)].user = issue[p].user
        BY <1>10, <2>2, <3>2 DEF SessionsInv, TablesInv, IssuedSound
      <4>2. Root(p)' = Root(p) /\ issue'[p] = issue[p] /\ issue'[Root(p)] = issue[Root(p)]
        BY <1>10, <4>1
      <4>3. Issued(Root(p))'
        BY <1>10, <4>1, <4>2 DEF Issued
      <4>4. QED
        BY <4>1, <4>2, <4>3
    <3>3. QED
      BY <3>1, <3>2
  <2>3. QED
    BY <1>4, <1>10, <2>1, <2>2 DEF SessionsInv, TablesInv, IssuedSound
<1>13. RowsSound'
  <2>1. new.token = t /\ new.user = issue'[t].user
    BY <1>5, <1>9
  <2>2. \A r, s \in sessions : r.token = s.token => r = s
    BY DEF SessionsInv, TablesInv, RowsSound
  <2>3. QED
    BY <1>4, <1>10, <1>11, <2>1, <2>2 DEF RowsSound
<1>14. SpentRows'
  BY <1>4 DEF SessionsInv, TablesInv, SpentRows
<1>15. \A s \in sessions : issue'[s.token].root = issue[s.token].root
  BY <1>11
<1>16. \A s \in sessions : issue[s.token].root = top => s.revoked
  <2>1. CASE top = t
    BY <1>7, <2>1 DEF SessionsInv, TablesInv, RowsSound, IssuedSound, Root, Issued
  <2>2. CASE top # t
    BY <1>8, <2>2 DEF Dead, Root
  <2>3. QED
    BY <2>1, <2>2
<1>17. issue'[new.token].root = top
  BY <1>5, <1>9
<1>18. OneLivePerSignIn'
  BY <1>4, <1>15, <1>16, <1>17 DEF SessionsInv, TablesInv, OneLivePerSignIn
<1>19. \A a \in access : issue'[a.token] = issue[a.token]
  BY <1>10 DEF SessionsInv, TablesInv, IssuedSound
<1>20. CutForGood'
  BY <1>4, <1>8, <1>15, <1>17, <1>19 DEF SessionsInv, TablesInv, CutForGood, CutRoots
<1>21. CallSound(n)'
  <2>1. n.token = t /\ n.user = issue'[t].user /\ Root(t)' \notin CutRoots'
    BY <1>4, <1>6, <1>8, <1>9, <1>10 DEF CutRoots
  <2>2. MayRotate(n)'
    BY <1>10, <2>1 DEF MayRotate
  <2>3. QED
    BY <1>2, <1>4, <1>6, <1>10, <2>2 DEF CallSound
<1>22. \A l \in links' : l.user \in User
  BY <1>4 DEF SessionsInv, CallsInv
<1>23. call' \in [Caller -> Call] /\ lock' \in Caller \union {NoCaller} /\ CallsInv'
  BY <1>1, <1>2, <1>4, <1>6, <1>21, <1>22, OneCallStep DEF SessionsInv
<1>24. TypeOK'
  BY <1>4, <1>5, <1>9, <1>23 DEF SessionsInv, TypeOK
<1>25. QED
  BY <1>12, <1>13, <1>14, <1>18, <1>20, <1>23, <1>24 DEF SessionsInv, TablesInv

-----------------------------------------------------------------------------
(* The steps no call makes *)

\* With the lock free no call is under way, and one at rest counts on nothing.
LEMMA NobodyBusy ==
  ASSUME SessionsInv, lock = NoCaller, UNCHANGED <<call, lock, links>>,
         clock' \in Nat, clock <= clock'
  PROVE  CallsInv'
<1>1. \A c \in Caller : call[c].pc = "idle" /\ call[c] \in Call /\ call[c].now <= clock
  BY AccountsConstants DEF SessionsInv, CallsInv, CallSound, TypeOK
<1>2. \A c \in Caller : call'[c].pc = "idle" /\ call'[c].now <= clock'
  BY <1>1 DEF Call, SessionsInv, TypeOK
<1>3. QED
  BY <1>2 DEF SessionsInv, CallsInv, CallSound

\* Every session of the user is revoked, and with it every one of a sign-in of
\* the user's: sessions of one sign-in have one user.
LEMMA RevokeAllStep ==
  ASSUME SessionsInv, NEW u \in User, RevokeAllForUser(u)
  PROVE  SessionsInv'
<1> DEFINE rows == {s \in sessions : s.user = u /\ ~s.revoked}
           made == CutNow(u)
<1>1. rows \in SUBSET sessions /\ RevokeRows(rows) /\ cut' = cut \union made /\ lock = NoCaller
  BY DEF RevokeAllForUser
<1>2. /\ clock' = clock /\ issue' = issue /\ links' = links /\ lock' = lock /\ call' = call
      /\ held' = held /\ access' = access
  BY DEF RevokeAllForUser, clients
<1>3. /\ RowsSound' /\ SpentRows' /\ OneLivePerSignIn'
      /\ \A x \in cut : \A s \in sessions' : Root(s.token) = x.root => s.revoked
  BY <1>1, <1>2, RevokeKeeps DEF SessionsInv
<1>4. /\ \A m \in sessions' : \E s \in sessions : m = IF s \in rows THEN Marked(s) ELSE s
      /\ sessions' \subseteq Row
  BY <1>1, RowsAfter DEF SessionsInv, TypeOK
<1>5. clock \in Nat
  BY DEF SessionsInv, TypeOK
<1>6. ASSUME NEW x \in made
      PROVE  /\ x \in [root : Token, at : Nat] /\ x.at = clock
             /\ Issued(x.root) /\ issue[x.root].user = u
  <2>1. PICK t \in Token : issue[t].user = u /\ x = [root |-> issue[t].root, at |-> clock]
    BY <1>6 DEF CutNow
  <2>2. Issued(t)
    BY <2>1, AccountsConstants DEF SessionsInv, TablesInv, IssuedSound, NoIssue
  <2>3. QED
    BY <1>5, <2>1, <2>2 DEF SessionsInv, TablesInv, IssuedSound, Root, Issued
<1>7. \A t : Issued(t)' <=> Issued(t)
  BY <1>2 DEF Issued
<1>8. IssuedSound'
  <2>1. cut' \subseteq [root : Token, at : Nat] /\ \A x \in cut' : Issued(x.root) /\ x.at <= clock
    BY <1>1, <1>5, <1>6 DEF SessionsInv, TablesInv, IssuedSound
  <2>2. QED
    BY <1>2, <1>7, <2>1 DEF SessionsInv, TablesInv, IssuedSound, Root
<1>9. ASSUME NEW x \in made, NEW m \in sessions', Root(m.token) = x.root PROVE m.revoked
  <2>1. PICK s \in sessions : m = IF s \in rows THEN Marked(s) ELSE s
    BY <1>4
  <2>2. m.token = s.token /\ Issued(s.token) /\ s.user = issue[s.token].user
    BY <2>1 DEF Marked, SessionsInv, TablesInv, RowsSound
  <2>3. issue[x.root].user = issue[s.token].user
    BY <1>9, <2>2 DEF SessionsInv, TablesInv, IssuedSound, Issued
  <2>4. s.user = u
    BY <1>6, <2>2, <2>3
  <2>5. QED
    BY <2>1, <2>4 DEF Marked
<1>10. \A x \in made : \A a \in access : a.expires <= x.at + AccessTtl
  BY <1>6 DEF SessionsInv, TablesInv, IssuedSound
<1> HIDE DEF made, rows
<1>11. CutForGood'
  BY <1>1, <1>2, <1>3, <1>9, <1>10 DEF SessionsInv, TablesInv, CutForGood, Root
<1>12. CallsInv'
  BY <1>1, <1>2, <1>5, NobodyBusy
<1>13. TypeOK'
  BY <1>2, <1>4 DEF SessionsInv, TypeOK
<1>14. QED
  BY <1>3, <1>8, <1>11, <1>12, <1>13 DEF SessionsInv, TablesInv

\* A pruned row has expired, so no spent token counts on it any more.
LEMMA PruneStep ==
  ASSUME SessionsInv, PruneExpired
  PROVE  SessionsInv'
<1>1. /\ sessions' = {s \in sessions : s.expires > clock} /\ lock = NoCaller
      /\ clock' = clock /\ issue' = issue /\ links' = links /\ lock' = lock /\ call' = call
      /\ held' = held /\ access' = access /\ cut' = cut /\ spent' = spent
  BY DEF PruneExpired, clients, history
<1>2. clock \in Nat
  BY DEF SessionsInv, TypeOK
<1>3. \A t : Issued(t)' <=> Issued(t)
  BY <1>1 DEF Issued
<1>4. SpentRows'
  <2>1. \A s \in sessions : s.expires \in Nat
    BY DEF SessionsInv, TypeOK, Row
  <2>2. QED
    BY <1>1, <1>2, <2>1 DEF SessionsInv, TablesInv, SpentRows
<1>5. TablesInv'
  BY <1>1, <1>3, <1>4 DEF SessionsInv, TablesInv, IssuedSound, RowsSound, OneLivePerSignIn,
       CutForGood, Root
<1>6. CallsInv'
  BY <1>1, <1>2, NobodyBusy
<1>7. TypeOK'
  BY <1>1 DEF SessionsInv, TypeOK
<1>8. QED
  BY <1>5, <1>6, <1>7 DEF SessionsInv

LEMMA CrashStep ==
  ASSUME SessionsInv, Crash
  PROVE  SessionsInv'
<1>1. /\ call' = [c \in Caller |-> Idle] /\ lock' = NoCaller
      /\ UNCHANGED sessionVars /\ UNCHANGED links
  BY DEF Crash, sessionVars, clients, tables
<1>2. Idle \in Call /\ Idle.pc = "idle" /\ Idle.now = 0
  BY DEF Idle, Call, Label
<1>3. clock' \in Nat
  BY <1>1 DEF sessionVars, SessionsInv, TypeOK
<1>4. CallsInv'
  BY <1>1, <1>2, <1>3 DEF SessionsInv, CallsInv, CallSound
<1>5. TypeOK'
  BY <1>1, <1>2 DEF SessionsInv, TypeOK, sessionVars, clients
<1>6. QED
  BY <1>1, <1>4, <1>5, QuietKept DEF SessionsInv

LEMMA TickStep ==
  ASSUME SessionsInv, Tick
  PROVE  SessionsInv'
<1>1. /\ clock' = clock + 1 /\ call' = call /\ lock' = lock /\ links' = links
      /\ sessions' = sessions /\ held' = held /\ access' = access
      /\ issue' = issue /\ spent' = spent /\ cut' = cut
  BY DEF Tick, tables, clients, history
<1>2. clock \in Nat /\ clock' \in Nat
  BY <1>1 DEF SessionsInv, TypeOK
<1>3. \A t : Issued(t)' <=> Issued(t)
  BY <1>1 DEF Issued
<1>4. IssuedSound'
  <2>1. \A a \in access : a.expires \in Nat
    BY DEF SessionsInv, TypeOK
  <2>2. \A k \in cut : k.at \in Nat
    BY DEF SessionsInv, TablesInv, IssuedSound
  <2>3. QED
    BY <1>1, <1>2, <1>3, <2>1, <2>2, AccountsConstants DEF SessionsInv, TablesInv, IssuedSound, Root
<1>5. SpentRows'
  <2>1. \A t \in spent : t.expires \in Nat
    BY DEF SessionsInv, TablesInv, SpentRows
  <2>2. QED
    BY <1>1, <1>2, <2>1 DEF SessionsInv, TablesInv, SpentRows
<1>6. TablesInv'
  BY <1>1, <1>3, <1>4, <1>5 DEF SessionsInv, TablesInv, RowsSound, OneLivePerSignIn,
       CutForGood, Root
<1>7. \A c \in Caller : call[c].now \in Nat
  BY DEF SessionsInv, TypeOK, Call
<1>8. CallsInv'
  BY <1>1, <1>2, <1>3, <1>7
     DEF SessionsInv, CallsInv, CallSound, MayRotate, Dead, Live, Root, CutRoots
<1>9. TypeOK'
  BY <1>1, <1>2 DEF SessionsInv, TypeOK
<1>10. QED
  BY <1>6, <1>8, <1>9 DEF SessionsInv

LEMMA SessionsStep == SessionsInv /\ [Next]_vars => SessionsInv'
<1> SUFFICES ASSUME SessionsInv, [Next]_vars PROVE SessionsInv'
  OBVIOUS
<1>1. ASSUME NEW c \in Caller, Handle(c) PROVE SessionsInv'
  BY <1>1, BeginSteps, FindUserStep, BindingSteps, MatchStep, RevokeSessionStep,
     OpenSessionStep, AnswerStep DEF Handle
<1>2. CASE UNCHANGED vars
  <2>1. UNCHANGED sessionVars /\ call' = call /\ lock' = lock /\ links' = links
    BY <1>2 DEF vars, sessionVars, tables, clients, history
  <2>2. TablesInv' /\ \A k : CallSound(k) => CallSound(k)'
    BY <2>1, QuietKept DEF SessionsInv
  <2>3. CallsInv'
    BY <2>1, <2>2 DEF SessionsInv, CallsInv
  <2>4. TypeOK'
    BY <2>1 DEF SessionsInv, TypeOK, sessionVars, clients
  <2>5. QED
    BY <2>2, <2>3, <2>4 DEF SessionsInv
<1>3. QED
  BY <1>1, <1>2, RevokeAllStep, PruneStep, CrashStep, TickStep DEF Next

\* What the sign-in and session handlers rest on holds after any of their calls, in
\* any order.
THEOREM SessionsInvariant == Spec => []SessionsInv
BY InitSessions, SessionsStep, PTL DEF Spec

\* The state of signing in is well typed whatever the callers, tokens and
\* lifetimes are (host/src/auth/mod.rs).
THEOREM AccountsTypeCorrect == Spec => []TypeOK
BY SessionsInvariant, PTL DEF SessionsInv

\* However refreshes repeat, overlap and die half way, a sign-in has at most one
\* session that is not revoked (refresh: revoke, then create).
THEOREM OneLiveSession == Spec => []OneLivePerSignIn
BY SessionsInvariant, PTL DEF SessionsInv, TablesInv

\* No refresh brings a sign-in back that was logged out everywhere, and what
\* access it had lasts no longer than the lifetime of a token signed at that
\* moment (revoke_all_for_user marks every row, verify_access looks at none).
THEOREM LogoutIsFinal == Spec => []LoggedOutWithinTtl
<1>1. SessionsInv => LoggedOutWithinTtl
  <2> SUFFICES ASSUME SessionsInv, NEW k \in cut
               PROVE  /\ \A t \in Token : issue[t].root = k.root =>
                           EvaluateRefresh(RowsOf(t), clock) \in {"unknown", "revoked"}
                      /\ clock >= k.at + AccessTtl =>
                           \A a \in access : issue[a.token].root = k.root =>
                             VerifyAccess(a, clock) = Invalid
    BY DEF LoggedOutWithinTtl
  <2>1. /\ \A s \in sessions : issue[s.token].root = k.root => s.revoked
        /\ \A a \in access : issue[a.token].root = k.root => a.expires <= k.at + AccessTtl
    BY DEF SessionsInv, TablesInv, CutForGood
  <2>2. /\ clock \in Nat /\ k.at \in Nat /\ AccessTtl \in Nat
        /\ \A a \in access : a.expires \in Nat
    BY AccountsConstants DEF SessionsInv, TablesInv, IssuedSound, TypeOK
  <2>3. ASSUME NEW t \in Token, issue[t].root = k.root
        PROVE  EvaluateRefresh(RowsOf(t), clock) \in {"unknown", "revoked"}
    <3>1. \A s \in RowsOf(t) : s.revoked
      BY <2>1, <2>3 DEF RowsOf
    <3>2. QED
      BY <3>1 DEF EvaluateRefresh
  <2>4. ASSUME clock >= k.at + AccessTtl, NEW a \in access, issue[a.token].root = k.root
        PROVE  VerifyAccess(a, clock) = Invalid
    <3>1. ~(clock < a.expires)
      BY <2>1, <2>2, <2>4
    <3>2. QED
      BY <3>1 DEF VerifyAccess, IsValidAt
  <2>5. QED
    BY <2>3, <2>4
<1>2. QED
  BY <1>1, SessionsInvariant, PTL

\* A token that was exchanged or logged out is refused as revoked until it
\* expires, pruning or not (prune_expired keeps revoked rows that are good).
THEOREM SpentStaysRefused == Spec => []SpentRemembered
<1>1. SessionsInv => SpentRemembered
  <2> SUFFICES ASSUME SessionsInv, NEW t \in spent, clock < t.expires
               PROVE  EvaluateRefresh(RowsOf(t.token), clock) = "revoked"
    BY DEF SpentRemembered
  <2>1. PICK s \in sessions : s.token = t.token /\ s.revoked
    BY DEF SessionsInv, TablesInv, SpentRows
  <2>2. RowsOf(t.token) # {} /\ \A r \in RowsOf(t.token) : r.revoked
    BY <2>1 DEF RowsOf, SessionsInv, TablesInv, RowsSound
  <2>3. QED
    BY <2>2 DEF EvaluateRefresh
<1>2. QED
  BY <1>1, SessionsInvariant, PTL

-----------------------------------------------------------------------------
(* Identities and the ledger *)

LinkOf(k) == IdentityLink(Normalize(k.claims), k.user)

Proper(claims) == claims \in Claims /\ Normalize(claims) # Invalid

\* What a call knows of the identity it is about: bound before anybody is
\* signed in by it, and for the user it acts for.
CallLinked(k) ==
  /\ k.pc \in {"finding", "binding", "auditing", "colliding"} => Proper(k.claims)
  /\ k.pc \in {"binding", "auditing"} => k.acting \in {NoUser, k.user}
  /\ k.pc = "auditing" => LinkOf(k) \in links
  /\ k.pc \in {"matching", "revoking"} => k.claims = NoClaims
  /\ k.pc \in {"opening", "answering"} /\ k.claims # NoClaims =>
       Proper(k.claims) /\ LinkOf(k) \in links

\* Some claims of p's were bound to p's user.
PersonBound(p) ==
  \E c \in Claims :
    Proper(c) /\ Person(c) = p.person /\ IdentityLink(Normalize(c), p.user) \in links

LinksSound ==
  /\ \A l \in links : l = IdentityLink(l.identity, l.user)
  /\ \A k, l \in links : k.identity = l.identity => k = l
  /\ \A p \in signedIn : PersonBound(p)

IdentityInv ==
  /\ LinksSound
  /\ LedgerTells
  /\ \A c \in Caller : CallLinked(call[c])

identityVars == <<links, ledger, signedIn, unaudited>>

LEMMA InitIdentity == Init => IdentityInv
BY DEF Init, IdentityInv, LinksSound, LedgerTells, CallLinked, Idle

LEMMA CallRecords == SessionsInv => call \in [Caller -> Call]
BY DEF SessionsInv, TypeOK

\* A step of c's call that binds, audits and signs in nobody.
LEMMA QuietIdentity ==
  ASSUME SessionsInv, IdentityInv, NEW c \in Caller, NEW k, Move(c, k), CallLinked(k),
         call[c].pc # "auditing", UNCHANGED identityVars
  PROVE  IdentityInv'
<1>1. links' = links /\ ledger' = ledger /\ signedIn' = signedIn /\ unaudited' = unaudited
  BY DEF identityVars
<1>2. \A d \in Caller : call'[d] = IF d = c THEN k ELSE call[d]
  BY CallRecords DEF Move
<1>3. \A j : CallLinked(j) => CallLinked(j)'
  BY <1>1 DEF CallLinked
<1>4. \A d \in Caller : CallLinked(call'[d])
  BY <1>2 DEF IdentityInv
<1>5. \A d \in Caller : CallLinked(call[d])'
  BY <1>1, <1>4 DEF CallLinked
<1>6. LinksSound'
  BY <1>1 DEF IdentityInv, LinksSound, PersonBound
<1>7. \A d \in Caller : call[d].pc = "auditing" => call'[d] = call[d]
  BY <1>2
<1>8. LedgerTells'
  BY <1>1, <1>7 DEF IdentityInv, LedgerTells, At, IdentityOf
<1>9. QED
  BY <1>5, <1>6, <1>8 DEF IdentityInv

LEMMA IdleLinked == CallLinked(Idle)
BY DEF CallLinked, Idle

LEMMA BeginsIdentity ==
  ASSUME SessionsInv, IdentityInv, NEW c \in Caller
  PROVE  /\ \A cl \in Claims : BeginLogin(c, cl) => IdentityInv'
         /\ \A cl \in Claims : BeginLink(c, cl) => IdentityInv'
         /\ \A t \in Token : BeginRefresh(c, t) => IdentityInv'
<1>1. ASSUME NEW k, CallLinked(k), Begin(c, k) PROVE IdentityInv'
  BY <1>1, QuietIdentity DEF Begin, At, tables, history, identityVars
<1>2. ASSUME NEW cl \in Claims, BeginLogin(c, cl) PROVE IdentityInv'
  <2> DEFINE k == [Idle EXCEPT !.pc = "finding", !.claims = cl, !.now = clock]
  <2>1. k.pc = "finding" /\ k.claims = cl /\ Proper(cl) /\ Begin(c, k)
    BY <1>2 DEF Idle, BeginLogin, Proper
  <2> HIDE DEF k
  <2>2. QED
    BY <1>1, <2>1 DEF CallLinked
<1>3. ASSUME NEW cl \in Claims, BeginLink(c, cl) PROVE IdentityInv'
  <2>1. PICK a \in access :
          Begin(c, [Idle EXCEPT !.pc = "finding", !.acting = VerifyAccess(a, clock),
                                !.claims = cl, !.now = clock])
    BY <1>3 DEF BeginLink
  <2> DEFINE u == VerifyAccess(a, clock)
             k == [Idle EXCEPT !.pc = "finding", !.acting = u, !.claims = cl, !.now = clock]
  <2>2. k.pc = "finding" /\ k.claims = cl
    <3> HIDE DEF u
    <3>1. QED
      BY DEF Idle
  <2>3. Proper(cl) /\ Begin(c, k)
    BY <1>3, <2>1 DEF BeginLink, Proper
  <2> HIDE DEF k
  <2>4. QED
    BY <1>1, <2>2, <2>3 DEF CallLinked
<1>4. ASSUME NEW t \in Token, BeginRefresh(c, t) PROVE IdentityInv'
  <2> DEFINE k == [Idle EXCEPT !.pc = "matching", !.token = t, !.now = clock]
  <2>1. k.pc = "matching" /\ k.claims = NoClaims /\ Begin(c, k)
    BY <1>4 DEF Idle, BeginRefresh
  <2> HIDE DEF k
  <2>2. QED
    BY <1>1, <2>1 DEF CallLinked
<1>5. QED
  BY <1>2, <1>3, <1>4

\* Who signs in is the owner of the identity; who is about to bind acts for
\* themselves or for a user of their own making.
LEMMA FindUserIdentity ==
  ASSUME SessionsInv, IdentityInv, NEW c \in Caller, FindUser(c)
  PROVE  IdentityInv'
<1> PICK k : k = call[c]
  OBVIOUS
<1>1. k.pc = "finding" /\ k \in Call /\ Proper(k.claims) /\ UNCHANGED identityVars
  BY CallRecords DEF FindUser, At, IdentityInv, CallLinked, tables, history, identityVars
<1>2. ASSUME NEW u, NEW label \in {"opening", "binding"},
             Move(c, [k EXCEPT !.pc = label, !.user = u]),
             label = "opening" => IdentityLink(Normalize(k.claims), u) \in links,
             label = "binding" => k.acting \in {NoUser, u}
      PROVE  IdentityInv'
  <2> DEFINE n == [k EXCEPT !.pc = label, !.user = u]
  <2>1. n.pc = label /\ n.user = u /\ n.claims = k.claims /\ n.acting = k.acting
    BY <1>1 DEF Call
  <2>2. Move(c, n)
    BY <1>2
  <2> HIDE DEF n
  <2>3. CallLinked(n)
    BY <1>1, <1>2, <2>1 DEF CallLinked, LinkOf
  <2>4. QED
    BY <1>1, <2>2, <2>3, QuietIdentity
<1>3. ASSUME Move(c, [k EXCEPT !.pc = "colliding"]) PROVE IdentityInv'
  <2> DEFINE n == [k EXCEPT !.pc = "colliding"]
  <2>1. n.pc = "colliding" /\ n.claims = k.claims
    BY <1>1 DEF Call
  <2>2. Move(c, n)
    BY <1>3
  <2> HIDE DEF n
  <2>3. CallLinked(n)
    BY <1>1, <2>1 DEF CallLinked
  <2>4. QED
    BY <1>1, <2>2, <2>3, QuietIdentity
<1>4. \A u \in Owners(IdentityOf(c)) : IdentityLink(Normalize(k.claims), u) \in links
  BY DEF Owners, IdentityOf, IdentityInv, LinksSound
<1>5. /\ Outcome(c) = "provision" => k.acting = NoUser
      /\ Outcome(c) \in {"sign_in", "provision", "link", "already_linked", "collision"}
  BY DEF Outcome, ResolveLink
<1>6. CASE Outcome(c) = "sign_in"
  BY <1>2, <1>4, <1>6 DEF FindUser
<1>7. CASE Outcome(c) = "provision"
  BY <1>2, <1>5, <1>7 DEF FindUser
<1>8. CASE Outcome(c) = "link"
  BY <1>2, <1>8 DEF FindUser
<1>9. CASE Outcome(c) = "already_linked"
  BY <1>1, <1>9, IdleLinked, QuietIdentity DEF FindUser, Return
<1>10. CASE Outcome(c) = "collision"
  BY <1>3, <1>10 DEF FindUser, Goto
<1>11. QED
  BY <1>5, <1>6, <1>7, <1>8, <1>9, <1>10

\* An identity nobody owns is bound, and its entry is about to be written.
LEMMA LinkIdentityIdentity ==
  ASSUME SessionsInv, IdentityInv, NEW c \in Caller, LinkIdentity(c)
  PROVE  IdentityInv'
<1> PICK k : k = call[c]
  OBVIOUS
<1>1. k.pc = "binding" /\ k \in Call /\ Proper(k.claims) /\ k.acting \in {NoUser, k.user}
  BY CallRecords DEF LinkIdentity, At, IdentityInv, CallLinked
<1>2. ledger' = ledger /\ signedIn' = signedIn /\ unaudited' = unaudited
  BY DEF LinkIdentity, history
<1>3. CASE Owners(IdentityOf(c)) # {}
  <2>1. Move(c, Idle) /\ UNCHANGED identityVars
    BY <1>2, <1>3 DEF LinkIdentity, Return, identityVars
  <2>2. QED
    BY <1>1, <2>1, IdleLinked, QuietIdentity
<1>4. CASE Owners(IdentityOf(c)) = {}
  <2> DEFINE n == [k EXCEPT !.pc = "auditing"]
  <2>1. links' = links \union {LinkOf(k)} /\ Move(c, n)
    BY <1>4 DEF LinkIdentity, LinkOf, IdentityOf, Goto
  <2>2. n.pc = "auditing" /\ n.claims = k.claims /\ n.acting = k.acting /\ n.user = k.user
    BY <1>1 DEF Call
  <2> HIDE DEF n
  <2>3. \A d \in Caller : call'[d] = IF d = c THEN n ELSE call[d]
    BY <2>1, CallRecords DEF Move
  <2>4. CallLinked(n)'
    BY <1>1, <2>1, <2>2 DEF CallLinked, LinkOf
  <2>5. ASSUME NEW d \in Caller PROVE CallLinked(call[d])'
    <3>1. CASE d = c
      BY <2>3, <2>4, <3>1
    <3>2. CASE d # c
      <4>1. call'[d] = call[d] /\ CallLinked(call[d])
        BY <2>3, <3>2 DEF IdentityInv
      <4>2. QED
        BY <2>1, <4>1 DEF CallLinked, LinkOf
    <3>3. QED
      BY <3>1, <3>2
  <2>6. LinkOf(k) = [identity |-> Normalize(k.claims), user |-> k.user]
    BY DEF LinkOf, IdentityLink
  <2>7. \A l \in links : l.identity # Normalize(k.claims)
    BY <1>4 DEF Owners, IdentityOf
  <2>8. LinksSound'
    BY <1>2, <2>1, <2>6, <2>7 DEF IdentityInv, LinksSound, PersonBound, IdentityLink
  <2>9. LedgerTells'
    <3>1. \A d \in Caller : call[d].pc = "auditing" => call'[d] = call[d]
      BY <1>1, <2>3
    <3>2. \A l \in links :
            \/ \E e \in ledger : e.about = l.identity /\ e.action # "identity.link.collision"
            \/ l.identity \in unaudited
            \/ \E d \in Caller : call'[d].pc = "auditing" /\ Normalize(call'[d].claims) = l.identity
      BY <3>1 DEF IdentityInv, LedgerTells, At, IdentityOf
    <3>3. call'[c].pc = "auditing" /\ Normalize(call'[c].claims) = LinkOf(k).identity
      BY <2>2, <2>3, <2>6
    <3>4. QED
      BY <1>2, <2>1, <3>2, <3>3 DEF IdentityInv, LedgerTells, At, IdentityOf
  <2>10. QED
    BY <2>5, <2>8, <2>9 DEF IdentityInv
<1>5. QED
  BY <1>3, <1>4

\* Past its entry, written or lost, a binding is accounted for.
LEMMA AuditedStep ==
  ASSUME SessionsInv, IdentityInv, NEW c \in Caller, At(c, "auditing"), AfterAudit(c),
         links' = links, signedIn' = signedIn,
         \/ ledger' = ledger \union {Bound(c)} /\ unaudited' = unaudited
         \/ ledger' = ledger /\ unaudited' = unaudited \union {IdentityOf(c)}
  PROVE  IdentityInv'
<1> PICK k : k = call[c]
  OBVIOUS
<1>1. /\ k.pc = "auditing" /\ k \in Call /\ Proper(k.claims) /\ LinkOf(k) \in links
      /\ k.acting \in {NoUser, k.user}
  BY CallRecords DEF At, IdentityInv, CallLinked
<1>2. PICK n : Move(c, n) /\ n.pc # "auditing" /\ CallLinked(n)
  <2>1. CASE k.acting = NoUser
    <3> DEFINE n == [k EXCEPT !.pc = "opening"]
    <3>1. n.pc = "opening" /\ n.claims = k.claims /\ n.user = k.user
      BY <1>1 DEF Call
    <3>2. Move(c, n)
      BY <2>1 DEF AfterAudit, Goto
    <3> HIDE DEF n
    <3>3. CallLinked(n)
      BY <1>1, <3>1 DEF CallLinked, LinkOf
    <3>4. QED
      BY <3>1, <3>2, <3>3
  <2>2. CASE k.acting # NoUser
    BY <2>2, IdleLinked DEF AfterAudit, Return, Idle
  <2>3. QED
    BY <2>1, <2>2
<1>3. \A d \in Caller : call'[d] = IF d = c THEN n ELSE call[d]
  BY <1>2, CallRecords DEF Move
<1>4. \A d \in Caller : CallLinked(call'[d])
  BY <1>2, <1>3 DEF IdentityInv
<1>5. \A d \in Caller : CallLinked(call[d])'
  BY <1>4 DEF CallLinked
<1>6. LinksSound'
  BY DEF IdentityInv, LinksSound, PersonBound
<1>7. /\ Bound(c).about = Normalize(k.claims) /\ Bound(c).actor \in {NoUser, k.user}
      /\ Bound(c).action # "identity.link.collision"
      /\ LinkOf(k).identity = Normalize(k.claims) /\ LinkOf(k).user = k.user
  BY <1>1 DEF Bound, Entry, IdentityOf, LinkOf, IdentityLink
<1>8. \A e \in ledger' : e.action \in {"identity.provision", "identity.link"} =>
        \E l \in links : l.identity = e.about /\ e.actor \in {NoUser, l.user}
  BY <1>1, <1>7 DEF IdentityInv, LedgerTells
<1>9. ASSUME NEW l \in links
      PROVE  \/ \E e \in ledger' : e.about = l.identity /\ e.action # "identity.link.collision"
             \/ l.identity \in unaudited'
             \/ \E d \in Caller : call'[d].pc = "auditing" /\ Normalize(call'[d].claims) = l.identity
  <2>1. CASE l.identity = Normalize(k.claims)
    BY <1>7, <2>1 DEF IdentityOf
  <2>2. CASE l.identity # Normalize(k.claims)
    <3>1. \A d \in Caller :
            call[d].pc = "auditing" /\ Normalize(call[d].claims) = l.identity => call'[d] = call[d]
      BY <1>3, <2>2
    <3>2. QED
      BY <3>1 DEF IdentityInv, LedgerTells, At, IdentityOf
  <2>3. QED
    BY <2>1, <2>2
<1>10. LedgerTells'
  BY <1>8, <1>9 DEF LedgerTells, At, IdentityOf
<1>11. QED
  BY <1>5, <1>6, <1>10 DEF IdentityInv

\* A collision is written down, and tells of no binding.
LEMMA CollisionIdentity ==
  ASSUME SessionsInv, IdentityInv, NEW c \in Caller, AuditCollision(c)
  PROVE  IdentityInv'
<1> DEFINE told == Entry(c, "identity.link.collision")
<1>1. /\ call[c].pc = "colliding" /\ Move(c, Idle)
      /\ ledger' = ledger \union {told} /\ told.action = "identity.link.collision"
      /\ links' = links /\ signedIn' = signedIn /\ unaudited' = unaudited
  BY DEF AuditCollision, At, AppendAudit, Entry, Return, history
<1>2. \A d \in Caller : call'[d] = IF d = c THEN Idle ELSE call[d]
  BY <1>1, CallRecords DEF Move
<1>3. \A d \in Caller : CallLinked(call'[d])
  BY <1>2, IdleLinked DEF IdentityInv
<1>4. \A d \in Caller : CallLinked(call[d])'
  BY <1>1, <1>3 DEF CallLinked
<1>5. LinksSound'
  BY <1>1 DEF IdentityInv, LinksSound, PersonBound
<1>6. \A d \in Caller : call[d].pc = "auditing" => call'[d] = call[d]
  BY <1>1, <1>2
<1> HIDE DEF told
<1>7. LedgerTells'
  BY <1>1, <1>6 DEF IdentityInv, LedgerTells, At, IdentityOf
<1>8. QED
  BY <1>4, <1>5, <1>7 DEF IdentityInv

LEMMA SessionsIdentity ==
  ASSUME SessionsInv, IdentityInv, NEW c \in Caller
  PROVE  /\ MatchSession(c) => IdentityInv'
         /\ RevokeSession(c) => IdentityInv'
         /\ OpenSession(c) => IdentityInv'
         /\ StatementFails(c) => IdentityInv'
<1> PICK k : k = call[c]
  OBVIOUS
<1>1. k \in Call /\ CallLinked(k)
  BY CallRecords DEF IdentityInv
<1>2. ASSUME MatchSession(c) PROVE IdentityInv'
  <2>1. k.pc = "matching" /\ k.claims = NoClaims /\ UNCHANGED identityVars
    BY <1>1, <1>2 DEF MatchSession, At, CallLinked, tables, history, identityVars
  <2>2. ASSUME NEW u, Move(c, [k EXCEPT !.pc = "revoking", !.user = u]) PROVE IdentityInv'
    <3> DEFINE n == [k EXCEPT !.pc = "revoking", !.user = u]
    <3>1. n.pc = "revoking" /\ n.claims = NoClaims
      BY <1>1, <2>1 DEF Call
    <3>2. Move(c, n)
      BY <2>2
    <3> HIDE DEF n
    <3>3. CallLinked(n)
      BY <3>1 DEF CallLinked
    <3>4. QED
      BY <2>1, <3>2, <3>3, QuietIdentity
  <2>3. QED
    BY <1>2, <2>1, <2>2, IdleLinked, QuietIdentity DEF MatchSession, Return
<1>3. ASSUME RevokeSession(c) PROVE IdentityInv'
  <2> DEFINE n == [k EXCEPT !.pc = "opening"]
  <2>1. k.pc = "revoking" /\ k.claims = NoClaims /\ UNCHANGED identityVars /\ Move(c, n)
    BY <1>1, <1>3 DEF RevokeSession, At, CallLinked, Goto, identityVars
  <2>2. n.pc = "opening" /\ n.claims = NoClaims
    BY <1>1, <2>1 DEF Call
  <2> HIDE DEF n
  <2>3. CallLinked(n)
    BY <2>2 DEF CallLinked
  <2>4. QED
    BY <2>1, <2>3, QuietIdentity
<1>4. ASSUME OpenSession(c) PROVE IdentityInv'
  <2>1. PICK t \in Token : Move(c, [k EXCEPT !.pc = "answering", !.token = t])
    BY <1>4 DEF OpenSession
  <2>2. k.pc = "opening" /\ UNCHANGED identityVars
    BY <1>4 DEF OpenSession, At, identityVars
  <2> DEFINE n == [k EXCEPT !.pc = "answering", !.token = t]
  <2>3. n.pc = "answering" /\ n.claims = k.claims /\ n.user = k.user /\ Move(c, n)
    BY <1>1, <2>1 DEF Call
  <2> HIDE DEF n
  <2>4. CallLinked(n)
    BY <1>1, <2>2, <2>3 DEF CallLinked, LinkOf
  <2>5. QED
    BY <2>2, <2>3, <2>4, QuietIdentity
<1>5. ASSUME StatementFails(c) PROVE IdentityInv'
  <2>1. k.pc # "auditing" /\ Move(c, Idle) /\ UNCHANGED identityVars
    BY <1>5 DEF StatementFails, At, Return, tables, history, identityVars
  <2>2. QED
    BY <2>1, IdleLinked, QuietIdentity
<1>6. QED
  BY <1>2, <1>3, <1>4, <1>5

\* Whoever is answered after signing in owns the identity.
LEMMA AnswerIdentity ==
  ASSUME SessionsInv, IdentityInv, NEW c \in Caller, Answer(c)
  PROVE  IdentityInv'
<1> PICK k : k = call[c]
  OBVIOUS
<1>1. k.pc = "answering" /\ CallLinked(k) /\ Move(c, Idle)
  BY DEF Answer, At, IdentityInv, Return
<1>2. links' = links /\ ledger' = ledger /\ unaudited' = unaudited
  BY DEF Answer, tables
<1>3. \A p \in signedIn' : p \in signedIn \/
        (k.claims # NoClaims /\ p = [person |-> Person(k.claims), user |-> k.user])
  BY DEF Answer
<1>4. \A d \in Caller : call'[d] = IF d = c THEN Idle ELSE call[d]
  BY <1>1, CallRecords DEF Move
<1>5. \A d \in Caller : CallLinked(call'[d])
  BY <1>4, IdleLinked DEF IdentityInv
<1>6. \A d \in Caller : CallLinked(call[d])'
  BY <1>2, <1>5 DEF CallLinked
<1>7. LinksSound'
  <2>1. ASSUME NEW p \in signedIn' PROVE PersonBound(p)'
    <3>1. CASE p \in signedIn
      BY <1>2, <3>1 DEF IdentityInv, LinksSound, PersonBound
    <3>2. CASE k.claims # NoClaims /\ p = [person |-> Person(k.claims), user |-> k.user]
      <4>1. /\ Proper(k.claims) /\ Person(k.claims) = p.person
            /\ IdentityLink(Normalize(k.claims), p.user) \in links
        BY <1>1, <3>2 DEF CallLinked, LinkOf
      <4>2. QED
        BY <1>2, <4>1 DEF PersonBound, Proper
    <3>3. QED
      BY <1>3, <3>1, <3>2
  <2>2. QED
    BY <1>2, <2>1 DEF IdentityInv, LinksSound
<1>8. \A d \in Caller : call[d].pc = "auditing" => call'[d] = call[d]
  BY <1>1, <1>4
<1>9. LedgerTells'
  BY <1>2, <1>8 DEF IdentityInv, LedgerTells, At, IdentityOf
<1>10. QED
  BY <1>6, <1>7, <1>9 DEF IdentityInv

\* A crash loses the entries that were about to be written.
LEMMA CrashIdentity ==
  ASSUME SessionsInv, IdentityInv, Crash
  PROVE  IdentityInv'
<1>1. /\ links' = links /\ ledger' = ledger /\ signedIn' = signedIn
      /\ unaudited' = unaudited \union {IdentityOf(c) : c \in {d \in Caller : At(d, "auditing")}}
      /\ call' = [c \in Caller |-> Idle]
  BY DEF Crash, tables
<1>2. \A c \in Caller : CallLinked(call[c])'
  BY <1>1 DEF CallLinked, Idle
<1>3. LinksSound'
  BY <1>1 DEF IdentityInv, LinksSound, PersonBound
<1>4. LedgerTells'
  BY <1>1 DEF IdentityInv, LedgerTells
<1>5. QED
  BY <1>2, <1>3, <1>4 DEF IdentityInv

LEMMA IdentityStep == SessionsInv /\ IdentityInv /\ [Next]_vars => IdentityInv'
<1> SUFFICES ASSUME SessionsInv, IdentityInv, [Next]_vars PROVE IdentityInv'
  OBVIOUS
<1>1. ASSUME NEW c \in Caller, Audit(c) \/ AuditLost(c) PROVE IdentityInv'
  <2>1. /\ At(c, "auditing") /\ AfterAudit(c) /\ links' = links /\ signedIn' = signedIn
        /\ \/ ledger' = ledger \union {Bound(c)} /\ unaudited' = unaudited
           \/ ledger' = ledger /\ unaudited' = unaudited \union {IdentityOf(c)}
    <3>1. CASE Audit(c)
      BY <3>1 DEF Audit, AppendAudit, history
    <3>2. CASE AuditLost(c)
      BY <3>2 DEF AuditLost, tables
    <3>3. QED
      BY <1>1, <3>1, <3>2
  <2>2. QED
    BY <2>1, AuditedStep
<1>2. ASSUME NEW c \in Caller, Handle(c) PROVE IdentityInv'
  BY <1>1, <1>2, BeginsIdentity, FindUserIdentity, LinkIdentityIdentity, CollisionIdentity,
     SessionsIdentity, AnswerIdentity DEF Handle
<1>3. ASSUME UNCHANGED identityVars, call' = call PROVE IdentityInv'
  BY <1>3 DEF identityVars, IdentityInv, LinksSound, PersonBound, LedgerTells, CallLinked, At,
              IdentityOf
<1>4. ASSUME \/ \E u \in User : RevokeAllForUser(u)
             \/ PruneExpired \/ Tick \/ UNCHANGED vars
      PROVE  UNCHANGED identityVars /\ call' = call
  BY <1>4 DEF RevokeAllForUser, PruneExpired, Tick, vars, tables, history, identityVars
<1>5. QED
  BY <1>2, <1>3, <1>4, CrashIdentity DEF Next

\* So does what linking, unlinking and auditing rest on.
THEOREM IdentityInvariant == Spec => []IdentityInv
BY InitIdentity, IdentityStep, SessionsInvariant, PTL DEF Spec

\* One person's claims normalize to one identity, in whatever spelling.
LEMMA SameIdentity ==
  ASSUME NEW c \in Claims, NEW d \in Claims, Person(c) = Person(d),
         Normalize(c) # Invalid, Normalize(d) # Invalid
  PROVE  Normalize(c) = Normalize(d)
<1>1. c.provider = d.provider /\ c.provider \in {"discord", "google", "email"}
  BY AccountsConstants DEF Person
<1>2. CASE c.provider = "discord"
  <2>1. c.subject = d.subject
    BY <1>1, <1>2, AccountsConstants DEF Person
  <2>2. QED
    BY <1>1, <1>2, <2>1 DEF Normalize, NormalizeDiscord
<1>3. CASE c.provider = "google"
  <2>1. c.subject = d.subject
    BY <1>1, <1>3, AccountsConstants DEF Person
  <2>2. QED
    BY <1>1, <1>3, <2>1 DEF Normalize, NormalizeGoogle
<1>4. CASE c.provider = "email"
  <2> DEFINE x == IF c.email.text # Blank THEN c.email ELSE c.subject
             y == IF d.email.text # Blank THEN d.email ELSE d.subject
  <2>1. /\ x = [text |-> x.text, style |-> x.style]
        /\ y = [text |-> y.text, style |-> y.style]
    BY AccountsConstants
  <2>2. x.text = y.text
    BY <1>1, <1>4 DEF Person
  <2>3. /\ Normalize(c) = IF NormalizeEmail(x) = Invalid THEN Invalid
                          ELSE Identity("email", NormalizeEmail(x))
        /\ Normalize(d) = IF NormalizeEmail(y) = Invalid THEN Invalid
                          ELSE Identity("email", NormalizeEmail(y))
    BY <1>1, <1>4 DEF Normalize, NormalizeMailbox
  <2> HIDE DEF x, y
  <2>4. [x EXCEPT !.style = "plain"] = [text |-> x.text, style |-> "plain"]
    BY <2>1
  <2>5. [y EXCEPT !.style = "plain"] = [text |-> y.text, style |-> "plain"]
    BY <2>1
  <2>6. NormalizeEmail(x) = NormalizeEmail(y)
    BY <2>2, <2>4, <2>5 DEF NormalizeEmail
  <2>7. QED
    BY <2>3, <2>6
<1>5. QED
  BY <1>1, <1>2, <1>3, <1>4

\* Whoever signs in twice is one user, however it is spelt and whatever was
\* interrupted between; nothing is bound to two users (login, link_identity).
THEOREM PersonStaysOneUser == Spec => []OneUserPerPerson
<1>1. IdentityInv => OneUserPerPerson
  <2> SUFFICES ASSUME IdentityInv PROVE OneUserPerPerson
    OBVIOUS
  <2>1. ASSUME NEW p \in signedIn, NEW q \in signedIn, p.person = q.person
        PROVE  p.user = q.user
    <3>1. PICK c \in Claims : /\ Proper(c) /\ Person(c) = p.person
                              /\ IdentityLink(Normalize(c), p.user) \in links
      BY DEF IdentityInv, LinksSound, PersonBound
    <3>2. PICK d \in Claims : /\ Proper(d) /\ Person(d) = q.person
                              /\ IdentityLink(Normalize(d), q.user) \in links
      BY DEF IdentityInv, LinksSound, PersonBound
    <3>3. Normalize(c) = Normalize(d)
      BY <2>1, <3>1, <3>2, SameIdentity DEF Proper
    <3>4. \A i, u, v : IdentityLink(i, u) \in links /\ IdentityLink(i, v) \in links => u = v
      BY DEF IdentityInv, LinksSound, IdentityLink
    <3>5. QED
      BY <3>1, <3>2, <3>3, <3>4
  <2>2. QED
    BY <2>1 DEF OneUserPerPerson, IdentityInv, LinksSound
<1>2. QED
  BY <1>1, IdentityInvariant, PTL

\* The ledger tells of bindings that were made, and of all of them but those
\* whose entry is being written or was lost (audit is best-effort).
THEOREM LedgerStaysTrue == Spec => []LedgerTells
BY IdentityInvariant, PTL DEF IdentityInv

=============================================================================
