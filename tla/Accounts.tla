------------------------------ MODULE Accounts ------------------------------
(***************************************************************************)
(* Signing in, staying signed in and linking identities: AuthService of    *)
(* host/src/auth/mod.rs over the tables of repository/src/session.rs and   *)
(* repository/src/identity.rs, with the policies of domain/src/session.rs  *)
(* and domain/src/identity.rs.                                             *)
(*                                                                         *)
(* A call takes the one lock on the repository and holds it to its end, as *)
(* the login handler of api/src/auth.rs does.  Refreshing, linking,        *)
(* logging out everywhere and pruning have no route yet, but cannot do     *)
(* without it: AuthService borrows the repository for the whole call, and  *)
(* an SqliteRepository, being a connection, is shared between threads only *)
(* behind the mutex of api/src/lib.rs.  The statements of a call are steps *)
(* of their own, none in a transaction: each may fail, the process may die *)
(* between any two, and the clock moves on while a call works with the     *)
(* time it began at.                                                       *)
(* A refresh token stands for its hash and for the session id with it:     *)
(* each is drawn at random, and hashing is injective here.                 *)
(***************************************************************************)
EXTENDS Integers

CONSTANTS
  Caller,                  \* requests in flight at once
  Claims,                  \* what providers vouch for: provider, subject, email
  Mailbox,                 \* the texts that are addresses: one @, inside
  User, Token,             \* what is drawn at random; bounds
  NoCaller, NoUser, NoToken, NoClaims, Invalid,
  AccessTtl, RefreshTtl,
  MaxClock, MaxFaults      \* bounds

\* Raw text of a subject or an email: what it says, and whether in the plain
\* spelling or another (capitals, blanks around it).
Spelling == {"plain", "shouted"}
Blank == ""

ASSUME AccountsConstants ==
  /\ \A c \in Claims :
       /\ c.provider \in {"discord", "google", "email"}
       /\ \A text \in {c.subject, c.email} :
            text = [text |-> text.text, style |-> text.style] /\ text.style \in Spelling
  /\ Blank \notin Mailbox
  /\ NoCaller \notin Caller /\ NoUser \notin User /\ NoToken \notin Token
  /\ NoClaims \notin Claims
  /\ AccessTtl \in Nat /\ RefreshTtl \in Nat
  /\ MaxClock \in Nat /\ MaxFaults \in Nat

VARIABLES
  clock,
  links,       \* identity_links: identity, user
  ledger,      \* audit_log: actor, action, and (history) the identity it is about
  sessions,    \* rows: token, user, expires, revoked
  lock,        \* who holds the repository
  call,        \* call[c]: where c's request is
  held,        \* refresh tokens their clients were given
  access,      \* access tokens their clients were given: token, user, expires
  faults,      \* crashes and failed statements so far
  issue,       \* history, issue[t]: the session made for t: user, sign-in it goes back to
  spent,       \* history: tokens exchanged or logged out, with their expiry
  cut,         \* history: sign-ins logged out everywhere, and when first
  signedIn,    \* history: who signed in, as which user
  unaudited    \* history: identities whose audit entry a fault swallowed

tables == <<links, ledger, sessions>>
clients == <<held, access>>
history == <<issue, spent, cut, signedIn, unaudited>>
vars == <<clock, tables, lock, call, clients, faults, history>>

-----------------------------------------------------------------------------
(* The policies of the domain *)

\* Variant of NormalizeEmail: the spelling is kept.
NormalizeEmailRaw(address) == IF address.text \notin Mailbox THEN Invalid ELSE address

NormalizeEmail(address) ==
  IF address.text \notin Mailbox THEN Invalid ELSE [address EXCEPT !.style = "plain"]

Identity(provider, subject) == [provider |-> provider, subject |-> subject]

NormalizeDiscord(c) ==
  IF c.subject.text = Blank THEN Invalid ELSE Identity("discord", c.subject)

NormalizeGoogle(c) ==
  IF c.subject.text = Blank \/ NormalizeEmail(c.email) = Invalid
  THEN Invalid ELSE Identity("google", c.subject)

\* The address is the identity; the subject is only looked at without one.
NormalizeMailbox(c) ==
  LET address == NormalizeEmail(IF c.email.text # Blank THEN c.email ELSE c.subject) IN
  IF address = Invalid THEN Invalid ELSE Identity("email", address)

Normalize(c) ==
  CASE c.provider = "discord" -> NormalizeDiscord(c)
    [] c.provider = "google"  -> NormalizeGoogle(c)
    [] c.provider = "email"   -> NormalizeMailbox(c)

\* Whose claims these are, in whatever spelling: a mailbox is a person's, a
\* subject is the provider's own.
Person(c) ==
  [provider |-> c.provider,
   text |-> IF c.provider = "email" /\ c.email.text # Blank THEN c.email.text ELSE c.subject.text,
   style |-> IF c.provider = "email" THEN "any" ELSE c.subject.style]

IdentityLink(identity, user) == [identity |-> identity, user |-> user]

ResolveLink(acting, owner) ==
  CASE acting = NoUser /\ owner # NoUser -> "sign_in"
    [] acting = NoUser /\ owner = NoUser -> "provision"
    [] acting # NoUser /\ owner = NoUser -> "link"
    [] acting # NoUser /\ owner = acting -> "already_linked"
    [] OTHER                             -> "collision"

\* Of the row matched by the token: revoked comes before expired.
EvaluateRefresh(rows, now) ==
  IF rows = {} THEN "unknown"
  ELSE IF \A s \in rows : s.revoked THEN "revoked"
  ELSE IF \A s \in rows : now >= s.expires THEN "expired"
  ELSE "rotate"

Session(token, user, now) ==
  [token |-> token, user |-> user, expires |-> now + RefreshTtl, revoked |-> FALSE]

\* The claims of an access token, and the session that minted it.
AccessClaims(token, user, now) == [token |-> token, user |-> user, expires |-> now + AccessTtl]

IsValidAt(a, now) == now < a.expires

\* Of a token the service did not sign, or that has expired, nothing is taken.
VerifyAccess(a, now) == IF a \notin access \/ ~IsValidAt(a, now) THEN Invalid ELSE a.user

-----------------------------------------------------------------------------

Idle == [pc |-> "idle", acting |-> NoUser, claims |-> NoClaims, user |-> NoUser,
         token |-> NoToken, now |-> 0]

NoIssue == [user |-> NoUser, root |-> NoToken]

Label == {"idle", "finding", "binding", "auditing", "colliding",
          "matching", "revoking", "opening", "answering"}

Call == [pc : Label, acting : User \union {NoUser}, claims : Claims \union {NoClaims},
         user : User \union {NoUser}, token : Token \union {NoToken}, now : Nat]

Row == [token : Token, user : User, expires : Nat, revoked : BOOLEAN]

TypeOK ==
  /\ clock \in Nat
  /\ sessions \subseteq Row
  /\ lock \in Caller \union {NoCaller}
  /\ call \in [Caller -> Call]
  /\ held \subseteq Token
  /\ access \subseteq [token : Token, user : User, expires : Nat]
  /\ issue \in [Token -> [user : User \union {NoUser}, root : Token \union {NoToken}]]

Init ==
  /\ clock = 0
  /\ links = {} /\ ledger = {} /\ sessions = {}
  /\ lock = NoCaller
  /\ call = [c \in Caller |-> Idle]
  /\ held = {} /\ access = {}
  /\ faults = 0
  /\ issue = [t \in Token |-> NoIssue]
  /\ spent = {} /\ cut = {} /\ signedIn = {} /\ unaudited = {}

At(c, label) == call[c].pc = label

Move(c, k) == call' = [call EXCEPT ![c] = k]

Goto(c, label) == Move(c, [call[c] EXCEPT !.pc = label])

\* Variant of Enter: the handler does not wait for the lock.
EnterUnlocked(c) == UNCHANGED lock

\* state.repo.lock()
Enter(c) == lock = NoCaller /\ lock' = c

Return(c) ==
  /\ Move(c, Idle)
  /\ lock' = NoCaller

Begin(c, request) ==
  /\ At(c, "idle")
  /\ Enter(c)
  /\ Move(c, request)
  /\ UNCHANGED <<clock, tables, clients, faults, history>>

\* login: claims that do not normalize are refused before any statement.
BeginLogin(c, cl) ==
  /\ Normalize(cl) # Invalid
  /\ Begin(c, [Idle EXCEPT !.pc = "finding", !.claims = cl, !.now = clock])

\* link, for a user whose access token verifies.
BeginLink(c, cl) ==
  /\ Normalize(cl) # Invalid
  /\ \E a \in access :
       /\ VerifyAccess(a, clock) # Invalid
       /\ Begin(c, [Idle EXCEPT !.pc = "finding", !.acting = VerifyAccess(a, clock),
                                !.claims = cl, !.now = clock])

BeginRefresh(c, t) ==
  /\ t \in held
  /\ Begin(c, [Idle EXCEPT !.pc = "matching", !.token = t, !.now = clock])

IdentityOf(c) == Normalize(call[c].claims)

Owners(identity) == {l.user : l \in {k \in links : k.identity = identity}}

Outcome(c) ==
  ResolveLink(call[c].acting,
    IF Owners(IdentityOf(c)) = {} THEN NoUser ELSE CHOOSE u \in Owners(IdentityOf(c)) : TRUE)

\* new_user_id: random, so never one seen before.
FreshUser(u) ==
  /\ \A l \in links : l.user # u
  /\ \A d \in Caller : call[d].user # u

FindUser(c) ==
  /\ At(c, "finding")
  /\ CASE Outcome(c) = "sign_in" ->
            \E u \in Owners(IdentityOf(c)) :
              Move(c, [call[c] EXCEPT !.pc = "opening", !.user = u]) /\ UNCHANGED lock
       [] Outcome(c) = "provision" ->
            \E u \in User : FreshUser(u) /\
              Move(c, [call[c] EXCEPT !.pc = "binding", !.user = u]) /\ UNCHANGED lock
       [] Outcome(c) = "link" ->
              Move(c, [call[c] EXCEPT !.pc = "binding", !.user = call[c].acting]) /\ UNCHANGED lock
       [] Outcome(c) = "already_linked" -> Return(c)
       [] Outcome(c) = "collision" -> Goto(c, "colliding") /\ UNCHANGED lock
  /\ UNCHANGED <<clock, tables, clients, faults, history>>

\* What the entry for this call's binding says; a provisioning has no actor.
Entry(c, action) == [actor |-> call[c].acting, action |-> action, about |-> IdentityOf(c)]

Bound(c) == Entry(c, IF call[c].acting = NoUser THEN "identity.provision" ELSE "identity.link")

\* append_audit
AppendAudit(entry) == ledger' = ledger \union {entry}

\* Variant of LinkIdentity: the entry comes before what it tells of.
LinkIdentityLedgerFirst(c) ==
  /\ At(c, "binding")
  /\ AppendAudit(Bound(c))
  /\ IF Owners(IdentityOf(c)) = {}
     THEN /\ Goto(c, "auditing")
          /\ UNCHANGED <<links, lock>>
     ELSE Return(c) /\ UNCHANGED links
  /\ UNCHANGED <<clock, sessions, clients, faults, history>>

\* link_identity: an insertion the primary key refuses when the identity is
\* taken, which ends the call.
LinkIdentity(c) ==
  /\ At(c, "binding")
  /\ IF Owners(IdentityOf(c)) = {}
     THEN /\ links' = links \union {IdentityLink(IdentityOf(c), call[c].user)}
          /\ Goto(c, "auditing")
          /\ UNCHANGED lock
     ELSE Return(c) /\ UNCHANGED links
  /\ UNCHANGED <<clock, ledger, sessions, clients, faults, history>>

\* A sign-in goes on to its session, a link is done.
AfterAudit(c) ==
  IF call[c].acting = NoUser THEN Goto(c, "opening") /\ UNCHANGED lock ELSE Return(c)

\* Best-effort, so the call goes on when it fails.
Audit(c) ==
  /\ At(c, "auditing")
  /\ AppendAudit(Bound(c))
  /\ AfterAudit(c)
  /\ UNCHANGED <<clock, links, sessions, clients, faults, history>>

AuditLost(c) ==
  /\ At(c, "auditing")
  /\ faults < MaxFaults
  /\ faults' = faults + 1
  /\ unaudited' = unaudited \union {IdentityOf(c)}
  /\ AfterAudit(c)
  /\ UNCHANGED <<clock, tables, clients, issue, spent, cut, signedIn>>

AuditCollision(c) ==
  /\ At(c, "colliding")
  /\ AppendAudit(Entry(c, "identity.link.collision"))
  /\ Return(c)
  /\ UNCHANGED <<clock, links, sessions, clients, faults, history>>

RowsOf(t) == {s \in sessions : s.token = t}

MatchSession(c) ==
  LET rows == RowsOf(call[c].token) IN
  /\ At(c, "matching")
  /\ IF EvaluateRefresh(rows, call[c].now) = "rotate"
     THEN /\ \E s \in rows :
               Move(c, [call[c] EXCEPT !.pc = "revoking", !.user = s.user])
          /\ UNCHANGED lock
     ELSE Return(c)
  /\ UNCHANGED <<clock, tables, clients, faults, history>>

Revoked(rows) == {[s EXCEPT !.revoked = TRUE] : s \in rows}

\* UPDATE sessions SET revoked = 1 WHERE ...
RevokeRows(rows) ==
  /\ sessions' = (sessions \ rows) \union Revoked(rows)
  /\ spent' = spent \union {[token |-> s.token, expires |-> s.expires] : s \in rows}

\* revoke_session; whether a row changed is not looked at.
RevokeSession(c) ==
  /\ At(c, "revoking")
  /\ RevokeRows({s \in RowsOf(call[c].token) : ~s.revoked})
  /\ Goto(c, "opening")
  /\ UNCHANGED <<clock, links, ledger, lock, clients, faults, issue, cut, signedIn, unaudited>>

CreateSession(s) == sessions' = sessions \union {s}

\* generate_token, new_session_id: random, so never one seen before.
FreshToken(t) == issue[t] = NoIssue

OpenSession(c) ==
  /\ At(c, "opening")
  /\ \E t \in Token :
       /\ FreshToken(t)
       /\ CreateSession(Session(t, call[c].user, call[c].now))
       /\ issue' = [issue EXCEPT ![t] =
            [user |-> call[c].user,
             root |-> IF call[c].token = NoToken THEN t ELSE issue[call[c].token].root]]
       /\ Move(c, [call[c] EXCEPT !.pc = "answering", !.token = t])
  /\ UNCHANGED <<clock, links, ledger, lock, clients, faults, spent, cut, signedIn, unaudited>>

\* The client gets the pair: the raw refresh token this once, and the signed claims.
Answer(c) ==
  /\ At(c, "answering")
  /\ held' = held \union {call[c].token}
  /\ access' = access \union {AccessClaims(call[c].token, call[c].user, call[c].now)}
  /\ signedIn' = IF call[c].claims = NoClaims THEN signedIn
                 ELSE signedIn \union {[person |-> Person(call[c].claims), user |-> call[c].user]}
  /\ Return(c)
  /\ UNCHANGED <<clock, tables, faults, issue, spent, cut, unaudited>>

\* Any other statement fails, and with it the call ends; what came before it stays.
StatementFails(c) ==
  /\ \E label \in {"finding", "binding", "colliding", "matching", "revoking", "opening"} :
       At(c, label)
  /\ faults < MaxFaults
  /\ faults' = faults + 1
  /\ Return(c)
  /\ UNCHANGED <<clock, tables, clients, history>>

\* The process dies and starts again.
Crash ==
  /\ \E c \in Caller : ~At(c, "idle")
  /\ faults < MaxFaults
  /\ faults' = faults + 1
  /\ unaudited' = unaudited \union {IdentityOf(c) : c \in {d \in Caller : At(d, "auditing")}}
  /\ call' = [c \in Caller |-> Idle]
  /\ lock' = NoCaller
  /\ UNCHANGED <<clock, tables, clients, issue, spent, cut, signedIn>>

\* The sign-ins of u that were not logged out before.
CutNow(u) ==
  {[root |-> r, at |-> clock] :
     r \in {issue[t].root : t \in {k \in Token : issue[k].user = u}} \ {k.root : k \in cut}}

\* Variant of RevokeAllForUser: it does not wait for the calls under way.
RevokeAllForUserUnlocked(u) ==
  /\ RevokeRows({s \in sessions : s.user = u /\ ~s.revoked})
  /\ cut' = cut \union CutNow(u)
  /\ UNCHANGED <<clock, links, ledger, lock, call, clients, faults, issue, signedIn, unaudited>>

RevokeAllForUser(u) ==
  /\ lock = NoCaller
  /\ RevokeRows({s \in sessions : s.user = u /\ ~s.revoked})
  /\ cut' = cut \union CutNow(u)
  /\ UNCHANGED <<clock, links, ledger, lock, call, clients, faults, issue, signedIn, unaudited>>

\* Variant of PruneExpired: revoked sessions go as well.
PruneExpiredAndRevoked ==
  /\ lock = NoCaller
  /\ sessions' = {s \in sessions : s.expires > clock /\ ~s.revoked}
  /\ UNCHANGED <<clock, links, ledger, lock, call, clients, faults, history>>

PruneExpired ==
  /\ lock = NoCaller
  /\ sessions' = {s \in sessions : s.expires > clock}
  /\ UNCHANGED <<clock, links, ledger, lock, call, clients, faults, history>>

Tick ==
  /\ clock < MaxClock
  /\ clock' = clock + 1
  /\ UNCHANGED <<tables, lock, call, clients, faults, history>>

Handle(c) ==
  \/ \E cl \in Claims : BeginLogin(c, cl) \/ BeginLink(c, cl)
  \/ \E t \in Token : BeginRefresh(c, t)
  \/ FindUser(c) \/ LinkIdentity(c)
  \/ Audit(c) \/ AuditLost(c) \/ AuditCollision(c)
  \/ MatchSession(c) \/ RevokeSession(c)
  \/ OpenSession(c) \/ Answer(c)
  \/ StatementFails(c)

Next ==
  \/ \E c \in Caller : Handle(c)
  \/ \E u \in User : RevokeAllForUser(u)
  \/ PruneExpired
  \/ Crash
  \/ Tick

Spec == Init /\ [][Next]_vars

-----------------------------------------------------------------------------
(* Properties *)

\* However clients repeat and overlap their refreshes, and whatever dies half
\* way, one sign-in is never in two hands: of the sessions that go back to it
\* at most one is not revoked.
OneLivePerSignIn ==
  \A r, s \in sessions :
    ~r.revoked /\ ~s.revoked /\ issue[r.token].root = issue[s.token].root => r = s

\* A refresh token that was exchanged, or logged out, is refused as revoked for
\* as long as it would have been good, through every pruning.
SpentRemembered ==
  \A t \in spent : clock < t.expires => EvaluateRefresh(RowsOf(t.token), clock) = "revoked"

\* Logging out everywhere ends refreshing at once, and for good: no token that goes
\* back to a sign-in of before is exchanged again, whatever its rotations left when
\* they died half way.  Access is not cut with it, for access tokens are verified
\* without a look at the sessions: it lasts for what was left of AccessTtl, and no
\* longer.
LoggedOutWithinTtl ==
  \A k \in cut :
    /\ \A t \in Token : issue[t].root = k.root =>
         EvaluateRefresh(RowsOf(t), clock) \in {"unknown", "revoked"}
    /\ clock >= k.at + AccessTtl =>
         \A a \in access : issue[a.token].root = k.root => VerifyAccess(a, clock) = Invalid

\* Whoever signs in twice is the same user twice, however it is spelt and
\* whatever was interrupted in between; and nothing is bound to two users.
OneUserPerPerson ==
  /\ \A p, q \in signedIn : p.person = q.person => p.user = q.user
  /\ \A k, l \in links : k.identity = l.identity => k = l

\* The ledger tells of no binding that was not made, and of every one that was,
\* but those whose entry is being written or was lost to a fault.
LedgerTells ==
  /\ \A e \in ledger : e.action \in {"identity.provision", "identity.link"} =>
       \E l \in links : l.identity = e.about /\ e.actor \in {NoUser, l.user}
  /\ \A l \in links :
       \/ \E e \in ledger : e.about = l.identity /\ e.action # "identity.link.collision"
       \/ l.identity \in unaudited
       \/ \E c \in Caller : At(c, "auditing") /\ IdentityOf(c) = l.identity

=============================================================================
