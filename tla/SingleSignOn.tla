------------------------------ MODULE SingleSignOn ------------------------------
(***************************************************************************)
(* Sign-in through an identity provider: SAML responses, JWTs and the      *)
(* OAuth code flow, from the message a browser brings to the session it    *)
(* leaves.  Messages may come again, late or to several browsers at once;  *)
(* their ids are rows, kept until they expire.  One step is one SQL        *)
(* statement and what is computed up to it.                                *)
(***************************************************************************)
EXTENDS Naturals, FiniteSets

CONSTANTS
  Browsers,       \* each with a session and one request at a time
  Messages,       \* what the identity provider may send
  Known,          \* the host's users
  Creates,        \* whether the host creates users
  Unsolicited,    \* whether IdP-initiated sign-in is on
  Roles,          \* Escalated's roles
  Skew,           \* clock skew allowed
  RequestTtl,     \* how long a request stays answerable
  MaxTime,        \* bound on the clock
  MaxRequests     \* bound on requests issued

SkewAssumption == Skew \in Nat

Nobody == "nobody"
NoRequest == 0

VARIABLES
  provider,   \* the provider chosen in the settings
  ids,        \* message ids remembered or claimed: [kind, id, until]
  users,      \* the users there are
  role,       \* their roles
  session,    \* per browser: [user, passed, state]
  call,       \* per browser: where its callback is
  issued,     \* SAML and OAuth requests issued so far
  now,
  signIns     \* history: per sign-in, [n, message, answers, valid]: the request it
              \* answers, and whether its message was a valid one still

vars == <<provider, ids, users, role, session, call, issued, now, signIns>>

Idle == [at |-> "idle"]
NoState == 0

\* The greater of two times.
Later(a, b) == IF a > b THEN a ELSE b

-----------------------------------------------------------------------------
(* What is checked of a message at time t. *)

\* Not before, nor on or after, with the skew.
window(from, until, t) == from <= t + Skew /\ t < until + Skew

\* By the provider's key, over the assertion itself.
signedAssertion(m) == m.signed = "assertion"

audience(m) == "us" \in m.audiences

bearer(m, t) == m.recipient = "acs" /\ window(0, m.confirmedUntil, t)

validateSamlResponse(m, t) ==
  /\ signedAssertion(m)
  /\ m.issuer = "idp"
  /\ window(m.from, m.until, t)
  /\ audience(m)
  /\ bearer(m, t)
  /\ m.answers # NoRequest \/ Unsolicited

validateJwt(m, t) ==
  m.signed = "key" /\ audience(m) /\ window(m.from, m.until, t)

Valid(m, t) == IF m.kind = "saml" THEN validateSamlResponse(m, t) ELSE validateJwt(m, t)

\* Mutant: the skew is forgotten.
EndOf(m) == IF m.kind = "saml" THEN Later(m.until, m.confirmedUntil) ELSE m.until

\* When the message's id may be forgotten: nothing accepts it from then on.
KeptUntil(m) ==
  (IF m.kind = "saml" THEN Later(m.until, m.confirmedUntil) ELSE m.until) + Skew

-----------------------------------------------------------------------------
(* SsoMessageIdsService. *)

Pruned == {r \in ids : r.until > now}
Stored(kind, id) == \E r \in ids : r.kind = kind /\ r.id = id

-----------------------------------------------------------------------------
(* Sign-in begins: a request is remembered, or a state put in the session. *)

samlLoginUrl ==
  /\ provider = "saml" /\ issued < MaxRequests
  /\ issued' = issued + 1
  /\ ids' = Pruned \cup {[kind |-> "saml_request", id |-> issued + 1, until |-> now + RequestTtl]}
  /\ UNCHANGED <<provider, users, role, session, call, now, signIns>>

oauthStart(b) ==
  /\ provider = "oauth" /\ call[b] = Idle /\ issued < MaxRequests
  /\ issued' = issued + 1
  /\ session' = [session EXCEPT ![b].state = issued + 1]
  /\ UNCHANGED <<provider, ids, users, role, call, now, signIns>>

-----------------------------------------------------------------------------
(* A callback. *)

At(b, at) == call' = [call EXCEPT ![b].at = at]
Refuse(b) == call' = [call EXCEPT ![b] = Idle]

\* samlAcs and jwtCallback: a message that does not hold is refused.
Receive(b) ==
  /\ call[b] = Idle /\ provider \in {"saml", "jwt"}
  /\ \E m \in Messages :
       /\ m.kind = provider
       /\ m.answers <= issued
       /\ Valid(m, now)
       /\ call' = [call EXCEPT ![b] =
            [at |-> IF m.answers = NoRequest THEN "prune" ELSE "consume", message |-> m]]
  /\ UNCHANGED <<provider, ids, users, role, session, issued, now, signIns>>

\* The request answered is removed, once.
consume(b) ==
  /\ call[b].at = "consume"
  /\ LET row == {r \in ids : /\ r.kind = "saml_request"
                             /\ r.id = call[b].message.answers /\ r.until > now}
     IN ids' = ids \ row /\ IF row = {} THEN Refuse(b) ELSE At(b, "prune")
  /\ UNCHANGED <<provider, users, role, session, issued, now, signIns>>

\* claim: expired ids go ...
prune(b) ==
  /\ call[b].at = "prune"
  /\ ids' = Pruned
  /\ At(b, "insert")
  /\ UNCHANGED <<provider, users, role, session, issued, now, signIns>>

SignedIn(message, answers, valid) ==
  signIns' = signIns \cup
    {[n |-> Cardinality(signIns) + 1, message |-> message, answers |-> answers, valid |-> valid]}

\* ... and this one is inserted; an id already there refuses it.
claim(b) ==
  /\ call[b].at = "insert"
  /\ LET m == call[b].message
     IN IF Stored(m.kind, m.id)
        THEN Refuse(b) /\ UNCHANGED <<ids, signIns>>
        ELSE /\ ids' = ids \cup {[kind |-> m.kind, id |-> m.id, until |-> KeptUntil(m)]}
             /\ At(b, "resolve")
             /\ SignedIn(m.id, m.answers, Valid(m, now))
  /\ UNCHANGED <<provider, users, role, session, issued, now>>

\* The state is taken from the session whatever the query says; the provider then gives
\* an identity for the code, or none.
oauthCallback(b) ==
  /\ provider = "oauth" /\ call[b] = Idle /\ session[b].state # NoState
  /\ session' = [session EXCEPT ![b].state = NoState]
  /\ \/ Refuse(b) /\ UNCHANGED signIns
     \/ \E m \in Messages :
          /\ m.kind = "oauth"
          /\ call' = [call EXCEPT ![b] = [at |-> "resolve", message |-> m]]
          /\ SignedIn(m.id, session[b].state, FALSE)
  /\ UNCHANGED <<provider, ids, users, role, issued, now>>

\* resolve: the user by email, created where the host does.
resolve(b) ==
  /\ call[b].at = "resolve"
  /\ LET m == call[b].message
     IN IF m.user \in users THEN At(b, "role") /\ UNCHANGED users
        ELSE IF Creates THEN At(b, "role") /\ users' = users \cup {m.user}
        ELSE Refuse(b) /\ UNCHANGED users
  /\ UNCHANGED <<provider, ids, role, session, issued, now, signIns>>

\* The asserted role replaces the user's; an unknown one changes nothing.
assignRole(b) ==
  /\ call[b].at = "role"
  /\ LET m == call[b].message
     IN role' = IF m.role \in Roles THEN [role EXCEPT ![m.user] = m.role] ELSE role
  /\ At(b, "sign in")
  /\ UNCHANGED <<provider, ids, users, session, issued, now, signIns>>

\* The host's login, or the session's SSO user.
signInOnHost(b) ==
  /\ call[b].at = "sign in"
  /\ session' = [session EXCEPT ![b].user = call[b].message.user]
  /\ At(b, "renew")
  /\ UNCHANGED <<provider, ids, users, role, issued, now, signIns>>

\* A new session id, and the challenge to be passed again.
Renew(b) ==
  /\ call[b].at = "renew"
  /\ session' = [session EXCEPT ![b].passed = Nobody]
  /\ Refuse(b)
  /\ UNCHANGED <<provider, ids, users, role, issued, now, signIns>>

-----------------------------------------------------------------------------
\* The two-factor challenge is passed in a session.
PassChallenge(b) ==
  /\ call[b] = Idle /\ session[b].user # Nobody /\ session[b].passed # session[b].user
  /\ session' = [session EXCEPT ![b].passed = session[b].user]
  /\ UNCHANGED <<provider, ids, users, role, call, issued, now, signIns>>

Tick ==
  /\ now < MaxTime
  /\ now' = now + 1
  /\ UNCHANGED <<provider, ids, users, role, session, call, issued, signIns>>

Init ==
  /\ provider \in {"saml", "jwt", "oauth"}
  /\ ids = {}
  /\ users = Known
  /\ role = [u \in Known \cup {m.user : m \in Messages} |-> Nobody]
  /\ session = [b \in Browsers |-> [user |-> Nobody, passed |-> Nobody, state |-> NoState]]
  /\ call = [b \in Browsers |-> Idle]
  /\ issued = 0 /\ now = 0 /\ signIns = {}

Next ==
  \/ Tick \/ samlLoginUrl
  \/ \E b \in Browsers :
       \/ oauthStart(b) \/ Receive(b) \/ consume(b) \/ prune(b) \/ claim(b)
       \/ oauthCallback(b) \/ resolve(b) \/ assignRole(b) \/ signInOnHost(b) \/ Renew(b)
       \/ PassChallenge(b)

Spec == Init /\ [][Next]_vars

-----------------------------------------------------------------------------
\* Every session, callback and user has one of its states.
TypeOK ==
  /\ \A r \in ids : r.until \in Nat
  /\ users \subseteq DOMAIN role
  /\ \A b \in Browsers : {session[b].user, session[b].passed} \subseteq DOMAIN role \cup {Nobody}

\* "the assertion ID is new", "jti is present and used once", and a request is answered
\* once: while a message is valid it signs one browser in, and an issued request signs in
\* once.  A message checked while it was valid and claimed after may come in again.
SignsInOnce ==
  \A s, t \in signIns :
    s # t => /\ s.valid /\ t.valid => s.message # t.message
             /\ s.answers # NoRequest => s.answers # t.answers
================================================================================
