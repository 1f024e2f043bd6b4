------------------------------ MODULE PeopleProofs ------------------------------
(***************************************************************************)
(* Proofs about the components around the people, for any users, sockets,  *)
(* tickets, addresses, times and bounds: what is written of a customer's   *)
(* last request only grows (Presence), a guest does what their mailbox was *)
(* proven for (GuestGrants), mail ends where it belongs (InboundMail) and  *)
(* a live update reaches those who may read the ticket (LiveUpdates).      *)
(* Each component states its inductive invariant, IInv.                    *)
(***************************************************************************)
EXTENDS MCPeople, FiniteSetTheorems, TLAPS

-----------------------------------------------------------------------------
(* The components' cardinalities are those of the theorems about finite sets. *)

LEMMA GrantsFinite == \A S : (Grants!IsFiniteSet(S) <=> IsFiniteSet(S)) /\ Grants!Cardinality(S) = Cardinality(S)
<1>1. \A S : Grants!IsFiniteSet(S) <=> IsFiniteSet(S)
  BY DEF Grants!IsFiniteSet, IsFiniteSet
<1>2. \A S : Grants!Cardinality(S) = Cardinality(S)
  BY DEF Grants!Cardinality, Cardinality
<1> QED  BY <1>1, <1>2

-----------------------------------------------------------------------------
(* Who is online.                                                          *)

\* The ticket's customer is one of those who have a row.
LEMMA SubjectOfTicket == ASSUME NEW t \in Online!Ticket PROVE Online!subjectOf(t) \in Online!Subject
  BY DEF Online!subjectOf, Online!Subject

LEMMA SeenInit == Online!PresenceInit => Online!IInv
  BY DEF Online!PresenceInit, Online!IInv, Online!Never, Online!Idle

\* A request that begins is about one who has a row, and carries the time.
LEMMA SeenBegins ==
  ASSUME Online!IInv, NEW tab \in Requests, NEW s \in Online!Subject, NEW p, Online!see(tab, s, p)
  PROVE  Online!IInv' /\ Online!SeenForward
<1>1. v1 \in Nat /\ v2 \in [Online!Subject -> Nat]
  BY DEF Online!IInv
<1>2. v1' = v1 /\ v2' = v2 /\ DOMAIN v3' = Requests
  BY DEF Online!IInv, Online!see
<1>3. \A other \in Requests :
        v3'[other].at # "idle" => v3'[other].time \in Nat /\ v3'[other].subject \in Online!Subject
  BY <1>1 DEF Online!IInv, Online!see
<1>4. Online!IInv'
  BY <1>1, <1>2, <1>3 DEF Online!IInv
<1> QED  BY <1>1, <1>2, <1>4 DEF Online!SeenForward

\* A request that goes on writes no time but its own, over none that is later.
LEMMA SeenWrites ==
  ASSUME Online!IInv, NEW tab \in Requests, v3[tab] # Online!Idle,
         Online!WriteThrottled(tab) \/ Online!RowExists(tab) \/ Online!InsertRow(tab)
  PROVE  Online!IInv' /\ Online!SeenForward
<1>1. /\ v1 \in Nat /\ v2 \in [Online!Subject -> Nat] /\ DOMAIN v3 = Requests
      /\ \A other \in Requests :
           v3[other].at # "idle" => v3[other].time \in Nat /\ v3[other].subject \in Online!Subject
  BY DEF Online!IInv
<1>2. v1' = v1 /\ v3[tab].at # "idle"
  BY DEF Online!WriteThrottled, Online!RowExists, Online!InsertRow
<1>3. v3[tab].time \in Nat /\ v3[tab].subject \in Online!Subject
  BY <1>1, <1>2
<1>4. \/ v3' = [v3 EXCEPT ![tab] = Online!Idle]
      \/ v3' = [v3 EXCEPT ![tab].at = "exists"]
      \/ v3' = [v3 EXCEPT ![tab].at = "insert"]
  BY DEF Online!WriteThrottled, Online!RowExists, Online!InsertRow
<1>5. DOMAIN v3' = Requests /\ \A other \in Requests :
        v3'[other].at # "idle" => v3'[other].time \in Nat /\ v3'[other].subject \in Online!Subject
  <2>1. CASE v3' = [v3 EXCEPT ![tab] = Online!Idle]
    BY <1>1, <2>1 DEF Online!Idle
  <2>2. CASE v3' = [v3 EXCEPT ![tab].at = "exists"]
    BY <1>1, <1>3, <2>2
  <2>3. CASE v3' = [v3 EXCEPT ![tab].at = "insert"]
    BY <1>1, <1>3, <2>3
  <2> QED  BY <1>4, <2>1, <2>2, <2>3
<1>6. \/ v2' = v2
      \/ /\ v2' = [v2 EXCEPT ![v3[tab].subject] = v3[tab].time]
         /\ v2[v3[tab].subject] = 0 \/ v2[v3[tab].subject] + Throttle <= v3[tab].time
  <2>1. CASE Online!WriteThrottled(tab) \/ Online!RowExists(tab)
    BY <2>1 DEF Online!WriteThrottled, Online!RowExists
  <2>2. CASE Online!InsertRow(tab) /\ v2[v3[tab].subject] = 0
    BY <2>2 DEF Online!InsertRow, Online!Never
  <2>3. CASE Online!InsertRow(tab) /\ v2[v3[tab].subject] # 0
    BY <1>1, <1>3, <2>3 DEF Online!InsertRow, Online!Never
  <2> QED  BY <2>1, <2>2, <2>3
<1>7. v2' \in [Online!Subject -> Nat] /\ Online!SeenForward
  <2>1. Throttle \in Nat
    BY ThrottleIsTime DEF Online!ThrottleAssumption
  <2>2. CASE v2' = v2
    BY <1>1, <2>2 DEF Online!SeenForward
  <2>3. CASE v2' # v2
    <3>1. v2' = [v2 EXCEPT ![v3[tab].subject] = v3[tab].time]
      BY <1>6, <2>3
    <3>2. v2' \in [Online!Subject -> Nat]
      BY <1>1, <1>3, <3>1
    <3>3. v3[tab].time >= v2[v3[tab].subject]
      BY <1>1, <1>3, <1>6, <2>1, <2>3
    <3>4. \A s \in Online!Subject : v2'[s] >= v2[s]
      BY <1>1, <1>3, <3>1, <3>3
    <3> QED  BY <3>2, <3>4 DEF Online!SeenForward
  <2> QED  BY <2>2, <2>3
<1> QED  BY <1>1, <1>2, <1>5, <1>7 DEF Online!IInv

LEMMA SeenNext == Online!IInv /\ Online!PresenceNext => Online!IInv' /\ Online!SeenForward
<1> SUFFICES ASSUME Online!IInv, Online!PresenceNext PROVE Online!IInv' /\ Online!SeenForward
  OBVIOUS
<1>1. ASSUME NEW tab \in Requests, NEW u \in Online!Users, Online!seeUser(tab, u)
      PROVE  Online!IInv' /\ Online!SeenForward
  BY <1>1, SeenBegins DEF Online!seeUser, Online!Users, Online!Subject
<1>2. ASSUME NEW tab \in Requests, NEW t \in Online!Ticket, Online!seeTicketCustomer(tab, t)
      PROVE  Online!IInv' /\ Online!SeenForward
  BY <1>2, SeenBegins, SubjectOfTicket DEF Online!seeTicketCustomer
<1>3. ASSUME Online!PresenceTick PROVE Online!IInv' /\ Online!SeenForward
  BY <1>3 DEF Online!PresenceTick, Online!IInv, Online!SeenForward
<1> QED  BY <1>1, <1>2, <1>3, SeenWrites DEF Online!PresenceNext

SeenInv == part = "presence" => Online!IInv

\* A slow request never takes a customer back to an earlier time, whatever the throttle.
THEOREM SeenGrows == Spec => SeenOnlyForward
<1>1. Init => SeenInv
  BY SeenInit DEF Init, SeenInv
<1>2. SeenInv /\ Next => SeenInv' /\ (part = "presence" => Online!SeenForward)
  BY SeenNext DEF Next, SeenInv
<1>3. SeenInv /\ UNCHANGED vars => SeenInv'
  BY DEF vars, SeenInv, Online!IInv
<1>4. SeenInv /\ [Next]_vars => SeenInv' /\ [part = "presence" => Online!SeenForward]_vars
  BY <1>2, <1>3
<1> QED  BY <1>1, <1>4, PTL DEF Spec, SeenOnlyForward

-----------------------------------------------------------------------------
(* What guests do: v2 is the process, v4 the rows, v5 the contacts, v6 and v7 what was filed,  *)
(* v8 the grants and v9 the requests.                                                          *)

\* The tickets that were filed stay filed, and their guests keep their emails.
Undisturbed ==
  v2' = v2 /\ \A t \in Tickets : v4[t].filed = TRUE => v4'[t].filed = TRUE /\ v5'[t].email = v5[t].email

LEMMA RequestKept ==
  ASSUME Undisturbed, NEW r \in Requests, v9'[r] = v9[r], Grants!Watching(v9[r]), Grants!Proving(v9[r])
  PROVE  Grants!Watching(v9[r])' /\ Grants!Proving(v9[r])'
  BY DEF Undisturbed, Grants!Watching, Grants!Proving, Grants!Digested, Grants!guestEmail

LEMMA IdleIsRequest == Grants!Idle \in Grants!RequestType /\ Grants!NoTicket \in Grants!RowType
<1>1. Grants!NoTicket \in Grants!RowType
  BY DEF Grants!NoTicket, Grants!RowType
<1> QED  BY <1>1 DEF Grants!Idle, Grants!RequestType

LEMMA IdleIsFair == \A q : q = Grants!Idle => Grants!Watching(q) /\ Grants!Proving(q)
  BY DEF Grants!Idle, Grants!Watching, Grants!Proving

\* Only the requests change, one of them to q.
LEMMA RequestMoves ==
  ASSUME Grants!IInv, UNCHANGED <<v1, v2, v4, v5, v6, v7, v8>>, NEW r \in Requests,
         NEW q \in Grants!RequestType, v9' = [v9 EXCEPT ![r] = q], Grants!Watching(q), Grants!Proving(q)
  PROVE  Grants!IInv'
<1>1. v9 \in [Requests -> Grants!RequestType] /\ v9' \in [Requests -> Grants!RequestType]
  BY DEF Grants!IInv
<1>2. \A s \in Requests : Grants!Watching(v9[s]) /\ Grants!Proving(v9[s])
  BY DEF Grants!IInv
<1>3. Undisturbed
  BY DEF Undisturbed
<1>4. ASSUME NEW s \in Requests PROVE Grants!Watching(v9[s])' /\ Grants!Proving(v9[s])'
  <2>1. CASE s # r
    BY <1>1, <1>2, <1>3, <2>1, RequestKept
  <2>2. CASE s = r
    <3>1. v9'[s] = q
      BY <1>1, <2>2
    <3> QED  BY <3>1 DEF Grants!Watching, Grants!Proving, Grants!Digested, Grants!guestEmail
  <2> QED  BY <2>1, <2>2
<1> QED  BY <1>1, <1>4 DEF Grants!IInv

\* One of them ends.
LEMMA RequestEnds ==
  ASSUME Grants!IInv, UNCHANGED <<v1, v2, v4, v5, v6, v7, v8>>, NEW r \in Requests,
         v9' = [v9 EXCEPT ![r] = Grants!Idle]
  PROVE  Grants!IInv'
<1>1. PICK q : q = Grants!Idle
  OBVIOUS
<1> QED  BY <1>1, RequestMoves, IdleIsRequest, IdleIsFair

\* The requests stay, or end, while the tickets change and nothing unfair is filed.
LEMMA TicketsMove ==
  ASSUME Grants!IInv, Undisturbed, v1' \in Nat, v8' = v8,
         v4' \in [Tickets -> Grants!RowType], v5' \in [Tickets -> Grants!Contact], DOMAIN v7' = Tickets,
         \A p \in v6' : p.fair = TRUE, \A t \in Tickets : \A p \in v7'[t] : p.fair = TRUE,
         v9' \in [Requests -> Grants!RequestType],
         \A r \in Requests : v9'[r] \in {v9[r], Grants!Idle}
  PROVE  Grants!IInv'
<1>1. ASSUME NEW r \in Requests PROVE Grants!Watching(v9[r])' /\ Grants!Proving(v9[r])'
  <2>1. CASE v9'[r] = v9[r]
    BY <2>1, RequestKept DEF Grants!IInv
  <2>2. CASE v9'[r] = Grants!Idle
    BY <2>2 DEF Grants!Watching, Grants!Proving, Grants!Idle
  <2> QED  BY <2>1, <2>2
<1>2. v2' \in Nat
  BY DEF Undisturbed, Grants!IInv
<1> QED  BY <1>1, <1>2 DEF Grants!IInv

LEMMA GrantsInit == Grants!Init => Grants!IInv
<1> SUFFICES ASSUME Grants!Init PROVE Grants!IInv
  OBVIOUS
<1>1. v4 \in [Tickets -> Grants!RowType] /\ v9 \in [Requests -> Grants!RequestType]
  BY IdleIsRequest DEF Grants!Init
<1>2. v5 \in [Tickets -> Grants!Contact] /\ DOMAIN v7 = Tickets
  BY DEF Grants!Init, Grants!Contact
<1>3. \A r \in Requests : Grants!Watching(v9[r]) /\ Grants!Proving(v9[r])
  BY IdleIsFair DEF Grants!Init
<1>4. Grants!IsFiniteSet(v8)
  BY FS_EmptySet, GrantsFinite DEF Grants!Init
<1> QED  BY <1>1, <1>2, <1>3, <1>4 DEF Grants!Init, Grants!IInv

LEMMA File ==
  ASSUME Grants!IInv, NEW r \in Requests, NEW t \in Tickets, NEW e \in Emails, Grants!File(r, t, e)
  PROVE  Grants!IInv'
<1>1. PICK q : q = [Grants!Idle EXCEPT !.at = "granting", !.ticket = t, !.email = e,
                                       !.seen = Grants!markVerified(v4'[t], e)]
  OBVIOUS
<1>2. /\ v4 \in [Tickets -> Grants!RowType] /\ v5 \in [Tickets -> Grants!Contact]
      /\ v9 \in [Requests -> Grants!RequestType] /\ v1 \in Nat /\ v2 \in Nat
  BY DEF Grants!IInv
<1>3. v4'[t] \in Grants!RowType /\ v4'[t].filed = TRUE
      /\ v4' \in [Tickets -> Grants!RowType] /\ \A other \in Tickets \ {t} : v4'[other] = v4[other]
  BY <1>2 DEF Grants!File, Grants!RowType, Grants!NoTicket, Grants!requesterIdForPolicy
<1>4. v5' \in [Tickets -> Grants!Contact] /\ \A other \in Tickets \ {t} : v5'[other] = v5[other]
  BY <1>2 DEF Grants!File, Grants!Contact
<1>5. v4[t].filed # TRUE
  BY DEF Grants!File
<1>6. Undisturbed
  BY <1>3, <1>4, <1>5 DEF Undisturbed, Grants!File
<1>7. /\ q \in Grants!RequestType /\ q.at = "granting" /\ q.ticket = t /\ q.email = e
      /\ q.seen.proven = <<e, v2>>
  BY <1>1, <1>2, <1>3, IdleIsRequest
     DEF Grants!RequestType, Grants!RowType, Grants!markVerified, Grants!emailDigest, Grants!Idle
<1>8. v9' = [v9 EXCEPT ![r] = q]
  BY <1>1 DEF Grants!File, Grants!Granting
<1>9. ASSUME NEW s \in Requests PROVE Grants!Watching(v9[s])' /\ Grants!Proving(v9[s])'
  <2>1. CASE s # r
    BY <1>2, <1>6, <1>8, <2>1, RequestKept DEF Grants!IInv
  <2>2. CASE s = r
    <3>1. v9'[s] = q /\ v2' = v2
      BY <1>2, <1>8, <2>2 DEF Grants!File
    <3> QED  BY <1>3, <1>7, <3>1 DEF Grants!Watching, Grants!Proving, Grants!Digested
  <2> QED  BY <2>1, <2>2
<1>10. v9' \in [Requests -> Grants!RequestType]
  BY <1>2, <1>7, <1>8
<1> QED  BY <1>3, <1>4, <1>9, <1>10 DEF Grants!IInv, Grants!File

LEMMA CreateByUser ==
  ASSUME Grants!IInv, NEW t \in Tickets, NEW u \in Accounts, NEW embedded \in BOOLEAN,
         Grants!createTicket(t, u, embedded)
  PROVE  Grants!IInv'
<1>1. v4 \in [Tickets -> Grants!RowType] /\ v9 \in [Requests -> Grants!RequestType]
  BY DEF Grants!IInv
<1>2. v4' \in [Tickets -> Grants!RowType] /\ \A other \in Tickets \ {t} : v4'[other] = v4[other]
  BY <1>1 DEF Grants!createTicket, Grants!RowType, Grants!NoTicket, Grants!actingUser
<1>3. Undisturbed
  BY <1>2 DEF Undisturbed, Grants!createTicket
<1> QED  BY <1>2, <1>3, TicketsMove DEF Grants!IInv, Grants!createTicket

LEMMA Lookup ==
  ASSUME Grants!IInv, NEW r \in Requests, NEW t \in Tickets, NEW e \in Emails, Grants!lookup(r, t, e)
  PROVE  Grants!IInv'
<1>1. PICK q : q = [Grants!Idle EXCEPT !.at = "granting", !.ticket = t, !.email = e,
                                       !.seen = Grants!markVerified(v4[t], e)]
  OBVIOUS
<1>2. v4[t] \in Grants!RowType /\ v2 \in Nat /\ v4[t].filed = TRUE
  BY DEF Grants!IInv, Grants!lookup, Grants!RowType
<1>3. /\ q \in Grants!RequestType /\ q.at = "granting" /\ q.ticket = t /\ q.email = e
      /\ q.seen.proven = <<e, v2>>
  BY <1>1, <1>2, IdleIsRequest
     DEF Grants!RequestType, Grants!RowType, Grants!markVerified, Grants!emailDigest, Grants!Idle
<1>4. Grants!Watching(q) /\ Grants!Proving(q)
  BY <1>2, <1>3 DEF Grants!Watching, Grants!Proving, Grants!Digested
<1>5. v9' = [v9 EXCEPT ![r] = q]
  BY <1>1 DEF Grants!lookup, Grants!Granting
<1> QED  BY <1>3, <1>4, <1>5, RequestMoves DEF Grants!lookup

\* A request that only goes on to `at`.
LEMMA RequestGoesOn ==
  ASSUME NEW q \in Grants!RequestType, NEW at \in {"issuing", "in", "rating"},
         Grants!Watching(q), Grants!Proving(q),
         at = "issuing" => q.at = "granting",
         at = "in" => q.at = "resolving" /\ q.email \in q.owners,
         at = "rating" => q.at = "read"
  PROVE  LET n == [q EXCEPT !.at = at] IN n \in Grants!RequestType /\ Grants!Watching(n) /\ Grants!Proving(n)
  BY DEF Grants!RequestType, Grants!Watching, Grants!Proving

\* The proven email is looked up again: before a grant is given, and before one is used.
LEMMA Verify ==
  ASSUME Grants!IInv, NEW r \in Requests, Grants!CheckIssue(r) \/ Grants!ticketForToken(r)
  PROVE  Grants!IInv'
<1>1. PICK q : q = v9[r]
  OBVIOUS
<1>2. q \in Grants!RequestType /\ Grants!Watching(q) /\ Grants!Proving(q)
  BY <1>1 DEF Grants!IInv
<1>3. CASE v9' = [v9 EXCEPT ![r] = Grants!Idle]
  BY <1>3, RequestEnds DEF Grants!CheckIssue, Grants!ticketForToken
<1>4. CASE Grants!CheckIssue(r) /\ v9' # [v9 EXCEPT ![r] = Grants!Idle]
  <2>1. PICK n : n = [q EXCEPT !.at = "issuing"]
    OBVIOUS
  <2>2. v9' = [v9 EXCEPT ![r] = n] /\ q.at = "granting"
    BY <1>1, <1>4, <2>1 DEF Grants!CheckIssue
  <2>3. n \in Grants!RequestType /\ Grants!Watching(n) /\ Grants!Proving(n)
    BY <1>2, <2>1, <2>2, RequestGoesOn
  <2> QED  BY <1>4, <2>2, <2>3, RequestMoves DEF Grants!CheckIssue
<1>5. CASE Grants!ticketForToken(r) /\ v9' # [v9 EXCEPT ![r] = Grants!Idle]
  <2>1. PICK n : n = [q EXCEPT !.at = "in"]
    OBVIOUS
  <2>2. v9' = [v9 EXCEPT ![r] = n] /\ q.at = "resolving" /\ Grants!verified(q.ticket, q.seen)
    BY <1>1, <1>5, <2>1 DEF Grants!ticketForToken
  <2>3. q.email \in q.owners
    BY <1>2, <2>2 DEF Grants!verified, Grants!Watching, Grants!Digested, Grants!emailDigest
  <2>4. n \in Grants!RequestType /\ Grants!Watching(n) /\ Grants!Proving(n)
    BY <1>2, <2>1, <2>2, <2>3, RequestGoesOn
  <2> QED  BY <1>5, <2>2, <2>4, RequestMoves DEF Grants!ticketForToken
<1> QED  BY <1>3, <1>4, <1>5

LEMMA Resolve ==
  ASSUME Grants!IInv, NEW r \in Requests, NEW g \in v8, NEW kind \in {"widget", "screen", "mobile", "rate"},
         Grants!resolve(r, g, kind)
  PROVE  Grants!IInv'
<1>1. PICK q : q = [Grants!Idle EXCEPT !.at = "resolving", !.kind = kind, !.ticket = g.ticket, !.grant = g,
                      !.email = g.email, !.seen = v4[g.ticket], !.owners = {Grants!guestEmail(g.ticket)},
                      !.nonces = {v4[g.ticket].nonce}]
  OBVIOUS
<1>2. g \in Grants!GrantType /\ g.proven = <<g.email, g.key>> /\ g.ticket \in Tickets /\ g.email \in Emails
  BY DEF Grants!IInv, Grants!GrantType
<1>3. v4[g.ticket] \in Grants!RowType /\ v4[g.ticket].nonce \in Nat /\ v4[g.ticket].filed \in BOOLEAN
      /\ Grants!guestEmail(g.ticket) \in Emails \cup {Nil}
  BY <1>2 DEF Grants!IInv, Grants!RowType, Grants!Contact, Grants!guestEmail
<1>4. v4[g.ticket].filed = TRUE /\ v4[g.ticket].proven = <<g.email, v2>> /\ v4[g.ticket].nonce = g.nonce
  BY <1>2, <1>3 DEF Grants!resolve, Grants!names
<1>5. q \in Grants!RequestType
  BY <1>1, <1>2, <1>3, IdleIsRequest DEF Grants!RequestType, Grants!Idle
<1>6. /\ q.at = "resolving" /\ q.ticket = g.ticket /\ q.grant = g /\ q.email = g.email /\ q.seen = v4[g.ticket]
      /\ q.owners = {Grants!guestEmail(g.ticket)} /\ q.nonces = {v4[g.ticket].nonce}
  BY <1>1 DEF Grants!Idle
<1>7. Grants!Watching(q) /\ Grants!Proving(q)
  BY <1>2, <1>4, <1>6 DEF Grants!Watching, Grants!Proving, Grants!Digested
<1>8. v9' = [v9 EXCEPT ![r] = q]
  BY <1>1 DEF Grants!resolve
<1> QED  BY <1>5, <1>7, <1>8, RequestMoves DEF Grants!resolve

\* A screen reads the ticket again, the mobile reply asks for the email once more.
LEMMA ReadAgain ==
  ASSUME Grants!IInv, NEW r \in Requests,
         Grants!granted(r) \/ \E e \in Emails : Grants!secondFactor(r, e)
  PROVE  Grants!IInv'
<1>1. PICK q : q = v9[r]
  OBVIOUS
<1>2. q \in Grants!RequestType /\ Grants!Watching(q) /\ Grants!Proving(q) /\ q.at = "in"
  BY <1>1 DEF Grants!IInv, Grants!granted, Grants!secondFactor
<1>3. CASE v9' = [v9 EXCEPT ![r] = Grants!Idle]
  BY <1>3, RequestEnds DEF Grants!granted, Grants!secondFactor
<1>4. CASE v9' # [v9 EXCEPT ![r] = Grants!Idle]
  <2>1. \/ v9' = [v9 EXCEPT ![r] = [q EXCEPT !.at = "read"]]
        \/ v9' = [v9 EXCEPT ![r] = [q EXCEPT !.at = "read", !.seen = v4[q.ticket]]]
    <3>1. ASSUME Grants!granted(r)
          PROVE  v9' = [v9 EXCEPT ![r] = [q EXCEPT !.at = "read", !.seen = v4[q.ticket]]]
      BY <1>1, <3>1 DEF Grants!granted
    <3>2. ASSUME NEW e \in Emails, Grants!secondFactor(r, e)
          PROVE  v9' = [v9 EXCEPT ![r] = [q EXCEPT !.at = "read"]]
      BY <1>1, <1>4, <3>2 DEF Grants!secondFactor
    <3> QED  BY <3>1, <3>2
  <2>2. PICK seen \in Grants!RowType : v9' = [v9 EXCEPT ![r] = [q EXCEPT !.at = "read", !.seen = seen]]
    <3>1. v4[q.ticket] \in Grants!RowType
      BY <1>2 DEF Grants!Watching, Grants!IInv
    <3>2. q.seen \in Grants!RowType /\ [q EXCEPT !.at = "read", !.seen = q.seen] = [q EXCEPT !.at = "read"]
      BY <1>2 DEF Grants!RequestType
    <3> QED  BY <2>1, <3>1, <3>2
  <2>3. PICK n : n = [q EXCEPT !.at = "read", !.seen = seen]
    OBVIOUS
  <2>4. n \in Grants!RequestType /\ Grants!Watching(n) /\ Grants!Proving(n)
    BY <1>2, <2>2, <2>3 DEF Grants!RequestType, Grants!Watching, Grants!Proving
  <2> QED  BY <2>2, <2>3, <2>4, RequestMoves DEF Grants!granted, Grants!secondFactor
<1> QED  BY <1>3, <1>4

LEMMA RateOrRefuse ==
  ASSUME Grants!IInv, NEW r \in Requests, Grants!rate(r) \/ Grants!Refuse(r)
  PROVE  Grants!IInv'
<1>1. PICK q : q = v9[r]
  OBVIOUS
<1>2. q \in Grants!RequestType /\ Grants!Watching(q) /\ Grants!Proving(q) /\ q.at = "read"
  BY <1>1 DEF Grants!IInv, Grants!rate, Grants!Refuse
<1>3. CASE v9' = [v9 EXCEPT ![r] = Grants!Idle]
  BY <1>3, RequestEnds DEF Grants!rate, Grants!Refuse
<1>4. CASE v9' # [v9 EXCEPT ![r] = Grants!Idle]
  <2>1. PICK n : n = [q EXCEPT !.at = "rating"]
    OBVIOUS
  <2>2. v9' = [v9 EXCEPT ![r] = n]
    BY <1>1, <1>4, <2>1 DEF Grants!rate, Grants!Refuse
  <2>3. n \in Grants!RequestType /\ Grants!Watching(n) /\ Grants!Proving(n)
    BY <1>2, <2>1, RequestGoesOn
  <2> QED  BY <2>2, <2>3, RequestMoves DEF Grants!rate, Grants!Refuse
<1> QED  BY <1>3, <1>4

\* What a guest files is fair once the request was let in.
LEMMA PostIsFair ==
  ASSUME Grants!IInv, NEW r \in Requests, v9[r].at \in {"in", "read", "rating"}
  PROVE  v9[r].ticket \in Tickets /\ Grants!Post(r).fair = TRUE
<1>1. Grants!Watching(v9[r])
  BY DEF Grants!IInv
<1>2. v9[r].ticket \in Tickets /\ v9[r].email \in v9[r].owners /\ v9[r].grant.nonce \in v9[r].nonces
  BY <1>1 DEF Grants!Watching
<1> QED  BY <1>2 DEF Grants!Post

LEMMA FiledRows ==
  ASSUME NEW row \in [Tickets -> Grants!RowType], NEW t \in Tickets, NEW answered \in BOOLEAN
  PROVE  LET changed == [row EXCEPT ![t].answered = answered] IN
           changed \in [Tickets -> Grants!RowType] /\ \A any \in Tickets : changed[any].filed = row[any].filed
  BY DEF Grants!RowType

LEMMA AnswerKeepsRows ==
  ASSUME Grants!IInv, NEW t \in Tickets, NEW user, v4' = Grants!Filed(t, user), v5' = v5, v2' = v2
  PROVE  v4' \in [Tickets -> Grants!RowType] /\ Undisturbed
<1>1. PICK row : row = v4
  OBVIOUS
<1>2. row \in [Tickets -> Grants!RowType] /\ v5 \in [Tickets -> Grants!Contact]
  BY <1>1 DEF Grants!IInv
<1>3. PICK answered \in BOOLEAN : answered = (row[t].answered \/ row[t].requester # user)
  OBVIOUS
<1>4. v4' = [row EXCEPT ![t].answered = answered]
  BY <1>1, <1>3 DEF Grants!Filed
<1>5. v4' \in [Tickets -> Grants!RowType] /\ \A any \in Tickets : v4'[any].filed = row[any].filed
  BY <1>2, <1>4, FiledRows
<1> QED  BY <1>1, <1>5 DEF Undisturbed

LEMMA GuestReplies ==
  ASSUME Grants!IInv, NEW r \in Requests, v9[r].at \in {"in", "read"}, Grants!Reply(r)
  PROVE  Grants!IInv'
<1>1. v9[r].ticket \in Tickets /\ Grants!Post(r).fair = TRUE
  BY PostIsFair
<1>2. v4' \in [Tickets -> Grants!RowType] /\ Undisturbed
  BY <1>1, AnswerKeepsRows DEF Grants!Reply
<1>3. \A p \in v6' : p.fair = TRUE
  BY <1>1 DEF Grants!Reply, Grants!IInv
<1>4. v9' \in [Requests -> Grants!RequestType] /\ \A s \in Requests : v9'[s] \in {v9[s], Grants!Idle}
  BY IdleIsRequest DEF Grants!Reply, Grants!IInv
<1> QED  BY <1>2, <1>3, <1>4, TicketsMove DEF Grants!Reply, Grants!IInv

LEMMA GuestRates ==
  ASSUME Grants!IInv, NEW r \in Requests, Grants!createRating(r)
  PROVE  Grants!IInv'
<1>1. v9[r].ticket \in Tickets /\ Grants!Post(r).fair = TRUE
  BY PostIsFair DEF Grants!createRating
<1>2. DOMAIN v7' = Tickets /\ \A t \in Tickets : \A p \in v7'[t] : p.fair = TRUE
  BY <1>1 DEF Grants!createRating, Grants!IInv
<1>3. v9' \in [Requests -> Grants!RequestType] /\ \A s \in Requests : v9'[s] \in {v9[s], Grants!Idle}
  BY IdleIsRequest DEF Grants!createRating, Grants!IInv
<1>4. Undisturbed
  BY DEF Undisturbed, Grants!createRating
<1> QED  BY <1>2, <1>3, <1>4, TicketsMove DEF Grants!createRating, Grants!IInv

LEMMA StaffReplies ==
  ASSUME Grants!IInv, NEW t \in Tickets, Grants!StaffReply(t)
  PROVE  Grants!IInv'
<1>1. v4' \in [Tickets -> Grants!RowType] /\ Undisturbed
  BY AnswerKeepsRows DEF Grants!StaffReply
<1>2. \A p \in v6' : p.fair = TRUE
  BY DEF Grants!StaffReply, Grants!IInv
<1> QED  BY <1>1, <1>2, TicketsMove DEF Grants!StaffReply, Grants!IInv

\* The staff solve and revoke, the tickets of one who signed up are theirs.
LEMMA RowChanges ==
  ASSUME Grants!IInv, NEW t \in Tickets,
         \/ \E on \in BOOLEAN : Grants!Solve(t, on)
         \/ Grants!revoke(t)
         \/ Grants!promoteToUser(t)
  PROVE  Grants!IInv'
<1>1. v4 \in [Tickets -> Grants!RowType] /\ v5[t].user \in Accounts \cup {Nil}
  BY DEF Grants!IInv, Grants!Contact
<1>2. v4' \in [Tickets -> Grants!RowType] /\ \A any \in Tickets : v4'[any].filed = v4[any].filed
  <2>1. ASSUME NEW on \in BOOLEAN, Grants!Solve(t, on)
        PROVE  v4' \in [Tickets -> Grants!RowType] /\ \A any \in Tickets : v4'[any].filed = v4[any].filed
    BY <1>1, <2>1 DEF Grants!Solve, Grants!RowType
  <2>2. CASE Grants!revoke(t)
    <3>1. v4[t] \in Grants!RowType
      BY <1>1
    <3>2. PICK new : new = [v4[t] EXCEPT !.nonce = 0, !.until = 0]
      OBVIOUS
    <3>3. new \in Grants!RowType /\ new.filed = v4[t].filed
      BY <3>1, <3>2 DEF Grants!RowType
    <3>4. v4' = [v4 EXCEPT ![t] = new]
      BY <1>1, <2>2, <3>1, <3>2 DEF Grants!revoke, Grants!RowType
    <3> QED  BY <1>1, <3>3, <3>4
  <2>3. CASE Grants!promoteToUser(t)
    BY <1>1, <2>3 DEF Grants!promoteToUser, Grants!RowType
  <2> QED  BY <2>1, <2>2, <2>3
<1>3. UNCHANGED <<v1, v2, v5, v6, v7, v8, v9>>
  BY DEF Grants!Solve, Grants!revoke, Grants!promoteToUser
<1>4. Undisturbed
  BY <1>2, <1>3 DEF Undisturbed
<1> QED  BY <1>2, <1>3, <1>4, TicketsMove DEF Grants!IInv

LEMMA SignUp ==
  ASSUME Grants!IInv, NEW t \in Tickets, NEW u \in Accounts, Grants!linkToUser(t, u)
  PROVE  Grants!IInv'
<1>1. v5 \in [Tickets -> Grants!Contact]
  BY DEF Grants!IInv
<1>2. v5' \in [Tickets -> Grants!Contact] /\ \A any \in Tickets : v5'[any].email = v5[any].email
  BY <1>1 DEF Grants!linkToUser, Grants!Contact
<1>3. Undisturbed
  BY <1>2 DEF Undisturbed, Grants!linkToUser
<1> QED  BY <1>2, <1>3, TicketsMove DEF Grants!linkToUser, Grants!IInv

LEMMA PolicyOrTime ==
  ASSUME Grants!IInv, Grants!SetPolicy \/ Grants!Tick
  PROVE  Grants!IInv'
<1>1. v1' \in Nat /\ UNCHANGED <<v2, v4, v5, v6, v7, v8, v9>>
  BY DEF Grants!SetPolicy, Grants!Tick, Grants!IInv
<1>2. Undisturbed
  BY <1>1 DEF Undisturbed
<1> QED  BY <1>1, <1>2, TicketsMove DEF Grants!IInv

\* A restart ends every request, and no grant of before names the new key.
LEMMA Restarts ==
  ASSUME Grants!IInv, Grants!Restart
  PROVE  Grants!IInv'
<1>1. v2' \in Nat /\ UNCHANGED <<v1, v4, v5, v6, v7, v8>>
  BY DEF Grants!Restart, Grants!IInv
<1>2. v9' \in [Requests -> Grants!RequestType] /\ \A r \in Requests : v9'[r] = Grants!Idle
  BY IdleIsRequest DEF Grants!Restart
<1>3. \A r \in Requests : Grants!Watching(v9[r])' /\ Grants!Proving(v9[r])'
  BY <1>2 DEF Grants!Watching, Grants!Proving, Grants!Idle
<1> QED  BY <1>1, <1>2, <1>3 DEF Grants!IInv

\* The requests about a ticket see its new email, or its new grant.
LEMMA WatchedRequest ==
  ASSUME Grants!IInv, NEW t \in Tickets, NEW email \in Emails \cup {Nil}, NEW nonce \in Nat, NEW r \in Requests,
         NEW n, n = Grants!Watched(t, email, nonce)[r]
  PROVE  /\ n \in Grants!RequestType /\ n.at = v9[r].at /\ n.ticket = v9[r].ticket /\ n.email = v9[r].email
         /\ n.seen = v9[r].seen /\ n.grant = v9[r].grant
         /\ n.owners = v9[r].owners \cup (IF n.ticket = t THEN {email} ELSE {})
         /\ v9[r].nonces \subseteq n.nonces
<1>1. PICK q : q = v9[r]
  OBVIOUS
<1>2. q \in Grants!RequestType
  BY <1>1 DEF Grants!IInv
<1>3. CASE q.ticket # t
  <2>1. n = q
    BY <1>1, <1>3 DEF Grants!Watched
  <2> QED  BY <1>1, <1>2, <1>3, <2>1
<1>4. CASE q.ticket = t
  <2>1. n = [q EXCEPT !.owners = @ \cup {email}, !.nonces = @ \cup {nonce}]
    BY <1>1, <1>4 DEF Grants!Watched
  <2>2. /\ n \in Grants!RequestType /\ n.at = q.at /\ n.ticket = q.ticket /\ n.email = q.email
        /\ n.seen = q.seen /\ n.grant = q.grant
        /\ n.owners = q.owners \cup {email} /\ n.nonces = q.nonces \cup {nonce}
    <3>1. q.owners \cup {email} \in SUBSET (Emails \cup {Nil}) /\ q.nonces \cup {nonce} \in SUBSET Nat
      BY <1>2 DEF Grants!RequestType
    <3> QED  BY <1>2, <2>1, <3>1 DEF Grants!RequestType
  <2>3. n.owners = q.owners \cup (IF n.ticket = t THEN {email} ELSE {})
    BY <1>4, <2>2
  <2> QED  BY <1>1, <2>2, <2>3
<1> QED  BY <1>3, <1>4

LEMMA EmailChanges ==
  ASSUME Grants!IInv, NEW t \in Tickets, NEW e \in Emails, Grants!ChangeEmail(t, e)
  PROVE  Grants!IInv'
<1>1. /\ v4 \in [Tickets -> Grants!RowType] /\ v5 \in [Tickets -> Grants!Contact] /\ v4[t].nonce \in Nat
      /\ UNCHANGED <<v1, v2, v4, v6, v7, v8>>
  BY DEF Grants!IInv, Grants!ChangeEmail, Grants!RowType
<1>2. v5' \in [Tickets -> Grants!Contact] /\ v5'[t].email = e /\ \A any \in Tickets \ {t} : v5'[any] = v5[any]
  BY <1>1 DEF Grants!ChangeEmail, Grants!Contact
<1>3. v9' = Grants!Watched(t, e, v4[t].nonce)
  BY DEF Grants!ChangeEmail
<1>4. ASSUME NEW r \in Requests
      PROVE  v9'[r] \in Grants!RequestType /\ Grants!Watching(v9[r])' /\ Grants!Proving(v9[r])'
  <2>1. /\ v9'[r] \in Grants!RequestType /\ v9'[r].at = v9[r].at /\ v9'[r].ticket = v9[r].ticket
        /\ v9'[r].email = v9[r].email /\ v9'[r].seen = v9[r].seen /\ v9'[r].grant = v9[r].grant
        /\ v9'[r].owners = v9[r].owners \cup (IF v9'[r].ticket = t THEN {e} ELSE {})
        /\ v9[r].nonces \subseteq v9'[r].nonces
    <3>1. PICK email \in Emails \cup {Nil} : email = e
      OBVIOUS
    <3>2. PICK nonce \in Nat : nonce = v4[t].nonce
      BY <1>1
    <3>3. PICK m : m = Grants!Watched(t, email, nonce)[r]
      OBVIOUS
    <3>4. /\ m \in Grants!RequestType /\ m.at = v9[r].at /\ m.ticket = v9[r].ticket /\ m.email = v9[r].email
          /\ m.seen = v9[r].seen /\ m.grant = v9[r].grant
          /\ m.owners = v9[r].owners \cup (IF m.ticket = t THEN {email} ELSE {})
          /\ v9[r].nonces \subseteq m.nonces
      BY <3>3, WatchedRequest
    <3> QED  BY <1>3, <3>1, <3>2, <3>3, <3>4
  <2>2. Grants!Watching(v9[r]) /\ Grants!Proving(v9[r])
    BY DEF Grants!IInv
  <2>3. Grants!Proving(v9[r])'
    BY <1>1, <2>1, <2>2 DEF Grants!Proving, Grants!Digested
  <2>4. Grants!Watching(v9[r])'
    BY <1>1, <1>2, <2>1, <2>2 DEF Grants!Watching, Grants!Digested, Grants!guestEmail
  <2> QED  BY <2>1, <2>3, <2>4
<1>5. v9' \in [Requests -> Grants!RequestType]
  BY <1>3, <1>4 DEF Grants!Watched
<1> QED  BY <1>1, <1>2, <1>4, <1>5 DEF Grants!IInv

LEMMA Issue ==
  ASSUME Grants!IInv, NEW r \in Requests, Grants!issue(r)
  PROVE  Grants!IInv'
<1>1. PICK q : q = v9[r]
  OBVIOUS
<1>2. PICK n : n = Grants!Cardinality(v8) + 1
  OBVIOUS
<1>3. PICK t : t = q.ticket
  OBVIOUS
<1>4. q \in Grants!RequestType /\ q.at = "issuing" /\ t \in Tickets /\ q.seen.proven = <<q.email, v2>>
      /\ v4[t].filed = TRUE /\ q.email \in Emails
  BY <1>1, <1>3 DEF Grants!IInv, Grants!issue, Grants!Proving, Grants!Digested
<1>5. n \in Nat
  BY <1>2, GrantsFinite, FS_CardinalityType DEF Grants!IInv
<1>6. /\ v4 \in [Tickets -> Grants!RowType] /\ v5 \in [Tickets -> Grants!Contact] /\ v1 \in Nat /\ v2 \in Nat
      /\ Ttl \in Nat
  BY GuestsAreNoUsers DEF Grants!IInv, Grants!GrantsAssumption
<1>7. q.seen.proven \in Emails \X Nat /\ v1 + Ttl \in Nat
  BY <1>4, <1>6
<1>8. PICK row : row = [v4[t] EXCEPT !.nonce = n, !.until = v1 + Ttl, !.proven = q.seen.proven]
  OBVIOUS
<1>9. row \in Grants!RowType /\ row.filed = TRUE
  <2>1. v4[t] \in Grants!RowType
    BY <1>4, <1>6
  <2> QED  BY <1>4, <1>5, <1>7, <1>8, <2>1 DEF Grants!RowType
<1>10. v4' = [v4 EXCEPT ![t] = row]
  BY <1>1, <1>2, <1>3, <1>4, <1>6, <1>8 DEF Grants!issue, Grants!RowType
<1>11. v4' \in [Tickets -> Grants!RowType] /\ \A any \in Tickets : v4[any].filed = TRUE => v4'[any].filed = TRUE
  BY <1>4, <1>6, <1>9, <1>10
<1>12. PICK g : g = [ticket |-> t, nonce |-> n, until |-> v1 + Ttl, key |-> v2, email |-> q.email,
                       proven |-> q.seen.proven]
  OBVIOUS
<1>13. g \in Grants!GrantType /\ g.proven = <<g.email, g.key>>
  BY <1>4, <1>5, <1>6, <1>7, <1>12 DEF Grants!GrantType
<1>14. v8' = v8 \cup {g}
  BY <1>1, <1>2, <1>3, <1>12 DEF Grants!issue
<1>15. Grants!IsFiniteSet(v8') /\ \A h \in v8' : h \in Grants!GrantType /\ h.proven = <<h.email, h.key>>
  <2>1. IsFiniteSet(v8')
    BY <1>14, FS_AddElement, GrantsFinite DEF Grants!IInv
  <2> QED  BY <1>13, <1>14, <2>1, GrantsFinite DEF Grants!IInv
<1>16. v5[t].email \in Emails \cup {Nil}
  BY <1>4, <1>6 DEF Grants!Contact
<1>17. v9' = [Grants!Watched(t, v5[t].email, n) EXCEPT ![r] = Grants!Idle]
  BY <1>1, <1>2, <1>3 DEF Grants!issue, Grants!guestEmail
<1>18. UNCHANGED <<v1, v2, v5, v6, v7>>
  BY DEF Grants!issue
<1>19. ASSUME NEW s \in Requests
       PROVE  v9'[s] \in Grants!RequestType /\ Grants!Watching(v9[s])' /\ Grants!Proving(v9[s])'
  <2>1. CASE s = r
    <3>1. v9'[s] = Grants!Idle
      BY <1>17, <2>1 DEF Grants!Watched
    <3> QED  BY <3>1, IdleIsRequest DEF Grants!Watching, Grants!Proving, Grants!Idle
  <2>2. CASE s # r
    <3>1. v9'[s] = Grants!Watched(t, v5[t].email, n)[s]
      BY <1>17, <2>2 DEF Grants!Watched
    <3>2. /\ v9'[s] \in Grants!RequestType /\ v9'[s].at = v9[s].at /\ v9'[s].ticket = v9[s].ticket
          /\ v9'[s].email = v9[s].email /\ v9'[s].seen = v9[s].seen /\ v9'[s].grant = v9[s].grant
          /\ v9[s].owners \subseteq v9'[s].owners
          /\ v9[s].nonces \subseteq v9'[s].nonces
      <4>1. PICK email \in Emails \cup {Nil} : email = v5[t].email
        BY <1>16
      <4>2. PICK m : m = Grants!Watched(t, email, n)[s]
        OBVIOUS
      <4>3. /\ m \in Grants!RequestType /\ m.at = v9[s].at /\ m.ticket = v9[s].ticket /\ m.email = v9[s].email
            /\ m.seen = v9[s].seen /\ m.grant = v9[s].grant
            /\ m.owners = v9[s].owners \cup (IF m.ticket = t THEN {email} ELSE {})
            /\ v9[s].nonces \subseteq m.nonces
        BY <1>4, <1>5, <4>2, WatchedRequest
      <4> QED  BY <3>1, <4>1, <4>2, <4>3
    <3>3. Grants!Watching(v9[s]) /\ Grants!Proving(v9[s])
      BY DEF Grants!IInv
    <3>4. Grants!Proving(v9[s])'
      BY <1>11, <1>18, <3>2, <3>3 DEF Grants!Proving, Grants!Digested
    <3>5. Grants!Watching(v9[s])'
      BY <1>11, <1>18, <3>2, <3>3 DEF Grants!Watching, Grants!Digested, Grants!guestEmail
    <3> QED  BY <3>2, <3>4, <3>5
  <2> QED  BY <2>1, <2>2
<1>20. v9' \in [Requests -> Grants!RequestType]
  BY <1>17, <1>19 DEF Grants!Watched
<1> QED  BY <1>6, <1>11, <1>15, <1>18, <1>19, <1>20 DEF Grants!IInv

LEMMA GrantsNext == Grants!IInv /\ Grants!Next => Grants!IInv'
<1> SUFFICES ASSUME Grants!IInv, Grants!Next PROVE Grants!IInv'
  OBVIOUS
<1>1. ASSUME NEW r \in Requests, Grants!Request(r) PROVE Grants!IInv'
  <2>1. ASSUME NEW t \in Tickets, NEW e \in Emails,
               Grants!fileTicket(r, t, e) \/ Grants!store(r, t, e) \/ Grants!create(r, t, e)
        PROVE  Grants!IInv'
    BY <2>1, File DEF Grants!fileTicket, Grants!store, Grants!create
  <2>2. ASSUME Grants!addReply(r) \/ Grants!mobileReply(r) \/ Grants!screenReply(r) PROVE Grants!IInv'
    BY <2>2, GuestReplies DEF Grants!addReply, Grants!mobileReply, Grants!screenReply
  <2> QED  BY <1>1, <2>1, <2>2, Lookup, Verify, Issue, Resolve, ReadAgain, RateOrRefuse, GuestRates
              DEF Grants!Request
<1>2. ASSUME Grants!Meanwhile PROVE Grants!IInv'
  BY <1>2, CreateByUser, StaffReplies, RowChanges, EmailChanges, SignUp, PolicyOrTime, Restarts
     DEF Grants!Meanwhile
<1> QED  BY <1>1, <1>2 DEF Grants!Next

LEMMA GrantsStutter == Grants!IInv /\ UNCHANGED <<v1, v2, v4, v5, v6, v7, v8, v9>> => Grants!IInv'
  BY DEF Grants!IInv, Grants!Watching, Grants!Proving, Grants!Digested, Grants!guestEmail

LEMMA GrantsAct == Grants!IInv => Grants!ActsAsProven
<1> SUFFICES ASSUME Grants!IInv PROVE Grants!ActsAsProven
  OBVIOUS
<1>1. \A p \in v6 \cup UNION {v7[t] : t \in Tickets} : p.fair = TRUE
  BY DEF Grants!IInv
<1> QED  BY <1>1 DEF Grants!ActsAsProven

-----------------------------------------------------------------------------
(* What mail does: v2 are the contacts, v3 the tickets, v4 the replies, v5 the mails, v6 their *)
(* deliveries, v7 what was sent and v9 the mails that met a fault.                             *)

LEMMA MailFinite == \A S : Mail!Cardinality(S) = Cardinality(S)
  BY DEF Mail!Cardinality, Cardinality

LEMMA SeqReplaced ==
  ASSUME NEW S, NEW s \in Seq(S), NEW m \in DOMAIN s, NEW e \in S, NEW w, w = [s EXCEPT ![m] = e]
  PROVE  /\ w \in Seq(S) /\ Len(w) = Len(s) /\ DOMAIN w = DOMAIN s /\ w[m] = e
         /\ \A n \in DOMAIN s : n # m => w[n] = s[n]
  OBVIOUS

LEMMA SeqAppended ==
  ASSUME NEW S, NEW s \in Seq(S), NEW e \in S, NEW w, w = Append(s, e)
  PROVE  /\ w \in Seq(S) /\ Len(w) = Len(s) + 1 /\ DOMAIN w = DOMAIN s \cup {Len(s) + 1}
         /\ w[Len(s) + 1] = e /\ \A n \in DOMAIN s : n # Len(s) + 1 /\ w[n] = s[n]
  OBVIOUS

\* How many of the rows are of mail m.
CountOf(s, m) == Mail!Cardinality({i \in DOMAIN s : s[i].of = m})

LEMMA FiledIs ==
  ASSUME NEW m
  PROVE  /\ Mail!Filed(m) = CountOf(v4, m) + CountOf(v3, m)
         /\ Mail!Filed(m)' = CountOf(v4', m) + CountOf(v3', m)
  BY DEF Mail!Filed, CountOf

LEMMA CountIsNat == ASSUME NEW S, NEW s \in Seq(S), NEW m PROVE CountOf(s, m) \in Nat
<1>1. IsFiniteSet(1 .. Len(s))
  BY FS_Interval
<1>2. IsFiniteSet({i \in DOMAIN s : s[i].of = m})
  BY <1>1, FS_Subset
<1> QED  BY <1>2, FS_CardinalityType, MailFinite DEF CountOf

LEMMA CountAppended ==
  ASSUME NEW S, NEW s \in Seq(S), NEW e \in S, NEW m
  PROVE  CountOf(Append(s, e), m) = IF e.of = m THEN CountOf(s, m) + 1 ELSE CountOf(s, m)
<1> DEFINE w == Append(s, e)
<1>1. PICK A : A = {i \in DOMAIN s : s[i].of = m}
  OBVIOUS
<1>2. PICK n : n = Len(s) + 1
  OBVIOUS
<1>3. IsFiniteSet(A) /\ n \notin A
  <2>1. IsFiniteSet(1 .. Len(s))
    BY FS_Interval
  <2>2. A \subseteq 1 .. Len(s)
    BY <1>1
  <2> QED  BY <1>1, <1>2, <2>1, <2>2, FS_Subset
<1>4. /\ DOMAIN w = DOMAIN s \cup {n} /\ w[n] = e /\ \A i \in DOMAIN s : i # n /\ w[i] = s[i]
  BY <1>2, SeqAppended
<1>5. CASE e.of = m
  <2>1. {i \in DOMAIN w : w[i].of = m} = A \cup {n}
    BY <1>1, <1>4, <1>5
  <2>2. Cardinality(A \cup {n}) = Cardinality(A) + 1
    BY <1>3, FS_AddElement
  <2> QED  BY <1>1, <1>5, <2>1, <2>2, MailFinite DEF CountOf
<1>6. CASE e.of # m
  <2>1. {i \in DOMAIN w : w[i].of = m} = A
    BY <1>1, <1>4, <1>6
  <2> QED  BY <1>1, <1>6, <2>1 DEF CountOf
<1> QED  BY <1>5, <1>6

LEMMA NoneCounted ==
  ASSUME NEW s, NEW m, \A i \in DOMAIN s : s[i].of # m
  PROVE  CountOf(s, m) = 0
<1>1. {i \in DOMAIN s : s[i].of = m} = {}
  OBVIOUS
<1> QED  BY <1>1, FS_EmptySet, MailFinite DEF CountOf

LEMMA MailInit == Mail!Init => Mail!IInv
<1> SUFFICES ASSUME Mail!Init PROVE Mail!IInv
  OBVIOUS
<1>1. /\ v2 = [a \in Emails |-> Mail!NoContact] /\ v3 = <<>> /\ v4 = <<>> /\ v5 = <<>> /\ v6 = <<>> /\ v7 = {}
  BY DEF Mail!Init
<1>2. Mail!Shapes
  BY <1>1 DEF Mail!Shapes
<1> QED  BY <1>1, <1>2
     DEF Mail!IInv, Mail!RepliesAreRequesters, Mail!NoEcho, Mail!AutoStaysOnTicket, Mail!Mail

\* The mails' numbers, and what a delivery that goes on is.
LEMMA MailShapes ==
  ASSUME Mail!IInv
  PROVE  /\ v2 \in [Emails -> {99, 0, 7}] /\ v3 \in Seq(Mail!Row) /\ v4 \in Seq(Mail!Post)
         /\ v5 \in Seq(Mail!Message) /\ v6 \in Seq({Mail!Resting} \cup Mail!Delivery)
         /\ Mail!Mail = 1 .. Len(v5) /\ DOMAIN v6 = Mail!Mail /\ DOMAIN v5 = Mail!Mail /\ Len(v6) = Len(v5)
         /\ \A m \in Mail!Mail : v6[m].at # "none" => v6[m] \in Mail!Delivery /\ v6[m] # Mail!Resting
<1>1. Mail!Shapes
  BY DEF Mail!IInv
<1>2. /\ v2 \in [Emails -> {99, 0, 7}] /\ v3 \in Seq(Mail!Row) /\ v4 \in Seq(Mail!Post)
      /\ v5 \in Seq(Mail!Message) /\ v6 \in Seq({Mail!Resting} \cup Mail!Delivery) /\ Len(v6) = Len(v5)
  BY <1>1 DEF Mail!Shapes, Mail!NoContact
<1>3. Mail!Mail = 1 .. Len(v5) /\ DOMAIN v6 = Mail!Mail /\ DOMAIN v5 = Mail!Mail
  BY <1>2 DEF Mail!Mail
<1>4. ASSUME NEW m \in Mail!Mail, v6[m].at # "none" PROVE v6[m] \in Mail!Delivery /\ v6[m] # Mail!Resting
  <2>1. v6[m] \in {Mail!Resting} \cup Mail!Delivery
    BY <1>2, <1>3
  <2> QED  BY <1>4, <2>1 DEF Mail!Resting
<1> QED  BY <1>2, <1>3, <1>4

\* The rows of before stay, their contacts and owners too; a requester changes only when every
\* delivery under way is noted.
Grows ==
  /\ v9 \subseteq v9'
  /\ \A a \in Emails : v2[a] # 99 => v2'[a] # 99
  /\ \A t \in DOMAIN v3 : t \in DOMAIN v3' /\ v3'[t].contact = v3[t].contact
  /\ \A t \in DOMAIN v3 : \A a \in Emails : Mail!Owns(a, t) => Mail!Owns(a, t)'
  /\ \/ \A t \in DOMAIN v3 : v3'[t].requester = v3[t].requester
     \/ \A m \in Mail!Mail : v6[m] # Mail!Resting => m \in v9'

MailInv(m) == Mail!Routed(m) /\ Mail!Known(m) /\ Mail!Counted(m) /\ Mail!Automatic(m)

\* A mail that the step is not about.
LEMMA OtherMail ==
  ASSUME Mail!IInv, Grows, NEW n \in Mail!Mail, v6'[n] = v6[n], v5'[n] = v5[n], Mail!Filed(n)' = Mail!Filed(n)
  PROVE  MailInv(n)'
<1>1. MailInv(n)
  BY DEF Mail!IInv, MailInv
<1>2. v6[n].at # "none" => v6[n] \in Mail!Delivery /\ v6[n] # Mail!Resting
  BY MailShapes
<1>3. Mail!Routed(n)'
  <2>1. SUFFICES ASSUME v6[n].at \in {"sender", "reply"} PROVE Mail!Routed(n)'
    BY DEF Mail!Routed
  <2>2. v5[n].from \in Emails /\ v6[n].ticket \in DOMAIN v3
    BY <1>1, <1>2, <2>1 DEF MailInv, Mail!Known, Mail!Routed
  <2> QED  BY <1>1, <1>2, <2>1, <2>2 DEF MailInv, Grows, Mail!Routed
<1>4. Mail!Known(n)'
  <2>1. v6[n].at = "create" => v5[n].from \in Emails
    BY <1>1, <1>2 DEF MailInv, Mail!Known
  <2> QED  BY <1>1, <2>1 DEF MailInv, Grows, Mail!Known, Mail!NoContact
<1>5. Mail!Counted(n)'
  BY <1>1 DEF MailInv, Grows, Mail!Counted
<1>6. Mail!Automatic(n)'
  BY <1>1 DEF MailInv, Grows, Mail!Automatic
<1> QED  BY <1>3, <1>4, <1>5, <1>6 DEF MailInv

\* Only the delivery of m moves.
LEMMA OneMoves ==
  ASSUME Mail!IInv, NEW m \in Mail!Mail, NEW e \in {Mail!Resting} \cup Mail!Delivery,
         v6' = [v6 EXCEPT ![m] = e], UNCHANGED <<v2, v3, v4, v5, v7>>, v9' \in {v9, v9 \cup {m}},
         MailInv(m)'
  PROVE  Mail!IInv'
<1>1. /\ v6 \in Seq({Mail!Resting} \cup Mail!Delivery) /\ DOMAIN v6 = Mail!Mail /\ Len(v6) = Len(v5)
      /\ DOMAIN v5 = Mail!Mail
  BY MailShapes
<1>2. /\ v6' \in Seq({Mail!Resting} \cup Mail!Delivery) /\ Len(v6') = Len(v6)
      /\ \A n \in Mail!Mail : n # m => v6'[n] = v6[n]
  BY <1>1, SeqReplaced
<1>3. Mail!Shapes'
  BY <1>2 DEF Mail!IInv, Mail!Shapes
<1>4. Grows
  BY DEF Grows, Mail!Owns
<1>5. \A n \in Mail!Mail : Mail!Filed(n)' = Mail!Filed(n)
  BY FiledIs
<1>6. \A n \in Mail!Mail : MailInv(n)'
  BY <1>2, <1>4, <1>5, OtherMail
<1>7. Mail!RepliesAreRequesters' /\ Mail!NoEcho' /\ Mail!AutoStaysOnTicket'
  BY DEF Mail!IInv, Mail!RepliesAreRequesters, Mail!NoEcho, Mail!AutoStaysOnTicket
<1> QED  BY <1>3, <1>6, <1>7 DEF Mail!IInv, MailInv, Mail!Mail

\* Where m is, when its delivery goes on from `at`.
LEMMA DeliveryAt ==
  ASSUME Mail!IInv, NEW m \in Mail!Mail, NEW at, v6[m].at = at, at # "none"
  PROVE  v6[m] \in Mail!Delivery /\ v6[m] # Mail!Resting /\ v5[m] \in Mail!Message /\ MailInv(m)
<1>1. v6[m] \in Mail!Delivery /\ v6[m] # Mail!Resting /\ v5 \in Seq(Mail!Message) /\ DOMAIN v5 = Mail!Mail
  BY MailShapes
<1> QED  BY <1>1 DEF Mail!IInv, MailInv

LEMMA Receive ==
  ASSUME Mail!IInv, NEW m \in Mail!Mail, Mail!receive(m)
  PROVE  Mail!IInv'
<1>1. PICK e : e = [at |-> IF v5[m].from = "" THEN "log" ELSE "resolve", ticket |-> 0, requester |-> 0]
  OBVIOUS
<1>2. e \in Mail!Delivery /\ e # Mail!Resting /\ e.at \in {"log", "resolve"} /\ (e.at = "log" <=> v5[m].from = "")
  BY <1>1 DEF Mail!Delivery, Mail!Resting
<1>3. v6' = [v6 EXCEPT ![m] = e] /\ v6[m] = Mail!Resting /\ v5[m].answered = FALSE
  <2>1. v5[m] \in Mail!Message
    BY MailShapes
  <2>2. v5[m].answered \in BOOLEAN
    BY <2>1 DEF Mail!Message
  <2> QED  BY <1>1, <2>2 DEF Mail!receive, Mail!Received, Mail!NoTicket
<1>4. UNCHANGED <<v2, v3, v4, v5, v7, v9>> /\ v6'[m] = e
  BY <1>3, MailShapes DEF Mail!receive
<1>5. MailInv(m) /\ v5[m] \in Mail!Message /\ Mail!Filed(m)' = Mail!Filed(m)
  BY <1>4, MailShapes, FiledIs DEF Mail!IInv, MailInv
<1>6. Mail!Known(m)' /\ Mail!Routed(m)'
  BY <1>2, <1>4, <1>5 DEF Mail!Known, Mail!Routed, Mail!Message
<1>7. Mail!Counted(m)'
  BY <1>2, <1>3, <1>4, <1>5 DEF MailInv, Mail!Counted
<1>8. Mail!Automatic(m)'
  BY <1>2, <1>4, <1>5 DEF MailInv, Mail!Automatic
<1>9. MailInv(m)'
  BY <1>6, <1>7, <1>8 DEF MailInv
<1> QED  BY <1>2, <1>3, <1>4, <1>9, OneMoves

LEMMA Route ==
  ASSUME Mail!IInv, NEW m \in Mail!Mail, Mail!route(m)
  PROVE  Mail!IInv'
<1>1. PICK t : t = Mail!resolveTicket(m)
  OBVIOUS
<1>2. /\ v6[m] \in Mail!Delivery /\ v6[m] # Mail!Resting /\ v5[m] \in Mail!Message /\ MailInv(m)
      /\ v6[m].at = "resolve"
  BY DeliveryAt DEF Mail!route
<1>3. t \in DOMAIN v3 \/ t = 0
  BY <1>1 DEF Mail!resolveTicket, Mail!NoTicket
<1>4. v3 \in Seq(Mail!Row) /\ UNCHANGED <<v2, v3, v4, v5, v7, v9>> /\ Mail!Filed(m)' = Mail!Filed(m)
  BY MailShapes, FiledIs DEF Mail!route
<1>5. CASE t = 0
  <2>1. PICK e : e = [v6[m] EXCEPT !.at = "contact"]
    OBVIOUS
  <2>2. e \in Mail!Delivery /\ e # Mail!Resting /\ e.at = "contact"
    BY <1>2, <2>1 DEF Mail!Delivery, Mail!Resting
  <2>3. v6' = [v6 EXCEPT ![m] = e] /\ v6'[m] = e
    BY <1>1, <1>5, <2>1, MailShapes DEF Mail!route, Mail!Received, Mail!NoTicket
  <2>4. v5[m].auto = FALSE
    <3>1. SUFFICES ASSUME v5[m].auto = TRUE PROVE FALSE
      BY <1>2 DEF Mail!Message
    <3>2. v5[m].thread \in DOMAIN v3 /\ v5[m].signed = v5[m].thread
      BY <1>2, <3>1 DEF MailInv, Mail!Automatic
    <3>3. 0 \notin DOMAIN v3
      BY <1>4
    <3> QED  BY <1>1, <1>5, <3>2, <3>3 DEF Mail!resolveTicket, Mail!NoTicket
  <2>5. MailInv(m)'
    BY <1>2, <1>4, <2>2, <2>3, <2>4
       DEF MailInv, Mail!Known, Mail!Routed, Mail!Counted, Mail!Automatic
  <2> QED  BY <1>4, <2>2, <2>3, <2>5, OneMoves
<1>6. CASE t # 0
  <2>1. PICK e : e = [v6[m] EXCEPT !.at = "sender", !.ticket = t, !.requester = v3[t].requester]
    OBVIOUS
  <2>2. t \in DOMAIN v3 /\ t \in Nat /\ v3[t].requester \in {0, 7}
    <3>1. t \in DOMAIN v3 /\ t \in Nat /\ v3[t] \in Mail!Row
      BY <1>3, <1>4, <1>6
    <3> QED  BY <3>1 DEF Mail!Row
  <2>3. e \in Mail!Delivery /\ e # Mail!Resting /\ e.at = "sender" /\ e.ticket = t /\ e.requester = v3[t].requester
    BY <1>2, <2>1, <2>2 DEF Mail!Delivery, Mail!Resting
  <2>4. v6' = [v6 EXCEPT ![m] = e] /\ v6'[m] = e
    BY <1>1, <1>6, <2>1, MailShapes DEF Mail!route, Mail!Received, Mail!NoTicket
  <2>5. v5[m].auto = TRUE => t = v5[m].thread
    BY <1>1, <1>2, <1>6 DEF MailInv, Mail!Automatic, Mail!resolveTicket, Mail!NoTicket
  <2>6. v5[m].auto \in BOOLEAN
    BY <1>2 DEF Mail!Message
  <2>7. MailInv(m)'
    BY <1>2, <1>4, <2>2, <2>3, <2>4, <2>5, <2>6
       DEF MailInv, Mail!Known, Mail!Routed, Mail!Counted, Mail!Automatic
  <2> QED  BY <1>4, <2>3, <2>4, <2>7, OneMoves
<1> QED  BY <1>5, <1>6

LEMMA CheckSender ==
  ASSUME Mail!IInv, NEW m \in Mail!Mail, Mail!checkSender(m)
  PROVE  Mail!IInv'
<1>1. PICK t : t = v6[m].ticket
  OBVIOUS
<1>2. /\ v6[m] \in Mail!Delivery /\ v6[m] # Mail!Resting /\ v5[m] \in Mail!Message /\ MailInv(m)
      /\ v6[m].at = "sender"
  BY DeliveryAt DEF Mail!checkSender
<1>3. PICK e : e = [v6[m] EXCEPT !.at = IF Mail!isFromRequester(t, v5[m].from) THEN "reply" ELSE "contact"]
  OBVIOUS
<1>4. /\ e \in Mail!Delivery /\ e # Mail!Resting /\ e.ticket = t /\ e.requester = v6[m].requester
      /\ e.at = IF Mail!isFromRequester(t, v5[m].from) THEN "reply" ELSE "contact"
  BY <1>1, <1>2, <1>3 DEF Mail!Delivery, Mail!Resting
<1>5. v6' = [v6 EXCEPT ![m] = e] /\ v6'[m] = e
  BY <1>1, <1>3, MailShapes DEF Mail!checkSender, Mail!Received
<1>6. UNCHANGED <<v2, v3, v4, v5, v7, v9>> /\ Mail!Filed(m)' = Mail!Filed(m)
  BY FiledIs DEF Mail!checkSender
<1>7. t \in DOMAIN v3 /\ v5[m].from \in Emails /\ v5[m].auto \in BOOLEAN
  BY <1>1, <1>2 DEF MailInv, Mail!Routed, Mail!Known, Mail!Message
<1>8. e.at = "reply" => Mail!Owns(v5[m].from, t)
  BY <1>4 DEF Mail!isFromRequester, Mail!Owns
<1>9. v5[m].auto = TRUE => e.at = "reply" /\ t = v5[m].thread
  <2>1. SUFFICES ASSUME v5[m].auto = TRUE PROVE e.at = "reply" /\ t = v5[m].thread
    OBVIOUS
  <2>2. t = v5[m].thread /\ v3[t].contact = v5[m].from
    BY <1>1, <1>2, <2>1 DEF MailInv, Mail!Routed, Mail!Automatic
  <2>3. v2[v3[t].contact] # Mail!NoContact
    BY <1>7 DEF Mail!IInv, Mail!Shapes
  <2> QED  BY <1>4, <2>2, <2>3 DEF Mail!isFromRequester
<1>10. Mail!Routed(m)'
  BY <1>1, <1>2, <1>4, <1>5, <1>6, <1>7, <1>8, <1>9 DEF MailInv, Mail!Routed, Mail!Owns
<1>11. Mail!Known(m)' /\ Mail!Counted(m)'
  BY <1>2, <1>4, <1>5, <1>6, <1>7 DEF MailInv, Mail!Known, Mail!Counted
<1>12. Mail!Automatic(m)'
  BY <1>2, <1>5, <1>6, <1>7, <1>9 DEF MailInv, Mail!Automatic
<1>13. MailInv(m)'
  BY <1>10, <1>11, <1>12 DEF MailInv
<1> QED  BY <1>4, <1>5, <1>6, <1>13, OneMoves

LEMMA FindContact ==
  ASSUME Mail!IInv, NEW m \in Mail!Mail, Mail!findContact(m)
  PROVE  Mail!IInv'
<1>1. PICK at : at = IF v2[v5[m].from] = Mail!NoContact THEN "insert" ELSE "create"
  OBVIOUS
<1>2. /\ v6[m] \in Mail!Delivery /\ v6[m] # Mail!Resting /\ v5[m] \in Mail!Message /\ MailInv(m)
      /\ v6[m].at = "contact"
  BY DeliveryAt DEF Mail!findContact
<1>3. PICK e : e = [v6[m] EXCEPT !.at = at]
  OBVIOUS
<1>4. e \in Mail!Delivery /\ e # Mail!Resting /\ e.at = at
  BY <1>1, <1>2, <1>3 DEF Mail!Delivery, Mail!Resting
<1>5. v6' = [v6 EXCEPT ![m] = e] /\ v6'[m] = e
  BY <1>1, <1>3, MailShapes DEF Mail!findContact, Mail!Received
<1>6. UNCHANGED <<v2, v3, v4, v5, v7, v9>> /\ Mail!Filed(m)' = Mail!Filed(m)
  BY FiledIs DEF Mail!findContact
<1>7. v5[m].from \in Emails /\ v5[m].auto = FALSE
  BY <1>2 DEF MailInv, Mail!Known, Mail!Automatic, Mail!Message
<1>8. MailInv(m)'
  BY <1>1, <1>2, <1>4, <1>5, <1>6, <1>7 DEF MailInv, Mail!Routed, Mail!Known, Mail!Counted, Mail!Automatic
<1> QED  BY <1>4, <1>5, <1>6, <1>8, OneMoves

\* A mail that met a fault owes nothing but to be where it is.
LEMMA Faulted ==
  ASSUME Mail!IInv, NEW m \in Mail!Mail, v6[m] # Mail!Resting,
         NEW e \in {Mail!Resting} \cup Mail!Delivery, e = Mail!Resting \/ e.at = "log",
         v6' = [v6 EXCEPT ![m] = e], UNCHANGED <<v2, v3, v4, v5, v7>>, v9' = v9 \cup {m}
  PROVE  Mail!IInv'
<1>1. v6'[m] = e /\ e.at \in {"none", "log"}
  BY MailShapes DEF Mail!Resting
<1>2. MailInv(m) /\ v5[m] \in Mail!Message
  BY MailShapes DEF Mail!IInv, MailInv
<1>3. MailInv(m)'
  BY <1>1, <1>2 DEF MailInv, Mail!Routed, Mail!Known, Mail!Counted, Mail!Automatic
<1> QED  BY <1>3, OneMoves

LEMMA FailOrAgain ==
  ASSUME Mail!IInv, NEW m \in Mail!Mail, Mail!WriteFails(m) \/ Mail!Redelivered(m)
  PROVE  Mail!IInv'
<1>1. CASE Mail!WriteFails(m)
  <2>1. v6[m] \in Mail!Delivery /\ v6[m] # Mail!Resting
    BY <1>1, MailShapes DEF Mail!WriteFails
  <2>2. PICK e : e = [v6[m] EXCEPT !.at = "log"]
    OBVIOUS
  <2>3. e \in Mail!Delivery /\ e.at = "log"
    BY <2>1, <2>2 DEF Mail!Delivery
  <2> QED  BY <1>1, <2>1, <2>2, <2>3, Faulted DEF Mail!WriteFails, Mail!Received
<1>2. CASE Mail!Redelivered(m)
  BY <1>2, Faulted DEF Mail!Redelivered, Mail!Received
<1> QED  BY <1>1, <1>2

\* The provider is answered: the mail was filed, or met a fault.
LEMMA Answer ==
  ASSUME Mail!IInv, NEW m \in Mail!Mail, Mail!logAndAnswer(m)
  PROVE  Mail!IInv'
<1>1. v6[m] \in Mail!Delivery /\ v6[m] # Mail!Resting /\ v5[m] \in Mail!Message /\ MailInv(m) /\ v6[m].at = "log"
  BY DeliveryAt DEF Mail!logAndAnswer
<1>2. PICK mail : mail = [v5[m] EXCEPT !.answered = TRUE]
  OBVIOUS
<1>3. /\ mail \in Mail!Message /\ mail.answered = TRUE /\ mail.from = v5[m].from /\ mail.auto = v5[m].auto
      /\ mail.thread = v5[m].thread /\ mail.signed = v5[m].signed
  BY <1>1, <1>2 DEF Mail!Message
<1>4. /\ v5 \in Seq(Mail!Message) /\ DOMAIN v5 = Mail!Mail /\ v6 \in Seq({Mail!Resting} \cup Mail!Delivery)
      /\ DOMAIN v6 = Mail!Mail /\ Len(v6) = Len(v5)
  BY MailShapes
<1>5. v5' = [v5 EXCEPT ![m] = mail] /\ v6' = [v6 EXCEPT ![m] = Mail!Resting] /\ UNCHANGED <<v2, v3, v4, v7, v9>>
  BY <1>1, <1>2, <1>4 DEF Mail!logAndAnswer, Mail!Received, Mail!Message
<1>6. /\ v5' \in Seq(Mail!Message) /\ Len(v5') = Len(v5) /\ DOMAIN v5' = Mail!Mail /\ v5'[m] = mail
      /\ \A n \in Mail!Mail : n # m => v5'[n] = v5[n]
  BY <1>3, <1>4, <1>5, SeqReplaced
<1>7. /\ v6' \in Seq({Mail!Resting} \cup Mail!Delivery) /\ Len(v6') = Len(v6) /\ v6'[m] = Mail!Resting
      /\ \A n \in Mail!Mail : n # m => v6'[n] = v6[n]
  BY <1>4, <1>5, SeqReplaced
<1>8. Mail!Shapes'
  BY <1>4, <1>5, <1>6, <1>7 DEF Mail!IInv, Mail!Shapes
<1>9. Grows
  BY <1>5 DEF Grows, Mail!Owns
<1>10. \A n \in Mail!Mail : Mail!Filed(n)' = Mail!Filed(n)
  BY <1>5, FiledIs
<1>11. ASSUME NEW n \in Mail!Mail PROVE MailInv(n)'
  <2>1. CASE n # m
    BY <1>6, <1>7, <1>9, <1>10, <2>1, OtherMail
  <2>2. CASE n = m
    <3>1. v6'[m].at = "none"
      BY <1>7 DEF Mail!Resting
    <3>2. Mail!Counted(m)'
      BY <1>1, <1>3, <1>5, <1>6, <1>7, <1>10 DEF MailInv, Mail!Counted
    <3>3. Mail!Automatic(m)'
      BY <1>1, <1>3, <1>5, <1>6, <3>1 DEF MailInv, Mail!Automatic
    <3> QED  BY <1>7, <2>2, <3>1, <3>2, <3>3 DEF MailInv, Mail!Routed, Mail!Known
  <2> QED  BY <2>1, <2>2
<1>12. Mail!RepliesAreRequesters' /\ Mail!NoEcho'
  BY <1>5 DEF Mail!IInv, Mail!RepliesAreRequesters, Mail!NoEcho
<1>13. Mail!AutoStaysOnTicket'
  <2>1. \A t \in DOMAIN v3 : v5'[v3[t].of].auto = v5[v3[t].of].auto
    <3>1. \A t \in DOMAIN v3 : v3[t].of \in Mail!Mail
      BY MailShapes DEF Mail!IInv, Mail!Shapes
    <3> QED  BY <1>3, <1>6, <3>1
  <2> QED  BY <1>5, <2>1 DEF Mail!IInv, Mail!AutoStaysOnTicket
<1>14. Mail!Mail' = Mail!Mail
  BY <1>6 DEF Mail!Mail
<1> QED  BY <1>8, <1>11, <1>12, <1>13, <1>14 DEF Mail!IInv, MailInv

\* A mail of ours goes to the contact of a ticket that is there.
LEMMA Sends ==
  ASSUME Mail!IInv, v3' \in Seq(Mail!Row), NEW t \in DOMAIN v3', NEW cause, Mail!Send(t, cause),
         \A any \in DOMAIN v3 : any \in DOMAIN v3' /\ v3'[any].contact = v3[any].contact
  PROVE  /\ \A s \in v7' : s.ticket \in DOMAIN v3' /\ s.to = v3'[s.ticket].contact
         /\ \A s \in v7' : s.cause = cause \/ s \in v7
  BY DEF Mail!Send, Mail!IInv, Mail!Shapes

\* A reply is filed on a ticket, of mail m or (0) an agent's, and mailed as its author's.
LEMMA ReplyFiled ==
  ASSUME Mail!IInv, NEW t \in DOMAIN v3, NEW r \in Mail!Post, v4' = Append(v4, r), v3' = v3,
         r.of \in 0 .. Len(v5), r.rightful = TRUE, UNCHANGED <<v2, v5, v9>>,
         v6' \in Seq({Mail!Resting} \cup Mail!Delivery), Len(v6') = Len(v5),
         NEW author, Mail!onReplyCreated(t, author, v3[t].requester),
         author = 50 \/ v9 # {} \/ author = v3[t].requester
  PROVE  /\ Mail!Shapes' /\ Mail!RepliesAreRequesters' /\ Mail!NoEcho' /\ Mail!AutoStaysOnTicket' /\ Grows
         /\ \A n \in Mail!Mail : Mail!Filed(n)' = IF r.of = n THEN Mail!Filed(n) + 1 ELSE Mail!Filed(n)
<1>1. /\ v4 \in Seq(Mail!Post) /\ v3 \in Seq(Mail!Row) /\ v2 \in [Emails -> {99, 0, 7}]
  BY MailShapes
<1>2. /\ v4' \in Seq(Mail!Post) /\ DOMAIN v4' = DOMAIN v4 \cup {Len(v4) + 1} /\ v4'[Len(v4) + 1] = r
      /\ \A i \in DOMAIN v4 : v4'[i] = v4[i]
  BY <1>1, SeqAppended
<1>3. \A s \in v7' : s.ticket \in DOMAIN v3' /\ s.to = v3'[s.ticket].contact
  BY <1>1, Sends DEF Mail!onReplyCreated, Mail!IInv, Mail!Shapes
<1>4. Mail!Shapes'
  BY <1>2, <1>3 DEF Mail!IInv, Mail!Shapes
<1>5. Mail!RepliesAreRequesters'
  BY <1>2 DEF Mail!IInv, Mail!RepliesAreRequesters
<1>6. Mail!NoEcho'
  <2>1. SUFFICES ASSUME v9 = {}, NEW s \in v7' PROVE s.cause \in {51, 50}
    BY DEF Mail!NoEcho, Mail!Created, Mail!Agent
  <2>2. s \in v7 \/ s.cause = 50
    BY <1>1, <2>1, Sends DEF Mail!onReplyCreated
  <2> QED  BY <2>1, <2>2 DEF Mail!IInv, Mail!NoEcho, Mail!Created, Mail!Agent
<1>7. Mail!AutoStaysOnTicket' /\ Grows
  BY DEF Mail!IInv, Mail!AutoStaysOnTicket, Grows, Mail!Owns
<1>8. ASSUME NEW n \in Mail!Mail PROVE Mail!Filed(n)' = IF r.of = n THEN Mail!Filed(n) + 1 ELSE Mail!Filed(n)
  <2>1. CountOf(v4', n) = IF r.of = n THEN CountOf(v4, n) + 1 ELSE CountOf(v4, n)
    BY <1>1, CountAppended
  <2>2. CountOf(v4, n) \in Nat /\ CountOf(v3, n) \in Nat
    BY <1>1, CountIsNat
  <2> QED  BY <2>1, <2>2, FiledIs
<1> QED  BY <1>4, <1>5, <1>6, <1>7, <1>8

\* A mail under way that was not filed is, and is logged next.
LEMMA FiledNow ==
  ASSUME NEW m, v5[m] \in Mail!Message, Mail!Counted(m), v6[m] # Mail!Resting, v6[m].at # "log", v5'[m] = v5[m],
         v6'[m] # Mail!Resting, v6'[m].at = "log", v9' = v9, Mail!Filed(m)' = Mail!Filed(m) + 1
  PROVE  Mail!Counted(m)'
<1>1. SUFFICES ASSUME m \notin v9, v5[m].from # "" PROVE v5[m].answered = FALSE /\ Mail!Filed(m)' = 1
  BY DEF Mail!Counted
<1>2. v5[m].answered = FALSE /\ Mail!Filed(m) = 0
  BY <1>1 DEF Mail!Counted, Mail!Message
<1> QED  BY <1>2

LEMMA AddReply ==
  ASSUME Mail!IInv, NEW m \in Mail!Mail, Mail!addReply(m)
  PROVE  Mail!IInv'
<1>1. PICK t : t = v6[m].ticket
  OBVIOUS
<1>2. v6[m] \in Mail!Delivery /\ v6[m] # Mail!Resting /\ v5[m] \in Mail!Message /\ MailInv(m) /\ v6[m].at = "reply"
  BY DeliveryAt DEF Mail!addReply
<1>3. /\ t \in DOMAIN v3 /\ Mail!Owns(v5[m].from, t)
      /\ m \notin v9 => v6[m].requester = v3[t].requester
  BY <1>1, <1>2 DEF MailInv, Mail!Routed
<1>4. /\ v4 \in Seq(Mail!Post) /\ v3 \in Seq(Mail!Row) /\ v5 \in Seq(Mail!Message) /\ DOMAIN v5 = Mail!Mail
      /\ v6 \in Seq({Mail!Resting} \cup Mail!Delivery) /\ DOMAIN v6 = Mail!Mail /\ Len(v6) = Len(v5)
      /\ Mail!Mail = 1 .. Len(v5)
  BY MailShapes
<1>5. PICK r : r = [ticket |-> t, by |-> "mail", of |-> m, rightful |-> TRUE]
  OBVIOUS
<1>6. r \in Mail!Post /\ r.of = m /\ r.rightful = TRUE /\ m \in 0 .. Len(v5)
  BY <1>3, <1>4, <1>5 DEF Mail!Post
<1>7. v4' = Append(v4, r)
  <2>1. Mail!Owns(v5[m].from, t) = TRUE
    BY <1>3 DEF Mail!Owns
  <2> QED  BY <1>1, <1>5, <2>1 DEF Mail!addReply
<1>8. PICK e : e = [v6[m] EXCEPT !.at = "log"]
  OBVIOUS
<1>9. e \in Mail!Delivery /\ e.at = "log" /\ e # Mail!Resting
  BY <1>2, <1>8 DEF Mail!Delivery, Mail!Resting
<1>10. v6' = [v6 EXCEPT ![m] = e]
  BY <1>8 DEF Mail!addReply, Mail!Received
<1>11. /\ v6' \in Seq({Mail!Resting} \cup Mail!Delivery) /\ Len(v6') = Len(v6) /\ v6'[m] = e
       /\ \A n \in Mail!Mail : n # m => v6'[n] = v6[n]
  BY <1>4, <1>9, <1>10, SeqReplaced
<1>12. v3' = v3 /\ UNCHANGED <<v2, v5, v9>> /\ Mail!onReplyCreated(t, v6[m].requester, v3[t].requester)
  BY <1>1 DEF Mail!addReply
<1>13. v9 # {} \/ v6[m].requester = v3[t].requester
  BY <1>3
<1>14. /\ Mail!Shapes' /\ Mail!RepliesAreRequesters' /\ Mail!NoEcho' /\ Mail!AutoStaysOnTicket' /\ Grows
       /\ \A n \in Mail!Mail : Mail!Filed(n)' = IF m = n THEN Mail!Filed(n) + 1 ELSE Mail!Filed(n)
  BY <1>3, <1>4, <1>6, <1>7, <1>11, <1>12, <1>13, ReplyFiled
<1>15. ASSUME NEW n \in Mail!Mail PROVE MailInv(n)'
  <2>1. CASE n # m
    BY <1>11, <1>12, <1>14, <2>1, OtherMail
  <2>2. CASE n = m
    <3>1. Mail!Counted(m)'
      BY <1>2, <1>9, <1>11, <1>12, <1>14, FiledNow DEF MailInv
    <3>2. Mail!Automatic(m)'
      BY <1>2, <1>9, <1>11, <1>12 DEF MailInv, Mail!Automatic
    <3>3. Mail!Routed(m)' /\ Mail!Known(m)'
      BY <1>9, <1>11 DEF Mail!Routed, Mail!Known
    <3> QED  BY <2>2, <3>1, <3>2, <3>3 DEF MailInv
  <2> QED  BY <2>1, <2>2
<1> QED  BY <1>12, <1>14, <1>15 DEF Mail!IInv, MailInv, Mail!Mail

LEMMA AgentReplies ==
  ASSUME Mail!IInv, NEW t \in DOMAIN v3, Mail!AgentReplies(t)
  PROVE  Mail!IInv'
<1>1. PICK r : r = [ticket |-> t, by |-> "agent", of |-> 0, rightful |-> TRUE]
  OBVIOUS
<1>2. /\ v3 \in Seq(Mail!Row) /\ v5 \in Seq(Mail!Message) /\ Mail!Mail = 1 .. Len(v5)
      /\ v6 \in Seq({Mail!Resting} \cup Mail!Delivery) /\ Len(v6) = Len(v5)
  BY MailShapes
<1>3. r \in Mail!Post /\ r.of = 0 /\ r.rightful = TRUE /\ 0 \in 0 .. Len(v5)
  BY <1>1, <1>2 DEF Mail!Post
<1>4. /\ v4' = Append(v4, r) /\ v3' = v3 /\ UNCHANGED <<v2, v5, v6, v9>>
      /\ Mail!onReplyCreated(t, 50, v3[t].requester)
  BY <1>1 DEF Mail!AgentReplies, Mail!Agent
<1>5. /\ Mail!Shapes' /\ Mail!RepliesAreRequesters' /\ Mail!NoEcho' /\ Mail!AutoStaysOnTicket' /\ Grows
      /\ \A n \in Mail!Mail : Mail!Filed(n)' = IF 0 = n THEN Mail!Filed(n) + 1 ELSE Mail!Filed(n)
  BY <1>2, <1>3, <1>4, ReplyFiled
<1>6. \A n \in Mail!Mail : MailInv(n)'
  BY <1>2, <1>4, <1>5, OtherMail
<1> QED  BY <1>4, <1>5, <1>6 DEF Mail!IInv, MailInv, Mail!Mail

LEMMA InsertContact ==
  ASSUME Mail!IInv, NEW m \in Mail!Mail, Mail!insertContact(m)
  PROVE  Mail!IInv'
<1>1. /\ v6[m] \in Mail!Delivery /\ v6[m] # Mail!Resting /\ v5[m] \in Mail!Message /\ MailInv(m)
      /\ v6[m].at = "insert"
  BY DeliveryAt DEF Mail!insertContact
<1>2. /\ v2 \in [Emails -> {99, 0, 7}] /\ v5 \in Seq(Mail!Message) /\ DOMAIN v5 = Mail!Mail
      /\ v6 \in Seq({Mail!Resting} \cup Mail!Delivery) /\ DOMAIN v6 = Mail!Mail /\ Len(v6) = Len(v5)
      /\ v3 \in Seq(Mail!Row)
  BY MailShapes
<1>3. UNCHANGED <<v3, v4, v5, v7>>
  BY DEF Mail!insertContact
<1>4. CASE v2[v5[m].from] = 99
  <2>1. PICK e : e = [v6[m] EXCEPT !.at = "create"]
    OBVIOUS
  <2>2. e \in Mail!Delivery /\ e.at = "create" /\ e # Mail!Resting
    BY <1>1, <2>1 DEF Mail!Delivery, Mail!Resting
  <2>3. v6' = [v6 EXCEPT ![m] = e] /\ v2' = [v2 EXCEPT ![v5[m].from] = 0] /\ v9' = v9
    BY <1>4, <2>1 DEF Mail!insertContact, Mail!Received, Mail!NoContact
  <2>4. /\ v6' \in Seq({Mail!Resting} \cup Mail!Delivery) /\ Len(v6') = Len(v6) /\ v6'[m] = e
        /\ \A n \in Mail!Mail : n # m => v6'[n] = v6[n]
    BY <1>2, <2>2, <2>3, SeqReplaced
  <2>5. v5[m].from \in Emails /\ v5[m].auto = FALSE
    BY <1>1 DEF MailInv, Mail!Known, Mail!Automatic, Mail!Message
  <2>6. /\ v2' \in [Emails -> {99, 0, 7}] /\ v2'[v5[m].from] = 0
        /\ \A a \in Emails : a # v5[m].from => v2'[a] = v2[a]
    BY <1>2, <2>3, <2>5
  <2>7. Mail!Shapes'
    <3>1. ASSUME NEW t \in DOMAIN v3 PROVE v3[t].contact \in Emails
      <4>1. v3[t] \in Mail!Row
        BY <1>2
      <4> QED  BY <4>1 DEF Mail!Row
    <3> QED  BY <1>3, <1>4, <2>4, <2>6, <3>1 DEF Mail!IInv, Mail!Shapes, Mail!NoContact
  <2>8. Grows
    <3>1. ASSUME NEW t \in DOMAIN v3, NEW a \in Emails, Mail!Owns(a, t) PROVE Mail!Owns(a, t)'
      <4>1. v3[t].contact = a \/ (v3[t].requester = v2[a] /\ v2[a] # 0)
        BY <3>1 DEF Mail!Owns
      <4>2. v3[t].requester \in {0, 7}
        <5>1. v3[t] \in Mail!Row
          BY <1>2
        <5> QED  BY <5>1 DEF Mail!Row
      <4> QED  BY <1>3, <1>4, <2>6, <4>1, <4>2 DEF Mail!Owns
    <3> QED  BY <1>3, <1>4, <2>3, <2>6, <3>1 DEF Grows
  <2>9. \A n \in Mail!Mail : Mail!Filed(n)' = Mail!Filed(n)
    BY <1>3, FiledIs
  <2>10. ASSUME NEW n \in Mail!Mail PROVE MailInv(n)'
    <3>1. CASE n # m
      BY <1>3, <2>4, <2>8, <2>9, <3>1, OtherMail
    <3>2. CASE n = m
      <4>1. Mail!Counted(m)'
        BY <1>1, <1>3, <2>2, <2>3, <2>4, <2>9 DEF MailInv, Mail!Counted
      <4>2. Mail!Known(m)' /\ Mail!Routed(m)' /\ Mail!Automatic(m)'
        BY <1>3, <2>2, <2>4, <2>5, <2>6 DEF Mail!Known, Mail!Routed, Mail!Automatic, Mail!NoContact
      <4> QED  BY <3>2, <4>1, <4>2 DEF MailInv
    <3> QED  BY <3>1, <3>2
  <2>11. Mail!RepliesAreRequesters' /\ Mail!NoEcho' /\ Mail!AutoStaysOnTicket'
    BY <1>3, <2>3 DEF Mail!IInv, Mail!RepliesAreRequesters, Mail!NoEcho, Mail!AutoStaysOnTicket
  <2> QED  BY <1>3, <2>7, <2>10, <2>11 DEF Mail!IInv, MailInv, Mail!Mail
<1>5. CASE v2[v5[m].from] # 99
  <2>1. PICK e : e = [v6[m] EXCEPT !.at = "log"]
    OBVIOUS
  <2>2. e \in Mail!Delivery /\ e.at = "log"
    BY <1>1, <2>1 DEF Mail!Delivery
  <2>3. v6' = [v6 EXCEPT ![m] = e] /\ v2' = v2 /\ v9' = v9 \cup {m}
    BY <1>5, <2>1 DEF Mail!insertContact, Mail!Received, Mail!NoContact
  <2> QED  BY <1>1, <1>3, <2>2, <2>3, Faulted
<1> QED  BY <1>4, <1>5

LEMMA CreateTicket ==
  ASSUME Mail!IInv, NEW m \in Mail!Mail, Mail!createTicket(m)
  PROVE  Mail!IInv'
<1>1. /\ v6[m] \in Mail!Delivery /\ v6[m] # Mail!Resting /\ v5[m] \in Mail!Message /\ MailInv(m)
      /\ v6[m].at = "create"
  BY DeliveryAt DEF Mail!createTicket
<1>2. /\ v2 \in [Emails -> {99, 0, 7}] /\ v3 \in Seq(Mail!Row) /\ v4 \in Seq(Mail!Post)
      /\ v5 \in Seq(Mail!Message) /\ DOMAIN v5 = Mail!Mail
      /\ v6 \in Seq({Mail!Resting} \cup Mail!Delivery) /\ DOMAIN v6 = Mail!Mail /\ Len(v6) = Len(v5)
      /\ Mail!Mail = 1 .. Len(v5)
  BY MailShapes
<1>3. v5[m].from \in Emails /\ v5[m].auto = FALSE /\ v2[v5[m].from] # 99
  BY <1>1 DEF MailInv, Mail!Known, Mail!Automatic, Mail!Message, Mail!NoContact
<1>4. PICK row : row = [contact |-> v5[m].from, requester |-> 0, of |-> m]
  OBVIOUS
<1>5. row \in Mail!Row /\ row.of = m /\ row.contact = v5[m].from
  BY <1>2, <1>3, <1>4 DEF Mail!Row
<1>6. PICK e : e = [v6[m] EXCEPT !.at = "log"]
  OBVIOUS
<1>7. e \in Mail!Delivery /\ e.at = "log" /\ e # Mail!Resting
  BY <1>1, <1>6 DEF Mail!Delivery, Mail!Resting
<1>8. /\ v3' = Append(v3, row) /\ v6' = [v6 EXCEPT ![m] = e] /\ UNCHANGED <<v2, v4, v5, v9>>
      /\ Mail!Send(Len(v3'), 51)
  BY <1>4, <1>6 DEF Mail!createTicket, Mail!Received, Mail!Created
<1>9. PICK new : new = Len(v3) + 1
  OBVIOUS
<1>10. /\ v3' \in Seq(Mail!Row) /\ Len(v3') = new /\ DOMAIN v3' = DOMAIN v3 \cup {new} /\ v3'[new] = row
       /\ \A t \in DOMAIN v3 : t # new /\ v3'[t] = v3[t]
  BY <1>2, <1>5, <1>8, <1>9, SeqAppended
<1>11. /\ v6' \in Seq({Mail!Resting} \cup Mail!Delivery) /\ Len(v6') = Len(v6) /\ v6'[m] = e
       /\ \A n \in Mail!Mail : n # m => v6'[n] = v6[n]
  BY <1>2, <1>7, <1>8, SeqReplaced
<1>12. /\ \A s \in v7' : s.ticket \in DOMAIN v3' /\ s.to = v3'[s.ticket].contact
       /\ \A s \in v7' : s.cause = 51 \/ s \in v7
  BY <1>8, <1>10, Sends
<1>13. Mail!Shapes'
  <2>1. \A t \in DOMAIN v3' : v3'[t].of \in 1 .. Len(v5) /\ v2[v3'[t].contact] # 99
    BY <1>2, <1>3, <1>5, <1>10 DEF Mail!IInv, Mail!Shapes, Mail!NoContact
  <2> QED  BY <1>8, <1>10, <1>11, <1>12, <2>1 DEF Mail!IInv, Mail!Shapes, Mail!NoContact
<1>14. Grows
  BY <1>8, <1>10 DEF Grows, Mail!Owns
<1>15. ASSUME NEW n \in Mail!Mail PROVE Mail!Filed(n)' = IF n = m THEN Mail!Filed(n) + 1 ELSE Mail!Filed(n)
  <2>1. CountOf(v3', n) = IF n = m THEN CountOf(v3, n) + 1 ELSE CountOf(v3, n)
    BY <1>2, <1>5, <1>8, CountAppended
  <2>2. CountOf(v4, n) \in Nat /\ CountOf(v3, n) \in Nat
    BY <1>2, CountIsNat
  <2>3. CountOf(v4', n) = CountOf(v4, n)
    BY <1>8
  <2> QED  BY <2>1, <2>2, <2>3, FiledIs
<1>16. ASSUME NEW n \in Mail!Mail PROVE MailInv(n)'
  <2>1. CASE n # m
    BY <1>8, <1>11, <1>14, <1>15, <2>1, OtherMail
  <2>2. CASE n = m
    <3>1. Mail!Counted(m)'
      BY <1>1, <1>7, <1>8, <1>11, <1>15, FiledNow DEF MailInv
    <3>2. Mail!Automatic(m)' /\ Mail!Routed(m)' /\ Mail!Known(m)'
      BY <1>3, <1>7, <1>8, <1>11 DEF Mail!Automatic, Mail!Routed, Mail!Known
    <3> QED  BY <2>2, <3>1, <3>2 DEF MailInv
  <2> QED  BY <2>1, <2>2
<1>17. Mail!RepliesAreRequesters'
  BY <1>8 DEF Mail!IInv, Mail!RepliesAreRequesters
<1>18. Mail!NoEcho'
  BY <1>8, <1>12 DEF Mail!IInv, Mail!NoEcho, Mail!Created
<1>19. Mail!AutoStaysOnTicket'
  BY <1>3, <1>5, <1>8, <1>10 DEF Mail!IInv, Mail!AutoStaysOnTicket
<1> QED  BY <1>8, <1>13, <1>16, <1>17, <1>18, <1>19 DEF Mail!IInv, MailInv, Mail!Mail

\* A customer writes: the mail is the last, and waits.
LEMMA Written ==
  ASSUME Mail!IInv, NEW mail \in Mail!Message, mail.answered = FALSE,
         mail.auto => /\ mail.from \in Emails /\ mail.signed = mail.thread
                      /\ mail.thread \in DOMAIN v3 /\ v3[mail.thread].contact = mail.from,
         v5' = Append(v5, mail), v6' = Append(v6, Mail!Resting), UNCHANGED <<v2, v3, v4, v7, v9>>
  PROVE  Mail!IInv'
<1>1. /\ v2 \in [Emails -> {99, 0, 7}] /\ v3 \in Seq(Mail!Row) /\ v4 \in Seq(Mail!Post)
      /\ v5 \in Seq(Mail!Message) /\ DOMAIN v5 = Mail!Mail
      /\ v6 \in Seq({Mail!Resting} \cup Mail!Delivery) /\ DOMAIN v6 = Mail!Mail /\ Len(v6) = Len(v5)
      /\ Mail!Mail = 1 .. Len(v5)
  BY MailShapes
<1>3. PICK new : new = Len(v5) + 1
  OBVIOUS
<1>4. /\ v5' \in Seq(Mail!Message) /\ Len(v5') = new /\ DOMAIN v5' = DOMAIN v5 \cup {new} /\ v5'[new] = mail
      /\ \A n \in DOMAIN v5 : n # new /\ v5'[n] = v5[n]
  BY <1>1, <1>3, SeqAppended
<1>5. /\ v6' \in Seq({Mail!Resting} \cup Mail!Delivery) /\ Len(v6') = new /\ v6'[new] = Mail!Resting
      /\ \A n \in Mail!Mail : v6'[n] = v6[n]
  BY <1>1, <1>3, SeqAppended
<1>6. Mail!Mail' = Mail!Mail \cup {new}
  BY <1>1, <1>4 DEF Mail!Mail
<1>7. Mail!Shapes'
  <2>1. \A k \in DOMAIN v3 : v3[k].of \in 1 .. new
    BY <1>1, <1>3 DEF Mail!IInv, Mail!Shapes
  <2>2. \A i \in DOMAIN v4 : v4[i].of \in 0 .. new
    BY <1>1, <1>3 DEF Mail!IInv, Mail!Shapes
  <2> QED  BY <1>4, <1>5, <2>1, <2>2 DEF Mail!IInv, Mail!Shapes
<1>8. Grows
  BY DEF Grows, Mail!Owns
<1>9. \A n : Mail!Filed(n)' = Mail!Filed(n)
  BY FiledIs
<1>10. \A n \in Mail!Mail : MailInv(n)'
  BY <1>1, <1>4, <1>5, <1>8, <1>9, OtherMail
<1>11. MailInv(new)'
  <2>1. Mail!Filed(new) = 0
    <3>1. \A k \in DOMAIN v3 : v3[k].of # new
      BY <1>1, <1>3 DEF Mail!IInv, Mail!Shapes
    <3>2. \A i \in DOMAIN v4 : v4[i].of # new
      BY <1>1, <1>3 DEF Mail!IInv, Mail!Shapes
    <3> QED  BY <3>1, <3>2, NoneCounted, FiledIs
  <2>2. v6'[new].at = "none"
    BY <1>5 DEF Mail!Resting
  <2>3. Mail!Counted(new)'
    BY <1>4, <1>5, <1>9, <2>1 DEF Mail!Counted
  <2>4. Mail!Routed(new)' /\ Mail!Known(new)'
    BY <1>5, <2>2 DEF Mail!Routed, Mail!Known
  <2>5. Mail!Automatic(new)'
    BY <1>4, <2>2 DEF Mail!Automatic
  <2> QED  BY <2>3, <2>4, <2>5 DEF MailInv
<1>12. Mail!RepliesAreRequesters' /\ Mail!NoEcho'
  BY DEF Mail!IInv, Mail!RepliesAreRequesters, Mail!NoEcho
<1>13. Mail!AutoStaysOnTicket'
  <2>1. \A k \in DOMAIN v3 : v3[k].of \in DOMAIN v5
    BY <1>1 DEF Mail!IInv, Mail!Shapes
  <2> QED  BY <1>4, <2>1 DEF Mail!IInv, Mail!AutoStaysOnTicket
<1> QED  BY <1>6, <1>7, <1>10, <1>11, <1>12, <1>13 DEF Mail!IInv, MailInv

LEMMA NumberOf == ASSUME NEW S, NEW s \in Seq(S), NEW i \in {0} \cup DOMAIN s PROVE i \in Nat
  OBVIOUS

LEMMA CustomerWrites ==
  ASSUME Mail!IInv, NEW from \in Emails \cup {""}, NEW answering \in {0} \cup DOMAIN v3, NEW auto \in BOOLEAN,
         auto = TRUE => from \in Emails /\ answering \in DOMAIN v3 /\ v3[answering].contact = from,
         Mail!CustomerWrites(from, answering, auto)
  PROVE  Mail!IInv'
<1>1. PICK kept \in BOOLEAN :
        /\ auto => kept
        /\ LET t == IF answering = Mail!NoTicket \/ ~kept THEN Mail!NoTicket ELSE answering
           IN v5' = Append(v5, [from |-> from, thread |-> t, signed |-> t, auto |-> auto, answered |-> FALSE])
  BY DEF Mail!CustomerWrites
<1>2. PICK t : t = IF answering = Mail!NoTicket \/ ~kept THEN Mail!NoTicket ELSE answering
  OBVIOUS
<1>3. answering \in Nat
  BY MailShapes, NumberOf
<1>4. t \in {0, answering} /\ t \in Nat
  BY <1>2, <1>3 DEF Mail!NoTicket
<1>5. auto = TRUE => t = answering
  BY <1>1, <1>2, Zenon DEF Mail!NoTicket
<1>6. PICK mail : mail = [from |-> from, thread |-> t, signed |-> t, auto |-> auto, answered |-> FALSE]
  OBVIOUS
<1>7. /\ mail \in Mail!Message /\ mail.from = from /\ mail.thread = t /\ mail.signed = t /\ mail.auto = auto
      /\ mail.answered = FALSE
  BY <1>4, <1>6 DEF Mail!Message
<1>8. v5' = Append(v5, mail) /\ v6' = Append(v6, Mail!Resting) /\ UNCHANGED <<v2, v3, v4, v7, v9>>
  BY <1>1, <1>2, <1>6 DEF Mail!CustomerWrites
<1> QED  BY <1>5, <1>7, <1>8, Written

LEMMA AutoAnswers ==
  ASSUME Mail!IInv, NEW s \in v7, Mail!AutoAnswers(s)
  PROVE  Mail!IInv'
<1>1. s.ticket \in DOMAIN v3 /\ s.to = v3[s.ticket].contact
  BY DEF Mail!IInv, Mail!Shapes
<1>2. v3[s.ticket] \in Mail!Row
  BY <1>1, MailShapes
<1>3. s.to \in Emails
  BY <1>1, <1>2 DEF Mail!Row
<1> QED  BY <1>1, <1>3, CustomerWrites DEF Mail!AutoAnswers

\* A guest gets an account: the deliveries under way are noted.
LEMMA PromoteToUser ==
  ASSUME Mail!IInv, NEW a \in Emails, Mail!promoteToUser(a)
  PROVE  Mail!IInv'
<1>1. /\ v2 \in [Emails -> {99, 0, 7}] /\ v3 \in Seq(Mail!Row) /\ v4 \in Seq(Mail!Post)
      /\ v5 \in Seq(Mail!Message) /\ v6 \in Seq({Mail!Resting} \cup Mail!Delivery)
  BY MailShapes
<1>2. UNCHANGED <<v4, v5, v6, v7>> /\ v2' = [v2 EXCEPT ![a] = 7] /\ v2[a] = 0
  BY DEF Mail!promoteToUser
<1>3. v9' = v9 \cup {m \in Mail!Mail : v6[m] # Mail!Resting}
  BY DEF Mail!promoteToUser
<1>4. v2' \in [Emails -> {99, 0, 7}] /\ v2'[a] = 7 /\ \A b \in Emails : b # a => v2'[b] = v2[b]
  BY <1>1, <1>2
<1>5. DOMAIN v3' = DOMAIN v3 /\ DOMAIN v3 = 1 .. Len(v3) /\ Len(v3) \in Nat
  BY <1>1 DEF Mail!promoteToUser
<1>6. ASSUME NEW t \in DOMAIN v3
      PROVE  /\ v3'[t] \in Mail!Row /\ v3'[t].contact = v3[t].contact /\ v3'[t].of = v3[t].of
             /\ v3'[t].requester = IF v3[t].contact = a THEN 7 ELSE v3[t].requester
             /\ v3[t] \in Mail!Row
  <2>1. v3[t] \in Mail!Row
    BY <1>1
  <2>2. PICK row : row = v3[t]
    OBVIOUS
  <2>3. v3'[t] = IF row.contact = a THEN [row EXCEPT !.requester = 7] ELSE row
    BY <2>2 DEF Mail!promoteToUser
  <2>4. CASE row.contact = a
    <3>1. [row EXCEPT !.requester = 7] \in Mail!Row
      BY <2>1, <2>2 DEF Mail!Row
    <3>2. /\ [row EXCEPT !.requester = 7].contact = row.contact /\ [row EXCEPT !.requester = 7].of = row.of
          /\ [row EXCEPT !.requester = 7].requester = 7
      BY <2>1, <2>2 DEF Mail!Row
    <3> QED  BY <2>1, <2>2, <2>3, <2>4, <3>1, <3>2
  <2>5. CASE row.contact # a
    BY <2>1, <2>2, <2>3, <2>5
  <2> QED  BY <2>4, <2>5
<1>7. v3' \in Seq(Mail!Row)
  <2>1. v3' \in [1 .. Len(v3) -> Mail!Row]
    <3>1. v3' = [t \in DOMAIN v3 |-> v3'[t]]
      BY DEF Mail!promoteToUser
    <3> QED  BY <1>5, <1>6, <3>1
  <2> QED  BY <1>5, <2>1
<1>8. Mail!Shapes'
  <2>1. \A t \in DOMAIN v3' : v3'[t].of \in 1 .. Len(v5) /\ v2'[v3'[t].contact] # 99
    <3>1. ASSUME NEW t \in DOMAIN v3 PROVE v3'[t].of \in 1 .. Len(v5) /\ v2'[v3'[t].contact] # 99
      <4>1. v3[t].contact \in Emails
        BY <1>6 DEF Mail!Row
      <4>2. v3[t].of \in 1 .. Len(v5) /\ v2[v3[t].contact] # 99
        BY DEF Mail!IInv, Mail!Shapes, Mail!NoContact
      <4> QED  BY <1>4, <1>6, <4>1, <4>2
    <3> QED  BY <1>5, <3>1
  <2>2. \A s \in v7 : s.ticket \in DOMAIN v3' /\ s.to = v3'[s.ticket].contact
    BY <1>5, <1>6 DEF Mail!IInv, Mail!Shapes
  <2> QED  BY <1>2, <1>4, <1>7, <2>1, <2>2 DEF Mail!IInv, Mail!Shapes, Mail!NoContact
<1>9. Grows
  <2>1. ASSUME NEW t \in DOMAIN v3, NEW b \in Emails, Mail!Owns(b, t) PROVE Mail!Owns(b, t)'
    <3>1. v3[t].contact = b \/ (v3[t].requester = v2[b] /\ v2[b] # 0)
      BY <2>1 DEF Mail!Owns
    <3>2. v3'[t].contact = b \/ (v3'[t].requester = v2'[b] /\ v2'[b] # 0)
      <4>1. CASE v3[t].contact = b
        BY <1>6, <4>1
      <4>2. CASE v3[t].requester = v2[b] /\ v2[b] # 0
        <5>1. b # a /\ v2'[b] = v2[b]
          BY <1>2, <1>4, <4>2
        <5>2. v3[t].requester = 7
          BY <1>6, <4>2 DEF Mail!Row
        <5> QED  BY <1>6, <4>2, <5>1, <5>2
      <4> QED  BY <3>1, <4>1, <4>2
    <3> QED  BY <3>2 DEF Mail!Owns
  <2>2. \A b \in Emails : v2[b] # 99 => v2'[b] # 99
    BY <1>1, <1>4
  <2>3. \A t \in DOMAIN v3 : t \in DOMAIN v3' /\ v3'[t].contact = v3[t].contact
    BY <1>5, <1>6
  <2> QED  BY <1>3, <2>1, <2>2, <2>3 DEF Grows
<1>10. ASSUME NEW n \in Mail!Mail PROVE Mail!Filed(n)' = Mail!Filed(n)
  <2>1. CountOf(v3', n) = CountOf(v3, n)
    <3>1. {t \in DOMAIN v3' : v3'[t].of = n} = {t \in DOMAIN v3 : v3[t].of = n}
      BY <1>5, <1>6
    <3> QED  BY <3>1 DEF CountOf
  <2> QED  BY <1>2, <2>1, FiledIs
<1>11. \A n \in Mail!Mail : MailInv(n)'
  BY <1>2, <1>9, <1>10, OtherMail
<1>12. Mail!RepliesAreRequesters' /\ Mail!NoEcho'
  <2>1. v9' = {} => v9 = {}
    BY <1>3
  <2> QED  BY <1>2, <2>1 DEF Mail!IInv, Mail!RepliesAreRequesters, Mail!NoEcho
<1>13. Mail!AutoStaysOnTicket'
  BY <1>2, <1>3, <1>5, <1>6 DEF Mail!IInv, Mail!AutoStaysOnTicket
<1> QED  BY <1>2, <1>8, <1>11, <1>12, <1>13 DEF Mail!IInv, MailInv, Mail!Mail

LEMMA MailNext == Mail!IInv /\ Mail!Next => Mail!IInv'
<1> SUFFICES ASSUME Mail!IInv, Mail!Next PROVE Mail!IInv'
  OBVIOUS
<1>1. CASE \E m \in Mail!Mail : Mail!Deliver(m) \/ Mail!WriteFails(m) \/ Mail!Redelivered(m)
  <2>1. PICK m \in Mail!Mail : Mail!Deliver(m) \/ Mail!WriteFails(m) \/ Mail!Redelivered(m)
    BY <1>1
  <2>2. CASE Mail!Deliver(m)
    BY <2>2, Receive, Route, CheckSender, AddReply, FindContact, InsertContact, CreateTicket, Answer
       DEF Mail!Deliver
  <2>3. CASE Mail!WriteFails(m) \/ Mail!Redelivered(m)
    BY <2>3, FailOrAgain
  <2> QED  BY <2>1, <2>2, <2>3
<1>2. CASE \E a \in Emails, t \in {Mail!NoTicket} \cup DOMAIN v3 : Mail!CustomerWrites(a, t, FALSE)
  <2>1. PICK a \in Emails, t \in {0} \cup DOMAIN v3 : Mail!CustomerWrites(a, t, FALSE)
    BY <1>2 DEF Mail!NoTicket
  <2>2. a \in Emails \cup {""}
    OBVIOUS
  <2> QED  BY <2>1, <2>2, CustomerWrites
<1>3. CASE Mail!CustomerWrites("", Mail!NoTicket, FALSE)
  <2>1. Mail!CustomerWrites("", 0, FALSE)
    BY <1>3 DEF Mail!NoTicket
  <2>2. "" \in Emails \cup {""} /\ 0 \in {0} \cup DOMAIN v3
    OBVIOUS
  <2> QED  BY <2>1, <2>2, CustomerWrites
<1>4. CASE \E s \in v7 : Mail!AutoAnswers(s)
  BY <1>4, AutoAnswers
<1>5. CASE \E t \in DOMAIN v3 : Mail!AgentReplies(t)
  BY <1>5, AgentReplies
<1>6. CASE \E a \in Emails : Mail!promoteToUser(a)
  BY <1>6, PromoteToUser
<1> QED  BY <1>1, <1>2, <1>3, <1>4, <1>5, <1>6 DEF Mail!Next

LEMMA MailStutter == Mail!IInv /\ UNCHANGED Mail!vars => Mail!IInv'
<1> SUFFICES ASSUME Mail!IInv, UNCHANGED Mail!vars PROVE Mail!IInv'
  OBVIOUS
<1>1. UNCHANGED <<v2, v3, v4, v5, v6, v7, v9>>
  BY DEF Mail!vars
<1>2. \A n \in Mail!Mail : MailInv(n)'
  <2>1. Grows
    BY <1>1 DEF Grows, Mail!Owns
  <2>2. \A n \in Mail!Mail : Mail!Filed(n)' = Mail!Filed(n)
    BY <1>1, FiledIs
  <2> QED  BY <1>1, <2>1, <2>2, OtherMail
<1>3. Mail!Shapes' /\ Mail!RepliesAreRequesters' /\ Mail!NoEcho' /\ Mail!AutoStaysOnTicket'
  BY <1>1 DEF Mail!IInv, Mail!Shapes, Mail!RepliesAreRequesters, Mail!NoEcho, Mail!AutoStaysOnTicket
<1> QED  BY <1>1, <1>2, <1>3 DEF Mail!IInv, MailInv, Mail!Mail

LEMMA AtMostOne == \A n \in {0, 1} : n <= 1
  OBVIOUS

\* What the invariant says of a mail the provider was answered for.
LEMMA FiledByThen ==
  ASSUME Mail!IInv, NEW m \in Mail!Mail, m \notin v9, v5[m].from # ""
  PROVE  Mail!Filed(m) <= 1 /\ (v5[m].answered => Mail!Filed(m) = 1)
<1>1. Mail!Counted(m)
  BY DEF Mail!IInv
<1>2. PICK done : done = v5[m].answered
  OBVIOUS
<1>3. CASE v6[m] = Mail!Resting
  <2>1. Mail!Filed(m) = IF done THEN 1 ELSE 0
    BY <1>1, <1>2, <1>3 DEF Mail!Counted
  <2>2. Mail!Filed(m) <= 1
    <3>1. Mail!Filed(m) \in {0, 1}
      BY <2>1, Zenon
    <3> QED  BY <3>1, AtMostOne, Zenon
  <2>3. done => Mail!Filed(m) = 1
    BY <2>1
  <2> QED  BY <1>2, <2>2, <2>3
<1>4. CASE v6[m] # Mail!Resting
  <2>1. ~done /\ Mail!Filed(m) = IF v6[m].at = "log" THEN 1 ELSE 0
    BY <1>1, <1>2, <1>4, Zenon DEF Mail!Counted
  <2>2. Mail!Filed(m) <= 1
    <3>1. Mail!Filed(m) \in {0, 1}
      BY <2>1, Zenon
    <3> QED  BY <3>1, AtMostOne, Zenon
  <2> QED  BY <1>2, <2>1, <2>2, Zenon
<1> QED  BY <1>3, <1>4

LEMMA MailFiled == Mail!IInv => Mail!FiledOnce
  BY FiledByThen DEF Mail!FiledOnce

MailSettled == part = "mail" => Mail!IInv

\* A mail is filed once and where its sender may be heard, whatever the provider repeats; what we
\* send comes back as no mail of ours; an automatic answer opens no ticket.
THEOREM MailEndsWhereItBelongs == Spec => []MailLaw
<1>1. Init => MailSettled
  BY MailInit DEF Init, MailSettled
<1>2. MailSettled /\ Next => MailSettled'
  BY MailNext DEF Next, MailSettled
<1>3. MailSettled /\ UNCHANGED vars => MailSettled'
  BY MailStutter DEF vars, MailSettled, Mail!vars
<1>4. MailSettled => MailLaw
  BY MailFiled DEF MailSettled, MailLaw, Mail!IInv
<1>5. MailSettled /\ [Next]_vars => MailSettled'
  BY <1>2, <1>3
<1> QED  BY <1>1, <1>4, <1>5, PTL DEF Spec

-----------------------------------------------------------------------------
(* Who hears a live update: v1 are the roles, v2 the department's agents, v3 and v4 whether the *)
(* grant and the token are good, v5 the rooms, v6 who is online and v7 the deliveries.          *)

LEMMA LiveFinite == \A S : (Live!IsFiniteSet(S) <=> IsFiniteSet(S)) /\ Live!Cardinality(S) = Cardinality(S)
<1>1. \A S : Live!IsFiniteSet(S) <=> IsFiniteSet(S)
  BY DEF Live!IsFiniteSet, IsFiniteSet
<1>2. \A S : Live!Cardinality(S) = Cardinality(S)
  BY DEF Live!Cardinality, Cardinality
<1> QED  BY <1>1, <1>2

\* A socket of a user's is one of the host's users'.
LEMMA OwnerOf ==
  /\ Live!Identified \subseteq Sockets /\ \A s \in Live!Identified : UserOf[s] \in HostUsers /\ UserOf[s] # Nil
  /\ \A s \in Sockets : UserOf[s] # Nil => s \in Live!Identified
  BY SocketsHaveUsers DEF Live!LiveAssumption, Live!Identified

\* The sockets of a set, in some order, each once.
LEMMA SetInOrder ==
  ASSUME NEW S, IsFiniteSet(S)
  PROVE  Live!SetToSeq(S) \in Seq(S) /\ \A s \in S : \E i \in 1 .. Len(Live!SetToSeq(S)) : Live!SetToSeq(S)[i] = s
<1>1. PICK n \in Nat : n = Cardinality(S) /\ ExistsBijection(1 .. n, S)
  BY FS_CardinalityType
<1>2. PICK f : f \in Bijection(1 .. n, S)
  BY <1>1 DEF ExistsBijection
<1>3. f \in [1 .. n -> S] /\ Live!IsInjective(f)
  BY <1>2 DEF Bijection, Injection, IsInjective, Live!IsInjective
<1>4. PICK h : h = Live!SetToSeq(S)
  OBVIOUS
<1>5. h \in [1 .. n -> S] /\ Live!IsInjective(h)
  BY <1>1, <1>3, <1>4, LiveFinite DEF Live!SetToSeq
<1>6. h \in Injection(1 .. n, S)
  BY <1>5 DEF Injection, IsInjective, Live!IsInjective
<1>7. IsFiniteSet(1 .. n) /\ Cardinality(1 .. n) = n
  BY <1>1, FS_Interval
<1>8. h \in Surjection(1 .. n, S)
  BY <1>1, <1>6, <1>7, FS_Injection
<1>9. h \in Seq(S) /\ Len(h) = n
  BY <1>1, <1>5
<1> QED  BY <1>4, <1>8, <1>9 DEF Surjection

FieldTypes(q) ==
  /\ q.at \in {"staff", "session", "actor", "query", "token", "done"}
  /\ q.event.staffOnly \in BOOLEAN /\ q.event.chat \in BOOLEAN
  /\ q.event \in Live!TicketEvents \union Live!ChatEvents
  /\ q.todo \in Seq(Sockets) /\ q.heard \subseteq Sockets /\ q.due \subseteq Sockets /\ q.faulty \in BOOLEAN
  /\ q.since \in Live!Seen
  /\ q.since.role \in [HostUsers -> SUBSET (Live!Roles \union {"nobody"})]
  /\ q.since.member \in [HostUsers -> SUBSET BOOLEAN]
  /\ q.since.granted \subseteq BOOLEAN /\ q.since.chatting \subseteq BOOLEAN

LEMMA EventFlags ==
  ASSUME NEW e \in Live!TicketEvents \union Live!ChatEvents
  PROVE  e.staffOnly \in BOOLEAN /\ e.chat \in BOOLEAN
<1> DEFINE Event == [room : {"all", "ticket", "agent", "chat", "chat-queue"}, staffOnly : BOOLEAN, chat : BOOLEAN]
<1>1. Live!TicketEvents \subseteq Event
  BY DEF Live!TicketEvents
<1>2. Live!ChatEvents \subseteq Event
  BY DEF Live!ChatEvents
<1>3. e \in Event
  BY <1>1, <1>2
<1> QED  BY <1>3

LEMMA Fields == ASSUME NEW q \in Live!Underway PROVE FieldTypes(q)
<1>1. q.event \in Live!TicketEvents \union Live!ChatEvents
  BY DEF Live!Underway
<1>2. q.event.staffOnly \in BOOLEAN /\ q.event.chat \in BOOLEAN
  BY <1>1, EventFlags
<1>3. q.since \in Live!Seen
  BY DEF Live!Underway
<1>4. /\ q.since.role \in [HostUsers -> SUBSET (Live!Roles \union {"nobody"})]
      /\ q.since.member \in [HostUsers -> SUBSET BOOLEAN]
      /\ q.since.granted \subseteq BOOLEAN /\ q.since.chatting \subseteq BOOLEAN
  BY <1>3 DEF Live!Seen
<1>5. /\ q.at \in {"staff", "session", "actor", "query", "token", "done"}
      /\ q.todo \in Seq(Sockets) /\ q.heard \subseteq Sockets /\ q.due \subseteq Sockets /\ q.faulty \in BOOLEAN
  BY DEF Live!Underway
<1> QED  BY <1>1, <1>2, <1>3, <1>4, <1>5 DEF FieldTypes

\* What was noted of a socket's user; a guest is a customer of no department.
RolesOf(s, seen) == IF s \in Live!Identified THEN seen.role[UserOf[s]] ELSE {"customer"}
MembersOf(s, seen) == IF s \in Live!Identified THEN seen.member[UserOf[s]] ELSE {FALSE}

LEMMA FactIn ==
  ASSUME NEW s, NEW seen, NEW r \in RolesOf(s, seen), NEW m \in MembersOf(s, seen),
         NEW g \in seen.granted, NEW c \in seen.chatting
  PROVE  \E f \in Live!FactsOf(s, seen) : f[1] = r /\ f[2] = m /\ f[3] = g /\ f[4] = c
<1>1. Live!FactsOf(s, seen) = RolesOf(s, seen) \X MembersOf(s, seen) \X seen.granted \X seen.chatting
  BY DEF Live!FactsOf, RolesOf, MembersOf
<1>2. <<r, m, g, c>> \in Live!FactsOf(s, seen)
  BY <1>1
<1> QED  BY <1>2

LEMMA FactOut ==
  ASSUME NEW s, NEW seen, NEW f \in Live!FactsOf(s, seen)
  PROVE  /\ f[1] \in RolesOf(s, seen) /\ f[2] \in MembersOf(s, seen)
         /\ f[3] \in seen.granted /\ f[4] \in seen.chatting
  BY DEF Live!FactsOf, RolesOf, MembersOf

\* Everything was noted once, so there are facts of a moment.
Nonempty(seen) ==
  /\ \A u \in HostUsers : seen.role[u] # {} /\ seen.member[u] # {}
  /\ seen.granted # {} /\ seen.chatting # {}

LEMMA SomeFact ==
  ASSUME NEW s \in Sockets, NEW seen, Nonempty(seen)
  PROVE  RolesOf(s, seen) # {} /\ MembersOf(s, seen) # {} /\ seen.granted # {} /\ seen.chatting # {}
  BY OwnerOf DEF Nonempty, RolesOf, MembersOf

\* A socket past the staff check may hear the event by the facts that let it see it.
LEMMA Lets ==
  ASSUME NEW s \in Sockets, NEW q, Nonempty(q.since), Live!StaffPassed(s, q),
         NEW r \in RolesOf(s, q.since), NEW m \in MembersOf(s, q.since), NEW g \in q.since.granted,
         Live!CanSee(s, r, m, g)
  PROVE  Live!StaffOnce(s, q) /\ Live!SeesOnce(s, q)
<1>1. PICK c : c \in q.since.chatting
  BY DEF Nonempty
<1>2. Live!SeesOnce(s, q)
  <2>1. PICK f \in Live!FactsOf(s, q.since) : f[1] = r /\ f[2] = m /\ f[3] = g /\ f[4] = c
    BY <1>1, FactIn
  <2> QED  BY <2>1 DEF Live!SeesOnce, Live!Sees
<1>3. Live!StaffOnce(s, q)
  <2>1. PICK p \in RolesOf(s, q.since) : q.event.staffOnly => s \in Live!Identified /\ Live!IsStaff(p)
    BY SomeFact DEF Live!StaffPassed, RolesOf
  <2>2. PICK f \in Live!FactsOf(s, q.since) : f[1] = p
    BY <1>1, <2>1, FactIn
  <2> QED  BY <2>1, <2>2 DEF Live!StaffOnce, Live!Staff
<1> QED  BY <1>2, <1>3

LEMMA LetsVisitor ==
  ASSUME NEW s \in Sockets, NEW q, Nonempty(q.since), Live!StaffPassed(s, q), q.event.chat,
         s \in Visitors, TRUE \in q.since.chatting
  PROVE  Live!StaffOnce(s, q) /\ Live!SeesOnce(s, q)
<1>1. PICK m, g : m \in MembersOf(s, q.since) /\ g \in q.since.granted
  BY SomeFact
<1>2. PICK p \in RolesOf(s, q.since) : q.event.staffOnly => s \in Live!Identified /\ Live!IsStaff(p)
  BY SomeFact DEF Live!StaffPassed, RolesOf
<1>3. PICK c \in q.since.chatting : c = TRUE
  OBVIOUS
<1>4. PICK f \in Live!FactsOf(s, q.since) : f[1] = p /\ f[2] = m /\ f[3] = g /\ f[4] = c
  BY <1>1, <1>2, FactIn
<1> QED  BY <1>2, <1>3, <1>4 DEF Live!StaffOnce, Live!Staff, Live!SeesOnce, Live!Sees

\* A socket whose session let it in no more is denied it by the facts that keep it from the ticket.
LEMMA Denies ==
  ASSUME NEW s \in Sockets, NEW q, Nonempty(q.since), Live!SessionPassed(s, q),
         NEW r \in RolesOf(s, q.since), NEW m \in MembersOf(s, q.since), NEW g \in q.since.granted,
         ~Live!CanSee(s, r, m, g)
  PROVE  Live!DeniedOnce(s, q)
<1>1. PICK c \in q.since.chatting : q.event.chat => s \notin Visitors \/ c = FALSE
  BY DEF Nonempty, Live!SessionPassed
<1>2. PICK f \in Live!FactsOf(s, q.since) : f[1] = r /\ f[2] = m /\ f[3] = g /\ f[4] = c
  BY <1>1, FactIn
<1>3. ~Live!Sees(s, q.event, f)
  BY <1>1, <1>2 DEF Live!Sees
<1> QED  BY <1>3 DEF Live!DeniedOnce

LEMMA DeniesStaff ==
  ASSUME NEW s \in Sockets, NEW q, Nonempty(q.since), q.event.staffOnly,
         NEW r \in RolesOf(s, q.since), ~(s \in Live!Identified /\ Live!IsStaff(r))
  PROVE  Live!DeniedOnce(s, q)
<1>1. PICK m, g, c : m \in MembersOf(s, q.since) /\ g \in q.since.granted /\ c \in q.since.chatting
  BY SomeFact
<1>2. PICK f \in Live!FactsOf(s, q.since) : f[1] = r
  BY <1>1, FactIn
<1> QED  BY <1>2 DEF Live!DeniedOnce, Live!Staff

\* What is noted stays noted.
Grown(seen, more) ==
  /\ \A u \in HostUsers : seen.role[u] \subseteq more.role[u] /\ seen.member[u] \subseteq more.member[u]
  /\ seen.granted \subseteq more.granted /\ seen.chatting \subseteq more.chatting

LEMMA FactsGrow ==
  ASSUME NEW s \in Sockets, NEW seen, NEW more, Grown(seen, more)
  PROVE  Live!FactsOf(s, seen) \subseteq Live!FactsOf(s, more)
<1>1. RolesOf(s, seen) \subseteq RolesOf(s, more) /\ MembersOf(s, seen) \subseteq MembersOf(s, more)
  BY OwnerOf DEF Grown, RolesOf, MembersOf
<1>2. \A any : Live!FactsOf(s, any) = RolesOf(s, any) \X MembersOf(s, any) \X any.granted \X any.chatting
  BY DEF Live!FactsOf, RolesOf, MembersOf
<1>3. seen.granted \subseteq more.granted /\ seen.chatting \subseteq more.chatting
  BY DEF Grown
<1> QED  BY <1>1, <1>2, <1>3

LEMMA OnceGrows ==
  ASSUME NEW s \in Sockets, NEW q, NEW w, w.event = q.event, Grown(q.since, w.since)
  PROVE  /\ Live!StaffOnce(s, q) => Live!StaffOnce(s, w)
         /\ Live!SeesOnce(s, q) => Live!SeesOnce(s, w)
         /\ Live!DeniedOnce(s, q) => Live!DeniedOnce(s, w)
<1>1. Live!FactsOf(s, q.since) \subseteq Live!FactsOf(s, w.since)
  BY FactsGrow
<1> QED  BY <1>1 DEF Live!StaffOnce, Live!SeesOnce, Live!DeniedOnce

\* What holds of a delivery wherever it is.
Body(q) ==
  /\ q \in Live!Underway /\ Nonempty(q.since) /\ q.heard \subseteq q.due
  /\ \A s \in q.heard : Live!StaffOnce(s, q) /\ Live!SeesOnce(s, q)
  /\ ~q.faulty => \A s \in q.due : Live!Settled(s, q) \/ \E i \in 1 .. Len(q.todo) : q.todo[i] = s
Going(q) ==
  /\ q.todo # <<>> /\ Live!Noted(q) /\ Live!Progress(Head(q.todo), q)
  /\ \A i \in 1 .. Len(q.todo) : q.todo[i] \in q.due

LEMMA DeliveryParts ==
  ASSUME NEW q
  PROVE  /\ Live!DeliveryInv(q) => Body(q) /\ (q.at # "done" => Going(q))
         /\ Body(q) /\ q.at # "done" /\ Going(q) => Live!DeliveryInv(q)
         /\ Body(q) /\ q.at = "done" /\ (q.faulty \/ q.todo = <<>>) => Live!DeliveryInv(q)
  BY DEF Live!DeliveryInv, Body, Going, Nonempty

\* The socket at the head is one of those due.
LEMMA HeadOf ==
  ASSUME NEW q, Body(q), Going(q)
  PROVE  /\ Head(q.todo) \in q.due /\ Head(q.todo) \in Sockets /\ Head(q.todo) = q.todo[1] /\ Len(q.todo) \in Nat
         /\ Len(q.todo) >= 1
<1>1. q.todo \in Seq(Sockets) /\ q.todo # <<>> /\ \A i \in 1 .. Len(q.todo) : q.todo[i] \in q.due
  BY Fields DEF Body, Going, FieldTypes
<1> QED  BY <1>1

\* The delivery goes on to another check of the same socket.
LEMMA GoesOn ==
  ASSUME NEW q, Live!DeliveryInv(q), q.at # "done", NEW at \in {"session", "actor", "query", "token"},
         NEW w, w = Live!Passed(q, at), Live!Progress(Head(w.todo), w)
  PROVE  Live!DeliveryInv(w)
<1>1. Body(q) /\ Going(q)
  BY DeliveryParts
<1>2. /\ w \in Live!Underway /\ w.at = at /\ w.event = q.event /\ w.todo = q.todo /\ w.heard = q.heard
      /\ w.due = q.due /\ w.faulty = q.faulty /\ w.since = q.since
  BY <1>1 DEF Body, Live!Underway, Live!Passed
<1>3. Body(w)
  BY <1>1, <1>2 DEF Body, Live!Settled, Live!StaffOnce, Live!SeesOnce, Live!DeniedOnce
<1>4. Going(w)
  BY <1>1, <1>2 DEF Going, Live!Noted
<1> QED  BY <1>2, <1>3, <1>4, DeliveryParts

\* The next socket's first check.
LEMMA FirstProgress ==
  ASSUME NEW q, q.at = Live!FirstCheck(q.event), q.event.staffOnly \in BOOLEAN, q.event.chat \in BOOLEAN, NEW s
  PROVE  Live!Progress(s, q) /\ q.at \in {"staff", "session", "actor"}
<1>1. CASE q.event.staffOnly
  <2>1. q.at = "staff"
    BY <1>1 DEF Live!FirstCheck
  <2> QED  BY <1>1, <2>1 DEF Live!Progress
<1>2. CASE ~q.event.staffOnly /\ q.event.chat
  <2>1. q.at = "session"
    BY <1>2 DEF Live!FirstCheck
  <2> QED  BY <1>2, <2>1 DEF Live!Progress, Live!StaffPassed
<1>3. CASE ~q.event.staffOnly /\ ~q.event.chat
  <2>1. q.at = "actor"
    BY <1>3 DEF Live!FirstCheck
  <2> QED  BY <1>3, <2>1 DEF Live!Progress, Live!StaffPassed, Live!SessionPassed
<1> QED  BY <1>1, <1>2, <1>3

\* The socket at the head is done with: it hears the event, or was denied it.
LEMMA NextOne ==
  ASSUME NEW q, Live!DeliveryInv(q), q.at # "done", NEW emitted \in BOOLEAN,
         emitted = TRUE => Live!StaffOnce(Head(q.todo), q) /\ Live!SeesOnce(Head(q.todo), q),
         emitted = FALSE => q.faulty \/ Live!DeniedOnce(Head(q.todo), q)
  PROVE  Live!DeliveryInv(Live!NextSocket(q, emitted))
<1>1. Body(q) /\ Going(q)
  BY DeliveryParts
<1>2. FieldTypes(q)
  BY <1>1, Fields DEF Body
<1>3. PICK s : s = Head(q.todo)
  OBVIOUS
<1>4. s \in q.due /\ s \in Sockets /\ s = q.todo[1] /\ Len(q.todo) \in Nat /\ Len(q.todo) >= 1
  BY <1>1, <1>3, HeadOf
<1>5. PICK w : w = Live!NextSocket(q, emitted)
  OBVIOUS
<1>6. /\ w.at = IF Len(q.todo) = 1 THEN "done" ELSE Live!FirstCheck(q.event)
      /\ w.todo = Tail(q.todo) /\ w.heard = IF emitted /\ s \in v6 THEN q.heard \union {s} ELSE q.heard
      /\ w.event = q.event /\ w.due = q.due /\ w.faulty = q.faulty /\ w.since = q.since
      /\ w = [at |-> w.at, event |-> w.event, todo |-> w.todo, heard |-> w.heard, due |-> w.due,
              faulty |-> w.faulty, since |-> w.since]
  BY <1>1, <1>3, <1>5 DEF Body, Live!Underway, Live!NextSocket
<1>7. /\ w.todo \in Seq(Sockets) /\ Len(w.todo) = Len(q.todo) - 1
      /\ \A i \in 1 .. Len(w.todo) : i + 1 \in 1 .. Len(q.todo) /\ w.todo[i] = q.todo[i + 1]
  BY <1>2, <1>4, <1>6 DEF FieldTypes
<1>8. Live!FirstCheck(q.event) \in {"staff", "session", "actor"}
  BY DEF Live!FirstCheck
<1>9. w \in Live!Underway
  <2>1. w.at \in {"staff", "session", "actor", "query", "token", "done"}
    BY <1>6, <1>8
  <2>2. w.heard \subseteq Sockets /\ w.due \subseteq Sockets /\ w.faulty \in BOOLEAN /\ w.since \in Live!Seen
        /\ w.event \in Live!TicketEvents \union Live!ChatEvents
    BY <1>2, <1>4, <1>6 DEF FieldTypes
  <2> QED  BY <1>6, <1>7, <2>1, <2>2 DEF Live!Underway
<1>10. \A p \in Sockets : /\ Live!StaffOnce(p, q) => Live!StaffOnce(p, w)
                          /\ Live!SeesOnce(p, q) => Live!SeesOnce(p, w)
                          /\ Live!DeniedOnce(p, q) => Live!DeniedOnce(p, w)
  BY <1>6 DEF Live!StaffOnce, Live!SeesOnce, Live!DeniedOnce
<1>11. \A p \in w.heard : Live!StaffOnce(p, w) /\ Live!SeesOnce(p, w)
  <2>1. \A p \in q.heard : p \in Sockets /\ Live!StaffOnce(p, q) /\ Live!SeesOnce(p, q)
    BY <1>1, <1>2 DEF Body, FieldTypes
  <2> QED  BY <1>3, <1>4, <1>6, <1>10, <2>1
<1>12. ASSUME ~w.faulty, NEW p \in w.due
       PROVE  Live!Settled(p, w) \/ \E i \in 1 .. Len(w.todo) : w.todo[i] = p
  <2>1. p \in Sockets /\ (Live!Settled(p, q) \/ \E i \in 1 .. Len(q.todo) : q.todo[i] = p)
    BY <1>1, <1>2, <1>6, <1>12 DEF Body, FieldTypes
  <2>2. CASE Live!Settled(p, q)
    BY <1>6, <1>10, <2>1, <2>2 DEF Live!Settled
  <2>3. CASE p = s
    <3>1. CASE emitted = TRUE
      BY <1>6, <2>3, <3>1 DEF Live!Settled
    <3>2. CASE emitted = FALSE
      <4>1. Live!DeniedOnce(s, w)
        BY <1>3, <1>4, <1>6, <1>10, <1>12, <3>2
      <4> QED  BY <2>3, <4>1 DEF Live!Settled
    <3> QED  BY <3>1, <3>2
  <2>4. ASSUME NEW i \in 1 .. Len(q.todo), q.todo[i] = p, p # s
        PROVE  \E k \in 1 .. Len(w.todo) : w.todo[k] = p
    <3>1. i # 1
      BY <1>4, <2>4
    <3>2. i - 1 \in 1 .. Len(w.todo) /\ (i - 1) + 1 = i
      BY <1>4, <1>7, <3>1
    <3> QED  BY <1>7, <2>4, <3>2
  <2> QED  BY <2>1, <2>2, <2>3, <2>4
<1>13. Body(w)
  BY <1>1, <1>4, <1>6, <1>9, <1>11, <1>12 DEF Body
<1>14. CASE Len(q.todo) = 1
  <2>1. w.todo = <<>>
    BY <1>2, <1>6, <1>7, <1>14 DEF FieldTypes
  <2> QED  BY <1>5, <1>6, <1>13, <1>14, <2>1, DeliveryParts
<1>15. CASE Len(q.todo) # 1
  <2>1. w.todo # <<>>
    <3>1. \A n \in Nat : n >= 1 /\ n # 1 => n - 1 >= 1
      OBVIOUS
    <3>2. Len(w.todo) >= 1
      BY <1>4, <1>7, <1>15, <3>1
    <3>3. Len(<<>>) = 0
      OBVIOUS
    <3> QED  BY <3>2, <3>3
  <2>2. Live!Progress(Head(w.todo), w) /\ w.at # "done"
    BY <1>2, <1>6, <1>8, <1>15, FirstProgress DEF FieldTypes
  <2>3. \A i \in 1 .. Len(w.todo) : w.todo[i] \in w.due
    BY <1>1, <1>6, <1>7 DEF Going
  <2>4. Live!Noted(w)
    BY <1>1, <1>6 DEF Going, Live!Noted
  <2> QED  BY <1>5, <1>13, <2>1, <2>2, <2>3, <2>4, DeliveryParts DEF Going
<1> QED  BY <1>14, <1>15

LEMMA ProgressGrows ==
  ASSUME NEW q, FieldTypes(q), q.at # "done", NEW s \in Sockets, Live!Progress(s, q),
         NEW w, w.at = q.at, w.event = q.event, Grown(q.since, w.since)
  PROVE  Live!Progress(s, w)
<1>1. s \in Live!Identified => q.since.role[UserOf[s]] \subseteq w.since.role[UserOf[s]]
  BY OwnerOf DEF Grown
<1>2. Live!StaffPassed(s, q) => Live!StaffPassed(s, w)
  BY <1>1 DEF Live!StaffPassed
<1>3. Live!SessionPassed(s, q) => Live!SessionPassed(s, w)
  BY DEF Grown, Live!SessionPassed
<1>4. q.at \in {"staff", "session", "actor", "query", "token"}
  BY DEF FieldTypes
<1> QED  BY <1>1, <1>2, <1>3, <1>4 DEF Live!Progress

\* The host does not know who is behind the socket: noted as somebody else's role.
LEMMA UnresolvedToo ==
  ASSUME NEW q, Live!DeliveryInv(q), q.at # "done", NEW u \in HostUsers, NEW w, w = Live!Unresolved(q, u)
  PROVE  /\ Live!DeliveryInv(w) /\ w.at = q.at /\ w.todo = q.todo /\ w.event = q.event /\ w.faulty = TRUE
         /\ Grown(q.since, w.since) /\ "nobody" \in w.since.role[u]
<1>1. Body(q) /\ Going(q)
  BY DeliveryParts
<1>2. FieldTypes(q)
  BY <1>1, Fields DEF Body
<1>3. PICK roles : roles = [q.since.role EXCEPT ![u] = @ \union {"nobody"}]
  OBVIOUS
<1>4. /\ roles \in [HostUsers -> SUBSET (Live!Roles \union {"nobody"})] /\ "nobody" \in roles[u]
      /\ \A p \in HostUsers : q.since.role[p] \subseteq roles[p]
  BY <1>2, <1>3 DEF FieldTypes
<1>5. PICK since : since = [q.since EXCEPT !.role = roles]
  OBVIOUS
<1>6. /\ since \in Live!Seen /\ since.role = roles /\ since.member = q.since.member
      /\ since.granted = q.since.granted /\ since.chatting = q.since.chatting
  BY <1>2, <1>4, <1>5 DEF FieldTypes, Live!Seen
<1>7. w = [q EXCEPT !.faulty = TRUE, !.since = since]
  BY <1>1, <1>2, <1>3, <1>5 DEF Body, FieldTypes, Live!Underway, Live!Seen, Live!Unresolved
<1>8. /\ w \in Live!Underway /\ w.at = q.at /\ w.event = q.event /\ w.todo = q.todo /\ w.heard = q.heard
      /\ w.due = q.due /\ w.faulty = TRUE /\ w.since = since
  BY <1>1, <1>6, <1>7 DEF Body, Live!Underway
<1>9. Grown(q.since, w.since) /\ Nonempty(w.since)
  BY <1>1, <1>4, <1>6, <1>8 DEF Body, Grown, Nonempty
<1>10. Body(w)
  <2>1. \A s \in w.heard : Live!StaffOnce(s, w) /\ Live!SeesOnce(s, w)
    BY <1>1, <1>2, <1>8, <1>9, OnceGrows DEF Body, FieldTypes
  <2> QED  BY <1>1, <1>8, <1>9, <2>1 DEF Body
<1>11. Live!Noted(w)
  BY <1>1, <1>4, <1>6, <1>8 DEF Going, Live!Noted
<1>12. PICK s : s = Head(q.todo)
  OBVIOUS
<1>13. s \in Sockets /\ Live!Progress(s, q)
  BY <1>1, <1>12, HeadOf DEF Going
<1>14. Live!Progress(s, w)
  BY <1>2, <1>8, <1>9, <1>13, ProgressGrows
<1>15. Going(w)
  BY <1>1, <1>8, <1>11, <1>12, <1>14 DEF Going
<1> QED  BY <1>4, <1>6, <1>8, <1>9, <1>10, <1>15, DeliveryParts

\* A query that throws ends the delivery.
LEMMA GivenUp ==
  ASSUME NEW q, Live!DeliveryInv(q), q.at # "done"
  PROVE  Live!DeliveryInv([Live!Passed(q, "done") EXCEPT !.faulty = TRUE])
<1>1. Body(q)
  BY DeliveryParts
<1>2. PICK w : w = [Live!Passed(q, "done") EXCEPT !.faulty = TRUE]
  OBVIOUS
<1>3. /\ w \in Live!Underway /\ w.at = "done" /\ w.event = q.event /\ w.todo = q.todo /\ w.heard = q.heard
      /\ w.due = q.due /\ w.faulty = TRUE /\ w.since = q.since
  BY <1>1, <1>2 DEF Body, Live!Underway, Live!Passed
<1>4. Body(w)
  BY <1>1, <1>3 DEF Body, Live!StaffOnce, Live!SeesOnce
<1> QED  BY <1>2, <1>3, <1>4, DeliveryParts

\* One delivery moves, nothing else.
LEMMA OneDelivers ==
  ASSUME Live!IInv, NEW d \in Deliveries, NEW w, Live!DeliveryInv(w), v7' = [v7 EXCEPT ![d] = w],
         UNCHANGED <<v1, v2, v3, v4, v6>>
  PROVE  Live!IInv'
<1>1. DOMAIN v7' = Deliveries /\ v7'[d] = w /\ \A other \in Deliveries : other # d => v7'[other] = v7[other]
  BY DEF Live!IInv
<1>2. ASSUME NEW q, Live!DeliveryInv(q) PROVE Live!DeliveryInv(q)'
  BY <1>2 DEF Live!DeliveryInv, Live!Settled, Live!Noted
<1>3. ASSUME NEW other \in Deliveries PROVE (v7[other] = Live!NoDelivery \/ Live!DeliveryInv(v7[other]))'
  <2>1. PICK q : q = v7'[other]
    OBVIOUS
  <2>2. q = Live!NoDelivery \/ Live!DeliveryInv(q)
    BY <1>1, <2>1 DEF Live!IInv
  <2>3. CASE q = Live!NoDelivery
    BY <2>1, <2>3 DEF Live!NoDelivery
  <2>4. CASE Live!DeliveryInv(q)
    <3>1. Live!DeliveryInv(q)'
      BY <1>2, <2>4
    <3> QED  BY <2>1, <3>1
  <2> QED  BY <2>2, <2>3, <2>4
<1> QED  BY <1>1, <1>3 DEF Live!IInv

\* A delivery under way: it is of its shape, its facts include the present ones.
LEMMA UnderWay ==
  ASSUME Live!IInv, NEW d \in Deliveries, v7[d].at \notin {"none", "done"}
  PROVE  /\ Live!DeliveryInv(v7[d]) /\ Nonempty(v7[d].since) /\ Live!Noted(v7[d]) /\ FieldTypes(v7[d])
         /\ Head(v7[d].todo) \in Sockets /\ Live!Progress(Head(v7[d].todo), v7[d])
<1>1. Live!DeliveryInv(v7[d])
  BY DEF Live!IInv, Live!NoDelivery
<1>2. Body(v7[d]) /\ Going(v7[d])
  BY <1>1, DeliveryParts
<1> QED  BY <1>1, <1>2, Fields, HeadOf DEF Body, Going

\* What is so now is among what was noted.
LEMMA NowNoted ==
  ASSUME NEW q, Live!Noted(q), NEW s \in Sockets
  PROVE  /\ s \in Live!Identified => v1[UserOf[s]] \in RolesOf(s, q.since)
         /\ s \notin Live!Identified => "customer" \in RolesOf(s, q.since)
         /\ v3 \in q.since.granted /\ v4 \in q.since.chatting
  BY OwnerOf DEF Live!Noted, RolesOf

LEMMA MemberNoted ==
  ASSUME NEW q, Live!Noted(q), NEW s \in Live!Identified
  PROVE  /\ UserOf[s] \in v2 => TRUE \in MembersOf(s, q.since)
         /\ UserOf[s] \notin v2 => FALSE \in MembersOf(s, q.since)
<1>1. PICK u \in HostUsers : u = UserOf[s]
  BY OwnerOf
<1>2. (u \in v2) \in q.since.member[u]
  BY DEF Live!Noted
<1>3. CASE u \in v2
  <2>1. (u \in v2) = TRUE
    BY <1>3
  <2>2. TRUE \in q.since.member[u]
    BY <1>2, <2>1, Zenon
  <2> QED  BY <1>1, <1>3, <2>2 DEF MembersOf
<1>4. CASE u \notin v2
  <2>1. (u \in v2) = FALSE
    BY <1>4
  <2>2. FALSE \in q.since.member[u]
    BY <1>2, <2>1, Zenon
  <2> QED  BY <1>1, <1>4, <2>2 DEF MembersOf
<1> QED  BY <1>3, <1>4

LEMMA StaffRead ==
  ASSUME Live!IInv, NEW d \in Deliveries, NEW q, q = v7[d], q.at = "staff", NEW s, s = Head(q.todo)
  PROVE  Live!DeliveryInv(Live!ReadStaff(q, s))
<1>1. /\ Live!DeliveryInv(q) /\ Nonempty(q.since) /\ Live!Noted(q) /\ FieldTypes(q) /\ s \in Sockets
      /\ Live!Progress(s, q) /\ q.at # "done"
  BY UnderWay
<1>2. q.event.staffOnly
  BY <1>1 DEF Live!Progress
<1>3. CASE s \in Live!Identified /\ Live!IsStaff(v1[UserOf[s]])
  <2>1. PICK at : at = IF q.event.chat THEN "session" ELSE "actor"
    OBVIOUS
  <2>2. PICK w : w = Live!Passed(q, at)
    OBVIOUS
  <2>3. w.at = at /\ w.event = q.event /\ w.todo = q.todo /\ w.since = q.since
    BY <1>1, <2>2 DEF Live!Passed, Live!DeliveryInv, Live!Underway
  <2>4. Live!StaffPassed(s, w)
    BY <1>1, <1>3, <2>3, OwnerOf DEF Live!StaffPassed, Live!Noted
  <2>5. Live!Progress(s, w)
    <3>1. CASE q.event.chat
      BY <2>1, <2>3, <2>4, <3>1 DEF Live!Progress
    <3>2. CASE ~q.event.chat
      BY <2>1, <2>3, <2>4, <3>2 DEF Live!Progress, Live!SessionPassed
    <3> QED  BY <3>1, <3>2
  <2>6. Live!DeliveryInv(w)
    BY <1>1, <2>1, <2>2, <2>3, <2>5, GoesOn
  <2> QED  BY <1>3, <2>1, <2>2, <2>6 DEF Live!ReadStaff
<1>4. CASE ~(s \in Live!Identified /\ Live!IsStaff(v1[UserOf[s]]))
  <2>1. Live!DeniedOnce(s, q)
    <3>1. CASE s \in Live!Identified
      BY <1>1, <1>2, <1>4, <3>1, NowNoted, DeniesStaff
    <3>2. CASE s \notin Live!Identified
      BY <1>1, <1>2, <3>2, NowNoted, DeniesStaff
    <3> QED  BY <3>1, <3>2
  <2>2. Live!DeliveryInv(Live!NextSocket(q, FALSE))
    BY <1>1, <2>1, NextOne
  <2> QED  BY <1>4, <2>2 DEF Live!ReadStaff
<1> QED  BY <1>3, <1>4

LEMMA SessionRead ==
  ASSUME Live!IInv, NEW d \in Deliveries, NEW q, q = v7[d], q.at = "session", NEW s, s = Head(q.todo)
  PROVE  Live!DeliveryInv(Live!ReadSession(q, s))
<1>1. /\ Live!DeliveryInv(q) /\ Nonempty(q.since) /\ Live!Noted(q) /\ FieldTypes(q) /\ s \in Sockets
      /\ Live!Progress(s, q) /\ q.at # "done"
  BY UnderWay
<1>2. q.event.chat /\ Live!StaffPassed(s, q)
  BY <1>1 DEF Live!Progress
<1>3. v4 \in BOOLEAN /\ v4 \in q.since.chatting
  BY <1>1, NowNoted DEF Live!IInv
<1>4. CASE s \in Visitors /\ v4 = TRUE
  <2>1. Live!StaffOnce(s, q) /\ Live!SeesOnce(s, q)
    BY <1>1, <1>2, <1>3, <1>4, LetsVisitor
  <2>2. Live!DeliveryInv(Live!NextSocket(q, TRUE))
    BY <1>1, <2>1, NextOne
  <2> QED  BY <1>4, <2>2 DEF Live!ReadSession
<1>5. CASE s \notin Visitors \/ v4 = FALSE
  <2>1. PICK w : w = Live!Passed(q, "actor")
    OBVIOUS
  <2>2. w.at = "actor" /\ w.event = q.event /\ w.todo = q.todo /\ w.since = q.since
    BY <1>1, <2>1 DEF Live!Passed, Live!DeliveryInv, Live!Underway
  <2>3. Live!SessionPassed(s, w)
    BY <1>3, <1>5, <2>2 DEF Live!SessionPassed
  <2>4. Live!Progress(s, w)
    BY <1>2, <2>2, <2>3 DEF Live!Progress, Live!StaffPassed
  <2>5. Live!DeliveryInv(w)
    BY <1>1, <2>1, <2>2, <2>4, GoesOn
  <2> QED  BY <1>5, <2>1, <2>5 DEF Live!ReadSession
<1> QED  BY <1>3, <1>4, <1>5

LEMMA ActorRead ==
  ASSUME Live!IInv, NEW d \in Deliveries, NEW q, q = v7[d], q.at = "actor", NEW s, s = Head(q.todo)
  PROVE  Live!DeliveryInv(Live!ReadActor(q, s))
<1>1. /\ Live!DeliveryInv(q) /\ Nonempty(q.since) /\ Live!Noted(q) /\ FieldTypes(q) /\ s \in Sockets
      /\ Live!Progress(s, q) /\ q.at # "done"
  BY UnderWay
<1>2. Live!StaffPassed(s, q) /\ Live!SessionPassed(s, q)
  BY <1>1 DEF Live!Progress
<1>3. PICK u : u = UserOf[s]
  OBVIOUS
<1>4. CASE s \in Live!Identified /\ (v1[u] = "admin" \/ (v1[u] = "customer" /\ u = Requester))
  <2>1. PICK m, g : m \in MembersOf(s, q.since) /\ g \in q.since.granted
    BY <1>1, SomeFact
  <2>2. v1[u] \in RolesOf(s, q.since) /\ Live!CanSee(s, v1[u], m, g)
    BY <1>1, <1>3, <1>4, NowNoted DEF Live!CanSee
  <2>3. Live!StaffOnce(s, q) /\ Live!SeesOnce(s, q)
    BY <1>1, <1>2, <2>1, <2>2, Lets
  <2>4. Live!DeliveryInv(Live!NextSocket(q, TRUE))
    BY <1>1, <2>3, NextOne
  <2> QED  BY <1>3, <1>4, <2>4 DEF Live!ReadActor
<1>5. CASE ~(s \in Live!Identified /\ (v1[u] = "admin" \/ (v1[u] = "customer" /\ u = Requester)))
  <2>1. PICK at : at = IF s \in Live!Identified /\ v1[u] = "agent" THEN "query" ELSE "token"
    OBVIOUS
  <2>2. PICK w : w = Live!Passed(q, at)
    OBVIOUS
  <2>3. w.at = at /\ w.event = q.event /\ w.todo = q.todo /\ w.since = q.since
    BY <1>1, <2>2 DEF Live!Passed, Live!DeliveryInv, Live!Underway
  <2>4. Live!StaffPassed(s, w) /\ Live!SessionPassed(s, w)
    BY <1>2, <2>3 DEF Live!StaffPassed, Live!SessionPassed
  <2>5. s \in Live!Identified => u \in HostUsers /\ v1[u] \in Live!Roles /\ v1[u] \in q.since.role[u]
    BY <1>1, <1>3, OwnerOf DEF Live!IInv, Live!Noted
  <2>6. Live!Progress(s, w)
    <3>1. CASE s \in Live!Identified /\ v1[u] = "agent"
      <4>1. at = "query" /\ "agent" \in w.since.role[UserOf[s]]
        BY <1>3, <2>1, <2>3, <2>5, <3>1
      <4> QED  BY <2>3, <2>4, <3>1, <4>1 DEF Live!Progress
    <3>2. CASE ~(s \in Live!Identified /\ v1[u] = "agent")
      <4>1. at = "token"
        BY <2>1, <3>2
      <4>2. s \in Live!Identified => v1[u] = "customer" /\ u # Requester
        BY <1>5, <2>5, <3>2 DEF Live!Roles
      <4> QED  BY <1>3, <2>3, <2>4, <2>5, <4>1, <4>2 DEF Live!Progress
    <3> QED  BY <3>1, <3>2
  <2>7. Live!DeliveryInv(w)
    BY <1>1, <2>1, <2>2, <2>3, <2>6, GoesOn
  <2> QED  BY <1>3, <1>5, <2>1, <2>2, <2>7 DEF Live!ReadActor
<1> QED  BY <1>4, <1>5

LEMMA DepartmentRead ==
  ASSUME Live!IInv, NEW d \in Deliveries, NEW q, q = v7[d], q.at = "query", NEW s, s = Head(q.todo)
  PROVE  Live!DeliveryInv(Live!ReadDepartment(q, s))
<1>1. /\ Live!DeliveryInv(q) /\ Nonempty(q.since) /\ Live!Noted(q) /\ FieldTypes(q) /\ s \in Sockets
      /\ Live!Progress(s, q) /\ q.at # "done"
  BY UnderWay
<1>2. /\ Live!StaffPassed(s, q) /\ Live!SessionPassed(s, q) /\ s \in Live!Identified
      /\ "agent" \in RolesOf(s, q.since)
  BY <1>1 DEF Live!Progress, RolesOf
<1>3. PICK m, g : m \in MembersOf(s, q.since) /\ g \in q.since.granted
  BY <1>1, SomeFact
<1>4. CASE ~Restricted
  <2>1. Live!CanSee(s, "agent", m, g)
    BY <1>2, <1>4 DEF Live!CanSee, Live!allows, Live!restricted
  <2>2. Live!StaffOnce(s, q) /\ Live!SeesOnce(s, q)
    BY <1>1, <1>2, <1>3, <2>1, Lets
  <2>3. Live!DeliveryInv(Live!NextSocket(q, TRUE))
    BY <1>1, <2>2, NextOne
  <2> QED  BY <1>4, <2>3 DEF Live!ReadDepartment
<1>5. CASE UserOf[s] \in v2
  <2>1. Live!CanSee(s, "agent", TRUE, g)
    BY <1>2 DEF Live!CanSee, Live!allows
  <2>2. Live!StaffOnce(s, q) /\ Live!SeesOnce(s, q)
    BY <1>1, <1>2, <1>3, <1>5, <2>1, MemberNoted, Lets
  <2>3. Live!DeliveryInv(Live!NextSocket(q, TRUE))
    BY <1>1, <2>2, NextOne
  <2> QED  BY <1>5, <2>3 DEF Live!ReadDepartment
<1>6. CASE Restricted /\ UserOf[s] \notin v2
  <2>1. ~Live!CanSee(s, "agent", FALSE, g)
    BY <1>2, <1>6 DEF Live!CanSee, Live!allows, Live!restricted, Live!IsStaff
  <2>2. Live!DeniedOnce(s, q)
    BY <1>1, <1>2, <1>3, <1>6, <2>1, MemberNoted, Denies
  <2>3. Live!DeliveryInv(Live!NextSocket(q, FALSE))
    BY <1>1, <2>2, NextOne
  <2> QED  BY <1>6, <2>3 DEF Live!ReadDepartment
<1> QED  BY <1>4, <1>5, <1>6

LEMMA TokenRead ==
  ASSUME Live!IInv, NEW d \in Deliveries, NEW q, q = v7[d], q.at = "token", NEW s, s = Head(q.todo)
  PROVE  Live!DeliveryInv(Live!ReadToken(q, s))
<1>1. /\ Live!DeliveryInv(q) /\ Nonempty(q.since) /\ Live!Noted(q) /\ FieldTypes(q) /\ s \in Sockets
      /\ Live!Progress(s, q) /\ q.at # "done"
  BY UnderWay
<1>2. /\ Live!StaffPassed(s, q) /\ Live!SessionPassed(s, q)
  BY <1>1 DEF Live!Progress
<1>3. PICK r \in RolesOf(s, q.since) :
        IF s \in Live!Identified THEN r = "nobody" \/ (r = "customer" /\ UserOf[s] # Requester) ELSE r = "customer"
  BY <1>1 DEF Live!Progress, RolesOf
<1>4. PICK m : m \in MembersOf(s, q.since)
  BY <1>1, SomeFact
<1>5. v3 \in BOOLEAN /\ v3 \in q.since.granted
  BY <1>1, NowNoted DEF Live!IInv
<1>6. Live!CanSee(s, r, m, v3) <=> s \in Guests /\ v3
  BY <1>3 DEF Live!CanSee, Live!IsStaff
<1>7. CASE s \in Guests /\ v3
  <2>1. Live!StaffOnce(s, q) /\ Live!SeesOnce(s, q)
    BY <1>1, <1>2, <1>4, <1>5, <1>6, <1>7, Lets
  <2>2. Live!DeliveryInv(Live!NextSocket(q, TRUE))
    BY <1>1, <2>1, NextOne
  <2> QED  BY <1>7, <2>2 DEF Live!ReadToken
<1>8. CASE ~(s \in Guests /\ v3)
  <2>1. Live!DeniedOnce(s, q)
    BY <1>1, <1>2, <1>4, <1>5, <1>6, <1>8, Denies
  <2>2. Live!DeliveryInv(Live!NextSocket(q, FALSE))
    BY <1>1, <2>1, NextOne
  <2> QED  BY <1>8, <2>2 DEF Live!ReadToken
<1> QED  BY <1>7, <1>8

LEMMA Checks ==
  ASSUME Live!IInv, NEW d \in Deliveries, Live!Check(d)
  PROVE  Live!IInv'
<1>1. PICK q : q = v7[d]
  OBVIOUS
<1>2. PICK s : s = Head(q.todo)
  OBVIOUS
<1>3. UNCHANGED <<v1, v2, v3, v4, v6>> /\ q.at \notin {"none", "done"}
  BY <1>1 DEF Live!Check, Live!accessVars
<1>4. q.at \in {"staff", "session", "actor", "query", "token"}
  BY <1>1, <1>3, UnderWay DEF FieldTypes
<1>5. CASE q.at = "staff"
  <2>1. v7' = [v7 EXCEPT ![d] = Live!ReadStaff(q, s)]
    BY <1>1, <1>2, <1>5 DEF Live!Check
  <2> QED  BY <1>1, <1>2, <1>3, <1>5, <2>1, StaffRead, OneDelivers
<1>6. CASE q.at = "session"
  <2>1. v7' = [v7 EXCEPT ![d] = Live!ReadSession(q, s)]
    BY <1>1, <1>2, <1>6 DEF Live!Check
  <2> QED  BY <1>1, <1>2, <1>3, <1>6, <2>1, SessionRead, OneDelivers
<1>7. CASE q.at = "actor"
  <2>1. v7' = [v7 EXCEPT ![d] = Live!ReadActor(q, s)]
    BY <1>1, <1>2, <1>7 DEF Live!Check
  <2> QED  BY <1>1, <1>2, <1>3, <1>7, <2>1, ActorRead, OneDelivers
<1>8. CASE q.at = "query"
  <2>1. v7' = [v7 EXCEPT ![d] = Live!ReadDepartment(q, s)]
    BY <1>1, <1>2, <1>8 DEF Live!Check
  <2> QED  BY <1>1, <1>2, <1>3, <1>8, <2>1, DepartmentRead, OneDelivers
<1>9. CASE q.at = "token"
  <2>1. v7' = [v7 EXCEPT ![d] = Live!ReadToken(q, s)]
    BY <1>1, <1>2, <1>9 DEF Live!Check
  <2> QED  BY <1>1, <1>2, <1>3, <1>9, <2>1, TokenRead, OneDelivers
<1> QED  BY <1>4, <1>5, <1>6, <1>7, <1>8, <1>9

LEMMA ThrowsOne ==
  ASSUME Live!IInv, NEW d \in Deliveries, Live!Throws(d)
  PROVE  Live!IInv'
<1>1. PICK q : q = v7[d]
  OBVIOUS
<1>2. PICK s, u : s = Head(q.todo) /\ u = UserOf[s]
  OBVIOUS
<1>3. UNCHANGED <<v1, v2, v3, v4, v6>>
  BY DEF Live!Throws, Live!accessVars
<1>4. CASE q.at \in {"actor", "staff"} /\ u # Nil
  <2>1. /\ Live!DeliveryInv(q) /\ Nonempty(q.since) /\ FieldTypes(q) /\ s \in Sockets
        /\ Live!Progress(s, q) /\ q.at # "done"
    BY <1>1, <1>2, <1>4, UnderWay
  <2>2. s \in Live!Identified /\ u \in HostUsers
    BY <1>2, <1>4, <2>1, OwnerOf
  <2>3. PICK w : w = Live!Unresolved(q, u)
    OBVIOUS
  <2>4. /\ Live!DeliveryInv(w) /\ w.at = q.at /\ w.todo = q.todo /\ w.event = q.event /\ w.faulty = TRUE
        /\ Grown(q.since, w.since) /\ "nobody" \in w.since.role[u]
    BY <2>1, <2>2, <2>3, UnresolvedToo
  <2>5. CASE q.at = "actor"
    <3>1. v7' = [v7 EXCEPT ![d] = Live!Passed(w, "token")]
      BY <1>1, <1>2, <2>3, <2>5 DEF Live!Throws
    <3>2. PICK v : v = Live!Passed(w, "token")
      OBVIOUS
    <3>3. v.at = "token" /\ v.event = w.event /\ v.todo = w.todo /\ v.since = w.since
      BY <2>4, <3>2 DEF Live!Passed, Live!DeliveryInv, Live!Underway
    <3>4. Live!StaffPassed(s, w) /\ Live!SessionPassed(s, w)
      <4>1. Live!StaffPassed(s, q) /\ Live!SessionPassed(s, q)
        BY <2>1, <2>5 DEF Live!Progress
      <4> QED  BY <1>2, <2>2, <2>4, <4>1 DEF Grown, Live!StaffPassed, Live!SessionPassed
    <3>5. Live!Progress(s, v)
      BY <1>2, <2>4, <3>3, <3>4 DEF Live!Progress, Live!StaffPassed, Live!SessionPassed
    <3>6. Live!DeliveryInv(v)
      BY <1>2, <2>1, <2>4, <3>2, <3>3, <3>5, GoesOn
    <3> QED  BY <1>3, <3>1, <3>2, <3>6, OneDelivers
  <2>6. CASE q.at = "staff"
    <3>1. v7' = [v7 EXCEPT ![d] = Live!NextSocket(w, FALSE)]
      BY <1>1, <1>2, <2>3, <2>6 DEF Live!Throws
    <3>2. Live!DeliveryInv(Live!NextSocket(w, FALSE))
      BY <2>1, <2>4, NextOne
    <3> QED  BY <1>3, <3>1, <3>2, OneDelivers
  <2> QED  BY <1>4, <2>5, <2>6
<1>5. CASE q.at \in {"session", "query", "token"}
  <2>1. v7' = [v7 EXCEPT ![d] = [Live!Passed(q, "done") EXCEPT !.faulty = TRUE]]
    BY <1>1, <1>2, <1>5 DEF Live!Throws
  <2>2. Live!DeliveryInv(q) /\ q.at # "done"
    BY <1>1, <1>5, UnderWay
  <2> QED  BY <1>3, <2>1, <2>2, GivenUp, OneDelivers
<1> QED  BY <1>1, <1>2, <1>4, <1>5 DEF Live!Throws

\* An event: every socket due is still to come.
LEMMA Delivers ==
  ASSUME Live!IInv, NEW d \in Deliveries, NEW event \in Live!TicketEvents \union Live!ChatEvents,
         Live!deliverScoped(d, event)
  PROVE  Live!IInv'
<1>1. PICK due : due = {s \in v6 : Live!InRoom(s, event)}
  OBVIOUS
<1>2. due \subseteq Sockets /\ due \subseteq v6 /\ IsFiniteSet(due)
  <2>1. IsFiniteSet(Sockets)
    BY SocketsHaveUsers, LiveFinite DEF Live!LiveAssumption
  <2>2. due \subseteq Sockets
    BY <1>1 DEF Live!IInv
  <2> QED  BY <1>1, <2>1, <2>2, FS_Subset
<1>3. PICK todo : todo = Live!SetToSeq(due)
  OBVIOUS
<1>4. todo \in Seq(due) /\ todo \in Seq(Sockets) /\ \A s \in due : \E i \in 1 .. Len(todo) : todo[i] = s
  BY <1>2, <1>3, SetInOrder
<1>5. PICK since : since = [role |-> [u \in HostUsers |-> {v1[u]}], member |-> [u \in HostUsers |-> {(u \in v2)}],
                            granted |-> {v3}, chatting |-> {v4}]
  OBVIOUS
<1>6. /\ since.role = [u \in HostUsers |-> {v1[u]}] /\ since.member = [u \in HostUsers |-> {(u \in v2)}]
      /\ since.granted = {v3} /\ since.chatting = {v4}
  BY <1>5
<1>7. since \in Live!Seen
  <2>1. /\ since.role \in [HostUsers -> SUBSET (Live!Roles \union {"nobody"})]
        /\ since.member \in [HostUsers -> SUBSET BOOLEAN]
    BY <1>6 DEF Live!IInv
  <2>2. since.granted \in SUBSET BOOLEAN /\ since.chatting \in SUBSET BOOLEAN
    BY <1>6 DEF Live!IInv
  <2> QED  BY <1>5, <2>1, <2>2 DEF Live!Seen
<1>8. Nonempty(since)
  BY <1>6 DEF Nonempty
<1>9. PICK w : w = [at |-> IF due = {} THEN "done" ELSE Live!FirstCheck(event), event |-> event,
                    todo |-> todo, heard |-> {}, due |-> due, faulty |-> FALSE, since |-> since]
  OBVIOUS
<1>10. /\ w.at = (IF due = {} THEN "done" ELSE Live!FirstCheck(event)) /\ w.event = event /\ w.todo = todo
       /\ w.heard = {} /\ w.due = due /\ w.faulty = FALSE /\ w.since = since
  BY <1>9
<1>11. Live!FirstCheck(event) \in {"staff", "session", "actor"}
  BY DEF Live!FirstCheck
<1>12. w \in Live!Underway
  BY <1>2, <1>4, <1>7, <1>9, <1>11 DEF Live!Underway
<1>13. Body(w)
  BY <1>4, <1>8, <1>10, <1>12 DEF Body
<1>14. Live!DeliveryInv(w)
  <2>1. CASE due = {}
    <3>1. todo = <<>>
      BY <1>4, <2>1
    <3> QED  BY <1>10, <1>13, <2>1, <3>1, DeliveryParts
  <2>2. CASE due # {}
    <3>1. todo # <<>>
      BY <1>4, <2>2
    <3>2. w.event.staffOnly \in BOOLEAN /\ w.event.chat \in BOOLEAN
      BY <1>10, EventFlags
    <3>3. Live!Progress(Head(w.todo), w) /\ w.at # "done"
      BY <1>10, <1>11, <2>2, <3>2, FirstProgress
    <3>4. Live!Noted(w)
      BY <1>6, <1>10 DEF Live!Noted
    <3>5. \A i \in 1 .. Len(w.todo) : w.todo[i] \in w.due
      BY <1>4, <1>10
    <3> QED  BY <1>10, <1>13, <3>1, <3>3, <3>4, <3>5, DeliveryParts DEF Going
  <2> QED  BY <2>1, <2>2
<1>15. v7' = [v7 EXCEPT ![d] = w] /\ UNCHANGED <<v1, v2, v3, v4, v6>>
  BY <1>1, <1>3, <1>5, <1>9 DEF Live!deliverScoped, Live!accessVars
<1> QED  BY <1>14, <1>15, OneDelivers

\* What is so after a change is noted, and everything that was.
LEMMA NotesMore ==
  ASSUME NEW seen \in Live!Seen, NEW more, more = Live!Noting(seen),
         v1' \in [HostUsers -> Live!Roles], v3' \in BOOLEAN, v4' \in BOOLEAN
  PROVE  /\ more \in Live!Seen /\ Grown(seen, more)
         /\ \A u \in HostUsers : v1'[u] \in more.role[u] /\ (u \in v2') \in more.member[u]
         /\ v3' \in more.granted /\ v4' \in more.chatting
<1>1. /\ /\ seen.role \in [HostUsers -> SUBSET (Live!Roles \union {"nobody"})]
      /\ seen.member \in [HostUsers -> SUBSET BOOLEAN]
      /\ seen.granted \in SUBSET BOOLEAN /\ seen.chatting \in SUBSET BOOLEAN
  BY DEF Live!Seen
<1>2. /\ more.role = [u \in HostUsers |-> seen.role[u] \union {v1'[u]}]
      /\ more.member = [u \in HostUsers |-> seen.member[u] \union {(u \in v2')}]
      /\ more.granted = seen.granted \union {v3'} /\ more.chatting = seen.chatting \union {v4'}
      /\ more = [role |-> more.role, member |-> more.member, granted |-> more.granted, chatting |-> more.chatting]
  BY DEF Live!Noting
<1>3. more.role \in [HostUsers -> SUBSET (Live!Roles \union {"nobody"})]
  BY <1>1, <1>2
<1>4. more.member \in [HostUsers -> SUBSET BOOLEAN]
  <2>1. \A u \in HostUsers : seen.member[u] \subseteq BOOLEAN /\ (u \in v2') \in BOOLEAN
    BY <1>1
  <2>2. \A u \in HostUsers : (seen.member[u] \union {(u \in v2')}) \in SUBSET BOOLEAN
    BY <2>1, Zenon
  <2> QED  BY <1>2, <2>2
<1>5. more.granted \in SUBSET BOOLEAN /\ more.chatting \in SUBSET BOOLEAN
  BY <1>1, <1>2
<1>6. more \in Live!Seen
  BY <1>2, <1>3, <1>4, <1>5 DEF Live!Seen
<1>7. Grown(seen, more)
  BY <1>2 DEF Grown
<1> QED  BY <1>2, <1>6, <1>7

LEMMA ChangesNoted ==
  ASSUME Live!IInv, Live!AccessChanges
  PROVE  Live!IInv'
<1>1. v1' \in [HostUsers -> Live!Roles] /\ v2' \subseteq HostUsers /\ v3' \in BOOLEAN /\ v4' \in BOOLEAN /\ v6' = v6
  BY DEF Live!IInv, Live!AccessChanges
<1>2. DOMAIN v7' = Deliveries
  BY DEF Live!AccessChanges
<1>3. ASSUME NEW d \in Deliveries PROVE (v7[d] = Live!NoDelivery \/ Live!DeliveryInv(v7[d]))'
  <2>1. PICK q : q = v7[d]
    OBVIOUS
  <2>2. PICK w : w = v7'[d]
    OBVIOUS
  <2>3. w = IF q.at \in {"none", "done"} THEN q ELSE [q EXCEPT !.since = Live!Noting(q.since)]
    BY <2>1, <2>2 DEF Live!AccessChanges
  <2>4. q = Live!NoDelivery \/ Live!DeliveryInv(q)
    BY <2>1 DEF Live!IInv
  <2>5. CASE q = Live!NoDelivery
    <3>1. w = Live!NoDelivery
      BY <2>3, <2>5 DEF Live!NoDelivery
    <3> QED  BY <2>2, <3>1 DEF Live!NoDelivery
  <2>6. CASE Live!DeliveryInv(q) /\ q.at = "done"
    <3>1. w = q
      BY <2>3, <2>6
    <3>2. Live!DeliveryInv(q)'
      BY <1>1, <2>6 DEF Live!DeliveryInv, Live!Settled
    <3> QED  BY <2>2, <3>1, <3>2
  <2>7. CASE Live!DeliveryInv(q) /\ q.at # "done"
    <3>1. Body(q) /\ Going(q)
      BY <2>7, DeliveryParts
    <3>2. FieldTypes(q)
      BY <3>1, Fields DEF Body
    <3>3. PICK more : more = Live!Noting(q.since)
      OBVIOUS
    <3>4. /\ more \in Live!Seen /\ Grown(q.since, more)
          /\ \A u \in HostUsers : v1'[u] \in more.role[u] /\ (u \in v2') \in more.member[u]
          /\ v3' \in more.granted /\ v4' \in more.chatting
      BY <1>1, <3>2, <3>3, NotesMore DEF FieldTypes
    <3>5. w = [q EXCEPT !.since = more]
      BY <2>3, <2>7, <3>2, <3>3 DEF FieldTypes
    <3>6. /\ w \in Live!Underway /\ w.at = q.at /\ w.event = q.event /\ w.todo = q.todo /\ w.heard = q.heard
          /\ w.due = q.due /\ w.faulty = q.faulty /\ w.since = more
      BY <3>1, <3>4, <3>5 DEF Body, Live!Underway
    <3>7. \A s \in Sockets : /\ Live!StaffOnce(s, q) => Live!StaffOnce(s, w)
                             /\ Live!SeesOnce(s, q) => Live!SeesOnce(s, w)
                             /\ Live!DeniedOnce(s, q) => Live!DeniedOnce(s, w)
      BY <3>4, <3>6, OnceGrows
    <3>8. \A s \in w.heard : Live!StaffOnce(s, w) /\ Live!SeesOnce(s, w)
      BY <3>1, <3>2, <3>6, <3>7 DEF Body, FieldTypes
    <3>9. ~w.faulty => \A s \in w.due : Live!Settled(s, w) \/ \E i \in 1 .. Len(w.todo) : w.todo[i] = s
      BY <3>1, <3>2, <3>6, <3>7 DEF Body, FieldTypes, Live!Settled
    <3>10. Nonempty(w.since)
      BY <3>1, <3>4, <3>6 DEF Body, Grown, Nonempty
    <3>11. Live!Progress(Head(w.todo), w)
      BY <2>7, <3>1, <3>2, <3>4, <3>6, HeadOf, ProgressGrows DEF Going
    <3>12. Live!Noted(w)'
      BY <3>4, <3>6 DEF Live!Noted
    <3>13. Live!DeliveryInv(w)'
      BY <1>1, <2>7, <3>1, <3>6, <3>8, <3>9, <3>10, <3>11, <3>12
         DEF Body, Going, Nonempty, Live!DeliveryInv, Live!Settled
    <3> QED  BY <2>2, <3>13
  <2> QED  BY <2>4, <2>5, <2>6, <2>7
<1> QED  BY <1>1, <1>2, <1>3 DEF Live!IInv

\* Sockets join, leave and go: nothing else is about them.
LEMMA SocketsGo ==
  ASSUME Live!IInv, UNCHANGED <<v1, v2, v3, v4, v7>>, v6' \subseteq v6
  PROVE  Live!IInv'
<1>1. ASSUME NEW q, Live!DeliveryInv(q) PROVE Live!DeliveryInv(q)'
  BY <1>1 DEF Live!DeliveryInv, Live!Settled, Live!Noted
<1>2. ASSUME NEW d \in Deliveries PROVE (v7[d] = Live!NoDelivery \/ Live!DeliveryInv(v7[d]))'
  <2>1. PICK q : q = v7[d] /\ q = v7'[d]
    OBVIOUS
  <2>2. CASE q = Live!NoDelivery
    BY <2>1, <2>2 DEF Live!NoDelivery
  <2>3. CASE Live!DeliveryInv(q)
    <3>1. Live!DeliveryInv(q)'
      BY <1>1, <2>3
    <3> QED  BY <2>1, <3>1
  <2> QED  BY <2>1, <2>2, <2>3 DEF Live!IInv
<1> QED  BY <1>2 DEF Live!IInv

LEMMA LiveInit == Live!Init => Live!IInv
<1> SUFFICES ASSUME Live!Init PROVE Live!IInv
  OBVIOUS
<1>1. v1 \in [HostUsers -> Live!Roles] /\ v2 \subseteq HostUsers
  BY DEF Live!Init, Live!Roles
<1>2. v3 \in BOOLEAN /\ v4 \in BOOLEAN /\ v6 \subseteq Sockets /\ v7 = [d \in Deliveries |-> Live!NoDelivery]
  BY DEF Live!Init
<1> QED  BY <1>1, <1>2 DEF Live!IInv

LEMMA LiveNext == Live!IInv /\ Live!Next => Live!IInv'
<1> SUFFICES ASSUME Live!IInv, Live!Next PROVE Live!IInv'
  OBVIOUS
<1>1. ASSUME NEW s \in Sockets, NEW room \in Live!Rooms, Live!Join(s, room) \/ Live!Leave(s, room) PROVE Live!IInv'
  BY <1>1, SocketsGo DEF Live!Join, Live!Leave, Live!accessVars
<1>2. ASSUME NEW s \in Sockets, Live!handleDisconnect(s) PROVE Live!IInv'
  BY <1>2, SocketsGo DEF Live!handleDisconnect, Live!accessVars
<1>3. ASSUME NEW d \in Deliveries, Live!Check(d) \/ Live!Throws(d) PROVE Live!IInv'
  BY <1>3, Checks, ThrowsOne
<1> QED  BY <1>1, <1>2, <1>3, ChangesNoted, Delivers DEF Live!Next

LEMMA LiveStutter == Live!IInv /\ UNCHANGED <<v1, v2, v3, v4, v6, v7>> => Live!IInv'
  BY SocketsGo

\* What the invariant says of a delivery that is over, and of one under way.
LEMMA LiveHeard == Live!IInv => Live!HeardByThoseWhoMay
<1> SUFFICES ASSUME Live!IInv, NEW d \in Deliveries, NEW s \in v7[d].due
             PROVE  /\ s \in v7[d].heard => Live!StaffOnce(s, v7[d]) /\ Live!SeesOnce(s, v7[d])
                    /\ v7[d].at = "done" /\ ~v7[d].faulty /\ s \in v6 /\ ~Live!DeniedOnce(s, v7[d])
                       => s \in v7[d].heard
  BY DEF Live!HeardByThoseWhoMay, Live!StaffOnce, Live!SeesOnce, Live!DeniedOnce
<1>1. Live!DeliveryInv(v7[d])
  BY DEF Live!IInv, Live!NoDelivery
<1>2. PICK q : q = v7[d]
  OBVIOUS
<1>3. s \in q.heard => Live!StaffOnce(s, q) /\ Live!SeesOnce(s, q)
  BY <1>1, <1>2 DEF Live!DeliveryInv
<1>4. q.at = "done" /\ ~q.faulty => Live!Settled(s, q)
  BY <1>1, <1>2 DEF Live!DeliveryInv
<1> QED  BY <1>2, <1>3, <1>4 DEF Live!Settled

HeardAndProven ==
  /\ part = "live"   => Live!IInv
  /\ part = "grants" => Grants!IInv

\* A live update is heard by those who may, and by all of them, however their access changes
\* meanwhile; and a guest does to a ticket what their mailbox was proven for.
THEOREM UpdatesAndGuestsKeepToTheirTickets == Spec => []AudienceLaw
<1>1. Init => HeardAndProven
  BY LiveInit, GrantsInit DEF Init, HeardAndProven
<1>2. HeardAndProven /\ Next => HeardAndProven'
  BY LiveNext, GrantsNext DEF Next, HeardAndProven
<1>3. HeardAndProven /\ UNCHANGED vars => HeardAndProven'
  BY LiveStutter, GrantsStutter DEF vars, HeardAndProven
<1>4. HeardAndProven => AudienceLaw
  BY LiveHeard, GrantsAct DEF HeardAndProven, AudienceLaw
<1>5. HeardAndProven /\ [Next]_vars => HeardAndProven'
  BY <1>2, <1>3
<1> QED  BY <1>1, <1>4, <1>5, PTL DEF Spec

================================================================================
