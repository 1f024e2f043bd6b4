------------------------------ MODULE GuestGrants ------------------------------
(***************************************************************************)
(* Tickets of people without an account, over the widget, the guest        *)
(* screens and the mobile API.  A proven email gets a grant: it names one  *)
(* ticket, is replaced by the next grant of that ticket, ends with its     *)
(* time, with the process when no secret is configured, and when the       *)
(* ticket's contact gets another email.  Every request reads the ticket,   *)
(* then its contact, then acts; two requests, a change of the contact by   *)
(* the host and the sign-up of the guest come between.                     *)
(*                                                                         *)
(* The one-time code that proves an email is GuestCodes; a reply or rating *)
(* that is refused for its text is left out.                               *)
(***************************************************************************)
EXTENDS Naturals, FiniteSets

CONSTANTS
  Tickets, Emails,
  Users, GuestUser, Staff, \* host users, the guest policy's user, who answers
  Requests,
  SecretConfigured,        \* guestAccess.secret, or a key made by the process
  Ttl,
  None,
  MaxClock, MaxReplies, MaxGrants, MaxFaults, MaxChanges  \* bounds

GrantsAssumption ==
  /\ SecretConfigured \in BOOLEAN /\ Ttl \in Nat /\ MaxClock \in Nat
  /\ GuestUser \notin Users /\ 0 \notin Users /\ Staff \notin Users \cup {GuestUser, 0}

VARIABLES
  clock, process,   \* now, and which process (its key) serves
  policy,           \* the guest_policy setting: whom guest tickets are filed under
  row,              \* the tickets
  contact,          \* the email and the user of each ticket's contact
  replies, ratings, \* what was filed on them
  grants,           \* every grant handed out
  req,
  faults, changes

vars == <<clock, process, policy, row, contact, replies, ratings, grants, req, faults, changes>>

NoTicket == [filed |-> FALSE, requester |-> None, solved |-> FALSE, answered |-> FALSE,
             proven |-> None, nonce |-> 0, until |-> 0]
Contact == [email : Emails \cup {None}, user : Users \cup {None}]
Idle == [at |-> "idle", kind |-> None, ticket |-> None, email |-> None, seen |-> NoTicket,
         grant |-> None, owners |-> {}, nonces |-> {}]

-----------------------------------------------------------------------------
(* What a grant opens                                                        *)

guestEmail(t) == contact[t].email
emailDigest(e) == <<e, process>>
markVerified(seen, e) == [seen EXCEPT !.proven = emailDigest(e)]
\* Mutant: the proof is trusted without looking at the contact again
verifiedOnce(t, seen) == seen.proven # None
(* The proven email is still the ticket's guest email. *)
verified(t, seen) ==
  seen.proven # None /\ guestEmail(t) # None /\ seen.proven = emailDigest(guestEmail(t))
(* What resolve reads from the token and the ticket; `verified` comes one query later. *)
names(g, seen) ==
  /\ g.key = process /\ g.until > clock
  /\ seen.filed /\ seen.nonce # 0 /\ seen.until > clock /\ seen.until = g.until
  /\ seen.nonce = g.nonce /\ seen.proven = g.proven
requesterIdForPolicy == IF policy = "guest_user" THEN GuestUser ELSE 0

(* The requests that are about a ticket have seen whoever was its guest meanwhile. *)
Watched(t, email, nonce) ==
  [r \in Requests |-> IF req[r].ticket # t THEN req[r]
     ELSE [req[r] EXCEPT !.owners = @ \cup {email}, !.nonces = @ \cup {nonce}]]

-----------------------------------------------------------------------------
(* Getting a grant                                                           *)

Granting(r, t, e, seen) ==
  [req EXCEPT ![r] = [Idle EXCEPT !.at = "granting", !.ticket = t, !.email = e, !.seen = markVerified(seen, e)]]

(* A guest files a ticket: its contact is found or made by the proven email, its requester is    *)
(* the policy's.  The widget, the screens and the mobile API each do so.                         *)
File(r, t, e) ==
  /\ req[r].at = "idle" /\ ~row[t].filed
  /\ row' = [row EXCEPT ![t] = [NoTicket EXCEPT !.filed = TRUE, !.requester = requesterIdForPolicy]]
  /\ contact' = [contact EXCEPT ![t] = [email |-> e, user |-> None]]
  /\ req' = Granting(r, t, e, row'[t])
  /\ UNCHANGED <<clock, process, policy, replies, ratings, grants, faults, changes>>
fileTicket(r, t, e) == File(r, t, e)
store(r, t, e) == File(r, t, e)
create(r, t, e) == File(r, t, e)
(* A page on another site that embeds the widget is always a guest: the signed-in user is dropped. *)
actingUser(u, embedded) == IF embedded THEN None ELSE u
(* Only a signed-in user can file a ticket without an email. *)
createTicket(t, u, embedded) ==
  /\ ~row[t].filed /\ actingUser(u, embedded) # None
  /\ row' = [row EXCEPT ![t] = [NoTicket EXCEPT !.filed = TRUE, !.requester = actingUser(u, embedded)]]
  /\ UNCHANGED <<clock, process, policy, contact, replies, ratings, grants, req, faults, changes>>
(* `POST lookup` with a spent code: the ticket of this reference whose contact has that email. *)
lookup(r, t, e) ==
  /\ req[r].at = "idle" /\ row[t].filed /\ guestEmail(t) = e
  /\ req' = Granting(r, t, e, row[t])
  /\ UNCHANGED <<clock, process, policy, row, contact, replies, ratings, grants, faults, changes>>
(* issue: the email is looked up again, and the request fails when it is another one. *)
CheckIssue(r) ==
  /\ req[r].at = "granting"
  /\ req' = [req EXCEPT ![r] = IF verified(req[r].ticket, req[r].seen) THEN [@ EXCEPT !.at = "issuing"] ELSE Idle]
  /\ UNCHANGED <<clock, process, policy, row, contact, replies, ratings, grants, faults, changes>>
issue(r) ==
  LET t == req[r].ticket
      n == Cardinality(grants) + 1
      g == [ticket |-> t, nonce |-> n, until |-> clock + Ttl, key |-> process,
            email |-> req[r].email, proven |-> req[r].seen.proven]
  IN /\ req[r].at = "issuing" /\ n <= MaxGrants
     /\ row' = [row EXCEPT ![t].nonce = n, ![t].until = clock + Ttl, ![t].proven = g.proven]
     /\ grants' = grants \cup {g}
     /\ req' = [Watched(t, guestEmail(t), n) EXCEPT ![r] = Idle]
     /\ UNCHANGED <<clock, process, policy, contact, replies, ratings, faults, changes>>

-----------------------------------------------------------------------------
(* Using one                                                                 *)

(* The guard: the token is decrypted, its ticket read and compared. *)
resolve(r, g, kind) ==
  /\ req[r].at = "idle" /\ names(g, row[g.ticket])
  /\ req' = [req EXCEPT ![r] =
       [Idle EXCEPT !.at = "resolving", !.kind = kind, !.ticket = g.ticket, !.grant = g, !.email = g.email,
                    !.seen = row[g.ticket], !.owners = {guestEmail(g.ticket)}, !.nonces = {row[g.ticket].nonce}]]
  /\ UNCHANGED <<clock, process, policy, row, contact, replies, ratings, grants, faults, changes>>
ticketForToken(r) ==
  /\ req[r].at = "resolving"
  /\ req' = [req EXCEPT ![r] = IF verified(req[r].ticket, req[r].seen) THEN [@ EXCEPT !.at = "in"] ELSE Idle]
  /\ UNCHANGED <<clock, process, policy, row, contact, replies, ratings, grants, faults, changes>>
(* The guest screens read the ticket again with its status. *)
granted(r) ==
  /\ req[r].at = "in" /\ req[r].kind \in {"screen", "rate"}
  /\ req' = [req EXCEPT ![r].at = "read", ![r].seen = row[req[r].ticket]]
  /\ UNCHANGED <<clock, process, policy, row, contact, replies, ratings, grants, faults, changes>>
(* The mobile reply asks for the guest's email once more. *)
secondFactor(r, e) ==
  /\ req[r].at = "in" /\ req[r].kind = "mobile"
  /\ req' = [req EXCEPT ![r] = IF guestEmail(req[r].ticket) = e THEN [@ EXCEPT !.at = "read"] ELSE Idle]
  /\ UNCHANGED <<clock, process, policy, row, contact, replies, ratings, grants, faults, changes>>

(* The requester's own replies never count as the first answer. *)
Filed(t, user) == [row EXCEPT ![t].answered = @ \/ row[t].requester # user]
Post(r) == [ticket |-> req[r].ticket, user |-> req[r].seen.requester, guest |-> TRUE,
            fair |-> req[r].email \in req[r].owners /\ req[r].grant.nonce \in req[r].nonces]
Reply(r) ==
  /\ Cardinality(replies) < MaxReplies
  /\ replies' = replies \cup {Post(r)}
  /\ row' = Filed(req[r].ticket, req[r].seen.requester)
  /\ req' = [req EXCEPT ![r] = Idle]
  /\ UNCHANGED <<clock, process, policy, contact, ratings, grants, faults, changes>>
(* As the ticket's requester, as it was when the request read the ticket. *)
addReply(r) == req[r].at = "in" /\ req[r].kind = "widget" /\ Reply(r)
mobileReply(r) == req[r].at = "read" /\ req[r].kind = "mobile" /\ Reply(r)
screenReply(r) == req[r].at = "read" /\ req[r].kind = "screen" /\ ~req[r].seen.solved /\ Reply(r)
rate(r) ==
  /\ req[r].at = "read" /\ req[r].kind = "rate" /\ req[r].seen.solved
  /\ req' = [req EXCEPT ![r] = IF ratings[req[r].ticket] # {} THEN Idle ELSE [@ EXCEPT !.at = "rating"]]
  /\ UNCHANGED <<clock, process, policy, row, contact, replies, ratings, grants, faults, changes>>
(* Nothing makes the ticket of a rating unique: two that found none both write. *)
createRating(r) ==
  /\ req[r].at = "rating"
  /\ ratings' = [ratings EXCEPT ![req[r].ticket] = @ \cup {Post(r)}]
  /\ req' = [req EXCEPT ![r] = Idle]
  /\ UNCHANGED <<clock, process, policy, row, contact, replies, grants, faults, changes>>
Refuse(r) ==
  /\ req[r].at = "read"
  /\ req[r].kind = IF req[r].seen.solved THEN "screen" ELSE "rate"
  /\ req' = [req EXCEPT ![r] = Idle]
  /\ UNCHANGED <<clock, process, policy, row, contact, replies, ratings, grants, faults, changes>>

-----------------------------------------------------------------------------
(* Meanwhile                                                                 *)

Change == changes < MaxChanges /\ changes' = changes + 1
StaffReply(t) ==
  /\ row[t].filed /\ Cardinality(replies) < MaxReplies
  /\ replies' = replies \cup {[ticket |-> t, user |-> Staff, guest |-> FALSE, fair |-> TRUE]}
  /\ row' = Filed(t, Staff)
  /\ UNCHANGED <<clock, process, policy, contact, ratings, grants, req, faults, changes>>
Solve(t, on) ==
  /\ Change /\ row[t].filed /\ row[t].solved # on
  /\ row' = [row EXCEPT ![t].solved = on]
  /\ UNCHANGED <<clock, process, policy, contact, replies, ratings, grants, req, faults>>
SetPolicy ==
  /\ Change
  /\ policy' = IF policy = "guest_user" THEN "unassigned" ELSE "guest_user"
  /\ UNCHANGED <<clock, process, row, contact, replies, ratings, grants, req, faults>>
(* The host changes a contact's email. *)
ChangeEmail(t, e) ==
  /\ Change /\ guestEmail(t) \notin {None, e}
  /\ contact' = [contact EXCEPT ![t].email = e]
  /\ req' = Watched(t, e, row[t].nonce)
  /\ UNCHANGED <<clock, process, policy, row, replies, ratings, grants, faults>>
revoke(t) ==
  /\ Change /\ row[t].nonce # 0
  /\ row' = [row EXCEPT ![t].nonce = 0, ![t].until = 0]
  /\ UNCHANGED <<clock, process, policy, contact, replies, ratings, grants, req, faults>>
(* A guest who signed up: the contact is linked, then its tickets get the user as requester. *)
linkToUser(t, u) ==
  /\ Change /\ guestEmail(t) # None /\ contact[t].user = None
  /\ contact' = [contact EXCEPT ![t].user = u]
  /\ UNCHANGED <<clock, process, policy, row, replies, ratings, grants, req, faults>>
promoteToUser(t) ==
  /\ contact[t].user \notin {None, row[t].requester}
  /\ row' = [row EXCEPT ![t].requester = contact[t].user]
  /\ UNCHANGED <<clock, process, policy, contact, replies, ratings, grants, req, faults, changes>>
Tick ==
  /\ clock < MaxClock /\ clock' = clock + 1
  /\ UNCHANGED <<process, policy, row, contact, replies, ratings, grants, req, faults, changes>>
(* The process ends; without a configured secret the next one has another key. *)
Restart ==
  /\ faults < MaxFaults /\ faults' = faults + 1
  /\ process' = IF SecretConfigured THEN process ELSE process + 1
  /\ req' = [r \in Requests |-> Idle]
  /\ UNCHANGED <<clock, policy, row, contact, replies, ratings, grants, changes>>

-----------------------------------------------------------------------------
Init ==
  /\ clock = 0 /\ process = 0 /\ policy = "unassigned"
  /\ row = [t \in Tickets |-> NoTicket]
  /\ contact = [t \in Tickets |-> [email |-> None, user |-> None]]
  /\ replies = {} /\ ratings = [t \in Tickets |-> {}] /\ grants = {}
  /\ req = [r \in Requests |-> Idle] /\ faults = 0 /\ changes = 0

Request(r) ==
  \/ \E t \in Tickets, e \in Emails :
       fileTicket(r, t, e) \/ store(r, t, e) \/ create(r, t, e) \/ lookup(r, t, e)
  \/ CheckIssue(r) \/ issue(r)
  \/ \E g \in grants, kind \in {"widget", "screen", "mobile", "rate"} : resolve(r, g, kind)
  \/ ticketForToken(r) \/ granted(r) \/ \E e \in Emails : secondFactor(r, e)
  \/ addReply(r) \/ mobileReply(r) \/ screenReply(r) \/ rate(r) \/ createRating(r) \/ Refuse(r)
Meanwhile ==
  \/ \E t \in Tickets :
       \/ \E u \in Users, embedded \in BOOLEAN : createTicket(t, u, embedded)
       \/ StaffReply(t) \/ revoke(t) \/ promoteToUser(t)
       \/ \E on \in BOOLEAN : Solve(t, on)
       \/ \E e \in Emails : ChangeEmail(t, e)
       \/ \E u \in Users : linkToUser(t, u)
  \/ SetPolicy \/ Tick \/ Restart
Next == (\E r \in Requests : Request(r)) \/ Meanwhile
Spec == Init /\ [][Next]_vars

-----------------------------------------------------------------------------
TypeOK ==
  /\ clock \in 0 .. MaxClock /\ process \in 0 .. MaxFaults
  /\ contact \in [Tickets -> Contact]
  /\ \A t \in Tickets : row[t].nonce \in 0 .. MaxGrants
  /\ \A g \in grants : g.ticket \in Tickets /\ g.email \in Emails
  /\ \A r \in Requests : req[r].ticket \in Tickets \cup {None}

(* What a guest files, reply or rating, is filed by someone whose email the ticket's contact had *)
(* at some moment of that request, with a grant that was the ticket's newest at some moment of   *)
(* it: an earlier grant, or the grant of an email that is no longer the guest's, files nothing.  *)
ActsAsProven == \A p \in replies \cup UNION {ratings[t] : t \in Tickets} : p.fair

-----------------------------------------------------------------------------
(* Why it holds: a grant says whose email was proven and by which process, a request has seen  *)
(* every owner and every grant of its ticket since it began, and it is let in by its own.      *)

Digested(proven, email) == proven = <<email, process>>
Watching(q) ==
  q.at \in {"resolving", "in", "read", "rating"} =>
    /\ q.ticket \in Tickets /\ row[q.ticket].filed = TRUE
    /\ guestEmail(q.ticket) \in q.owners /\ q.grant.nonce \in q.nonces
    /\ q.at = "resolving" => Digested(q.seen.proven, q.email)
    /\ q.at # "resolving" => q.email \in q.owners
Proving(q) ==
  q.at \in {"granting", "issuing"} =>
    /\ q.ticket \in Tickets /\ row[q.ticket].filed = TRUE
    /\ q.email \in Emails /\ Digested(q.seen.proven, q.email)

RowType == [filed : BOOLEAN, requester : {None, 0, GuestUser} \cup Users, solved : BOOLEAN, answered : BOOLEAN,
            proven : {None} \cup (Emails \X Nat), nonce : Nat, until : Nat]
GrantType == [ticket : Tickets, nonce : Nat, until : Nat, key : Nat, email : Emails, proven : Emails \X Nat]
RequestType == [at : {"idle", "granting", "issuing", "resolving", "in", "read", "rating"},
                kind : {None, "widget", "screen", "mobile", "rate"}, ticket : Tickets \cup {None},
                email : Emails \cup {None}, seen : RowType,
                grant : {None} \cup GrantType,
                owners : SUBSET (Emails \cup {None}), nonces : SUBSET Nat]

IInv ==
  /\ row \in [Tickets -> RowType] /\ contact \in [Tickets -> Contact]
  /\ DOMAIN ratings = Tickets /\ req \in [Requests -> RequestType]
  /\ clock \in Nat /\ process \in Nat
  /\ IsFiniteSet(grants) /\ \A g \in grants : g \in GrantType /\ g.proven = <<g.email, g.key>>
  /\ \A r \in Requests : Watching(req[r]) /\ Proving(req[r])
  /\ \A p \in replies : p.fair = TRUE
  /\ \A t \in Tickets : \A p \in ratings[t] : p.fair = TRUE
===============================================================================
