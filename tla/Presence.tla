-------------------------------- MODULE Presence --------------------------------
(***************************************************************************)
(* Which customers are online.  A request of a signed-in customer, or of   *)
(* the widget for a ticket, writes when they were last seen, unless that   *)
(* was written a moment ago; several requests run at once.  A ticket's     *)
(* customer is its requester, or its contact, or nobody but the ticket.    *)
(***************************************************************************)
EXTENDS Naturals

CONSTANTS
  Tickets,     \* ticket |-> its requester, its contact (Nobody for null) and the person behind it
  Nobody,
  SharedGuest, \* guestPolicy guest_user: the host user that stands for every guest
  Staff,       \* host users with an agent profile
  Tabs,        \* requests at once
  Window,      \* presence.onlineWindowSeconds, in ticks
  Throttle,    \* PRESENCE_THROTTLE_SECONDS, in ticks
  MaxClock     \* bound on the clock

VARIABLES
  now,
  lastSeenAt,  \* subject |-> when its row was written, or Never
  seeing,      \* tab |-> Idle or the request it records
  lastRequest, \* history: person |-> when their last recorded request was made
  slowest      \* history: how long the slowest request took

ThrottleAssumption == Throttle \in Nat

presenceVars == <<now, lastSeenAt, seeing, lastRequest, slowest>>

Never == 0
Idle  == [at |-> "idle"]
Ticket == DOMAIN Tickets
\* Nobody signs in as the shared guest user.
Users  == {Tickets[t].requester : t \in Ticket} \ {Nobody, SharedGuest}
Subject == ({"user", "contact"} \X ({Tickets[t].requester : t \in Ticket} \cup {Tickets[t].contact : t \in Ticket}))
             \cup ({"ticket"} \X Ticket)

\* Mutant: the shared guest user is a user like any other.
subjectOfAnyUser(t) ==
  CASE Tickets[t].requester # Nobody -> <<"user", Tickets[t].requester>>
    [] Tickets[t].requester = Nobody /\ Tickets[t].contact # Nobody -> <<"contact", Tickets[t].contact>>
    [] OTHER -> <<"ticket", t>>

subjectOf(t) ==
  CASE Tickets[t].requester \notin {Nobody, SharedGuest} -> <<"user", Tickets[t].requester>>
    [] Tickets[t].requester \in {Nobody, SharedGuest} /\ Tickets[t].contact # Nobody -> <<"contact", Tickets[t].contact>>
    [] OTHER -> <<"ticket", t>>

-----------------------------------------------------------------------------
\* One request: what it sees and the time it took first.
see(tab, subject, person) ==
  /\ seeing[tab] = Idle
  /\ seeing' = [seeing EXCEPT ![tab] = [at |-> "update", subject |-> subject, person |-> person, time |-> now]]
  /\ UNCHANGED <<now, lastSeenAt, lastRequest, slowest>>

\* The customer portal: the signed-in user, who is not staff.
seeUser(tab, u) == u \notin Staff /\ see(tab, <<"user", u>>, u)

\* The widget has served a ticket.
seeTicketCustomer(tab, t) == see(tab, subjectOf(t), Tickets[t].person)

Later(a, b) == IF a > b THEN a ELSE b

Recorded(tab) ==
  /\ lastRequest' = [lastRequest EXCEPT ![seeing[tab].person] = Later(seeing[tab].time, @)]
  /\ slowest' = Later(now - seeing[tab].time, slowest)

\* Mutant: a row there is written whatever its age.
WriteAnyway(tab) ==
  /\ seeing[tab].at = "update"
  /\ LET s == seeing[tab].subject IN
       IF lastSeenAt[s] # Never
       THEN /\ lastSeenAt' = [lastSeenAt EXCEPT ![s] = seeing[tab].time]
            /\ seeing' = [seeing EXCEPT ![tab] = Idle] /\ Recorded(tab)
       ELSE seeing' = [seeing EXCEPT ![tab].at = "exists"] /\ UNCHANGED <<lastSeenAt, lastRequest, slowest>>
  /\ UNCHANGED now

\* The row, when it is Throttle older than the request.
WriteThrottled(tab) ==
  /\ seeing[tab].at = "update"
  /\ LET s == seeing[tab].subject IN
       IF lastSeenAt[s] # Never /\ lastSeenAt[s] + Throttle <= seeing[tab].time
       THEN /\ lastSeenAt' = [lastSeenAt EXCEPT ![s] = seeing[tab].time]
            /\ seeing' = [seeing EXCEPT ![tab] = Idle] /\ Recorded(tab)
       ELSE seeing' = [seeing EXCEPT ![tab].at = "exists"] /\ UNCHANGED <<lastSeenAt, lastRequest, slowest>>
  /\ UNCHANGED now

\* A row that is there was younger.
RowExists(tab) ==
  /\ seeing[tab].at = "exists"
  /\ IF lastSeenAt[seeing[tab].subject] # Never
     THEN seeing' = [seeing EXCEPT ![tab] = Idle] /\ Recorded(tab)
     ELSE seeing' = [seeing EXCEPT ![tab].at = "insert"] /\ UNCHANGED <<lastRequest, slowest>>
  /\ UNCHANGED <<now, lastSeenAt>>

\* Refused when another request was first.
InsertRow(tab) ==
  /\ seeing[tab].at = "insert"
  /\ lastSeenAt' = [lastSeenAt EXCEPT ![seeing[tab].subject] = IF @ = Never THEN seeing[tab].time ELSE @]
  /\ seeing' = [seeing EXCEPT ![tab] = Idle] /\ Recorded(tab)
  /\ UNCHANGED now

\* What the staff's pages show of a ticket's customer.
requesterOnline(t) ==
  lastSeenAt[subjectOf(t)] # Never /\ lastSeenAt[subjectOf(t)] + Window >= now

PresenceTick == now < MaxClock /\ now' = now + 1 /\ UNCHANGED <<lastSeenAt, seeing, lastRequest, slowest>>

PresenceInit ==
  /\ now = 1 /\ lastSeenAt = [s \in Subject |-> Never]
  /\ seeing = [tab \in Tabs |-> Idle]
  /\ lastRequest = [p \in {Tickets[t].person : t \in Ticket} \cup Users |-> Never]
  /\ slowest = 0

PresenceNext ==
  \/ \E tab \in Tabs : \/ \E u \in Users : seeUser(tab, u)
                       \/ \E t \in Ticket : seeTicketCustomer(tab, t)
  \/ \E tab \in Tabs : seeing[tab] # Idle /\ (WriteThrottled(tab) \/ RowExists(tab) \/ InsertRow(tab))
  \/ PresenceTick

PresenceSpec == PresenceInit /\ [][PresenceNext]_presenceVars

-----------------------------------------------------------------------------
\* Rows and requests have the states the tables and the handler give them.
PresenceTypeOK ==
  /\ lastSeenAt \in [Subject -> Never..MaxClock]
  /\ \A tab \in Tabs : seeing[tab].at \in {"idle", "update", "exists", "insert"}

\* A ticket shows its customer online only when the person behind it was there within the
\* window: nobody else's requests, not those of the user all guests share, make it so.
\* A customer whose request was recorded within the window, less the throttle or what the
\* slowest request took (one that began earlier may insert the row), shows online.
OnlineIsThem ==
  \A t \in Ticket :
    LET p == Tickets[t].person IN
    /\ requesterOnline(t) =>
         \/ lastRequest[p] # Never /\ lastRequest[p] + Window >= now
         \/ \E tab \in Tabs : seeing[tab] # Idle /\ seeing[tab].person = p
    /\ (subjectOf(t)[1] = "user" /\ lastRequest[p] # Never /\ lastRequest[p] + Window >= now + Later(Throttle, slowest))
         => requesterOnline(t)

\* A slow request never takes a customer back to an earlier time.
SeenForward == \A s \in Subject : lastSeenAt'[s] >= lastSeenAt[s]

\* Why it holds: rows and requests carry times of the clock.
IInv ==
  /\ now \in Nat /\ lastSeenAt \in [Subject -> Nat] /\ DOMAIN seeing = Tabs
  /\ \A tab \in Tabs : seeing[tab].at # "idle" => seeing[tab].time \in Nat /\ seeing[tab].subject \in Subject
================================================================================
