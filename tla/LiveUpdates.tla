---------------------------- MODULE LiveUpdates -----------------------------
(***************************************************************************)
(* The live updates of one ticket and its chat (escalated.gateway.ts,      *)
(* ticket-access.ts): sockets join rooms, and every event is offered to    *)
(* the sockets of its room one after another, each checked anew with       *)
(* several awaits - who is behind it, whether that agent's departments     *)
(* hold the ticket, whether a guest's grant is good.  Roles, departments   *)
(* and grants change between any two of these steps, and a failing query   *)
(* ends the delivery for the sockets still to come.                        *)
(*                                                                         *)
(* External: socket.io hands out the sockets and their rooms as they were  *)
(* when asked, and drops what is sent to a socket that has gone.           *)
(***************************************************************************)
EXTENDS Naturals, Sequences, FiniteSets, SequencesExt

CONSTANTS Users, Requester, Sockets,
          UserOf,      \* the host user behind a socket, or NoUser for a guest
          Guests,      \* the sockets that carry the ticket's guest token
          Visitors,    \* the sockets that carry the chat's visitor token
          NoUser,
          Restricted,  \* visibility 'department'
          Assignee,    \* the agent events about assignments go to
          Deliveries, MaxJoined, MaxChanges, MaxFaults   \* bounds

VARIABLES role, member,      \* of each user; the agents of the ticket's department
          granted, chatting, \* whether the guest's grant and the visitor's token are good
          rooms, online,     \* of each socket
          delivery, changes, faults

accessVars == <<role, member, granted, chatting>>
vars == <<role, member, granted, chatting, rooms, online, delivery, changes, faults>>

(* Every socket is a host user's or nobody's, and the server has finitely many. *)
LiveAssumption == UserOf \in [Sockets -> Users \cup {NoUser}] /\ IsFiniteSet(Sockets)

Roles == {"customer", "agent", "admin"}
Rooms == {"ticket", "agent", "chat", "chat-queue"}
Identified == {s \in Sockets : UserOf[s] # NoUser}

(* isStaff, socketActor, restricted, allows: what the parts of a check read. *)
IsStaff(r) == r \in {"agent", "admin"}
restricted(r) == Restricted /\ r = "agent"
allows(r, inDepartment) == ~restricted(r) \/ inDepartment

(* socketCanSee: an admin; an agent of the department; the requester; a guest with a grant,   *)
(* whom the host does not call staff.  The host that fails to say who a user is says "nobody". *)
CanSee(s, r, inDepartment, grant) ==
    \/ s \in Identified /\ r = "admin"
    \/ s \in Identified /\ r = "agent" /\ allows(r, inDepartment)
    \/ s \in Identified /\ r = "customer" /\ UserOf[s] = Requester
    \/ s \in Guests /\ grant /\ (s \in Identified => ~IsStaff(r))

socketCanSee(s) ==
    CanSee(s, IF s \in Identified THEN role[UserOf[s]] ELSE "customer",
           s \in Identified /\ UserOf[s] \in member, granted)
socketCanSeeChat(s) == (s \in Visitors /\ chatting) \/ socketCanSee(s)

(* The handlers of events: the room, whether only staff hear it, whether it is checked against *)
(* the chat session rather than the ticket.  handleTicketCreated, -Updated, -ReplyCreated,     *)
(* -Assigned and handleSlaBreached; then handleChatStarted, -Accepted and -Ended, -Message and *)
(* -Typing.  A plugin's broadcast to a ticket goes like an update.                             *)
TicketEvents ==
    {[room |-> "all", staffOnly |-> TRUE, chat |-> FALSE],
     [room |-> "ticket", staffOnly |-> FALSE, chat |-> FALSE],
     [room |-> "ticket", staffOnly |-> TRUE, chat |-> FALSE],
     [room |-> "agent", staffOnly |-> TRUE, chat |-> FALSE]}

ChatEvents ==
    {[room |-> "chat-queue", staffOnly |-> TRUE, chat |-> FALSE],
     [room |-> "chat", staffOnly |-> FALSE, chat |-> FALSE],
     [room |-> "chat", staffOnly |-> FALSE, chat |-> TRUE],
     [room |-> "chat", staffOnly |-> TRUE, chat |-> TRUE]}

NoDelivery == [at |-> "none", event |-> [room |-> "none"], todo |-> <<>>, heard |-> {}, due |-> {},
               faulty |-> FALSE,
               since |-> [role |-> [u \in Users |-> {}], member |-> [u \in Users |-> {}],
                          granted |-> {}, chatting |-> {}]]

Init ==
    /\ role \in [Users -> {"customer", "agent"}] /\ role[Requester] = "customer"
    /\ member \in SUBSET {u \in Users : role[u] = "agent"}
    /\ granted \in BOOLEAN /\ chatting = TRUE
    /\ rooms = [s \in Sockets |-> {}]
    /\ online = Sockets      \* handleConnection turned the others away
    /\ delivery = [d \in Deliveries |-> NoDelivery]
    /\ changes = 0 /\ faults = 0

-----------------------------------------------------------------------------
(* join:ticket, join:chat, join:chat-queue and join:agent, each with its check; leaving and *)
(* going away need none.                                                                    *)
MayJoin(s, room) ==
    CASE room = "ticket" -> socketCanSee(s)
      [] room = "chat" -> socketCanSeeChat(s)
      [] OTHER -> s \in Identified /\ IsStaff(role[UserOf[s]])

Join(s, room) ==
    /\ s \in online /\ room \notin rooms[s] /\ MayJoin(s, room)
    /\ Cardinality({p \in Sockets \X Rooms : p[2] \in rooms[p[1]]}) < MaxJoined
    /\ rooms' = [rooms EXCEPT ![s] = @ \union {room}]
    /\ UNCHANGED <<accessVars, online, delivery, changes, faults>>

Leave(s, room) ==
    /\ changes < MaxChanges /\ changes' = changes + 1
    /\ room \in rooms[s] /\ room \in {"ticket", "chat"}
    /\ rooms' = [rooms EXCEPT ![s] = @ \ {room}]
    /\ UNCHANGED <<accessVars, online, delivery, faults>>

handleDisconnect(s) ==
    /\ changes < MaxChanges /\ changes' = changes + 1
    /\ s \in online
    /\ online' = online \ {s}
    /\ rooms' = [rooms EXCEPT ![s] = {}]
    /\ UNCHANGED <<accessVars, delivery, faults>>

(* What a delivery has seen: the facts that held at some moment since the event. *)
Noting(seen) ==
    [role |-> [u \in Users |-> seen.role[u] \union {role'[u]}],
     member |-> [u \in Users |-> seen.member[u] \union {(u \in member')}],
     granted |-> seen.granted \union {granted'},
     chatting |-> seen.chatting \union {chatting'}]

(* The host changes a role or a department; a grant ends or is given anew; the token expires. *)
AccessChanges ==
    /\ changes < MaxChanges /\ changes' = changes + 1
    /\ \/ \E u \in Users : \E r \in Roles \ {role[u]} :
             role' = [role EXCEPT ![u] = r] /\ UNCHANGED <<member, granted, chatting>>
       \/ \E u \in Users :
             /\ member' = IF u \in member THEN member \ {u} ELSE member \union {u}
             /\ UNCHANGED <<role, granted, chatting>>
       \/ granted' = ~granted /\ UNCHANGED <<role, member, chatting>>
       \/ chatting /\ chatting' = FALSE /\ UNCHANGED <<role, member, granted>>
    /\ delivery' = [d \in Deliveries |->
          IF delivery[d].at \in {"none", "done"} THEN delivery[d]
          ELSE [delivery[d] EXCEPT !.since = Noting(delivery[d].since)]]
    /\ UNCHANGED <<rooms, online, faults>>

-----------------------------------------------------------------------------
(* deliverScoped: the sockets of the room, as socket.io has them now; an agent's own room has *)
(* only that agent's sockets.                                                                 *)
InRoom(s, event) ==
    \/ event.room = "all"
    \/ event.room \in rooms[s] /\ (event.room = "agent" => UserOf[s] = Assignee)

FirstCheck(event) ==
    IF event.staffOnly THEN "staff" ELSE IF event.chat THEN "session" ELSE "actor"

deliverScoped(d, event) ==
    /\ delivery[d].at = "none"
    /\ \A other \in Deliveries : other < d => delivery[other].at # "none"
    /\ LET due == {s \in online : InRoom(s, event)} IN
       delivery' = [delivery EXCEPT ![d] =
          [at |-> IF due = {} THEN "done" ELSE FirstCheck(event), event |-> event,
           todo |-> SetToSeq(due), heard |-> {}, due |-> due, faulty |-> FALSE,
           since |-> [role |-> [u \in Users |-> {role[u]}],
                      member |-> [u \in Users |-> {(u \in member)}],
                      granted |-> {granted}, chatting |-> {chatting}]]]
    /\ UNCHANGED <<accessVars, rooms, online, changes, faults>>

Passed(q, at) == [q EXCEPT !.at = at]

\* Mutant: a socket that may not hear the event ends the delivery.
NextSocketOrEnd(q, emitted) ==
    LET s == Head(q.todo) IN
    [q EXCEPT !.at = IF Len(q.todo) = 1 \/ ~emitted THEN "done" ELSE FirstCheck(q.event),
              !.todo = Tail(q.todo),
              !.heard = IF emitted /\ s \in online THEN @ \union {s} ELSE @]

(* emit, or not, and on to the next socket. *)
NextSocket(q, emitted) ==
    LET s == Head(q.todo) IN
    [q EXCEPT !.at = IF Len(q.todo) = 1 THEN "done" ELSE FirstCheck(q.event),
              !.todo = Tail(q.todo),
              !.heard = IF emitted /\ s \in online THEN @ \union {s} ELSE @]

ReadStaff(q, s) ==
    IF s \in Identified /\ IsStaff(role[UserOf[s]])
    THEN Passed(q, IF q.event.chat THEN "session" ELSE "actor")
    ELSE NextSocket(q, FALSE)

ReadSession(q, s) ==
    IF s \in Visitors /\ chatting THEN NextSocket(q, TRUE) ELSE Passed(q, "actor")

ReadActor(q, s) ==
    LET u == UserOf[s]
        seen == role[u] = "admin" \/ (role[u] = "customer" /\ u = Requester)
    IN IF s \in Identified /\ seen THEN NextSocket(q, TRUE)
       ELSE Passed(q, IF s \in Identified /\ role[u] = "agent" THEN "query" ELSE "token")

ReadDepartment(q, s) == NextSocket(q, ~Restricted \/ UserOf[s] \in member)

ReadToken(q, s) == NextSocket(q, s \in Guests /\ granted)

Check(d) ==
    LET q == delivery[d]
        s == Head(q.todo)
    IN /\ q.at \notin {"none", "done"}
       /\ delivery' = [delivery EXCEPT ![d] =
             CASE q.at = "staff" -> ReadStaff(q, s)
               [] q.at = "session" -> ReadSession(q, s)
               [] q.at = "actor" -> ReadActor(q, s)
               [] q.at = "query" -> ReadDepartment(q, s)
               [] q.at = "token" -> ReadToken(q, s)]
       /\ UNCHANGED <<accessVars, rooms, online, changes, faults>>

(* resolveUser throws: nobody is behind the socket, a guest token may still be.  A query that *)
(* throws ends the delivery for every socket that was still to come (emitScoped).             *)
Unresolved(q, u) == [q EXCEPT !.faulty = TRUE, !.since.role[u] = @ \union {"nobody"}]

Throws(d) ==
    LET q == delivery[d]
        s == Head(q.todo)
        u == UserOf[s]
    IN
    /\ faults < MaxFaults /\ faults' = faults + 1
    /\ \/ /\ q.at = "actor" /\ u # NoUser
          /\ delivery' = [delivery EXCEPT ![d] = Passed(Unresolved(q, u), "token")]
       \/ /\ q.at = "staff" /\ u # NoUser
          /\ delivery' = [delivery EXCEPT ![d] = NextSocket(Unresolved(q, u), FALSE)]
       \/ /\ \/ q.at = "session"
             \/ q.at = "query" /\ Restricted
             \/ q.at = "token" /\ s \in Guests
          /\ delivery' = [delivery EXCEPT ![d] = [Passed(q, "done") EXCEPT !.faulty = TRUE]]
    /\ UNCHANGED <<accessVars, rooms, online, changes>>

Next ==
    \/ \E s \in Sockets, room \in Rooms : Join(s, room) \/ Leave(s, room)
    \/ \E s \in Sockets : handleDisconnect(s)
    \/ AccessChanges
    \/ \E d \in Deliveries, event \in TicketEvents \union ChatEvents : deliverScoped(d, event)
    \/ \E d \in Deliveries : Check(d) \/ Throws(d)

Spec == Init /\ [][Next]_vars

-----------------------------------------------------------------------------
TypeOK ==
    /\ role \in [Users -> Roles] /\ member \subseteq Users
    /\ rooms \in [Sockets -> SUBSET Rooms] /\ online \subseteq Sockets
    /\ \A d \in Deliveries : /\ delivery[d].at \in {"none", "staff", "session", "actor", "query",
                                                    "token", "done"}
                             /\ delivery[d].heard \subseteq delivery[d].due
    /\ changes \in 0 .. MaxChanges /\ faults \in 0 .. MaxFaults

(* Whether the socket may hear the event, were these the facts: as staff, and by seeing it. *)
Staff(s, event, f) == event.staffOnly => s \in Identified /\ IsStaff(f[1])
Sees(s, event, f) == (event.chat /\ s \in Visitors /\ f[4]) \/ CanSee(s, f[1], f[2], f[3])

FactsOf(s, seen) ==
    (IF s \in Identified THEN seen.role[UserOf[s]] ELSE {"customer"})
    \X (IF s \in Identified THEN seen.member[UserOf[s]] ELSE {FALSE})
    \X seen.granted \X seen.chatting

(* A socket hears only what facts that held since the event allow it to hear; and, unless a   *)
(* query failed, every socket that was in the room, stayed, and was allowed by all of them,   *)
(* has heard it when the delivery ends.  Each socket's checks are spread over several awaits  *)
(* between which access changes and sockets come and go                                       *)
(* (deliverScoped, socketCanSee; "each delivery checks the current membership").              *)
HeardByThoseWhoMay ==
    \A d \in Deliveries : \A s \in delivery[d].due :
        LET q == delivery[d]
            facts == FactsOf(s, q.since)
        IN /\ s \in q.heard => /\ \E f \in facts : Staff(s, q.event, f)
                              /\ \E f \in facts : Sees(s, q.event, f)
           /\ /\ q.at = "done" /\ ~q.faulty /\ s \in online
              /\ \A f \in facts : Staff(s, q.event, f) /\ Sees(s, q.event, f)
              => s \in q.heard

-----------------------------------------------------------------------------
(* Why HeardByThoseWhoMay holds: what a delivery knows of the socket it checks, and what it    *)
(* leaves behind for each socket it is done with.                                              *)

(* Somebody may hear it, were these the facts of some moment of the delivery. *)
StaffOnce(s, q) == \E f \in FactsOf(s, q.since) : Staff(s, q.event, f)
SeesOnce(s, q) == \E f \in FactsOf(s, q.since) : Sees(s, q.event, f)
DeniedOnce(s, q) == \E f \in FactsOf(s, q.since) : ~(Staff(s, q.event, f) /\ Sees(s, q.event, f))

(* The first checks of the socket at the head have been passed, or have not let it in. *)
StaffPassed(s, q) ==
    q.event.staffOnly => s \in Identified /\ \E r \in q.since.role[UserOf[s]] : IsStaff(r)
SessionPassed(s, q) == q.event.chat => s \notin Visitors \/ FALSE \in q.since.chatting
Progress(s, q) ==
    CASE q.at = "staff" -> q.event.staffOnly
      [] q.at = "session" -> q.event.chat /\ StaffPassed(s, q)
      [] q.at = "actor" -> StaffPassed(s, q) /\ SessionPassed(s, q)
      [] q.at = "query" -> /\ StaffPassed(s, q) /\ SessionPassed(s, q)
                           /\ s \in Identified /\ "agent" \in q.since.role[UserOf[s]]
      [] q.at = "token" ->
           /\ StaffPassed(s, q) /\ SessionPassed(s, q)
           /\ s \in Identified =>
                \/ "nobody" \in q.since.role[UserOf[s]]
                \/ "customer" \in q.since.role[UserOf[s]] /\ UserOf[s] # Requester

(* The facts of the present are among those noted. *)
Noted(q) ==
    /\ \A u \in Users : role[u] \in q.since.role[u] /\ (u \in member) \in q.since.member[u]
    /\ granted \in q.since.granted /\ chatting \in q.since.chatting

Seen == [role : [Users -> SUBSET (Roles \union {"nobody"})], member : [Users -> SUBSET BOOLEAN],
         granted : SUBSET BOOLEAN, chatting : SUBSET BOOLEAN]
Underway == [at : {"staff", "session", "actor", "query", "token", "done"},
             event : TicketEvents \union ChatEvents, todo : Seq(Sockets),
             heard : SUBSET Sockets, due : SUBSET Sockets, faulty : BOOLEAN, since : Seen]

(* Each socket that was due is still to come, has heard it, has gone, or was denied it once. *)
Settled(s, q) == s \in q.heard \/ s \notin online \/ DeniedOnce(s, q)
DeliveryInv(q) ==
    /\ q \in Underway
    /\ \A u \in Users : q.since.role[u] # {} /\ q.since.member[u] # {}
    /\ q.since.granted # {} /\ q.since.chatting # {}
    /\ q.heard \subseteq q.due
    /\ \A s \in q.heard : StaffOnce(s, q) /\ SeesOnce(s, q)
    /\ ~q.faulty => \A s \in q.due : Settled(s, q) \/ \E i \in 1 .. Len(q.todo) : q.todo[i] = s
    /\ IF q.at = "done" THEN q.faulty \/ q.todo = <<>>
       ELSE /\ q.todo # <<>> /\ Noted(q) /\ Progress(Head(q.todo), q)
            /\ \A i \in 1 .. Len(q.todo) : q.todo[i] \in q.due

IInv ==
    /\ role \in [Users -> Roles] /\ member \subseteq Users
    /\ granted \in BOOLEAN /\ chatting \in BOOLEAN /\ online \subseteq Sockets
    /\ DOMAIN delivery = Deliveries
    /\ \A d \in Deliveries : delivery[d] = NoDelivery \/ DeliveryInv(delivery[d])
=============================================================================
