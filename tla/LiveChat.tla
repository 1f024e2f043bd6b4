------------------------------- MODULE LiveChat --------------------------------
(***************************************************************************)
(* Widget chats: the visitor's and the agents' requests, and the cron job  *)
(* that ends idle chats.  Every handler loads the session row, awaits the  *)
(* database several times and then saves its whole copy of the row, so two *)
(* requests on one chat overwrite each other.  One step is one statement.  *)
(***************************************************************************)
EXTENDS Naturals, FiniteSets, Sequences

CONSTANTS
  Chats,          \* session ids, and the tickets under them
  Agents,
  Departments,
  Rules,          \* active routing rules, by priority
  Requests,       \* requests in flight, each handled once
  Cleaners,       \* processes running the idle clean-up
  MaxTime,        \* bound on the clock
  IdleAfter,      \* timeoutMinutes of cleanupIdleSessions
  TokenLife       \* guestAccess.ttlMinutes

None == "none"

ASSUME RulesAssumption ==
  Rules \in Seq([department : Departments \cup {None}, agent : Agents \cup {None}])
ASSUME AgentsAssumption == None \notin Agents
ASSUME LimitsAssumption == {MaxTime, IdleAfter, TokenLife} \subseteq Nat

Statuses == {"waiting", "active", "ended"}
Session == [agent : Agents \cup {None}, department : Departments \cup {None},
            status : Statuses, lastActivityAt : Nat, expires : Nat]
NoSession == [status |-> "absent"]

VARIABLES
  session,    \* chat_sessions
  token,      \* chats whose visitor token was issued
  ticket,     \* per chat, the assignee and department of its ticket
  ratings,    \* per chat, satisfaction ratings of its ticket
  now,
  request,    \* per request: where its handler is, the copy it read
  idle        \* per cleaner: the sessions its query found, the one in hand

tables == <<session, token, ticket, ratings, now>>
vars   == <<session, token, ticket, ratings, now, request, idle>>

Ready == [pc |-> "ready"]
Done  == [pc |-> "done"]

Existing == {c \in Chats : session[c] # NoSession}

-----------------------------------------------------------------------------
\* ChatRoutingService.resolve: the first rule of the department asked for, or,
\* when none is asked for, the first rule there is.
Route(wanted) ==
  LET fits == {i \in DOMAIN Rules :
                 wanted = None \/ (Rules[i].department # None /\ Rules[i].department = wanted)}
  IN IF fits = {} THEN [department |-> wanted, agent |-> None]
     ELSE Rules[CHOOSE i \in fits : \A j \in fits : i <= j]

\* start: the ticket and the session, which agents can see from here on.  With
\* restricted access the routed agent may not be allowed on the ticket.
Start(r, c) ==
  /\ request[r] = Ready /\ c \notin Existing
  /\ \E wanted \in Departments \cup {None}, allowed \in BOOLEAN :
       LET route == IF allowed THEN Route(wanted) ELSE [Route(wanted) EXCEPT !.agent = None]
           dept  == IF route.department = None THEN wanted ELSE route.department
       IN /\ session' = [session EXCEPT ![c] =
               [agent |-> route.agent, department |-> dept,
                status |-> IF route.agent = None THEN "waiting" ELSE "active",
                lastActivityAt |-> now, expires |-> 0]]
          /\ ticket' = [ticket EXCEPT ![c] = [assignee |-> None, department |-> dept]]
  /\ request' = [request EXCEPT ![r] = [pc |-> "issueToken", chat |-> c]]
  /\ UNCHANGED <<token, ratings, now, idle>>

\* issueVisitorToken: an update of the two token columns.
IssueToken(r) ==
  /\ request[r].pc = "issueToken"
  /\ LET c == request[r].chat IN
     /\ session' = [session EXCEPT ![c] = [session[c] EXCEPT !.expires = now + TokenLife]]
     /\ token' = token \cup {c}
  /\ request' = [request EXCEPT ![r] = Done]
  /\ UNCHANGED <<ticket, ratings, now, idle>>

\* findByVisitorToken: a token past its expiry opens nothing, one without an
\* expiry gets a full lifetime.
Opens(c) ==
  /\ c \in token
  /\ session[c].expires = 0 \/ session[c].expires > now
Extended(s) == IF s.expires = 0 THEN [s EXCEPT !.expires = now + TokenLife] ELSE s

-----------------------------------------------------------------------------
(* What a handler does to its copy before it saves it. *)

Accepted(s, a) == [s EXCEPT !.agent = a, !.status = "active"]

\* Mutant: a chat handed to a department keeps its agent.
TransferredKeepsAgent(s, a, d) ==
  LET moved == [s EXCEPT !.department = IF d = None THEN s.department ELSE d,
                         !.lastActivityAt = now]
  IN IF a = None THEN [moved EXCEPT !.status = "waiting"] ELSE Accepted(moved, a)

Transferred(s, a, d) ==
  LET moved == [s EXCEPT !.department = IF d = None THEN s.department ELSE d,
                         !.lastActivityAt = now]
  IN IF a = None THEN [moved EXCEPT !.agent = None, !.status = "waiting"]
     ELSE Accepted(moved, a)

Pending(pc, c, copy) == [pc |-> pc, chat |-> c, copy |-> copy, seen |-> session[c].status]
Moving(c, copy, a, d) ==
  [pc |-> "moveTicket", chat |-> c, copy |-> copy, seen |-> session[c].status,
   assignee |-> a, department |-> d]

\* accept: only a waiting chat.
Accept(r, c) ==
  /\ request[r] = Ready /\ c \in Existing
  /\ session[c].status = "waiting"
  /\ \E a \in Agents :
       request' = [request EXCEPT ![r] = Pending("save", c, Accepted(session[c], a))]
  /\ UNCHANGED <<tables, idle>>

\* Mutant: transfer lets an ended chat through.
TransferAnyway(r, c) ==
  /\ request[r] = Ready /\ c \in Existing
  /\ \E a \in Agents \cup {None}, d \in Departments \cup {None} :
       /\ a # None \/ d # None
       /\ request' = [request EXCEPT ![r] =
            Moving(c, Transferred(session[c], a, d), a, d)]
  /\ UNCHANGED <<tables, idle>>

\* transfer: to an agent, a department or both; never an ended chat.
Transfer(r, c) ==
  /\ request[r] = Ready /\ c \in Existing
  /\ session[c].status # "ended"
  /\ \E a \in Agents \cup {None}, d \in Departments \cup {None} :
       /\ a # None \/ d # None
       /\ request' = [request EXCEPT ![r] =
            Moving(c, Transferred(session[c], a, d), a, d)]
  /\ UNCHANGED <<tables, idle>>

\* The ticket moves before the session is saved.
MoveTicket(r) ==
  /\ request[r].pc = "moveTicket"
  /\ LET q == request[r] IN
     /\ ticket' = [ticket EXCEPT ![q.chat] =
          [assignee |-> q.assignee,
           department |-> IF q.department = None THEN ticket[q.chat].department
                          ELSE q.department]]
     /\ request' = [request EXCEPT ![r] =
          [pc |-> "save", chat |-> q.chat, copy |-> q.copy, seen |-> q.seen]]
  /\ UNCHANGED <<session, token, ratings, now, idle>>

\* sendMessage by an agent, or through openSession by the visitor, whose request
\* extends a token that has no expiry; then the reply on the ticket.
SendMessage(r, c) ==
  /\ request[r] = Ready /\ c \in Existing
  /\ session[c].status # "ended"
  /\ \/ session' = session
     \/ Opens(c) /\ session' = [session EXCEPT ![c] = Extended(session[c])]
  /\ request' = [request EXCEPT ![r] = Pending("reply", c, session'[c])]
  /\ UNCHANGED <<token, ticket, ratings, now, idle>>

\* The reply itself is a row nothing here reads.
Reply(r) ==
  /\ request[r].pc = "reply"
  /\ LET q == request[r] IN
     request' = [request EXCEPT ![r] =
       [q EXCEPT !.pc = "save", !.copy = [q.copy EXCEPT !.lastActivityAt = now]]]
  /\ UNCHANGED <<session, token, ticket, ratings, now, idle>>

Ended(s) == [s EXCEPT !.status = "ended"]

\* end, by an agent or the visitor.
End(r, c) ==
  /\ request[r] = Ready /\ c \in Existing
  /\ session[c].status # "ended"
  /\ \/ session' = session
     \/ Opens(c) /\ session' = [session EXCEPT ![c] = Extended(session[c])]
  /\ request' = [request EXCEPT ![r] = Pending("save", c, Ended(session'[c]))]
  /\ UNCHANGED <<token, ticket, ratings, now, idle>>

\* chatSessionRepo.save: the copy replaces the row.
Save(r) ==
  /\ request[r].pc = "save"
  /\ session' = [session EXCEPT ![request[r].chat] = request[r].copy]
  /\ request' = [request EXCEPT ![r] = Done]
  /\ UNCHANGED <<token, ticket, ratings, now, idle>>

\* visitorTyping: an update of the one column.
Typing(r, c) ==
  /\ request[r] = Ready /\ c \in Existing /\ Opens(c)
  /\ session[c].status # "ended"
  /\ session' = [session EXCEPT ![c] = [Extended(session[c]) EXCEPT !.lastActivityAt = now]]
  /\ request' = [request EXCEPT ![r] = Done]
  /\ UNCHANGED <<token, ticket, ratings, now, idle>>

\* rate: an ended chat that has no rating; the rating is a second statement.
Rate(r, c) ==
  /\ request[r] = Ready /\ c \in Existing /\ Opens(c)
  /\ session[c].status = "ended" /\ ratings[c] = 0
  /\ session' = [session EXCEPT ![c] = Extended(session[c])]
  /\ request' = [request EXCEPT ![r] = [pc |-> "rate", chat |-> c, seen |-> session[c].status]]
  /\ UNCHANGED <<token, ticket, ratings, now, idle>>

SaveRating(r) ==
  /\ request[r].pc = "rate"
  /\ ratings' = [ratings EXCEPT ![request[r].chat] = ratings[request[r].chat] + 1]
  /\ request' = [request EXCEPT ![r] = Done]
  /\ UNCHANGED <<session, token, ticket, now, idle>>

-----------------------------------------------------------------------------
(* cleanupIdleSessions. *)

Resting == [found |-> {}, ending |-> {}]

\* Mutant: the clean-up looks at accepted chats only.
FindIdleActive(k) ==
  /\ idle[k] = Resting
  /\ LET found == {c \in Existing : session[c].status = "active"
                                    /\ session[c].lastActivityAt + IdleAfter <= now}
     IN idle' = [idle EXCEPT ![k] = [found |-> found, ending |-> {}]]
  /\ idle' # idle
  /\ UNCHANGED <<tables, request>>

FindIdle(k) ==
  /\ idle[k] = Resting
  /\ LET found == {c \in Existing : session[c].status \in {"waiting", "active"}
                                    /\ session[c].lastActivityAt + IdleAfter <= now}
     IN idle' = [idle EXCEPT ![k] = [found |-> found, ending |-> {}]]
  /\ idle' # idle
  /\ UNCHANGED <<tables, request>>

\* end() for each: the row is read again, an ended one is skipped ...
ReadIdle(k, c) ==
  /\ c \in idle[k].found /\ idle[k].ending = {}
  /\ idle' = [idle EXCEPT ![k] =
       [found |-> idle[k].found \ {c},
        ending |-> IF session[c].status = "ended" THEN {}
                   ELSE {[chat |-> c, copy |-> Ended(session[c])]}]]
  /\ UNCHANGED <<tables, request>>

\* ... and the copy saved.
EndIdle(k) ==
  /\ \E e \in idle[k].ending : session' = [session EXCEPT ![e.chat] = e.copy]
  /\ idle' = [idle EXCEPT ![k] = [found |-> idle[k].found, ending |-> {}]]
  /\ UNCHANGED <<token, ticket, ratings, now, request>>

Tick ==
  /\ now < MaxTime
  /\ now' = now + 1
  /\ UNCHANGED <<session, token, ticket, ratings, request, idle>>

Init ==
  /\ session = [c \in Chats |-> NoSession]
  /\ token = {}
  /\ ticket = [c \in Chats |-> [assignee |-> None, department |-> None]]
  /\ ratings = [c \in Chats |-> 0]
  /\ now = 1
  /\ request = [r \in Requests |-> Ready]
  /\ idle = [k \in Cleaners |-> Resting]

Arrive(r) == \E c \in Chats :
  \/ Start(r, c) \/ Accept(r, c) \/ Transfer(r, c) \/ SendMessage(r, c)
  \/ End(r, c) \/ Typing(r, c) \/ Rate(r, c)
Continue(r) == IssueToken(r) \/ MoveTicket(r) \/ Reply(r) \/ Save(r) \/ SaveRating(r)
Clean(k) == FindIdle(k) \/ EndIdle(k) \/ \E c \in Chats : ReadIdle(k, c)

Next ==
  \/ \E r \in Requests : Arrive(r) \/ Continue(r)
  \/ \E k \in Cleaners : Clean(k)
  \/ Tick

Spec == Init /\ [][Next]_vars

\* Cron runs the clean-up every minute and accepted requests are worked off.
Fairness ==
  /\ \A r \in Requests : WF_vars(Continue(r))
  /\ \A k \in Cleaners : WF_vars(Clean(k))

FairSpec == Spec /\ Fairness

-----------------------------------------------------------------------------
Handler ==
  [pc : {"ready", "done"}]
  \cup [pc : {"issueToken"}, chat : Chats]
  \cup [pc : {"rate"}, chat : Chats, seen : {"ended"}]
  \cup [pc : {"save", "reply"}, chat : Chats, copy : Session, seen : {"waiting", "active"}]
  \cup [pc : {"moveTicket"}, chat : Chats, copy : Session, seen : {"waiting", "active"},
        assignee : Agents \cup {None}, department : Departments \cup {None}]

\* The rows and the copies handlers hold are well formed; no handler that will
\* write a chat read it ended.
TypeOK ==
  /\ session \in [Chats -> Session \cup {NoSession}]
  /\ token \subseteq Existing
  /\ ticket \in [Chats -> [assignee : Agents \cup {None}, department : Departments \cup {None}]]
  /\ ratings \in [Chats -> Nat] /\ now \in Nat
  /\ request \in [Requests -> Handler]
  /\ idle \in [Cleaners -> [found : SUBSET Chats, ending : SUBSET [chat : Chats, copy : Session]]]

\* A chat waits exactly while no agent has it, whatever overlapping requests do to
\* the row: the queue never shows a taken chat, and no agent holds a queued one.
QueueMatchesAgent ==
  \A c \in Existing : session[c].status # "ended" =>
    (session[c].status = "waiting" <=> session[c].agent = None)

\* An ended chat comes back only through a request that had read it while it was
\* open (sendMessage, transfer and accept refuse an ended chat).
RevivedOnlyByRace ==
  [][\A c \in Existing :
       (session[c].status = "ended" /\ session'[c].status # "ended")
         => \E r \in Requests : /\ request[r].pc = "save" /\ request[r].chat = c
                                /\ request[r].seen # "ended" /\ request'[r] = Done]_vars

\* A chat that has been idle for the timeout is ended, or active again.
IdleChat(c) ==
  c \in Existing /\ session[c].status # "ended" /\ session[c].lastActivityAt + IdleAfter <= now
IdleChatEnds == \A c \in Chats : IdleChat(c) ~> ~IdleChat(c)

================================================================================
