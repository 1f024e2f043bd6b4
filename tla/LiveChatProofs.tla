---------------------------- MODULE LiveChatProofs -----------------------------
(***************************************************************************)
(* Proofs about LiveChat for any number of chats, agents, requests and     *)
(* clean-up processes, any routing rules and any limits.                   *)
(***************************************************************************)
EXTENDS LiveChat, TLAPS, WellFoundedInduction, NaturalsInduction

\* A row or a copy of one that is open waits exactly while nobody has it.
Fits(s) == s.status # "ended" => (s.status = "waiting" <=> s.agent = None)

Holding == {"save", "reply", "moveTicket"}

\* The chat a handler is about to give a token is there.
TokensDue == \A r \in Requests :
  request[r].pc = "issueToken" => request[r].chat \in Existing

RowsFit   == \A c \in Existing : Fits(session[c])
CopiesFit == \A r \in Requests : request[r].pc \in Holding => Fits(request[r].copy)

\* The clean-up found chats that are there, and will only write that one has ended.
CleanUp == \A k \in Cleaners :
  idle[k].found \subseteq Existing /\ \A e \in idle[k].ending : e.copy.status = "ended"

IInv == TypeOK /\ TokensDue /\ RowsFit /\ CopiesFit /\ CleanUp

-----------------------------------------------------------------------------
(* Routing *)

\* A non-empty set of naturals has a least element, and CHOOSE finds it.
LEMMA LeastIndex ==
  ASSUME NEW S \in SUBSET Nat, S # {}
  PROVE  (CHOOSE i \in S : \A j \in S : i <= j) \in S
<1>1. PICK m \in S : \A k \in S : <<k, m>> \notin OpToRel(<, Nat)
  BY WFMin, NatLessThanWellFounded, Zenon
<1>2. \A k \in S : ~(k < m)
  BY <1>1, Zenon DEF OpToRel
<1>3. \A k \in S : m <= k
  BY <1>2
<1> QED  BY <1>3

RoutingRule == [department : Departments \cup {None}, agent : Agents \cup {None}]

LEMMA RuleType == \A i \in DOMAIN Rules : Rules[i] \in RoutingRule
<1>1. Rules \in Seq(RoutingRule)
  BY RulesAssumption DEF RoutingRule
<1> QED  BY <1>1

LEMMA RouteType ==
  ASSUME NEW wanted \in Departments \cup {None}
  PROVE  Route(wanted) \in RoutingRule
<1> DEFINE fits == {i \in DOMAIN Rules :
                      wanted = None \/ (Rules[i].department # None /\ Rules[i].department = wanted)}
<1>1. CASE fits = {}
  BY <1>1 DEF Route, RoutingRule
<1>2. CASE fits # {}
  <2>1. fits \in SUBSET Nat
    BY RulesAssumption
  <2>2. (CHOOSE i \in fits : \A j \in fits : i <= j) \in fits
    BY <1>2, <2>1, LeastIndex
  <2>3. \A i \in fits : Rules[i] \in RoutingRule
    BY RuleType
  <2>4. Route(wanted) = Rules[CHOOSE i \in fits : \A j \in fits : i <= j]
    BY <1>2, Zenon DEF Route
  <2> HIDE DEF fits
  <2> QED  BY <2>2, <2>3, <2>4
<1> QED  BY <1>1, <1>2

-----------------------------------------------------------------------------
(* Rows and copies *)

LEMMA RowShape ==
  ASSUME TypeOK
  PROVE  \A c \in Chats : c \in Existing <=> session[c] \in Session
BY DEF TypeOK, Existing, Session, NoSession, Statuses

LEMMA ExtendedRow ==
  ASSUME NEW s \in Session, NEW t \in Nat
  PROVE  LET e == [s EXCEPT !.expires = t] IN
         e \in Session /\ e.status = s.status /\ (Fits(s) => Fits(e))
BY DEF Session, Fits

LEMMA Extends ==
  ASSUME NEW s \in Session, now \in Nat
  PROVE  /\ Extended(s) \in Session
         /\ Extended(s).status = s.status
         /\ Fits(s) => Fits(Extended(s))
BY ExtendedRow, LimitsAssumption DEF Extended

LEMMA TouchedRow ==
  ASSUME NEW s \in Session, NEW t \in Nat
  PROVE  LET e == [s EXCEPT !.lastActivityAt = t] IN
         e \in Session /\ e.status = s.status /\ (Fits(s) => Fits(e))
BY DEF Session, Fits

LEMMA EndedRow ==
  ASSUME NEW s \in Session
  PROVE  Ended(s) \in Session /\ Ended(s).status = "ended" /\ Fits(Ended(s))
BY DEF Session, Statuses, Ended, Fits

LEMMA AcceptedRow ==
  ASSUME NEW s \in Session, NEW a \in Agents
  PROVE  Accepted(s, a) \in Session /\ Fits(Accepted(s, a))
BY AgentsAssumption DEF Session, Statuses, Accepted, Fits

LEMMA TransferredRow ==
  ASSUME NEW s \in Session, NEW a \in Agents \cup {None}, NEW d \in Departments \cup {None},
         now \in Nat
  PROVE  Transferred(s, a, d) \in Session /\ Fits(Transferred(s, a, d))
<1> DEFINE moved == [s EXCEPT !.department = IF d = None THEN s.department ELSE d,
                              !.lastActivityAt = now]
<1>1. moved \in Session
  BY DEF Session
<1>2. CASE a = None
  <2>1. Transferred(s, a, d) = [moved EXCEPT !.agent = None, !.status = "waiting"]
    BY <1>2 DEF Transferred
  <2> QED  BY <1>1, <2>1 DEF Session, Statuses, Fits
<1>3. CASE a # None
  BY <1>1, <1>3, AcceptedRow DEF Transferred
<1> QED  BY <1>2, <1>3

-----------------------------------------------------------------------------
(* One handler's step: it may write the row of one chat, and goes on to h. *)

LEMMA HandlerStep ==
  ASSUME IInv, NEW r \in Requests, NEW h \in Handler,
         request' = [request EXCEPT ![r] = h],
         session' = session
           \/ \E c \in Chats, s \in Session : Fits(s) /\ session' = [session EXCEPT ![c] = s],
         h.pc = "issueToken" => h.chat \in Existing',
         h.pc \in Holding => Fits(h.copy),
         token' \subseteq Existing',
         ticket' \in [Chats -> [assignee : Agents \cup {None},
                                department : Departments \cup {None}]],
         ratings' \in [Chats -> Nat],
         UNCHANGED <<now, idle>>
  PROVE  IInv'
<1> USE DEF IInv
<1>1. /\ request' \in [Requests -> Handler]
      /\ request'[r] = h
      /\ \A q \in Requests : q # r => request'[q] = request[q]
  BY DEF TypeOK
<1>2. /\ session' \in [Chats -> Session \cup {NoSession}]
      /\ Existing \subseteq Existing'
      /\ RowsFit'
  <2>1. CASE session' = session
    BY <2>1 DEF TypeOK, RowsFit, Existing
  <2>2. ASSUME NEW c \in Chats, NEW s \in Session, Fits(s),
               session' = [session EXCEPT ![c] = s]
        PROVE  /\ session' \in [Chats -> Session \cup {NoSession}]
               /\ Existing \subseteq Existing'
               /\ RowsFit'
    <3>1. s # NoSession
      BY DEF Session, NoSession, Statuses
    <3>2. /\ session' \in [Chats -> Session \cup {NoSession}]
          /\ session'[c] = s
          /\ \A d \in Chats : d # c => session'[d] = session[d]
      BY <2>2 DEF TypeOK
    <3> QED  BY <2>2, <3>1, <3>2 DEF Existing, RowsFit
  <2> QED  BY <2>1, <2>2
<1>3. TypeOK'
  BY <1>1, <1>2 DEF TypeOK
<1>4. TokensDue' /\ CopiesFit'
  BY <1>1, <1>2 DEF TokensDue, CopiesFit, Existing
<1>5. CleanUp'
  BY <1>2 DEF CleanUp
<1> QED  BY <1>2, <1>3, <1>4, <1>5

-----------------------------------------------------------------------------
(* The requests *)

LEMMA StartStep ==
  ASSUME IInv, NEW r \in Requests, NEW c \in Chats, Start(r, c)
  PROVE  IInv'
<1> USE DEF IInv
<1>1. PICK wanted \in Departments \cup {None}, allowed \in BOOLEAN :
        LET route == IF allowed THEN Route(wanted) ELSE [Route(wanted) EXCEPT !.agent = None]
            dept  == IF route.department = None THEN wanted ELSE route.department
        IN /\ session' = [session EXCEPT ![c] =
                [agent |-> route.agent, department |-> dept,
                 status |-> IF route.agent = None THEN "waiting" ELSE "active",
                 lastActivityAt |-> now, expires |-> 0]]
           /\ ticket' = [ticket EXCEPT ![c] = [assignee |-> None, department |-> dept]]
  BY DEF Start
<1> DEFINE route == IF allowed THEN Route(wanted) ELSE [Route(wanted) EXCEPT !.agent = None]
           dept  == IF route.department = None THEN wanted ELSE route.department
           s     == [agent |-> route.agent, department |-> dept,
                     status |-> IF route.agent = None THEN "waiting" ELSE "active",
                     lastActivityAt |-> now, expires |-> 0]
           h     == [pc |-> "issueToken", chat |-> c]
<1>2. route \in RoutingRule
  BY RouteType DEF RoutingRule
<1>3. dept \in Departments \cup {None}
  BY <1>2 DEF RoutingRule
<1>4. s \in Session /\ Fits(s)
  BY <1>2, <1>3 DEF RoutingRule, Session, Statuses, Fits, TypeOK
<1>5. session' = [session EXCEPT ![c] = s]
  BY <1>1
<1>6. c \in Existing' /\ Existing \subseteq Existing'
  BY <1>4, <1>5 DEF Existing, Session, NoSession, Statuses, TypeOK
<1>7. ticket' \in [Chats -> [assignee : Agents \cup {None}, department : Departments \cup {None}]]
  BY <1>1, <1>3 DEF TypeOK
<1>8. h \in Handler
  BY DEF Handler
<1>9. /\ request' = [request EXCEPT ![r] = h]
      /\ UNCHANGED <<token, ratings, now, idle>>
  BY DEF Start
<1>10. token' \subseteq Existing' /\ ratings' \in [Chats -> Nat]
  BY <1>6, <1>9 DEF TypeOK
<1> HIDE DEF s, IInv
<1> QED  BY <1>4, <1>5, <1>6, <1>7, <1>8, <1>9, <1>10, HandlerStep DEF Holding

\* What a handler that did not write a row, or extended a token, leaves in place.
LEMMA TablesKept ==
  ASSUME IInv, UNCHANGED <<token, ticket, ratings>>,
         session' = session
           \/ \E c \in Chats, s \in Session : session' = [session EXCEPT ![c] = s]
  PROVE  /\ token' \subseteq Existing'
         /\ Existing \subseteq Existing'
         /\ ticket' \in [Chats -> [assignee : Agents \cup {None},
                                   department : Departments \cup {None}]]
         /\ ratings' \in [Chats -> Nat]
BY DEF IInv, TypeOK, Existing, Session, NoSession, Statuses

LEMMA IssueTokenStep ==
  ASSUME IInv, NEW r \in Requests, IssueToken(r)
  PROVE  IInv'
<1> USE DEF IInv
<1> DEFINE c == request[r].chat
           s == [session[c] EXCEPT !.expires = now + TokenLife]
<1>1. c \in Existing /\ c \in Chats
  BY DEF IssueToken, TokensDue, Existing
<1>2. session[c] \in Session /\ Fits(session[c]) /\ now + TokenLife \in Nat
  BY <1>1, RowShape, LimitsAssumption DEF RowsFit, TypeOK
<1>3. s \in Session /\ Fits(s)
  BY <1>2, ExtendedRow
<1>4. /\ session' = [session EXCEPT ![c] = s]
      /\ token' = token \cup {c}
      /\ request' = [request EXCEPT ![r] = Done]
      /\ UNCHANGED <<ticket, ratings, now, idle>>
  BY DEF IssueToken
<1> HIDE DEF s
<1>5. token' \subseteq Existing'
  BY <1>1, <1>3, <1>4 DEF TypeOK, Existing, Session, NoSession, Statuses
<1>6. Done \in Handler /\ Done.pc = "done"
  BY DEF Done, Handler
<1>7. ticket' \in [Chats -> [assignee : Agents \cup {None}, department : Departments \cup {None}]]
      /\ ratings' \in [Chats -> Nat]
  BY <1>4 DEF TypeOK
<1> HIDE DEF IInv, c
<1> QED  BY <1>1, <1>3, <1>4, <1>5, <1>6, <1>7, HandlerStep DEF Holding

\* A request that reads a chat, extends its token at most, and holds a copy of it.
LEMMA Reads ==
  ASSUME IInv, NEW r \in Requests, NEW c \in Existing, NEW h \in Handler,
         h.pc \in Holding, Fits(h.copy),
         request' = [request EXCEPT ![r] = h],
         session' = session \/ session' = [session EXCEPT ![c] = Extended(session[c])],
         UNCHANGED <<token, ticket, ratings, now, idle>>
  PROVE  IInv'
<1>1. c \in Chats /\ session[c] \in Session /\ Fits(session[c])
  BY RowShape DEF IInv, RowsFit, Existing
<1>2. Extended(session[c]) \in Session /\ Fits(Extended(session[c]))
  BY <1>1, Extends DEF IInv, TypeOK
<1>3. session' = session
        \/ \E d \in Chats, s \in Session : Fits(s) /\ session' = [session EXCEPT ![d] = s]
  BY <1>1, <1>2
<1>4. /\ token' \subseteq Existing'
      /\ ticket' \in [Chats -> [assignee : Agents \cup {None},
                                department : Departments \cup {None}]]
      /\ ratings' \in [Chats -> Nat]
  BY <1>3, TablesKept
<1> QED  BY <1>3, <1>4, HandlerStep DEF Holding

\* The row a request found open, and the one it holds once its token is extended.
LEMMA FoundOpen ==
  ASSUME IInv, NEW c \in Existing, session[c].status # "ended",
         session' = session \/ session' = [session EXCEPT ![c] = Extended(session[c])]
  PROVE  /\ c \in Chats
         /\ session[c] \in Session
         /\ session[c].status \in {"waiting", "active"}
         /\ session'[c] \in Session
         /\ Fits(session'[c])
<1>1. c \in Chats /\ session[c] \in Session /\ Fits(session[c])
  BY RowShape DEF IInv, RowsFit, Existing
<1>2. Extended(session[c]) \in Session /\ Fits(Extended(session[c]))
  BY <1>1, Extends DEF IInv, TypeOK
<1>3. session' = session \/ session'[c] = Extended(session[c])
  BY <1>1 DEF IInv, TypeOK
<1> QED  BY <1>1, <1>2, <1>3 DEF Session, Statuses

LEMMA PendingHandler ==
  ASSUME NEW c \in Chats, NEW s \in Session, session[c].status \in {"waiting", "active"},
         NEW pc \in {"save", "reply"}
  PROVE  Pending(pc, c, s) \in Handler /\ Pending(pc, c, s).pc = pc /\ Pending(pc, c, s).copy = s
BY DEF Pending, Handler

LEMMA AcceptStep ==
  ASSUME IInv, NEW r \in Requests, NEW c \in Chats, Accept(r, c)
  PROVE  IInv'
<1>1. PICK a \in Agents :
        request' = [request EXCEPT ![r] = Pending("save", c, Accepted(session[c], a))]
  BY DEF Accept
<1>2. /\ c \in Existing /\ session[c].status = "waiting"
      /\ UNCHANGED <<session, token, ticket, ratings, now, idle>>
  BY DEF Accept, tables
<1>3. session[c] \in Session
  BY <1>2, RowShape DEF IInv
<1>4. Accepted(session[c], a) \in Session /\ Fits(Accepted(session[c], a))
  BY <1>3, AcceptedRow
<1> DEFINE h == Pending("save", c, Accepted(session[c], a))
<1>5. h \in Handler /\ h.pc \in Holding /\ Fits(h.copy)
  BY <1>2, <1>4, PendingHandler DEF Holding
<1> HIDE DEF h
<1> QED  BY <1>1, <1>2, <1>5, Reads DEF h

LEMMA TransferStep ==
  ASSUME IInv, NEW r \in Requests, NEW c \in Chats, Transfer(r, c)
  PROVE  IInv'
<1>1. PICK a \in Agents \cup {None}, d \in Departments \cup {None} :
        request' = [request EXCEPT ![r] = Moving(c, Transferred(session[c], a, d), a, d)]
  BY DEF Transfer
<1>2. /\ c \in Existing /\ session[c].status # "ended"
      /\ UNCHANGED <<session, token, ticket, ratings, now, idle>>
  BY DEF Transfer, tables
<1>3. session[c] \in Session /\ session[c].status \in {"waiting", "active"} /\ now \in Nat
  BY <1>2, FoundOpen DEF IInv, TypeOK
<1>4. Transferred(session[c], a, d) \in Session /\ Fits(Transferred(session[c], a, d))
  BY <1>3, TransferredRow
<1> DEFINE h == Moving(c, Transferred(session[c], a, d), a, d)
<1>5. h \in Handler /\ h.pc \in Holding /\ Fits(h.copy)
  BY <1>3, <1>4 DEF Moving, Handler, Holding
<1> HIDE DEF h
<1> QED  BY <1>1, <1>2, <1>5, Reads DEF h

LEMMA SendMessageStep ==
  ASSUME IInv, NEW r \in Requests, NEW c \in Chats, SendMessage(r, c)
  PROVE  IInv'
<1> DEFINE h == Pending("reply", c, session'[c])
<1>1. /\ c \in Existing /\ session[c].status # "ended"
      /\ session' = session \/ session' = [session EXCEPT ![c] = Extended(session[c])]
      /\ request' = [request EXCEPT ![r] = h]
      /\ UNCHANGED <<token, ticket, ratings, now, idle>>
  BY DEF SendMessage
<1>2. h \in Handler /\ h.pc \in Holding /\ Fits(h.copy)
  BY <1>1, FoundOpen, PendingHandler DEF Holding
<1> HIDE DEF h
<1> QED  BY <1>1, <1>2, Reads

LEMMA EndStep ==
  ASSUME IInv, NEW r \in Requests, NEW c \in Chats, End(r, c)
  PROVE  IInv'
<1> DEFINE h == Pending("save", c, Ended(session'[c]))
<1>1. /\ c \in Existing /\ session[c].status # "ended"
      /\ session' = session \/ session' = [session EXCEPT ![c] = Extended(session[c])]
      /\ request' = [request EXCEPT ![r] = h]
      /\ UNCHANGED <<token, ticket, ratings, now, idle>>
  BY DEF End
<1>2. Ended(session'[c]) \in Session /\ Fits(Ended(session'[c]))
  BY <1>1, FoundOpen, EndedRow
<1>3. h \in Handler /\ h.pc \in Holding /\ Fits(h.copy)
  BY <1>1, <1>2, FoundOpen, PendingHandler DEF Holding
<1> HIDE DEF h
<1> QED  BY <1>1, <1>3, Reads

\* A request that comes to its end and wrote no row.
LEMMA Finishes ==
  ASSUME IInv, NEW r \in Requests, request' = [request EXCEPT ![r] = Done],
         ratings' \in [Chats -> Nat],
         UNCHANGED <<session, token, ticket, now, idle>>
  PROVE  IInv'
<1>1. Done \in Handler /\ Done.pc = "done"
  BY DEF Done, Handler
<1>2. /\ token' \subseteq Existing'
      /\ ticket' \in [Chats -> [assignee : Agents \cup {None},
                                department : Departments \cup {None}]]
  BY DEF IInv, TypeOK, Existing
<1> QED  BY <1>1, <1>2, HandlerStep DEF Holding

\* A request that writes one row and moves on to a place where it holds nothing.
LEMMA Writes ==
  ASSUME IInv, NEW r \in Requests, NEW c \in Chats, NEW s \in Session, Fits(s),
         NEW h \in Handler, h.pc \in {"done", "rate"},
         request' = [request EXCEPT ![r] = h],
         session' = [session EXCEPT ![c] = s],
         UNCHANGED <<token, ticket, ratings, now, idle>>
  PROVE  IInv'
<1>1. /\ token' \subseteq Existing'
      /\ ticket' \in [Chats -> [assignee : Agents \cup {None},
                                department : Departments \cup {None}]]
      /\ ratings' \in [Chats -> Nat]
  BY TablesKept
<1> QED  BY <1>1, HandlerStep DEF Holding

LEMMA HandlerShape ==
  ASSUME TypeOK, NEW r \in Requests
  PROVE  /\ request[r] \in Handler
         /\ request[r].pc \in Holding \cup {"rate", "issueToken"} => request[r].chat \in Chats
         /\ request[r].pc \in Holding =>
              request[r].copy \in Session /\ request[r].seen \in {"waiting", "active"}
         /\ request[r].pc = "moveTicket" =>
              /\ request[r].assignee \in Agents \cup {None}
              /\ request[r].department \in Departments \cup {None}
BY DEF TypeOK, Handler, Holding

LEMMA MoveTicketStep ==
  ASSUME IInv, NEW r \in Requests, MoveTicket(r)
  PROVE  IInv'
<1> DEFINE q == request[r]
           h == [pc |-> "save", chat |-> q.chat, copy |-> q.copy, seen |-> q.seen]
           n == [assignee |-> q.assignee,
                 department |-> IF q.department = None THEN ticket[q.chat].department
                                ELSE q.department]
<1>1. /\ q.chat \in Chats /\ q.copy \in Session /\ q.seen \in {"waiting", "active"}
      /\ q.assignee \in Agents \cup {None} /\ q.department \in Departments \cup {None}
      /\ Fits(q.copy)
  BY HandlerShape DEF MoveTicket, Holding, IInv, CopiesFit
<1>2. h \in Handler /\ h.pc = "save" /\ Fits(h.copy)
  BY <1>1 DEF Handler
<1>3. n \in [assignee : Agents \cup {None}, department : Departments \cup {None}]
  BY <1>1 DEF IInv, TypeOK
<1>4. /\ request' = [request EXCEPT ![r] = h]
      /\ ticket' = [ticket EXCEPT ![q.chat] = n]
      /\ UNCHANGED <<session, token, ratings, now, idle>>
  BY DEF MoveTicket
<1> HIDE DEF h, n, q
<1>5. /\ token' \subseteq Existing' /\ ratings' \in [Chats -> Nat]
      /\ ticket' \in [Chats -> [assignee : Agents \cup {None},
                                department : Departments \cup {None}]]
  BY <1>1, <1>3, <1>4 DEF IInv, TypeOK, Existing
<1> QED  BY <1>2, <1>4, <1>5, HandlerStep DEF Holding

LEMMA ReplyStep ==
  ASSUME IInv, NEW r \in Requests, Reply(r)
  PROVE  IInv'
<1> DEFINE q == request[r]
           s == [q.copy EXCEPT !.lastActivityAt = now]
           h == [q EXCEPT !.pc = "save", !.copy = s]
<1>1. /\ q.chat \in Chats /\ q.copy \in Session /\ q.seen \in {"waiting", "active"}
      /\ Fits(q.copy) /\ now \in Nat /\ q.pc = "reply"
  BY HandlerShape DEF Reply, Holding, IInv, CopiesFit, TypeOK
<1>2. s \in Session /\ Fits(s)
  BY <1>1, TouchedRow
<1> HIDE DEF s
<1>3. q \in [pc : {"save", "reply"}, chat : Chats, copy : Session, seen : {"waiting", "active"}]
  BY <1>1, HandlerShape DEF IInv, Handler
<1>4. /\ h \in [pc : {"save", "reply"}, chat : Chats, copy : Session, seen : {"waiting", "active"}]
      /\ h.pc = "save" /\ h.copy = s
  BY <1>2, <1>3
<1>5. h \in Handler
  BY <1>4 DEF Handler
<1>6. /\ request' = [request EXCEPT ![r] = h]
      /\ UNCHANGED <<session, token, ticket, ratings, now, idle>>
  BY DEF Reply, s
<1> HIDE DEF h, q
<1>7. /\ token' \subseteq Existing' /\ ratings' \in [Chats -> Nat]
      /\ ticket' \in [Chats -> [assignee : Agents \cup {None},
                                department : Departments \cup {None}]]
  BY <1>6, TablesKept
<1> QED  BY <1>2, <1>4, <1>5, <1>6, <1>7, HandlerStep DEF Holding

LEMMA SaveStep ==
  ASSUME IInv, NEW r \in Requests, Save(r)
  PROVE  IInv'
<1>1. /\ request[r].chat \in Chats /\ request[r].copy \in Session /\ Fits(request[r].copy)
  BY HandlerShape DEF Save, Holding, IInv, CopiesFit
<1>2. Done \in Handler /\ Done.pc = "done"
  BY DEF Done, Handler
<1> QED  BY <1>1, <1>2, Writes DEF Save

LEMMA TypingStep ==
  ASSUME IInv, NEW r \in Requests, NEW c \in Chats, Typing(r, c)
  PROVE  IInv'
<1> DEFINE s == [Extended(session[c]) EXCEPT !.lastActivityAt = now]
<1>1. session[c] \in Session /\ Fits(session[c]) /\ now \in Nat
  BY RowShape DEF IInv, RowsFit, TypeOK, Typing
<1>2. s \in Session /\ Fits(s)
  BY <1>1, Extends, TouchedRow
<1>3. Done \in Handler /\ Done.pc = "done"
  BY DEF Done, Handler
<1>4. /\ request' = [request EXCEPT ![r] = Done]
      /\ session' = [session EXCEPT ![c] = s]
      /\ UNCHANGED <<token, ticket, ratings, now, idle>>
  BY DEF Typing
<1> HIDE DEF s
<1> QED  BY <1>2, <1>3, <1>4, Writes

LEMMA RateStep ==
  ASSUME IInv, NEW r \in Requests, NEW c \in Chats, Rate(r, c)
  PROVE  IInv'
<1> DEFINE h == [pc |-> "rate", chat |-> c, seen |-> session[c].status]
<1>1. session[c] \in Session /\ Fits(session[c]) /\ now \in Nat
  BY RowShape DEF IInv, RowsFit, TypeOK, Rate
<1>2. Extended(session[c]) \in Session /\ Fits(Extended(session[c]))
  BY <1>1, Extends
<1>3. h \in Handler /\ h.pc = "rate"
  BY DEF Handler, Rate
<1>4. /\ request' = [request EXCEPT ![r] = h]
      /\ session' = [session EXCEPT ![c] = Extended(session[c])]
      /\ UNCHANGED <<token, ticket, ratings, now, idle>>
  BY DEF Rate
<1> HIDE DEF h
<1> QED  BY <1>2, <1>3, <1>4, Writes

LEMMA SaveRatingStep ==
  ASSUME IInv, NEW r \in Requests, SaveRating(r)
  PROVE  IInv'
<1>1. request[r].chat \in Chats
  BY HandlerShape DEF SaveRating, IInv
<1>2. ratings' \in [Chats -> Nat]
  BY <1>1 DEF SaveRating, IInv, TypeOK
<1> QED  BY <1>2, Finishes DEF SaveRating

-----------------------------------------------------------------------------
(* The clean-up and the clock *)

Found == [found : SUBSET Chats, ending : SUBSET [chat : Chats, copy : Session]]

\* A clean-up that looked, or read a row, and holds nothing but ended copies.
LEMMA CleanerStep ==
  ASSUME IInv, NEW k \in Cleaners, NEW f \in Found,
         f.found \subseteq Existing, \A e \in f.ending : e.copy.status = "ended",
         idle' = [idle EXCEPT ![k] = f],
         UNCHANGED <<session, token, ticket, ratings, now, request>>
  PROVE  IInv'
<1> USE DEF IInv
<1>1. TypeOK'
  BY DEF TypeOK, Existing, Found
<1>2. TokensDue' /\ RowsFit' /\ CopiesFit'
  BY DEF TokensDue, RowsFit, CopiesFit, Existing
<1>3. CleanUp'
  BY DEF CleanUp, TypeOK, Existing
<1> QED  BY <1>1, <1>2, <1>3

LEMMA FindIdleStep ==
  ASSUME IInv, NEW k \in Cleaners, FindIdle(k)
  PROVE  IInv'
<1>1. PICK found \in SUBSET Existing : idle' = [idle EXCEPT ![k] = [found |-> found, ending |-> {}]]
  BY DEF FindIdle
<1>2. [found |-> found, ending |-> {}] \in Found
  BY DEF Found, Existing
<1> QED  BY <1>1, <1>2, CleanerStep DEF FindIdle, tables

LEMMA ReadIdleStep ==
  ASSUME IInv, NEW k \in Cleaners, NEW c \in Chats, ReadIdle(k, c)
  PROVE  IInv'
<1> DEFINE e == [chat |-> c, copy |-> Ended(session[c])]
           f == [found |-> idle[k].found \ {c},
                 ending |-> IF session[c].status = "ended" THEN {} ELSE {e}]
<1>1. /\ idle' = [idle EXCEPT ![k] = f]
      /\ UNCHANGED <<session, token, ticket, ratings, now, request>>
  BY DEF ReadIdle, tables
<1>2. c \in Existing /\ idle[k].found \subseteq Existing
  BY DEF ReadIdle, IInv, CleanUp
<1>3. Ended(session[c]) \in Session /\ Ended(session[c]).status = "ended"
  BY <1>2, RowShape, EndedRow DEF IInv
<1>4. /\ f \in Found /\ f.found \subseteq Existing
      /\ \A x \in f.ending : x.copy.status = "ended"
  BY <1>2, <1>3 DEF Found, IInv, TypeOK
<1> HIDE DEF f
<1> QED  BY <1>1, <1>4, CleanerStep

LEMMA EndIdleStep ==
  ASSUME IInv, NEW k \in Cleaners, EndIdle(k)
  PROVE  IInv'
<1> USE DEF IInv
<1>1. PICK e \in idle[k].ending : session' = [session EXCEPT ![e.chat] = e.copy]
  BY DEF EndIdle
<1>2. e.chat \in Chats /\ e.copy \in Session /\ e.copy.status = "ended"
  BY DEF TypeOK, CleanUp
<1>3. e.copy # NoSession /\ Fits(e.copy)
  BY <1>2 DEF Session, NoSession, Statuses, Fits
<1>4. /\ session' \in [Chats -> Session \cup {NoSession}]
      /\ session'[e.chat] = e.copy
      /\ \A d \in Chats : d # e.chat => session'[d] = session[d]
  BY <1>1, <1>2 DEF TypeOK
<1>5. Existing \subseteq Existing' /\ RowsFit'
  BY <1>3, <1>4 DEF Existing, RowsFit
<1>6. /\ idle' = [idle EXCEPT ![k] = [found |-> idle[k].found, ending |-> {}]]
      /\ UNCHANGED <<token, ticket, ratings, now, request>>
  BY DEF EndIdle
<1>7. TypeOK'
  BY <1>4, <1>5, <1>6 DEF TypeOK
<1>8. TokensDue' /\ CopiesFit'
  BY <1>5, <1>6 DEF TokensDue, CopiesFit
<1>9. CleanUp'
  BY <1>5, <1>6 DEF CleanUp, TypeOK
<1> QED  BY <1>5, <1>7, <1>8, <1>9

-----------------------------------------------------------------------------
LEMMA InitInv == Init => IInv
BY DEF Init, IInv, TypeOK, TokensDue, RowsFit, CopiesFit, CleanUp, Existing, Handler, Ready,
       Resting, Holding, NoSession

LEMMA StutterStep == IInv /\ UNCHANGED vars => IInv'
BY DEF IInv, vars, TypeOK, TokensDue, RowsFit, CopiesFit, CleanUp, Existing

LEMMA TickStep == IInv /\ Tick => IInv'
BY DEF IInv, Tick, TypeOK, TokensDue, RowsFit, CopiesFit, CleanUp, Existing

LEMMA NextInv == IInv /\ [Next]_vars => IInv'
<1> SUFFICES ASSUME IInv, [Next]_vars PROVE IInv'
  OBVIOUS
<1>1. ASSUME NEW r \in Requests, Arrive(r) PROVE IInv'
  BY <1>1, StartStep, AcceptStep, TransferStep, SendMessageStep, EndStep, TypingStep, RateStep
     DEF Arrive
<1>2. ASSUME NEW r \in Requests, Continue(r) PROVE IInv'
  BY <1>2, IssueTokenStep, MoveTicketStep, ReplyStep, SaveStep, SaveRatingStep DEF Continue
<1>3. ASSUME NEW k \in Cleaners, Clean(k) PROVE IInv'
  BY <1>3, FindIdleStep, EndIdleStep, ReadIdleStep DEF Clean
<1> QED  BY <1>1, <1>2, <1>3, TickStep, StutterStep DEF Next

\* The rows, and the copies the handlers hold, stay well formed.
THEOREM TypeInvariant == Spec => []TypeOK
<1>1. IInv => TypeOK
  BY DEF IInv
<1> QED  BY <1>1, InitInv, NextInv, PTL DEF Spec

\* However many requests and clean-ups overwrite one another, a chat waits in the
\* queue exactly while no agent has it (ChatSessionService).
THEOREM QueueIsRight == Spec => []QueueMatchesAgent
<1>1. IInv => QueueMatchesAgent
  BY DEF IInv, RowsFit, Fits, QueueMatchesAgent
<1> QED  BY <1>1, InitInv, NextInv, PTL DEF Spec

\* The body of RevivedOnlyByRace, for one chat.
Revived(c) == session[c].status = "ended" /\ session'[c].status # "ended"
ByRace(c)  == \E r \in Requests : /\ request[r].pc = "save" /\ request[r].chat = c
                                  /\ request[r].seen # "ended" /\ request'[r] = Done

LEMMA RevivalStep ==
  ASSUME IInv, [Next]_vars, NEW c \in Existing, Revived(c)
  PROVE  ByRace(c)
<1> USE DEF Revived
<1>1. c \in Chats /\ session[c] \in Session /\ now \in Nat
  BY RowShape DEF IInv, Existing, TypeOK
<1>2. ~(session' = session)
  OBVIOUS
<1>3. ASSUME NEW d \in Chats, NEW s, d # c, session' = [session EXCEPT ![d] = s] PROVE FALSE
  BY <1>1, <1>3
<1>4. ASSUME NEW s, s.status = "ended", session' = [session EXCEPT ![c] = s] PROVE FALSE
  BY <1>1, <1>4 DEF IInv, TypeOK
<1>5. Extended(session[c]).status = session[c].status
  BY <1>1, Extends
<1>6. ASSUME NEW r \in Requests, Arrive(r) PROVE FALSE
  <2>1. PICK x \in Chats :
          Start(r, x) \/ Accept(r, x) \/ Transfer(r, x) \/ SendMessage(r, x) \/ End(r, x)
            \/ Typing(r, x) \/ Rate(r, x)
    BY <1>6 DEF Arrive
  <2>2. CASE Start(r, x)
    BY <1>3, <2>2 DEF Start
  <2>3. CASE Accept(r, x) \/ Transfer(r, x)
    BY <1>2, <2>3 DEF Accept, Transfer, tables
  <2>4. CASE SendMessage(r, x) \/ End(r, x) \/ Rate(r, x)
    BY <1>2, <1>3, <1>4, <1>5, <2>4 DEF SendMessage, End, Rate
  <2>5. CASE Typing(r, x)
    BY <1>3, <2>5 DEF Typing
  <2> QED  BY <2>1, <2>2, <2>3, <2>4, <2>5
<1>7. ASSUME NEW r \in Requests, Continue(r) PROVE ByRace(c)
  <2>1. CASE IssueToken(r)
    <3> DEFINE s == [session[request[r].chat] EXCEPT !.expires = now + TokenLife]
    <3>1. request[r].chat \in Chats /\ session' = [session EXCEPT ![request[r].chat] = s]
      BY <2>1, HandlerShape DEF IssueToken, IInv
    <3>2. CASE request[r].chat = c
      BY <1>1, <1>4, <3>1, <3>2 DEF Session
    <3> QED  BY <1>3, <3>1, <3>2
  <2>2. CASE MoveTicket(r) \/ Reply(r) \/ SaveRating(r)
    BY <1>2, <2>2 DEF MoveTicket, Reply, SaveRating
  <2>3. CASE Save(r)
    <3>1. /\ request[r].pc = "save" /\ request[r].seen # "ended" /\ request[r].chat \in Chats
          /\ session' = [session EXCEPT ![request[r].chat] = request[r].copy]
      BY <2>3, HandlerShape DEF Save, Holding, IInv
    <3>2. request[r].chat = c
      BY <1>3, <3>1
    <3>3. request'[r] = Done
      BY <2>3 DEF Save, IInv, TypeOK
    <3> QED  BY <3>1, <3>2, <3>3 DEF ByRace
  <2> QED  BY <1>7, <2>1, <2>2, <2>3 DEF Continue
<1>8. ASSUME NEW k \in Cleaners, Clean(k) PROVE FALSE
  <2>1. EndIdle(k)
    BY <1>2, <1>8 DEF Clean, FindIdle, ReadIdle, tables
  <2>2. PICK e \in idle[k].ending : session' = [session EXCEPT ![e.chat] = e.copy]
    BY <2>1 DEF EndIdle
  <2>3. e.chat \in Chats /\ e.copy.status = "ended"
    BY DEF IInv, TypeOK, CleanUp
  <2> QED  BY <1>3, <1>4, <2>2, <2>3
<1> QED  BY <1>1, <1>2, <1>6, <1>7, <1>8 DEF Next, Tick, vars

\* An ended chat comes back only when a request that had read it open saves its copy
\* over the end; never by the clean-up, and never by a request that came after.
THEOREM RevivedOnlyInRace == Spec => RevivedOnlyByRace
<1>1. IInv /\ [Next]_vars =>
        [\A c \in Existing :
           (session[c].status = "ended" /\ session'[c].status # "ended")
             => \E r \in Requests : /\ request[r].pc = "save" /\ request[r].chat = c
                                    /\ request[r].seen # "ended" /\ request'[r] = Done]_vars
  BY RevivalStep DEF Revived, ByRace
<1> QED  BY <1>1, InitInv, NextInv, PTL DEF Spec, RevivedOnlyByRace
================================================================================
