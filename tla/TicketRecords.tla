----------------------------- MODULE TicketRecords -----------------------------
(***************************************************************************)
(* The records beside a ticket (its links, subjects, side conversations,   *)
(* attachments and field values) and which of them an agent's request can  *)
(* read.  A request resolves its actor from the host once; every query it  *)
(* then makes carries the actor's predicate, evaluated with that query.    *)
(* Meanwhile tickets change department, agents join and leave them, and    *)
(* other requests attach subjects, which may fill a ticket's account.      *)
(***************************************************************************)
EXTENDS Naturals, Sequences, FiniteSets

CONSTANTS
  Tickets, Agents, Departments, Accounts,
  First,            \* the account of the agents, and of some tickets, at first
  Subjects,
  AccountOf,        \* the host's answer for a subject: an account or None
  SubjectLists,     \* what sync may be given
  Visibility,       \* "all" or "department"
  ScopeAgents,      \* accounts.scopeAgents
  Requests,         \* requests at once
  None,
  MaxChanges, MaxRequests, MaxFaults    \* bounds

validateTicketAccess == Visibility \in {"all", "department"} /\ ScopeAgents \in BOOLEAN

VARIABLES
  ticket,           \* department and account of each ticket
  member,           \* <<agent, department>>
  host,             \* what the host says of each agent
  links, subjects, talks,
  req,
  strayed,          \* history: tickets told of to a request that could not see them then
  changes, requests, faults

vars == <<ticket, member, host, links, subjects, talks, req, strayed, changes, requests, faults>>
bounds == <<changes, requests, faults>>

NoActor == [id |-> None, isAdmin |-> FALSE, account |-> None]
Idle == [at |-> "idle", op |-> None, actor |-> NoActor, t |-> None, arg |-> None, items |-> <<>>,
         instance |-> None, position |-> 0]

-----------------------------------------------------------------------------
(* Who may see which row                                                     *)

enabled == Visibility = "department" \/ ScopeAgents
restricted(actor) == enabled /\ actor.id # None /\ ~actor.isAdmin
ticketPredicate(actor, t) ==
  /\ Visibility = "department" => <<actor.id, ticket[t].department>> \in member
  /\ ScopeAgents => actor.account # None /\ ticket[t].account = actor.account
Visible(actor, t) == restricted(actor) => ticketPredicate(actor, t)
allows(actor, t) == Visible(actor, t)

(* The rows of a table; a ticket's one reply and one conversation carry its own number. *)
TableRows(kind) ==
  CASE kind = "reply"        -> [kind : {kind}, ticketId : Tickets]
    [] kind = "attachment"   -> [kind : {kind}, ticketId : Tickets, replyId : {None}]
                                \cup [kind : {kind}, ticketId : {None}, replyId : Tickets]
    [] kind = "value"        -> [kind : {kind}, entityType : {"ticket", "user"}, entityId : Tickets]
    [] kind = "link"         -> {[kind |-> kind, ticketId |-> l.ticketId, linkedTicketId |-> l.linkedTicketId] : l \in links}
    [] kind = "subject"      -> {[kind |-> kind, ticketId |-> s.ticketId] : s \in subjects}
    [] kind = "conversation" -> [kind : {kind}, ticketId : {t \in Tickets : talks[t].status # "none"}]
    [] kind = "message"      -> [kind : {kind}, sideConversationId : {t \in Tickets : talks[t].said}]
Tables == {"reply", "attachment", "value", "link", "subject", "conversation", "message"}

(* The rows of a table whose ticketId the actor sees: replies of visible tickets, or conversations. *)
visibleChildren(actor, kind) == {t \in Tickets : Visible(actor, t) /\ \E row \in TableRows(kind) : row.ticketId = t}
(* The predicate a query on the row's table is given, from the columns the table has. *)
\* Mutant: only columns that name a ticket are restricted
predicateOfColumns(actor, row) ==
  restricted(actor) =>
    \A f \in {"ticketId", "linkedTicketId"} \cap DOMAIN row : row[f] # None => ticketPredicate(actor, row[f])
predicate(actor, row) ==
  restricted(actor) =>
    /\ \A f \in {"ticketId", "linkedTicketId"} \cap DOMAIN row :
         \/ row[f] \in {t \in Tickets : ticketPredicate(actor, t)}
         \/ row.kind = "attachment" /\ row[f] = None /\ row.replyId \in visibleChildren(actor, "reply")
    /\ "sideConversationId" \in DOMAIN row => row.sideConversationId \in visibleChildren(actor, "conversation")
    /\ row.kind = "value" => row.entityType # "ticket" \/ ticketPredicate(actor, row.entityId)

(* The tickets a row tells something of. *)
Owners(row) ==
  CASE row.kind = "attachment" -> {IF row.ticketId # None THEN row.ticketId ELSE row.replyId}
    [] row.kind = "value"      -> IF row.entityType = "ticket" THEN {row.entityId} ELSE {}
    [] row.kind = "message"    -> {row.sideConversationId}
    [] OTHER                   -> {row[f] : f \in {"ticketId", "linkedTicketId"} \cap DOMAIN row}

-----------------------------------------------------------------------------
(* A request: its actor, then its statements                                 *)

To(r, q) == req' = [req EXCEPT ![r] = q]
Goto(r, at) == To(r, [req[r] EXCEPT !.at = at])
End(r) == To(r, Idle)
Finds(r, t, at) == IF Visible(req[r].actor, t) THEN Goto(r, at) ELSE End(r)
Quiet == UNCHANGED <<ticket, member, host, links, subjects, talks, bounds>>
Same == Quiet /\ UNCHANGED strayed
At(r, op, at) == req[r].op = op /\ req[r].at = at

Free(r) ==
  /\ req[r].at = "idle"
  /\ requests < MaxRequests /\ requests' = requests + 1
resolveUser(u) == [id |-> u, isAdmin |-> host[u].isAdmin, account |-> None]
(* The interceptor asks the host who the user is, then, for an agent, of which account. *)
requestActor(r, u, op, t, arg) ==
  /\ Free(r)
  /\ UNCHANGED <<ticket, member, host, links, subjects, talks, strayed, changes, faults>>
  /\ To(r, [Idle EXCEPT !.at = "actor", !.op = op, !.actor = resolveUser(u), !.t = t, !.arg = arg])
resolveAccount(r) ==
  /\ Same
  /\ req[r].at = "actor"
  /\ To(r, [req[r] EXCEPT !.at = "run",
                          !.actor.account = IF ScopeAgents /\ ~req[r].actor.isAdmin THEN host[req[r].actor.id].account ELSE None])

(* Rows shown to an actor who cannot see their tickets as they are then. *)
Shown(r, told) == strayed' = strayed \cup {t \in UNION {Owners(row) : row \in told} : ~Visible(req[r].actor, t)}
(* One query of a page, or of a lookup by its own number. *)
ReadRows(r, kind) ==
  /\ Quiet /\ At(r, "read", "run")
  /\ Shown(r, {row \in TableRows(kind) : predicate(req[r].actor, row)})
  /\ End(r)

(* A download: the attachment, the ticket it hangs off, and whether the agent sees that ticket. *)
download(r) ==
  /\ Same /\ At(r, "download", "run")
  /\ \E row \in TableRows("attachment") :
       /\ Owners(row) = {req[r].t}
       /\ IF predicate(req[r].actor, row) THEN Goto(r, "owner") ELSE End(r)
ownerOf(r) == Same /\ At(r, "download", "owner") /\ Finds(r, req[r].t, "allows")
authorize(r) ==
  /\ Quiet /\ At(r, "download", "allows") /\ End(r)
  /\ Shown(r, IF allows(req[r].actor, req[r].t) THEN {[kind |-> "reply", ticketId |-> req[r].t]} ELSE {})

-----------------------------------------------------------------------------
(* Subjects                                                                  *)

findById(r) ==
  /\ Same
  /\ req[r].op \in {"attach", "detach", "retag"} /\ req[r].at = "run"
  /\ IF Visible(req[r].actor, req[r].t)
     THEN To(r, [req[r] EXCEPT !.at = "found", !.instance = ticket[req[r].t].account])
     ELSE End(r)

(* The subject's account fills an empty one; the caller's instance is refreshed. *)
\* Mutant: the update lost its condition
FillAnyway(old, new) == new
Fill(old, new) == IF old = None THEN new ELSE old
fillAccount(r, s, at) ==
  /\ IF AccountOf[s] = None THEN ticket' = ticket
     ELSE ticket' = [ticket EXCEPT ![req[r].t].account = Fill(@, AccountOf[s])]
  /\ UNCHANGED <<member, host, links, subjects, talks, strayed, bounds>>
  /\ To(r, [req[r] EXCEPT !.at = at, !.instance = IF AccountOf[s] = None THEN @ ELSE ticket'[req[r].t].account])
MayRead(r, t) == Visible(req[r].actor, t)
Attached(t, s) == \E l \in subjects : l.ticketId = t /\ l.subject = s
attach(r) == At(r, "attach", "found") /\ fillAccount(r, req[r].arg, "filled")
FindExisting(r) ==
  /\ Same
  /\ At(r, "attach", "filled")
  /\ IF MayRead(r, req[r].t) /\ Attached(req[r].t, req[r].arg) THEN End(r) ELSE Goto(r, "new")
Positions(t) == {l.position : l \in {k \in subjects : k.ticketId = t}}
maxPosition(r) ==
  /\ Same
  /\ At(r, "attach", "new")
  /\ LET taken == IF MayRead(r, req[r].t) THEN Positions(req[r].t) ELSE {}
     IN To(r, [req[r] EXCEPT !.at = "insert",
                 !.position = IF taken = {} THEN 0 ELSE 1 + CHOOSE p \in taken : \A k \in taken : k <= p])
(* One link of a subject per ticket: the key refuses a second. *)
InsertLink(t, s, position) ==
  subjects' = IF Attached(t, s) THEN subjects
              ELSE subjects \cup {[ticketId |-> t, subject |-> s, position |-> position]}
InsertSubject(r) ==
  /\ At(r, "attach", "insert")
  /\ InsertLink(req[r].t, req[r].arg, req[r].position)
  /\ UNCHANGED <<ticket, member, host, links, talks, strayed, bounds>> /\ End(r)
detach(r) ==
  /\ At(r, "detach", "found")
  /\ subjects' = IF MayRead(r, req[r].t) THEN {l \in subjects : ~(l.ticketId = req[r].t /\ l.subject = req[r].arg)}
                 ELSE subjects
  /\ UNCHANGED <<ticket, member, host, links, talks, strayed, bounds>> /\ End(r)

(* The host replaces all subjects of a ticket: a delete, then a fill and an insert for each. *)
sync(r, t, items) ==
  /\ Free(r)
  /\ subjects' = {l \in subjects : l.ticketId # t}
  /\ UNCHANGED <<ticket, member, host, links, talks, strayed, changes, faults>>
  /\ To(r, [Idle EXCEPT !.at = "fill", !.op = "sync", !.t = t, !.items = items])
SyncFill(r) == At(r, "sync", "fill") /\ req[r].items # <<>> /\ fillAccount(r, Head(req[r].items), "insert")
SyncInsert(r) ==
  /\ At(r, "sync", "insert")
  /\ LET s == Head(req[r].items) IN
     /\ InsertLink(req[r].t, s, req[r].position)
     /\ UNCHANGED <<ticket, member, host, links, talks, strayed, bounds>>
     /\ IF Attached(req[r].t, s) THEN End(r)
        ELSE To(r, [req[r] EXCEPT !.at = "fill", !.items = Tail(@), !.position = @ + 1])
SyncEnds(r) == Same /\ At(r, "sync", "fill") /\ req[r].items = <<>> /\ End(r)

(* A change of tags saves the ticket as it was read, its account included. *)
SaveTags(r) ==
  /\ At(r, "retag", "found")
  /\ ticket' = IF MayRead(r, req[r].t) THEN [ticket EXCEPT ![req[r].t].account = req[r].instance] ELSE ticket
  /\ UNCHANGED <<member, host, links, subjects, talks, strayed, bounds>> /\ End(r)

-----------------------------------------------------------------------------
(* Links and side conversations                                              *)

createLink(r) == Same /\ At(r, "link", "run") /\ Finds(r, req[r].t, "linked")
FindLinked(r) == Same /\ At(r, "link", "linked") /\ Finds(r, req[r].arg, "existing")
Linked(a, b) == \E l \in links : {l.ticketId, l.linkedTicketId} = {a, b}
FindLink(r) ==
  /\ Same
  /\ At(r, "link", "existing")
  /\ IF Linked(req[r].t, req[r].arg) /\ MayRead(r, req[r].t) /\ MayRead(r, req[r].arg) THEN End(r) ELSE Goto(r, "insert")
(* Nothing in the table refuses a second link of the two. *)
InsertTicketLink(r) ==
  /\ At(r, "link", "insert")
  /\ links' = links \cup {[ticketId |-> req[r].t, linkedTicketId |-> req[r].arg]}
  /\ UNCHANGED <<ticket, member, host, subjects, talks, strayed, bounds>> /\ End(r)
deleteLink(r) ==
  /\ At(r, "unlink", "run")
  /\ \E l \in links : links' = IF MayRead(r, l.ticketId) /\ MayRead(r, l.linkedTicketId) THEN links \ {l} ELSE links
  /\ UNCHANGED <<ticket, member, host, subjects, talks, strayed, bounds>> /\ End(r)

(* The conversation, then its first message: an insert is not restricted. *)
createConversation(r) ==
  /\ At(r, "talk", "run") /\ talks[req[r].t].status = "none"
  /\ talks' = [talks EXCEPT ![req[r].t].status = "open"]
  /\ UNCHANGED <<ticket, member, host, links, subjects, strayed, bounds>> /\ Goto(r, "message")
FirstMessage(r) ==
  /\ At(r, "talk", "message")
  /\ talks' = [talks EXCEPT ![req[r].t].said = TRUE]
  /\ UNCHANGED <<ticket, member, host, links, subjects, strayed, bounds>> /\ End(r)
addReply(r) ==
  /\ At(r, "say", "run") /\ talks[req[r].t].status # "none" /\ MayRead(r, req[r].t)
  /\ talks' = [talks EXCEPT ![req[r].t].said = TRUE]
  /\ UNCHANGED <<ticket, member, host, links, subjects, strayed, bounds>> /\ End(r)
close(r) ==
  /\ At(r, "close", "run") /\ talks[req[r].t].status # "none" /\ MayRead(r, req[r].t)
  /\ \E status \in {"open", "closed"} : talks' = [talks EXCEPT ![req[r].t].status = status]
  /\ UNCHANGED <<ticket, member, host, links, subjects, strayed, bounds>> /\ End(r)
NotFound(r) ==
  /\ req[r].at = "run"
  /\ \/ req[r].op \in {"say", "close"} /\ ~(talks[req[r].t].status # "none" /\ MayRead(r, req[r].t))
     \/ req[r].op = "talk" /\ talks[req[r].t].status # "none"
     \/ req[r].op = "unlink" /\ links = {}
  /\ Same /\ End(r)

-----------------------------------------------------------------------------
(* Meanwhile                                                                 *)

Changed == changes < MaxChanges /\ changes' = changes + 1 /\ UNCHANGED <<links, subjects, talks, req, strayed, requests, faults>>
Move(t, d) == Changed /\ ticket' = [ticket EXCEPT ![t].department = d] /\ UNCHANGED <<member, host>>
JoinOrLeave(u, d) ==
  /\ Changed /\ UNCHANGED <<ticket, host>>
  /\ member' = IF <<u, d>> \in member THEN member \ {<<u, d>>} ELSE member \cup {<<u, d>>}
HostChanges(u, isAdmin, account) ==
  Changed /\ host' = [host EXCEPT ![u] = [isAdmin |-> isAdmin, account |-> account]] /\ UNCHANGED <<ticket, member>>
Crash(r) ==
  /\ req[r].at # "idle" /\ faults < MaxFaults /\ faults' = faults + 1
  /\ UNCHANGED <<ticket, member, host, links, subjects, talks, strayed, changes, requests>> /\ End(r)

-----------------------------------------------------------------------------
Init ==
  /\ ticket \in [Tickets -> [department : Departments, account : {None, First}]]
  /\ member = Agents \X Departments
  /\ host = [u \in Agents |-> [isAdmin |-> FALSE, account |-> First]]
  /\ links = {} /\ subjects = {} /\ talks = [t \in Tickets |-> [status |-> "none", said |-> FALSE]]
  /\ req = [r \in Requests |-> Idle] /\ strayed = {} /\ changes = 0 /\ requests = 0 /\ faults = 0

Begin(r) ==
  \E u \in Agents, t \in Tickets :
    \/ \E op \in {"read", "download", "retag", "unlink", "talk", "say", "close"} : requestActor(r, u, op, t, None)
    \/ \E op \in {"attach", "detach"}, s \in Subjects : requestActor(r, u, op, t, s)
    \/ \E other \in Tickets \ {t} : requestActor(r, u, "link", t, other)
Statement(r) ==
  \/ resolveAccount(r) \/ (\E kind \in Tables : ReadRows(r, kind))
  \/ download(r) \/ ownerOf(r) \/ authorize(r)
  \/ findById(r) \/ attach(r) \/ FindExisting(r) \/ maxPosition(r) \/ InsertSubject(r) \/ detach(r) \/ SaveTags(r)
  \/ SyncFill(r) \/ SyncInsert(r) \/ SyncEnds(r)
  \/ createLink(r) \/ FindLinked(r) \/ FindLink(r) \/ InsertTicketLink(r) \/ deleteLink(r)
  \/ createConversation(r) \/ FirstMessage(r) \/ addReply(r) \/ close(r) \/ NotFound(r)
Next ==
  \/ \E r \in Requests :
       Begin(r) \/ Statement(r) \/ Crash(r) \/ \E t \in Tickets, items \in SubjectLists : sync(r, t, items)
  \/ \E t \in Tickets, d \in Departments \cup {None} : Move(t, d)
  \/ \E u \in Agents, d \in Departments : JoinOrLeave(u, d)
  \/ \E u \in Agents, isAdmin \in BOOLEAN, account \in {None, First} : HostChanges(u, isAdmin, account)
Spec == Init /\ [][Next]_vars

-----------------------------------------------------------------------------
TypeOK ==
  /\ \A t \in Tickets : ticket[t].department \in Departments \cup {None} /\ ticket[t].account \in Accounts \cup {None}
  /\ subjects \subseteq [ticketId : Tickets, subject : Subjects, position : Nat]
  /\ links \subseteq [ticketId : Tickets, linkedTicketId : Tickets]
  /\ \A r \in Requests : req[r].actor.account \in Accounts \cup {None}

(* Whatever table a request reads and by whichever number, every row it is shown is of a ticket its actor *)
(* can see at that moment: no record leads around the restriction of its ticket.                           *)
RecordsFollowTicket == strayed = {}
(* However attachments overlap, none replaces an account that is there: one is lost, or replaced, only to a *)
(* request that changes tags and saves the account it had read with them.                                  *)
AccountsStay ==
  \A t \in Tickets : ticket[t].account # None /\ ticket'[t].account # ticket[t].account =>
    \E r \in Requests : At(r, "retag", "found") /\ req[r].t = t
===============================================================================
