------------------------------ MODULE AgentInbox ------------------------------
(***************************************************************************)
(* The numbers beside an agent's ticket lists: the dashboard's, and the    *)
(* inbox rail's with its views and stat tiles.  A page is a request.  It   *)
(* chooses a queue from what was asked or from the queue last opened,      *)
(* counts one number after another, each a query over the ticket list's    *)
(* own filters, and the rail is kept in the process for a few seconds per  *)
(* agent and queue.  Tickets, read markers and saved views change between  *)
(* any two of those queries, and two tabs build the same rail at once.     *)
(*                                                                         *)
(* A filter set is a function from the filter names it uses; priority and  *)
(* status have the two values the built-in views and tiles ask for.        *)
(***************************************************************************)
EXTENDS Naturals, Sequences, FiniteSets, TLC

CONSTANTS
  Tickets, Agents,     \* ids; assignees
  Me,                  \* the agent whose tabs these are
  Tabs, Links,         \* and what is clicked in them: workspaces and views
  SavedViews,          \* ids of saved views
  ViewFilters,         \* the filter sets a view may be saved with
  DueAt,               \* when each ticket's SLA target falls due
  Soon, CacheSeconds,  \* SLA_AT_RISK_MINUTES and ui.agentInbox.cacheSeconds
  Nothing,
  MaxClock, MaxChanges \* bounds

InboxAssumption ==
  /\ Me \in Agents /\ DueAt \in [Tickets -> Nat]
  /\ Soon \in Nat /\ CacheSeconds \in Nat /\ MaxClock \in Nat

VARIABLES
  clock, tickets, unread, views,
  cache,      \* queue key |-> what the process keeps of this agent's rail
  remembered, \* the queue key in the session
  tab,        \* the page each tab is loading or showing
  changes,
  past        \* history: what the tables held, and until when

vars == <<clock, tickets, unread, views, cache, remembered, tab, changes, past>>

Rows == [assignee : Agents \cup {Nothing}, status : {"open", "resolved"}, urgent : BOOLEAN,
         snoozed : 0 .. MaxClock + 1, merged : BOOLEAN]

-----------------------------------------------------------------------------
(* The ticket list's filters                                                 *)

SolvedStatus == {"resolved"}
Open(row) == row.status \notin SolvedStatus
atRisk(t, row) == Open(row) /\ DueAt[t] <= clock + Soon
Passes(t, row, filter, value) ==
  CASE filter = "status" -> row.status = value
    [] filter = "open" -> Open(row)
    [] filter = "priority" -> row.urgent
    [] filter = "assigned_to" -> row.assignee = value
    [] filter = "unassigned" -> row.assignee = Nothing
    [] filter = "sla_at_risk" -> atRisk(t, row)
Awake(row) == row.snoozed <= clock
applyListFilters(filters) ==
  {t \in Tickets : /\ \A f \in DOMAIN filters : Passes(t, tickets[t], f, filters[f])
                   /\ Awake(tickets[t])}
base == {t \in Tickets : ~tickets[t].merged}
ticketCount(filters, only) == Cardinality(applyListFilters(filters) \cap base \cap only)
countOpen(filters, only) ==
  ticketCount(IF "status" \in DOMAIN filters THEN filters ELSE [open |-> 1] @@ filters, only)

(* The dashboard counts over the same rows without the list's filters: snoozed tickets too. *)
agentDashboard ==
  LET open == {t \in base : Open(tickets[t])}
  IN [open |-> Cardinality(open),
      my_assigned |-> Cardinality({t \in open : tickets[t].assignee = Me}),
      unassigned |-> Cardinality({t \in open : tickets[t].assignee = Nothing})]

-----------------------------------------------------------------------------
(* Queues and views                                                          *)

BuiltIn ==
  [urgent |-> [priority |-> "urgent", open |-> 1],
   sla_at_risk |-> [sla_at_risk |-> 1],
   waiting_on_me |-> [assigned_to |-> Me, status |-> "open"]]
Workspace(key) ==
  CASE key = "mine" -> [assigned_to |-> Me]
    [] key = "unassigned" -> [unassigned |-> 1]
    [] OTHER -> <<>>
Mine(view) == view \in DOMAIN views /\ (views[view].owner = Me \/ views[view].shared)
listedViews ==
  [v \in DOMAIN BuiltIn \cup {s \in SavedViews : Mine(s)} |->
     IF v \in DOMAIN BuiltIn THEN BuiltIn[v] ELSE views[v].filters]

Queue(key, filters) == [key |-> key, filters |-> filters]
AllTickets == Queue("all", <<>>)
viewQueue(v) == Queue(v, listedViews[v])
(* A link names a view, or carries its filters; any other selection is one of the workspaces. *)
queueFor(link) ==
  IF link \in DOMAIN listedViews THEN viewQueue(link)
  ELSE IF link \in {"mine", "unassigned"} THEN Queue(link, Workspace(link)) ELSE AllTickets
(* The key is all that was kept: the view may have been deleted or unshared since. *)
recalled ==
  IF remembered \in DOMAIN listedViews THEN viewQueue(remembered)
  ELSE IF remembered \in {"mine", "unassigned"} THEN Queue(remembered, Workspace(remembered))
  ELSE AllTickets

-----------------------------------------------------------------------------
(* Loading a page                                                            *)

Idle == [phase |-> "idle", kind |-> Nothing, queue |-> AllTickets, since |-> 0, from |-> 0,
         counted |-> <<>>]
(* One number of each kind: `unassigned`, `all` and the other tiles are counted like these. *)
Numbers == <<"mine", "unread", "views", "open">>
CountNext(page) ==
  LET n == Numbers[Len(page.counted) + 1] IN
  CASE n = "mine" -> countOpen([assigned_to |-> Me], Tickets)
    [] n = "unread" -> countOpen([assigned_to |-> Me], unread)
    [] n = "views" -> [v \in DOMAIN listedViews |-> countOpen(listedViews[v], Tickets)]
    [] n = "open" -> ticketCount([status |-> "open"] @@ page.queue.filters, Tickets)

Fresh(key) == key \in DOMAIN cache /\ cache[key].expires > clock
Opening(page, queue, kind) == [Idle EXCEPT !.phase = "queue", !.kind = kind, !.queue = queue, !.since = clock]

(* The list: choose the queue, remember it. *)
OpenList(i, link) ==
  /\ tab[i].phase = "idle"
  /\ tab' = [tab EXCEPT ![i] = Opening(@, queueFor(link), "list")]
  /\ remembered' = queueFor(link).key
  /\ UNCHANGED <<clock, tickets, unread, views, cache, changes, past>>
(* A ticket: opening it in the panel is reading it; then the queue is recalled. *)
OpenTicket(i, t) ==
  /\ tab[i].phase = "idle" /\ changes < MaxChanges
  /\ unread' = unread \ {t} /\ changes' = changes + 1
  /\ tab' = [tab EXCEPT ![i] = Opening(@, AllTickets, "ticket")]
  /\ past' = Append(past, [tickets |-> tickets, unread |-> unread, views |-> views, until |-> clock])
  /\ UNCHANGED <<clock, tickets, views, cache, remembered>>
Recall(i) ==
  /\ tab[i].phase = "queue" /\ tab[i].kind = "ticket"
  /\ tab' = [tab EXCEPT ![i].queue = recalled, ![i].kind = "list"]
  /\ UNCHANGED <<clock, tickets, unread, views, cache, remembered, changes, past>>

(* summary: the rail kept for this queue if it has not expired, or a new one. *)
Look(i) ==
  /\ tab[i].phase = "queue" /\ tab[i].kind = "list"
  /\ tab' = [tab EXCEPT ![i] =
       IF Fresh(tab[i].queue.key)
       THEN [@ EXCEPT !.phase = "shown", !.counted = cache[tab[i].queue.key].value]
       ELSE [@ EXCEPT !.phase = "build", !.from = clock]]
  /\ UNCHANGED <<clock, tickets, unread, views, cache, remembered, changes, past>>
Count(i) ==
  /\ tab[i].phase = "build" /\ Len(tab[i].counted) < Len(Numbers)
  /\ tab' = [tab EXCEPT ![i].counted = Append(@, CountNext(tab[i]))]
  /\ UNCHANGED <<clock, tickets, unread, views, cache, remembered, changes, past>>

\* Mutant: the rail is kept for its time from when it is ready
KeptFromReady(page) == [value |-> page.counted, expires |-> clock + CacheSeconds]
Kept(page) == [value |-> page.counted, expires |-> page.from + CacheSeconds]

Keep(i) ==
  /\ tab[i].phase = "build" /\ Len(tab[i].counted) = Len(Numbers)
  /\ cache' = (tab[i].queue.key :> Kept(tab[i]))
              @@ [key \in {k \in DOMAIN cache : cache[k].expires > tab[i].from} |-> cache[key]]
  /\ tab' = [tab EXCEPT ![i].phase = "shown"]
  /\ UNCHANGED <<clock, tickets, unread, views, remembered, changes, past>>
Close(i) ==
  /\ tab[i].phase = "shown"
  /\ tab' = [tab EXCEPT ![i] = Idle]
  /\ UNCHANGED <<clock, tickets, unread, views, cache, remembered, changes, past>>

-----------------------------------------------------------------------------
(* What else goes on                                                         *)

Changed ==
  /\ changes < MaxChanges /\ changes' = changes + 1
  /\ past' = Append(past, [tickets |-> tickets, unread |-> unread, views |-> views, until |-> clock])
  /\ UNCHANGED <<clock, cache, remembered, tab>>
ChangeTicket(t, column, value) ==
  /\ tickets[t][column] # value
  /\ tickets' = [tickets EXCEPT ![t][column] = value]
  /\ UNCHANGED <<unread, views>> /\ Changed
CustomerWrites(t) ==
  /\ t \notin unread /\ unread' = unread \cup {t}
  /\ UNCHANGED <<tickets, views>> /\ Changed
storeView(v, filters) ==
  /\ v \notin DOMAIN views
  /\ views' = (v :> [owner |-> Me, shared |-> FALSE, filters |-> filters]) @@ views
  /\ UNCHANGED <<tickets, unread>> /\ Changed
updateView(v, filters) ==
  /\ v \in DOMAIN views /\ views[v].filters # filters
  /\ views' = [views EXCEPT ![v].filters = filters]
  /\ UNCHANGED <<tickets, unread>> /\ Changed
destroyView(v) ==
  /\ v \in DOMAIN views
  /\ views' = [w \in DOMAIN views \ {v} |-> views[w]]
  /\ UNCHANGED <<tickets, unread>> /\ Changed
Tick ==
  /\ clock < MaxClock /\ clock' = clock + 1
  /\ past' = Append(past, [tickets |-> tickets, unread |-> unread, views |-> views, until |-> clock])
  /\ UNCHANGED <<tickets, unread, views, cache, remembered, tab, changes>>

Init ==
  /\ clock = 0 /\ changes = 0 /\ past = <<>>
  /\ tickets = [t \in Tickets |-> [assignee |-> Me, status |-> "open", urgent |-> FALSE,
                                    snoozed |-> 0, merged |-> FALSE]]
  /\ views \in {<<>>} \cup {v :> [owner |-> Me, shared |-> FALSE, filters |-> [assigned_to |-> Me]] : v \in SavedViews}
  /\ unread = {} /\ cache = <<>> /\ remembered = "all"
  /\ tab = [i \in Tabs |-> Idle]

Next ==
  \/ \E i \in Tabs :
       \/ \E link \in Links : OpenList(i, link)
       \/ \E t \in Tickets : OpenTicket(i, t)
       \/ Recall(i) \/ Look(i) \/ Count(i) \/ Keep(i) \/ Close(i)
  \/ \E t \in Tickets :
       \/ CustomerWrites(t)
       \/ \E a \in Agents \cup {Nothing} : ChangeTicket(t, "assignee", a)
       \/ ChangeTicket(t, "status", "resolved") \/ ChangeTicket(t, "urgent", TRUE)
       \/ ChangeTicket(t, "snoozed", MaxClock + 1) \/ ChangeTicket(t, "merged", TRUE)
  \/ \E v \in SavedViews :
       \/ \E f \in ViewFilters : storeView(v, f) \/ updateView(v, f)
       \/ destroyView(v)
  \/ Tick

Spec == Init /\ [][Next]_vars

-----------------------------------------------------------------------------
(* Properties                                                                *)

(* Rows have their shapes, and a tab holds as many numbers as its page has. *)
TypeOK ==
  /\ tickets \in [Tickets -> Rows] /\ unread \subseteq Tickets /\ clock \in 0 .. MaxClock
  /\ DOMAIN views \subseteq SavedViews
  /\ \A i \in Tabs : Len(tab[i].counted) <= Len(Numbers)

(* What the rail's numbers mean, said without the filters: of the tickets  *)
(* of a moment, those that are not merged, solved or asleep.               *)
Moments == past \o <<[tickets |-> tickets, unread |-> unread, views |-> views, until |-> clock]>>
Live(now) == {t \in Tickets : /\ ~now.tickets[t].merged /\ now.tickets[t].status = "open"
                              /\ now.tickets[t].snoozed <= now.until}
Meaning(now, n) ==
  CASE n = 1 -> Cardinality({t \in Live(now) : now.tickets[t].assignee = Me})
    [] n = 2 -> Cardinality({t \in Live(now) \cap now.unread : now.tickets[t].assignee = Me})

(* A number on the rail is what an agent would have counted by hand at     *)
(* some moment since the page was asked for, less the time a rail is kept: *)
(* however long it took to build, whoever built it, and whatever changed   *)
(* meanwhile, it is never older than that.                                 *)
CountsAreRecent ==
  /\ agentDashboard.my_assigned =
       Cardinality({t \in Tickets : ~tickets[t].merged /\ tickets[t].status = "open"
                                     /\ tickets[t].assignee = Me})
  /\ \A i \in Tabs : tab[i].phase = "shown" =>
    \A n \in 1 .. 2 : \E m \in DOMAIN Moments :
      /\ Moments[m].until + CacheSeconds > tab[i].since
      /\ tab[i].counted[n] = Meaning(Moments[m], n)
=============================================================================
