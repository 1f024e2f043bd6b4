------------------------------ MODULE TicketWork ------------------------------
(***************************************************************************)
(* What agents and customers do to tickets through TicketService: update,  *)
(* the one action screens, bulk actions over a list, snooze, close and     *)
(* reopen, merge, split and delete.  A request is a list of statements     *)
(* with an await between any two: it acts on the row it read at its start, *)
(* writes the history first and the columns last, and may die or be        *)
(* refused between two of them.                                            *)
(*                                                                         *)
(* External: TypeORM's save writes every column of the row it is given,    *)
(* and inserts it when it is no longer there; history rows reference their *)
(* ticket and go with it.                                                  *)
(***************************************************************************)
EXTENDS Naturals, Sequences, FiniteSets, SequencesExt

CONSTANTS
  Tickets,                \* ids, numbers; those not in use yet may be taken by create
  Agents, Tags, Solved,   \* assignees; tags; the statuses that close a ticket
  Statuses,
  ClosedStatus, Reopened, \* the statuses a customer's close and reopen choose
  Requests,               \* requests the process may serve
  Nothing,                \* an unset column, and a form that leaves a column alone
  MaxFaults               \* bound on requests that die

StatusesAssumption == Solved \subseteq Statuses /\ {ClosedStatus, Reopened} \subseteq Statuses

VARIABLES
  ticket,     \* id |-> row, for the rows there are
  history,    \* the values the history rows of a ticket name: <<ticket, column, value>>
  request,    \* per request: what it does and how far it is
  born,       \* history: the row each ticket began with
  deleted,    \* history: tickets that were deleted at some time
  faults

vars == <<ticket, history, request, born, deleted, faults>>

Columns == {"status", "assignee", "priority"}
Rows == [status : Statuses, assignee : Agents \cup {Nothing}, priority : {"low", "high"},
         tags : SUBSET Tags, snoozed : BOOLEAN, into : Tickets \cup {0}]
NewRow(status, priority) ==
  [status |-> status, assignee |-> Nothing, priority |-> priority, tags |-> {}, snoozed |-> FALSE,
   into |-> 0]

Keep == [status |-> Nothing, assignee |-> Nothing, priority |-> Nothing, tags |-> Nothing,
         snooze |-> Nothing]
Only(column, value) == [Keep EXCEPT ![column] = value]

(* What the API's PUT and each of the screen actions send; a customer's close and reopen. *)
Forms ==
  {[Only("status", s) EXCEPT !.assignee = a] : s \in Statuses, a \in Agents \cup {Nothing}}
  \cup {Only("priority", p) : p \in {"low", "high"}}
  \cup {Only("tags", set) : set \in SUBSET Tags}
  \cup {[Only("snooze", when) EXCEPT !.priority = "high"] : when \in {"future", "past"}}
CustomerForms == {Only("status", ClosedStatus), Only("status", Reopened)}

(* The actions of bulkAction: one form for every ticket, the tags to add, or the deletion. *)
BulkActions ==
  {[does |-> "update", form |-> form] : form \in {Only("priority", "high"), Only("status", ClosedStatus)}}
  \cup {[does |-> "addTags", form |-> Only("tags", {tag})] : tag \in Tags}
  \cup {[does |-> "delete", form |-> Keep]}

(* The other routes of the agent's API. *)
Routes == {"update", "delete", "merge", "split", "unsnooze"}

Unused == [does |-> "none", at |-> "none", ticket |-> 0, other |-> 0, form |-> Keep,
           row |-> Nothing, todo |-> <<>>, batch |-> <<>>, count |-> 0]

Init ==
  /\ \E n \in Tickets : \E first \in [1 .. n -> {NewRow(s, "low") : s \in Statuses}] :
        ticket = first /\ born = first
  /\ history = {}
  /\ request = [r \in Requests |-> Unused]
  /\ deleted = {} /\ faults = 0

Is(t) == t \in DOMAIN ticket
Fresh == {t \in Tickets : ~Is(t) /\ t \notin DOMAIN born}

-----------------------------------------------------------------------------
(* The statements of one update, of the row it read and the form it was sent. *)
Changed(row, form, column) == form[column] # Nothing /\ form[column] # row[column]

\* Mutant: update writes the columns first and the history after them.
ColumnsFirst(row, form) ==
  <<"columns">>
  \o SelectSeq(<<"priority", "status", "assignee">>, LAMBDA c : Changed(row, form, c))
  \o (IF form.snooze = Nothing THEN <<>> ELSE <<"snooze">>)
  \o (IF form.tags = Nothing THEN <<>> ELSE <<"tags">>)
  \o <<"tell">>

Statements(row, form) ==
  SelectSeq(<<"priority", "status", "assignee">>, LAMBDA c : Changed(row, form, c))
  \o (IF form.snooze = Nothing THEN <<>> ELSE <<"snooze">>)
  \o (IF form.tags = Nothing THEN <<>> ELSE <<"tags">>)
  \o <<"columns", "tell">>

(* A batch goes on with its next ticket whatever became of this one, and counts it when it went *)
(* well; any other request has ended.                                                           *)
Answered(q, well) ==
  IF q.batch = <<>>
  THEN [Unused EXCEPT !.at = IF well THEN "done" ELSE "refused", !.does = q.does, !.count = q.count]
  ELSE LET rest == Tail(q.batch)
           counted == [q EXCEPT !.batch = rest, !.count = IF well THEN @ + 1 ELSE @]
       IN IF rest = <<>>
          THEN [Unused EXCEPT !.at = "done", !.does = q.does, !.count = counted.count]
          ELSE [counted EXCEPT !.at = "read", !.ticket = Head(rest).id, !.todo = <<>>, !.row = Nothing]

Now(r, q) == request' = [request EXCEPT ![r] = q]
Onward(r) == Now(r, [request[r] EXCEPT !.todo = Tail(@)])
Rest == <<born, deleted, faults>>

(* The controllers: an update, a merge, a split or a deletion of one ticket. *)
Ask(r) ==
  /\ request[r].at = "none"
  /\ \E t \in DOMAIN born, form \in Forms \cup CustomerForms \cup {Keep},
        does \in Routes, other \in DOMAIN born \cup {0} :
       /\ does = "update" <=> form # Keep
       /\ does = "merge" <=> other # 0
       /\ other # t           \* a ticket is not merged into itself
       /\ Now(r, [Unused EXCEPT !.does = does, !.at = "read", !.ticket = t, !.other = other,
                                !.form = form])
  /\ UNCHANGED <<ticket, history, Rest>>

(* bulkAction: the rows of the list are loaded, with their tags, once. *)
Load(r) ==
  /\ request[r].at = "none"
  /\ \E action \in BulkActions, ids \in SUBSET DOMAIN born :
       /\ ids \cap DOMAIN ticket # {}
       /\ LET rows == SetToSeq(ids \cap DOMAIN ticket)
              batch == [i \in DOMAIN rows |-> [id |-> rows[i], tags |-> ticket[rows[i]].tags]]
          IN Now(r, [Unused EXCEPT !.does = action.does, !.at = "read", !.form = action.form,
                                   !.batch = batch, !.ticket = batch[1].id])
  /\ UNCHANGED <<ticket, history, Rest>>

(* The tags of a bulk action: those the ticket had when it was loaded, and the ones to add. *)
FormOf(q) ==
  IF q.does = "addTags" THEN [q.form EXCEPT !.tags = Head(q.batch).tags \cup @] ELSE q.form

(* findById, at the start of update, delete, split and merge; unsnooze does not look. *)
Read(r) ==
  LET q == request[r] IN
  /\ q.at = "read"
  /\ IF q.does = "unsnooze"
     THEN Now(r, [q EXCEPT !.at = "work", !.todo = <<"wake", "woken">>])
     ELSE IF ~Is(q.ticket) THEN Now(r, Answered(q, FALSE))
     ELSE LET row == ticket[q.ticket] IN
          Now(r, [q EXCEPT !.at = "work", !.row = row, !.todo =
             CASE q.does \in {"update", "addTags"} -> Statements(row, FormOf(q))
               [] q.does = "merge" -> <<"target", "merged", "mergedAway", "mergedIn">>
               [] q.does = "split" -> <<"create", "split">>
               [] q.does = "delete" -> <<"remove">>])
  /\ UNCHANGED <<ticket, history, Rest>>

At(r, step) == request[r].at = "work" /\ request[r].todo # <<>> /\ Head(request[r].todo) = step
Refuse(r) == Now(r, Answered(request[r], FALSE)) /\ UNCHANGED <<ticket, history, Rest>>

-----------------------------------------------------------------------------
(* The history of one changed column. *)
Record(r, column) ==
  LET q == request[r] IN
  /\ At(r, column) /\ column \in Columns
  /\ \/ ~Is(q.ticket) /\ Refuse(r)
     \/ /\ Is(q.ticket)
        /\ history' = history \cup {<<q.ticket, column, FormOf(q)[column]>>}
        /\ Onward(r)
        /\ UNCHANGED <<ticket, Rest>>

(* A date that is past by now ends the request, whatever it wrote already. *)
Snooze(r) ==
  LET q == request[r] IN
  /\ At(r, "snooze")
  /\ \/ (q.form.snooze = "past" \/ ~Is(q.ticket)) /\ Refuse(r)
     \/ /\ q.form.snooze = "future" /\ Is(q.ticket)
        /\ history' = history \cup {<<q.ticket, "snooze", "future">>}
        /\ Onward(r)
        /\ UNCHANGED <<ticket, Rest>>

(* The ticket is saved as it was read, with the tags of the form.                            *)
SaveTags(r) ==
  LET q == request[r]
      row == [q.row EXCEPT !.tags = FormOf(q).tags]
  IN /\ At(r, "tags")
     /\ ticket' = [t \in DOMAIN ticket \cup {q.ticket} |-> IF t = q.ticket THEN row ELSE ticket[t]]
     /\ Onward(r)
     /\ UNCHANGED <<history, born, deleted, faults>>

(* Mutant: a column the form leaves alone is written too, as nothing. *)
WrittenAsSent(row, form, column) == form[column]

Written(row, form, column) == IF form[column] = Nothing THEN row[column] ELSE form[column]

(* The columns of the form; a ticket that is gone gets none. *)
WriteColumns(r) ==
  LET q == request[r]
      form == FormOf(q)
      Value(column) == Written(ticket[q.ticket], form, column)
  IN /\ At(r, "columns")
     /\ ticket' = IF ~Is(q.ticket) THEN ticket
                  ELSE [ticket EXCEPT ![q.ticket] =
                          [@ EXCEPT !.status = Value("status"), !.assignee = Value("assignee"),
                                    !.priority = Value("priority"),
                                    !.snoozed = @ \/ form.snooze = "future"]]
     /\ Onward(r)
     /\ UNCHANGED <<history, Rest>>

(* The ticket is read again, and its events announced. *)
Tell(r) ==
  /\ At(r, "tell")
  /\ Now(r, Answered(request[r], Is(request[r].ticket)))
  /\ UNCHANGED <<ticket, history, Rest>>

(* delete: the ticket was read; its history goes with it. *)
Delete(r) ==
  LET t == request[r].ticket IN
  /\ At(r, "remove")
  /\ ticket' = [other \in DOMAIN ticket \ {t} |-> ticket[other]]
  /\ history' = {h \in history : h[1] # t}
  /\ deleted' = deleted \cup {t}
  /\ Now(r, Answered(request[r], TRUE))
  /\ UNCHANGED <<born, faults>>

(* unsnooze: the column, then its history row. *)
Wake(r) ==
  LET t == request[r].ticket IN
  /\ At(r, "wake")
  /\ ticket' = IF Is(t) THEN [ticket EXCEPT ![t].snoozed = FALSE] ELSE ticket
  /\ Onward(r)
  /\ UNCHANGED <<history, Rest>>

Woken(r) ==
  /\ At(r, "woken")
  /\ Now(r, Answered(request[r], Is(request[r].ticket)))
  /\ UNCHANGED <<ticket, history, Rest>>

-----------------------------------------------------------------------------
(* merge: both tickets are read, the source is marked, and then told of in both histories. *)
ReadTarget(r) ==
  /\ At(r, "target")
  /\ IF Is(request[r].other) THEN Onward(r) ELSE Now(r, Answered(request[r], FALSE))
  /\ UNCHANGED <<ticket, history, Rest>>

Merge(r) ==
  LET q == request[r] IN
  /\ At(r, "merged")
  /\ ticket' = IF Is(q.ticket) THEN [ticket EXCEPT ![q.ticket].into = q.other] ELSE ticket
  /\ Onward(r)
  /\ UNCHANGED <<history, Rest>>

RecordMerge(r) ==
  LET q == request[r]
      side == IF Head(q.todo) = "mergedAway" THEN q.ticket ELSE q.other
  IN /\ At(r, "mergedAway") \/ At(r, "mergedIn")
     /\ \/ ~Is(side) /\ Refuse(r)
        \/ /\ Is(side)
           /\ history' = history \cup {<<side, Head(q.todo), 0>>}
           /\ IF Head(q.todo) = "mergedIn" THEN Now(r, Answered(q, TRUE)) ELSE Onward(r)
           /\ UNCHANGED <<ticket, Rest>>

(* split: a new ticket with the priority of the old one, and nothing else of it. *)
Create(r) ==
  /\ At(r, "create")
  /\ \E t \in Fresh, s \in Statuses \ Solved :
       LET row == NewRow(s, request[r].row.priority)
           Plus(f) == [u \in DOMAIN f \cup {t} |-> IF u = t THEN row ELSE f[u]]
       IN ticket' = Plus(ticket) /\ born' = Plus(born)
  /\ Onward(r)
  /\ UNCHANGED <<history, deleted, faults>>

RecordSplit(r) ==
  /\ At(r, "split")
  /\ Now(r, Answered(request[r], Is(request[r].ticket)))
  /\ UNCHANGED <<ticket, history, Rest>>

(* A statement fails, or the process dies: what was written stays. *)
Dies(r) ==
  /\ faults < MaxFaults /\ faults' = faults + 1
  /\ request[r].at \in {"read", "work"}
  /\ Now(r, [Unused EXCEPT !.at = "refused", !.does = request[r].does])
  /\ UNCHANGED <<ticket, history, born, deleted>>

Next == \E r \in Requests :
  \/ Ask(r) \/ Load(r) \/ Read(r) \/ (\E column \in Columns : Record(r, column))
  \/ Snooze(r) \/ SaveTags(r) \/ WriteColumns(r) \/ Tell(r) \/ Delete(r) \/ Wake(r) \/ Woken(r)
  \/ ReadTarget(r) \/ Merge(r) \/ RecordMerge(r) \/ Create(r) \/ RecordSplit(r) \/ Dies(r)

Spec == Init /\ [][Next]_vars

-----------------------------------------------------------------------------
TypeOK ==
  /\ DOMAIN ticket \subseteq DOMAIN born /\ DOMAIN born \subseteq Tickets
  /\ \A t \in DOMAIN ticket : ticket[t] \in Rows
  /\ \A r \in Requests : request[r].at \in {"none", "read", "work", "done", "refused"}
  /\ deleted \subseteq DOMAIN born /\ faults \in 0 .. MaxFaults

(* Whatever requests overlap, are refused half-way or die, a column of a ticket that was never  *)
(* deleted holds the value it began with or one its history tells of: nothing is changed off    *)
(* the record (ticket.service.ts, update: every history row is written before the columns).     *)
NothingOffTheRecord ==
  \A t \in DOMAIN ticket \ deleted : \A column \in Columns :
     \/ ticket[t][column] = born[t][column]
     \/ <<t, column, ticket[t][column]>> \in history
=============================================================================
