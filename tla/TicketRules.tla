------------------------------ MODULE TicketRules ------------------------------
(***************************************************************************)
(* What changes a ticket by rule: workflows, which an event on the ticket  *)
(* starts, automations, which the clock starts, and macros, which an agent *)
(* starts; with TicketService.update, the write path they share with the   *)
(* agents.  One step is one SQL statement and what the process does up to  *)
(* its next await.  An event starts its workflows at once: the handler     *)
(* reads the active workflows in the step that emits, and the ticket later.*)
(***************************************************************************)
EXTENDS Naturals, Sequences, FiniteSets, SequencesExt

CONSTANTS
  Workflows,    \* id (a number) |-> [trigger, conditions, actions, stopOnMatch]
  Saved,        \* the workflows there are at first, in order
  Automation,   \* [conditions, actions]
  Macro,        \* the actions of a macro
  Agents,       \* people saving the ticket form
  Forms,        \* what they may send: some columns and their values
  MaxRuns,      \* bound on the events that start workflows
  MaxForms,     \* bound on forms sent
  MaxStarts,    \* bound on automation runs and macro uses
  MaxAdmin      \* bound on what admins do to workflows

Statuses == {"open", "resolved", "closed"}
Unassigned == "nobody"

isSolvedStatus(status) == status \in {"resolved", "closed"}

NewTicket == [status |-> "open", stamped |-> FALSE, priority |-> "low",
              assignee |-> Unassigned, tags |-> {}]

WorkflowsAssumption == ToSet(Saved) \subseteq DOMAIN Workflows

VARIABLES
  ticket,    \* the ticket's row; `stamped`: resolvedAt and closedAt are set
  thread,    \* its replies and notes, as written
  active,    \* the workflows switched on
  order,     \* the workflow rows there are, by position
  runs,      \* the events handled so far, each with where its handler is
  proc,      \* the automation run and the macro in hand
  agent,     \* per agent: the update in hand
  legacy,    \* history: a macro used set_status, which stamps nothing
  reverted,  \* history: a row was saved whole over a newer one
  removed,   \* history: workflows deleted
  forms, starts, edits

rules == <<active, order, removed, edits>>
vars  == <<ticket, thread, active, order, runs, proc, agent, legacy, reverted, removed,
           forms, starts, edits>>

-----------------------------------------------------------------------------
(* WorkflowEngineService: do the conditions hold of the ticket's facts? *)

evalSingle(c, facts) ==
  CASE c.operator = "equals"       -> c.value \in facts[c.field]
    [] c.operator = "not_equals"   -> c.value \notin facts[c.field]
    [] c.operator = "is_empty"     -> facts[c.field] = {}
    [] c.operator = "is_not_empty" -> facts[c.field] # {}
    [] OTHER                       -> FALSE

evaluateConditions(conditions, facts) ==
  CASE "all" \in DOMAIN conditions -> \A c \in conditions.all : evalSingle(c, facts)
    [] "any" \in DOMAIN conditions -> \E c \in conditions.any : evalSingle(c, facts)
    [] OTHER                       -> TRUE

\* A scalar column is the set of its one value; no assignee is no value.
ticketToConditionMap(row) ==
  [status |-> {row.status}, priority |-> {row.priority}, tags |-> row.tags,
   assigned_to |-> {row.assignee} \ {Unassigned}]

-----------------------------------------------------------------------------
(* Events, and the handlers they start. *)

\* The lifecycle event beside `ticket.status_changed`, if any.
lifecycleEvent(previous, next) ==
  CASE next = "resolved"        -> <<"ticket.resolved">>
    [] next = "closed"          -> <<"ticket.closed">>
    [] isSolvedStatus(previous) -> <<"ticket.reopened">>
    [] OTHER                    -> <<>>

\* The active workflows an event triggers, by position.
Triggered(event) ==
  SelectSeq(order, LAMBDA w : w \in active /\ Workflows[w].trigger = event)

\* runForEvent up to its first await; `carried` is the ticket in the event.
Handler(event, carried) ==
  [at |-> "load", all |-> Triggered(event), left |-> Triggered(event), current |-> carried,
   facts |-> <<>>, act |-> 0, copy |-> <<>>, log |-> <<>>]

\* `old` with the handlers of `events` started: without workflows there is nothing to do.
WithHandlers(old, events, carried) ==
  LET heard == SelectSeq(events, LAMBDA e : Triggered(e) # <<>>)
  IN old \o [i \in 1..Len(heard) |-> Handler(heard[i], carried)]

-----------------------------------------------------------------------------
(* TicketService.update: the row is read, then written. *)

\* Mutant: only `closed` closes.
StampsClosed(was, form) ==
  "status" \in DOMAIN form /\ form.status # was.status /\ form.status = "closed" /\ ~was.stamped

\* The statuses that stamp: a solved one, over a row read without a closing time.
Stamps(was, form) ==
  /\ "status" \in DOMAIN form
  /\ form.status # was.status
  /\ isSolvedStatus(form.status)
  /\ ~was.stamped

Updated(row, was, form) ==
  [c \in DOMAIN row |-> IF c \in DOMAIN form THEN form[c]
                        ELSE IF c = "stamped" THEN row[c] \/ Stamps(was, form)
                        ELSE row[c]]

Differs(was, form, c) == c \in DOMAIN form /\ form[c] # was[c]

\* What an update announces, in order.
Announced(was, form) ==
  LET status == Differs(was, form, "status")
      assignee == Differs(was, form, "assignee")
  IN (IF status THEN <<"ticket.status_changed">> ELSE <<>>)
     \o (IF Differs(was, form, "priority") THEN <<"ticket.priority_changed">> ELSE <<>>)
     \o (IF status THEN lifecycleEvent(was.status, form.status) ELSE <<>>)
     \o (IF ~assignee THEN <<>>
         ELSE IF form.assignee = Unassigned THEN <<"ticket.unassigned">>
         ELSE <<"ticket.assigned">>)
     \o (IF \E c \in DOMAIN form : form[c] # was[c] THEN <<"ticket.updated">> ELSE <<>>)

\* The write, and the events with the row as written: `old` are the runs so far.
WriteUpdate(was, form, old) ==
  /\ ticket' = Updated(ticket, was, form)
  /\ runs' = WithHandlers(old, Announced(was, form), ticket')
  /\ Len(runs') <= MaxRuns

-----------------------------------------------------------------------------
(* A workflow run. *)

\* withRelations: the ticket as stored, read anew.
Load(r) ==
  /\ runs[r].at = "load"
  /\ runs' = [runs EXCEPT ![r].at = "next", ![r].current = ticket,
                          ![r].facts = ticketToConditionMap(ticket)]
  /\ UNCHANGED <<ticket, thread, rules, proc, agent, legacy, reverted, forms, starts>>

\* Nothing more to do: what the handler has read goes with it.
Done(run) == [run EXCEPT !.at = "done", !.left = <<>>, !.act = 0, !.copy = <<>>,
                         !.current = NewTicket, !.facts = <<>>]

\* The workflow in hand is done with: the next one, unless it stops the others.
Onward(run, stop) ==
  IF stop \/ Len(run.left) = 1 THEN Done(run)
  ELSE [run EXCEPT !.at = "next", !.left = Tail(@), !.copy = <<>>, !.act = 0]

\* The conditions of the next workflow and its log row; one deleted meanwhile has no row
\* to point at, and the refused insert ends the handler.
Consider(r) ==
  /\ runs[r].at = "next"
  /\ LET w == Head(runs[r].left)
         matched == evaluateConditions(Workflows[w].conditions, runs[r].facts)
         logged == [runs[r] EXCEPT !.log = Append(@, [workflow |-> w, matched |-> matched,
                                                      status |-> "open"])]
     IN runs' = [runs EXCEPT ![r] =
          IF ~Contains(order, w) THEN Done(runs[r])
          ELSE IF matched THEN [logged EXCEPT !.at = "act", !.act = 1]
          ELSE Onward(logged, FALSE)]
  /\ UNCHANGED <<ticket, thread, rules, proc, agent, legacy, reverted, forms, starts>>

\* Mutant: a failure is not caught.
EndOrThrow(run, status) ==
  Onward([run EXCEPT !.log[Len(run.log)].status = status],
         Workflows[Head(run.left)].stopOnMatch \/ status = "failed")

\* A matched workflow has run, or failed; its log row says which.
End(run, status) ==
  Onward([run EXCEPT !.log[Len(run.log)].status = status],
         Workflows[Head(run.left)].stopOnMatch)

ActionsOf(r) == Workflows[Head(runs[r].left)].actions
ActionOf(r)  == ActionsOf(r)[runs[r].act]
Performing(r, type) ==
  runs[r].at = "act" /\ runs[r].act <= Len(ActionsOf(r)) /\ ActionOf(r).type = type
\* On to the next action.
Acted(run) == [run EXCEPT !.at = "act", !.act = @ + 1, !.copy = <<>>]

Finish(r) ==
  /\ runs[r].at = "act" /\ runs[r].act > Len(ActionsOf(r))
  /\ runs' = [runs EXCEPT ![r] = End(@, "success")]
  /\ UNCHANGED <<ticket, thread, rules, proc, agent, legacy, reverted, forms, starts>>

\* Mutant: it is tried again.
RetryAction(r) ==
  Performing(r, "unknown") /\ UNCHANGED vars

\* An action type the executor does not know throws.
UnknownAction(r) ==
  /\ Performing(r, "unknown")
  /\ runs' = [runs EXCEPT ![r] = End(@, "failed")]
  /\ UNCHANGED <<ticket, thread, rules, proc, agent, legacy, reverted, forms, starts>>

\* Written whatever the copy says; announced when the copy said otherwise.
changePriority(r) ==
  /\ Performing(r, "change_priority")
  /\ LET p == ActionOf(r).value
         changed == [runs[r].current EXCEPT !.priority = p]
     IN /\ ticket' = [ticket EXCEPT !.priority = p]
        /\ runs' = WithHandlers([runs EXCEPT ![r] = [Acted(@) EXCEPT !.current = changed]],
             IF runs[r].current.priority = p THEN <<>> ELSE <<"ticket.priority_changed">>,
             changed)
        /\ Len(runs') <= MaxRuns
  /\ UNCHANGED <<thread, rules, proc, agent, legacy, reverted, forms, starts>>

\* Always announced, changed or not.
assignAgent(r) ==
  /\ Performing(r, "assign_agent")
  /\ ticket' = [ticket EXCEPT !.assignee = ActionOf(r).value]
  /\ runs' = WithHandlers([runs EXCEPT ![r] = Acted(@)], <<"ticket.assigned">>,
                          [runs[r].current EXCEPT !.assignee = ActionOf(r).value])
  /\ Len(runs') <= MaxRuns
  /\ UNCHANGED <<thread, rules, proc, agent, legacy, reverted, forms, starts>>

\* Through TicketService.update, unless the handler's copy already has the status.
changeStatus(r) ==
  /\ Performing(r, "change_status")
  /\ runs' = [runs EXCEPT ![r] =
       IF runs[r].current.status = ActionOf(r).value THEN Acted(@)
       ELSE [@ EXCEPT !.at = "write", !.copy = ticket]]
  /\ UNCHANGED <<ticket, thread, rules, proc, agent, legacy, reverted, forms, starts>>

StatusWritten(r) ==
  /\ runs[r].at = "write"
  /\ WriteUpdate(runs[r].copy, [status |-> ActionOf(r).value],
                 [runs EXCEPT ![r] = Acted(@)])
  /\ UNCHANGED <<thread, rules, proc, agent, legacy, reverted, forms, starts>>

\* The row with its tags is read; it is saved whole if the tag is missing (or there).
TagRead(r) ==
  /\ Performing(r, "add_tag") \/ Performing(r, "remove_tag")
  /\ LET there == ActionOf(r).value \in ticket.tags
     IN runs' = [runs EXCEPT ![r] =
          IF there = (ActionOf(r).type = "add_tag") THEN Acted(@)
          ELSE [@ EXCEPT !.at = "save", !.copy = ticket]]
  /\ UNCHANGED <<ticket, thread, rules, proc, agent, legacy, reverted, forms, starts>>

TagSaved(r) ==
  /\ runs[r].at = "save"
  /\ LET adding == ActionOf(r).type = "add_tag"
         tag == {ActionOf(r).value}
     IN /\ ticket' = [runs[r].copy EXCEPT !.tags = IF adding THEN @ \cup tag ELSE @ \ tag]
        /\ runs' = WithHandlers([runs EXCEPT ![r] = Acted(@)],
                     <<IF adding THEN "ticket.tag_added" ELSE "ticket.tag_removed">>,
                     ticket')
        /\ reverted' = (reverted \/ runs[r].copy # ticket)
        /\ Len(runs') <= MaxRuns
  /\ UNCHANGED <<thread, rules, proc, agent, legacy, forms, starts>>

\* A note or a canned reply: only the reply's placeholders are filled in.
WriteReply(r) ==
  /\ Performing(r, "add_note") \/ Performing(r, "insert_canned_reply")
  /\ LET note == ActionOf(r).type = "add_note"
     IN thread' = Append(thread, [internal |-> note, by |-> "workflow",
                                  filled |-> ~note])
  /\ runs' = [runs EXCEPT ![r] = Acted(@)]
  /\ UNCHANGED <<ticket, rules, proc, agent, legacy, reverted, forms, starts>>

-----------------------------------------------------------------------------
(* Automations and macros: a list of actions on the ticket's id. *)

ActionsFor(p) == IF p = "automation" THEN Automation.actions ELSE Macro
InHand(p, type) ==
  proc[p].at = "act" /\ proc[p].act <= Len(ActionsFor(p))
                     /\ ActionsFor(p)[proc[p].act].type = type
ValueOf(p) == ActionsFor(p)[proc[p].act].value
Idle == [at |-> "idle", act |-> 0, copy |-> <<>>]
Did(p) == [proc EXCEPT ![p].at = "act", ![p].act = @ + 1, ![p].copy = <<>>]

\* findMatchingTickets: open by its timestamps, all conditions.
Matches == ~ticket.stamped /\ evaluateConditions(Automation.conditions, ticketToConditionMap(ticket))

Run(p) ==
  /\ proc[p].at = "idle" /\ starts < MaxStarts
  /\ p = "automation" => Matches
  /\ proc' = [proc EXCEPT ![p].at = "act", ![p].act = 1]
  /\ starts' = starts + 1
  /\ UNCHANGED <<ticket, thread, rules, runs, agent, legacy, reverted, forms>>

Ran(p) ==
  /\ proc[p].at = "act" /\ proc[p].act > Len(ActionsFor(p))
  /\ proc' = [proc EXCEPT ![p] = Idle]
  /\ UNCHANGED <<ticket, thread, rules, runs, agent, legacy, reverted, forms, starts>>

\* Columns written directly, with no event and no stamp.
SetColumn(p) ==
  /\ \E type \in {"priority", "assignee", "set_status"} :
       /\ InHand(p, type)
       /\ ticket' = [ticket EXCEPT ![IF type = "set_status" THEN "status" ELSE type] = ValueOf(p)]
       /\ legacy' = (legacy \/ type = "set_status")
  /\ proc' = Did(p)
  /\ UNCHANGED <<thread, rules, runs, agent, reverted, forms, starts>>

SetStatus(p) ==
  /\ InHand(p, "status")
  /\ proc' = [proc EXCEPT ![p].at = "write", ![p].copy = ticket]
  /\ UNCHANGED <<ticket, thread, rules, runs, agent, legacy, reverted, forms, starts>>

SetStatusWritten(p) ==
  /\ proc[p].at = "write"
  /\ WriteUpdate(proc[p].copy, [status |-> ValueOf(p)], runs)
  /\ proc' = Did(p)
  /\ UNCHANGED <<thread, rules, agent, legacy, reverted, forms, starts>>

\* An automation reads the row and saves it whole; a macro writes the relation.
AddTag(p) ==
  /\ InHand(p, "tag")
  /\ IF p = "macro"
     THEN /\ ticket' = [ticket EXCEPT !.tags = @ \cup {ValueOf(p)}]
          /\ proc' = Did(p)
     ELSE /\ proc' = IF ValueOf(p) \in ticket.tags THEN Did(p)
                     ELSE [proc EXCEPT ![p].at = "save", ![p].copy = ticket]
          /\ UNCHANGED ticket
  /\ UNCHANGED <<thread, rules, runs, agent, legacy, reverted, forms, starts>>

AddTagSaved(p) ==
  /\ proc[p].at = "save"
  /\ ticket' = [proc[p].copy EXCEPT !.tags = @ \cup {ValueOf(p)}]
  /\ reverted' = (reverted \/ proc[p].copy # ticket)
  /\ proc' = Did(p)
  /\ UNCHANGED <<thread, rules, runs, agent, legacy, forms, starts>>

\* An automation's note names no author, and the author column takes no null: the insert
\* is refused, and the refusal is logged and passed over.
AddNote(p) ==
  /\ InHand(p, "note")
  /\ thread' = IF p = "automation" THEN thread
               ELSE Append(thread, [internal |-> TRUE, by |-> p, filled |-> TRUE])
  /\ proc' = Did(p)
  /\ UNCHANGED <<ticket, rules, runs, agent, legacy, reverted, forms, starts>>

-----------------------------------------------------------------------------
(* Agents and admins. *)

SendForm(a) ==
  /\ agent[a].at = "idle" /\ forms < MaxForms
  /\ \E f \in Forms : agent' = [agent EXCEPT ![a] = [at |-> "write", form |-> f, copy |-> ticket]]
  /\ forms' = forms + 1
  /\ UNCHANGED <<ticket, thread, rules, runs, proc, legacy, reverted, starts>>

FormWritten(a) ==
  /\ agent[a].at = "write"
  /\ WriteUpdate(agent[a].copy, agent[a].form, runs)
  /\ agent' = [agent EXCEPT ![a] = [at |-> "idle"]]
  /\ UNCHANGED <<thread, rules, proc, legacy, reverted, forms, starts>>

\* toggle
Toggle(w) ==
  /\ Contains(order, w)
  /\ active' = IF w \in active THEN active \ {w} ELSE active \cup {w}
  /\ UNCHANGED <<order, removed>>

\* delete: its logs go with it.
Delete(w) ==
  /\ Contains(order, w)
  /\ order' = Remove(order, w)
  /\ removed' = removed \cup {w}
  /\ UNCHANGED active

\* reorder: positions follow the list sent.
Reorder ==
  /\ \E i \in 2..Len(order) : order' = <<order[i]>> \o RemoveAt(order, i)
  /\ UNCHANGED <<active, removed>>

\* create: a new workflow goes last.
Create(w) ==
  /\ ~Contains(order, w) /\ w \notin removed
  /\ order' = Append(order, w)
  /\ active' = active \cup {w}
  /\ UNCHANGED removed

Administer ==
  /\ edits < MaxAdmin
  /\ (\E w \in DOMAIN Workflows : Toggle(w) \/ Delete(w) \/ Create(w)) \/ Reorder
  /\ edits' = edits + 1
  /\ UNCHANGED <<ticket, thread, runs, proc, agent, legacy, reverted, forms, starts>>

-----------------------------------------------------------------------------
Init ==
  /\ ticket = NewTicket
  /\ thread = <<>>
  /\ order = Saved
  /\ active = ToSet(Saved)
  /\ runs = <<>>
  /\ proc = [p \in {"automation", "macro"} |-> Idle]
  /\ agent = [a \in Agents |-> [at |-> "idle"]]
  /\ legacy = FALSE /\ reverted = FALSE /\ removed = {}
  /\ forms = 0 /\ starts = 0 /\ edits = 0

StepOf(r) ==
  \/ Load(r) \/ Consider(r) \/ Finish(r) \/ UnknownAction(r)
  \/ changePriority(r) \/ assignAgent(r) \/ changeStatus(r) \/ StatusWritten(r)
  \/ TagRead(r) \/ TagSaved(r) \/ WriteReply(r)

StepOfProc(p) ==
  \/ Ran(p) \/ SetColumn(p) \/ SetStatus(p) \/ SetStatusWritten(p)
  \/ AddTag(p) \/ AddTagSaved(p) \/ AddNote(p)

\* What a process has begun.
Proceed ==
  \/ \E r \in DOMAIN runs : StepOf(r)
  \/ \E p \in DOMAIN proc : StepOfProc(p)
  \/ \E a \in Agents : FormWritten(a)

Next ==
  \/ Proceed
  \/ \E p \in DOMAIN proc : Run(p)
  \/ \E a \in Agents : SendForm(a)
  \/ Administer

Spec == Init /\ [][Next]_vars

\* The event loop turns: what was begun goes on; nobody has to begin anything.
Fairness == WF_vars(Proceed)

FairSpec == Spec /\ Fairness

-----------------------------------------------------------------------------
Row == [status : Statuses, stamped : BOOLEAN, priority : {"low", "high"},
        assignee : {Unassigned} \cup {"ann", "bob"}, tags : SUBSET {"vip"}]
LogRow == [workflow : DOMAIN Workflows, matched : BOOLEAN,
           status : {"open", "success", "failed"}]

\* Every row, handler and log row has one of its states.
TypeOK ==
  /\ ticket \in Row
  /\ \A r \in DOMAIN runs :
       /\ runs[r].at \in {"load", "next", "act", "write", "save", "done"}
       /\ runs[r].current \in Row
       /\ \A i \in DOMAIN runs[r].log : runs[r].log[i] \in LogRow
  /\ \A p \in DOMAIN proc : proc[p].at \in {"idle", "act", "write", "save"}
  /\ \A i \in DOMAIN thread : thread[i].by \in {"workflow", "macro", "automation"}

\* "one misbehaving workflow doesn't block the rest": a handler that is done has run what
\* matched, and has considered all its workflows or stopped at the first one that matched
\* and says to stop; only a workflow deleted under it cuts it short.
RestStillRun ==
  \A r \in DOMAIN runs :
    LET log == runs[r].log
        Stopper(i) == log[i].matched /\ Workflows[log[i].workflow].stopOnMatch
    IN /\ \A i \in 1..(Len(log) - 1) : ~Stopper(i) /\ (log[i].matched => log[i].status # "open")
       /\ runs[r].at = "done" =>
            \/ Len(log) > 0 /\ Stopper(Len(log)) /\ log[Len(log)].status # "open"
            \/ [i \in DOMAIN log |-> log[i].workflow] = runs[r].all
            \/ ToSet(runs[r].all) \cap removed # {}

\* "A solved status closes the ticket: this stamps resolvedAt, which stops SLA", whichever
\* of the writers set it.
SolvedIsStamped == isSolvedStatus(ticket.status) => ticket.stamped

\* What can leave a solved ticket unstamped: set_status, the macro action of earlier
\* releases, which goes round TicketService, and a row saved whole over a newer one.
UnstampedOnlyAround == SolvedIsStamped \/ legacy \/ reverted

\* Every handler comes to its end, as long as rules do not start each other forever: the
\* failure of one leaves none waiting.
AllDone == \A r \in DOMAIN runs : runs[r].at = "done"
================================================================================
