------------------------------- MODULE MCUpkeep --------------------------------
(***************************************************************************)
(* What goes on in the background, for TLC: deadlines and snoozes, rules,  *)
(* the purge and plugins, each of which must come to an end.               *)
(* They share no state, so a behaviour runs one of them, `part`; its       *)
(* variables are v1, v2, ..., in their order, and those it has no use for  *)
(* are Off.                                                                *)
(***************************************************************************)
EXTENDS Naturals, Sequences, FiniteSets, TLC

CONSTANT Off

VARIABLES part, v1, v2, v3, v4, v5, v6, v7, v8, v9, v10, v11, v12, v13

vars == <<part, v1, v2, v3, v4, v5, v6, v7, v8, v9, v10, v11, v12, v13>>

-----------------------------------------------------------------------------
(* One ticket, due a minute after it is created; requests that retag, solve and snooze it. *)
Body(status, tags, snooze) == [status |-> status, tags |-> tags, snooze |-> snooze]
Sla == INSTANCE TicketSla WITH
  row <- v1, now <- v2, sweep <- v3, wake <- v4, request <- v5, claims <- v6, announced <- v7,
  lost <- v8, stale <- v9, crashes <- v10,
  Tickets <- {"t"}, Sweepers <- {"s"}, Wakers <- {"w"}, Requests <- {"r1", "r2"},
  Updates <- {Body("keep", TRUE, FALSE), Body("solved", FALSE, FALSE), Body("keep", FALSE, TRUE), Body("keep", TRUE, TRUE)},
  Minutes <- [first_response |-> 1, resolution |-> 1], Window <- 0, MaxTime <- 3, MaxCrashes <- 1

(* Rules.  Urgent tickets are assigned and tagged; what is tagged is resolved, by a workflow  *)
(* that then fails, and another leaves a note and stops the rest.  A fourth may be added.     *)
Is(f, v) == [field |-> f, operator |-> "equals", value |-> v]
Do(t, v) == [type |-> t, value |-> v]
Workflows ==
  (1 :> [trigger |-> "ticket.priority_changed", conditions |-> [all |-> {Is("priority", "high")}],
         actions |-> <<Do("change_priority", "high"), Do("assign_agent", "ann"), Do("add_tag", "vip")>>,
         stopOnMatch |-> FALSE]) @@
  (2 :> [trigger |-> "ticket.tag_added", conditions |-> [any |-> {Is("tags", "vip")}],
         actions |-> <<Do("change_status", "resolved"), Do("unknown", "")>>, stopOnMatch |-> FALSE]) @@
  (3 :> [trigger |-> "ticket.tag_added", conditions |-> [all |-> {}],
         actions |-> <<Do("add_note", "hello"), Do("insert_canned_reply", "hi")>>, stopOnMatch |-> TRUE]) @@
  (4 :> [trigger |-> "ticket.reopened", conditions |-> [all |-> {}],
         actions |-> <<Do("remove_tag", "vip")>>, stopOnMatch |-> FALSE])
Rules == INSTANCE TicketRules WITH
  ticket <- v1, thread <- v2, active <- v3, order <- v4, runs <- v5, proc <- v6, agent <- v7,
  legacy <- v8, reverted <- v9, removed <- v10, forms <- v11, starts <- v12, edits <- v13,
  Workflows <- Workflows, Saved <- <<3, 2, 1>>,
  Automation <- [conditions |-> [all |-> {[field |-> "assigned_to", operator |-> "is_empty"]}],
                 actions |-> <<Do("status", "closed"), Do("tag", "vip")>>],
  Macro <- <<Do("status", "open"), Do("tag", "vip"), Do("note", "done"), Do("set_status", "closed")>>,
  Agents <- {"ann"}, Forms <- {[priority |-> "high"], [status |-> "closed", assignee |-> "bob"]},
  MaxRuns <- 3, MaxForms <- 1, MaxStarts <- 1, MaxAdmin <- 1
ASSUME Rules!WorkflowsAssumption

(* One row of each kind; tickets and attachments have a period, audit logs never expire. *)
Retention == INSTANCE DataRetention WITH
  ticket <- v1, row <- v2, now <- v3, purger <- v4, closings <- v5, raced <- v6, changes <- v7,
  faults <- v8,
  Tickets <- {1, 2}, Rows <- {1, 2, 3}, KindOf <- <<"attachment", "audit", "code">>,
  Period <- [ticket |-> 1, attachment |-> 2, audit |-> 0], Batch <- 1, Purgers <- {1, 2},
  MaxTime <- 3, MaxChanges <- 2, MaxFaults <- 1
ASSUME Retention!TicketsAssumption /\ Retention!BatchAssumption

(* Two plugins; slack starts with a quarter-hourly job for one day, jira's is never due. *)
AnyDay == {[from |-> 0, to |-> 60, step |-> 1]}
Only(n) == {[from |-> n, to |-> n, step |-> 1]}
Hooks == INSTANCE Plugins WITH
  row <- v1, task <- v2, calls <- v3, config <- v4, begun <- v5, hooked <- v6, twice <- v7,
  met <- v8, written <- v9,
  Registered <- <<"slack", "jira">>,
  Handles <- [slack |-> {"plugin.deactivated", "ticket.updated", "custom"}, jira |-> {"plugin.activated"}],
  Priority <- [slack |-> 10, jira |-> 5],
  Schedule <- [slack |-> <<{[from |-> 0, to |-> 59, step |-> 15]}, AnyDay, Only(1), AnyDay, Only(7)>>, jira |-> <<>>],
  Minutes <- {[minute |-> 30, hour |-> 3, date |-> 5, month |-> 6, day |-> 0]},
  Tasks <- {1, 2}, MaxTasks <- 2

-----------------------------------------------------------------------------
Init ==
  \/ part = "sla" /\ Sla!Init /\ v11 = Off /\ v12 = Off /\ v13 = Off
  \/ part = "rules" /\ Rules!Init
  \/ part = "retention" /\ Retention!Init /\ v9 = Off /\ v10 = Off /\ v11 = Off /\ v12 = Off /\ v13 = Off
  \/ part = "plugins" /\ Hooks!Init /\ v10 = Off /\ v11 = Off /\ v12 = Off /\ v13 = Off
Next ==
  \/ part = "sla" /\ Sla!Next /\ UNCHANGED <<part, v11, v12, v13>>
  \/ part = "rules" /\ Rules!Next /\ UNCHANGED <<part>>
  \/ part = "retention" /\ Retention!Next /\ UNCHANGED <<part, v9, v10, v11, v12, v13>>
  \/ part = "plugins" /\ Hooks!Next /\ UNCHANGED <<part, v10, v11, v12, v13>>

(* Each part's own fairness: the clock, the schedulers, and what was begun goes on. *)
Fairness ==
  /\ WF_(Sla!vars)(part = "sla" /\ Sla!Tick)
  /\ WF_(Sla!vars)(part = "sla" /\ Sla!SweepStep("s"))
  /\ WF_(Sla!vars)(part = "sla" /\ Sla!WakeStep("w"))
  /\ WF_(Sla!vars)(part = "sla" /\ \E r \in {"r1", "r2"} : Sla!Continue(r))
  /\ WF_(Rules!vars)(part = "rules" /\ Rules!Proceed)
  /\ WF_(Retention!vars)(part = "retention" /\ Retention!Tick)
  /\ WF_(Retention!vars)(part = "retention" /\ Retention!Purges)
  /\ WF_(Hooks!vars)(part = "plugins" /\ Hooks!GoesOn)

Spec == Init /\ [][Next]_vars /\ Fairness

-----------------------------------------------------------------------------
\* Every variable of the component that runs has its type.
TypeOK ==
  /\ part = "sla"       => Sla!TypeOK
  /\ part = "rules"     => Rules!TypeOK
  /\ part = "retention" => Retention!TypeOK
  /\ part = "plugins"   => Hooks!TypeOK

\* What an event runs is run to its end and as it was set up: the rest of the workflows though
\* one fails, a plugin's hooks in turn and its filters in order whatever answers late; a setting
\* that was stored stays, and a solved ticket is stamped by whoever goes through TicketService.
HandlersLaw ==
  /\ part = "rules"   => Rules!RestStillRun /\ Rules!UnstampedOnlyAround
  /\ part = "plugins" => Hooks!HooksAlternate /\ Hooks!ChainInOrder /\ Hooks!ConfigKept

\* A purge deletes only closed tickets past their whole period, and leaves nothing behind
\* that refers to one (DataRetentionService).
PurgeLaw ==
  [][part = "retention" => Retention!DeletesExpired /\ Retention!NothingDangles']_vars

\* What waits for the background, by part: a missed deadline for its flag, a snoozed ticket for
\* its time, an event for its rules, an expired ticket for the purge, a task for its plugins.
Waits(i) ==
  \/ part = "sla" /\ i < 3 /\ LET f == <<"slaFirstResponseBreached", "slaResolutionBreached">>[i]
                              IN Sla!Missed("t", Sla!KindOf(f)) /\ ~Sla!Flagged("t", f)
  \/ part = "sla" /\ i = 3 /\ Sla!Overslept("t")
  \/ part = "rules" /\ i = 1 /\ ~Rules!AllDone
  \/ part = "retention" /\ i < 3 /\ Retention!Overdue(i)
  \/ part = "plugins" /\ i < 3 /\ Hooks!Begun(i)

\* It does not wait for ever, under the fairness above: neither a sweep that fails or dies, nor
\* a workflow that throws, nor a plugin that hangs keeps it from its end.
EverythingEnds == \A i \in 1..3 : Waits(i) ~> ~Waits(i)
================================================================================
