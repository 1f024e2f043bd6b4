---------------------------- MODULE EscalationSweep ----------------------------
(***************************************************************************)
(* Escalation rules, the five-minute sweep that runs them over the open    *)
(* tickets they match, and the fire log that keeps a rule from acting on a *)
(* ticket twice.  One step is one SQL statement: sweeps of several         *)
(* processes, admins saving rules and agents changing tickets interleave   *)
(* between any two of them.                                                *)
(***************************************************************************)
EXTENDS Naturals, FiniteSets, Sequences

CONSTANTS
  Rules,       \* rule ids, numbers: a sweep takes rules in their order
  Tickets,
  Sweepers,    \* processes running the sweep
  Bodies,      \* what the admin form may save as a rule
  MaxTime,     \* bound on the clock
  MaxEdits,    \* bound on what admins and agents do
  MaxFaults    \* bound on crashes and failed statements

Statuses   == {"open", "escalated", "solved"}
Priorities == {"low", "high"}
\* Conditions and actions: `escalate`, and the columns that the others read and set.
Condition == [field : {"status"}, value : Statuses]
             \cup [field : {"priority"}, value : Priorities]
             \cup [field : {"assigned"}, value : BOOLEAN]
Action == [type : {"escalate"}] \cup [type : {"change_priority"}, value : Priorities]
          \cup [type : {"assign_to"}]

Ticket == [status : Statuses, priority : Priorities, assigned : BOOLEAN, merged : BOOLEAN]
NewTicket == [status |-> "open", priority |-> "low", assigned |-> FALSE, merged |-> FALSE]

NoRule  == [active |-> FALSE, was |-> "never"]   \* an id not given out yet
Removed == [active |-> FALSE, was |-> "removed"]
Body   == [active : BOOLEAN, conditions : SUBSET Condition, actions : Seq(Action),
           legacy : BOOLEAN, repeatAfter : Nat]

ASSUME RulesAssumption == Rules \subseteq Nat /\ IsFiniteSet(Rules)
ASSUME TicketsAssumption == IsFiniteSet(Tickets)
ASSUME SweepersAssumption == IsFiniteSet(Sweepers)
ASSUME BodiesAssumption == Bodies \subseteq Body
ASSUME BoundsAssumption == MaxTime \in Nat \ {0} /\ MaxEdits \in Nat /\ MaxFaults \in Nat

NoRow == [id |-> 0, firedAt |-> 0]

VARIABLES
  rule,       \* the rules table
  ticket,     \* the tickets table
  log,        \* the executions table: per rule and ticket, a row or NoRow
  now,        \* the clock
  sweep,      \* per sweeper: where it is and what it has read
  deleting,   \* rules removed whose executions are not forgotten yet
  lastAct,    \* history: when the rule last acted, 0 once it stopped matching
  again,      \* history: acts on a ticket the rule had already acted on
  acted,      \* history: pairs whose actions were all run
  entered,    \* history: per ticket, moves into the escalated status
  escalations,\* history: per ticket, announcements by an escalate action
  overlapped, \* history: two sweeps have been under way at once
  edits, faults

tables == <<rule, ticket, log, now>>
hist   == <<lastAct, again, acted, entered, escalations, overlapped>>
vars   == <<rule, ticket, log, now, sweep, deleting,
            lastAct, again, acted, entered, escalations, overlapped, edits, faults>>

-----------------------------------------------------------------------------
Idle == [pc |-> "idle"]
Goto(s, sw) == sweep' = [sweep EXCEPT ![s] = sw]

Holds(tk, c) ==
  CASE c.field = "status"   -> tk.status = c.value
    [] c.field = "priority" -> tk.priority = c.value
    [] c.field = "assigned" -> tk.assigned = c.value

\* getEscalationCandidates: open, not merged, all conditions.
IsCandidate(tk, body) ==
  /\ ~tk.merged /\ tk.status # "solved"
  /\ \A c \in body.conditions : Holds(tk, c)

\* The sweep turns to the rule with the least number it has not done.
NextRule(sw) ==
  IF DOMAIN sw.left = {} THEN Idle
  ELSE [pc |-> "candidates", at |-> sw.at, left |-> sw.left,
        rule |-> CHOOSE r \in DOMAIN sw.left : \A q \in DOMAIN sw.left : r <= q]

\* Past the rule in hand.
SkipRule(sw) ==
  NextRule([at |-> sw.at,
            left |-> [r \in DOMAIN sw.left \ {sw.rule} |-> sw.left[r]]])

\* On to the tickets still due, or to the next rule.
NextTicket(sw, todo) ==
  IF todo = {} THEN SkipRule(sw)
  ELSE [pc |-> "ticket", at |-> sw.at, left |-> sw.left, rule |-> sw.rule, todo |-> todo]

\* SELECT the active rules.
Start(s) ==
  /\ sweep[s] = Idle
  /\ LET active == {r \in Rules : rule[r].active}
     IN active # {} /\ Goto(s, NextRule([at |-> now, left |-> [r \in active |-> rule[r]]]))
  /\ overlapped' = (overlapped \/ \E q \in Sweepers : sweep[q] # Idle)
  /\ UNCHANGED <<tables, deleting, lastAct, again, acted, entered, escalations, edits, faults>>

\* SELECT the tickets the rule matches.
Candidates(s) ==
  /\ sweep[s].pc = "candidates"
  /\ LET sw == sweep[s]
         matching == {t \in Tickets : IsCandidate(ticket[t], sw.left[sw.rule])}
     IN /\ Goto(s, [pc |-> "due", at |-> sw.at, left |-> sw.left, rule |-> sw.rule,
                    matching |-> matching])
        /\ lastAct' = [lastAct EXCEPT ![sw.rule] =
             [t \in Tickets |-> IF t \in matching THEN lastAct[sw.rule][t] ELSE 0]]
  /\ UNCHANGED <<tables, deleting, again, acted, entered, escalations, overlapped, edits, faults>>

\* Mutant: a row older than the sweep lets the rule fire again without a period.
IsDueAnyway(row, body, at) == row = NoRow \/ row.firedAt + body.repeatAfter <= at

\* Mutant: only a ticket the rule has acted on can be due.
IsDueAgain(row, body, at) == body.repeatAfter > 0 /\ row.firedAt + body.repeatAfter <= at

IsDue(row, body, at) ==
  \/ row = NoRow
  \/ body.repeatAfter > 0 /\ row.firedAt + body.repeatAfter <= at

\* RuleFireLog.due, its SELECT: which rows are stale, which tickets are due.
Due(s) ==
  /\ sweep[s].pc = "due"
  /\ LET sw    == sweep[s]
         rows  == log[sw.rule]
         stale == {t \in Tickets \ sw.matching : rows[t] # NoRow}
         todo  == {t \in sw.matching : IsDue(rows[t], sw.left[sw.rule], sw.at)}
     IN Goto(s, IF stale = {} THEN NextTicket(sw, todo)
                ELSE [pc |-> "rearm", at |-> sw.at, left |-> sw.left, rule |-> sw.rule,
                      todo |-> todo, stale |-> {<<t, rows[t].id>> : t \in stale}])
  /\ UNCHANGED <<tables, deleting, hist, edits, faults>>

\* Its DELETE, by row id: a row inserted since is not touched.
Rearm(s) ==
  /\ sweep[s].pc = "rearm"
  /\ LET sw == sweep[s] IN
     /\ log' = [log EXCEPT ![sw.rule] =
          [t \in Tickets |-> IF <<t, log[sw.rule][t].id>> \in sw.stale
                               THEN NoRow ELSE log[sw.rule][t]]]
     /\ Goto(s, NextTicket(sw, sw.todo))
  /\ UNCHANGED <<rule, ticket, now, deleting, hist, edits, faults>>

-----------------------------------------------------------------------------
(* executeActions on one ticket, then the record. *)

\* Where a sweep is with an action of a ticket, and with a ticket.
InAction == {"act", "escalate", "announce"}
OnTicket == InAction \cup {"announceLegacy", "record", "insert", "refresh"}

Acting(sw, t, pc, left, said) ==
  [pc |-> pc, at |-> sw.at, left |-> sw.left, rule |-> sw.rule, todo |-> sw.todo,
   ticket |-> t, actions |-> left, announced |-> said]

\* Mutant: the loop runs one action too far.
NextActionTooFar(sw, t, left, said) == Acting(sw, t, "act", left, said)

\* The next action of the list, the announcement of a legacy rule, the record.
NextAction(sw, t, left, said) ==
  IF left # <<>> THEN Acting(sw, t, "act", left, said)
  ELSE IF sw.left[sw.rule].legacy /\ ~said THEN Acting(sw, t, "announceLegacy", left, TRUE)
  ELSE Acting(sw, t, "record", left, said)

Overdue(sw, t) ==
  LET body == sw.left[sw.rule]  last == lastAct[sw.rule][t] IN
  last = 0 \/ (body.repeatAfter > 0 /\ last + body.repeatAfter <= sw.at)

Taken(sw, t) == [at |-> sw.at, left |-> sw.left, rule |-> sw.rule, todo |-> sw.todo \ {t}]

Acts(s, t) ==
  /\ sweep[s].pc = "ticket" /\ t \in sweep[s].todo
  /\ LET sw == sweep[s]  r == sw.rule IN
     /\ Goto(s, NextAction(Taken(sw, t), t, sw.left[r].actions, FALSE))
     /\ lastAct' = [lastAct EXCEPT ![r] = [lastAct[r] EXCEPT ![t] = sw.at]]
     /\ again' = IF Overdue(sw, t) THEN again ELSE again + 1

\* Mutant: the pair is recorded before its actions run.
BeginRecorded(s, t) ==
  /\ Acts(s, t)
  /\ LET r == sweep[s].rule IN
     log' = [log EXCEPT ![r][t] = [id |-> log[r][t].id + 1, firedAt |-> sweep[s].at]]
  /\ UNCHANGED <<rule, ticket, now, deleting, acted, entered, escalations, overlapped, edits, faults>>

Begin(s, t) ==
  /\ Acts(s, t)
  /\ UNCHANGED <<tables, deleting, acted, entered, escalations, overlapped, edits, faults>>

Move(sw, said) == NextAction(sw, sw.ticket, Tail(sw.actions), said)

\* The same action, its next statement.
Stay(sw, pc, said) == Acting(sw, sw.ticket, pc, sw.actions, said)

\* Mutant: escalate does not look at the status the ticket has.
EscalateAnyway(s) ==
  /\ sweep[s].pc = "act" /\ Head(sweep[s].actions).type = "escalate"
  /\ Goto(s, Stay(sweep[s], "escalate", TRUE))
  /\ UNCHANGED <<tables, deleting, hist, edits, faults>>

\* escalate: a ticket already in the escalated status is left alone.
Escalate(s) ==
  /\ sweep[s].pc = "act" /\ Head(sweep[s].actions).type = "escalate"
  /\ Goto(s, IF ticket[sweep[s].ticket].status = "escalated"
               THEN Move(sweep[s], TRUE) ELSE Stay(sweep[s], "escalate", TRUE))
  /\ UNCHANGED <<tables, deleting, hist, edits, faults>>

\* One ticket's row is written, which may take it into the escalated status.
Write(t, tk) ==
  /\ ticket' = [ticket EXCEPT ![t] = tk]
  /\ entered' = [entered EXCEPT ![t] =
       IF tk.status = "escalated" /\ ticket[t].status # "escalated"
         THEN entered[t] + 1 ELSE entered[t]]

\* Its update through the ticket service, whatever the status is by now.
WriteEscalated(s) ==
  /\ sweep[s].pc = "escalate"
  /\ LET t == sweep[s].ticket IN Write(t, [ticket[t] EXCEPT !.status = "escalated"])
  /\ Goto(s, Stay(sweep[s], "announce", TRUE))
  /\ UNCHANGED <<rule, log, now, deleting, lastAct, again, acted, escalations, overlapped, edits, faults>>

\* announce: the activity and ticket.escalated.
Announce(s) ==
  /\ \/ /\ sweep[s].pc = "announce"
        /\ LET t == sweep[s].ticket IN
           escalations' = [escalations EXCEPT ![t] = escalations[t] + 1]
        /\ Goto(s, Move(sweep[s], TRUE))
     \/ /\ sweep[s].pc = "announceLegacy"
        /\ Goto(s, Stay(sweep[s], "record", TRUE))
        /\ UNCHANGED escalations
  /\ UNCHANGED <<tables, deleting, lastAct, again, acted, entered, overlapped, edits, faults>>

\* apply: change_priority and assign_to, through the ticket service.
Apply(s) ==
  /\ sweep[s].pc = "act"
  /\ LET a == Head(sweep[s].actions)  t == sweep[s].ticket IN
     \/ /\ a.type = "change_priority"
        /\ ticket' = [ticket EXCEPT ![t] = [ticket[t] EXCEPT !.priority = a.value]]
     \/ /\ a.type = "assign_to"
        /\ ticket' = [ticket EXCEPT ![t] = [ticket[t] EXCEPT !.assigned = TRUE]]
  /\ Goto(s, Move(sweep[s], sweep[s].announced))
  /\ UNCHANGED <<rule, log, now, deleting, hist, edits, faults>>

\* RuleFireLog.record, its existsBy.
Record(s) ==
  /\ sweep[s].pc = "record"
  /\ LET sw == sweep[s] IN
     /\ Goto(s, Stay(sw, IF log[sw.rule][sw.ticket] = NoRow THEN "insert" ELSE "refresh",
                     sw.announced))
     /\ acted' = acted \cup {<<sw.rule, sw.ticket>>}
  /\ UNCHANGED <<tables, deleting, lastAct, again, entered, escalations, overlapped, edits, faults>>

\* An id no sweep still means to delete: the database never reuses one.
IdHeld(r, t, i) ==
  \E q \in Sweepers :
    sweep[q].pc = "rearm" /\ sweep[q].rule = r /\ <<t, i>> \in sweep[q].stale
FreshId(r, t) == CHOOSE i \in 1 .. (Cardinality(Sweepers) + 1) : ~IdHeld(r, t, i)

Fired(r, t, id, at) ==
  log' = [log EXCEPT ![r] = [log[r] EXCEPT ![t] = [id |-> id, firedAt |-> at]]]

\* Its INSERT, which the unique index refuses when another sweep was first ...
Insert(s) ==
  /\ sweep[s].pc = "insert"
  /\ LET sw == sweep[s]  r == sw.rule  t == sw.ticket IN
     \/ /\ log[r][t] = NoRow
        /\ Fired(r, t, FreshId(r, t), sw.at)
        /\ Goto(s, NextTicket(sw, sw.todo))
     \/ /\ log[r][t] # NoRow
        /\ Goto(s, Stay(sw, "refresh", sw.announced))
        /\ UNCHANGED log
  /\ UNCHANGED <<rule, ticket, now, deleting, hist, edits, faults>>

\* ... and its UPDATE of firedAt, which touches nothing when the row is gone.
Refresh(s) ==
  /\ sweep[s].pc = "refresh"
  /\ LET sw == sweep[s]  r == sw.rule  t == sw.ticket IN
     /\ IF log[r][t] = NoRow THEN UNCHANGED log ELSE Fired(r, t, log[r][t].id, sw.at)
     /\ Goto(s, NextTicket(sw, sw.todo))
  /\ UNCHANGED <<rule, ticket, now, deleting, hist, edits, faults>>

-----------------------------------------------------------------------------
(* Failures. *)

\* What a failed statement costs: the rule when it was being evaluated, the one
\* action, or the rest of this ticket.
AfterError(sw) ==
  CASE sw.pc \in {"candidates", "due", "rearm"}       -> SkipRule(sw)
    [] sw.pc \in InAction                             -> Move(sw, sw.announced \/ Head(sw.actions).type = "escalate")
    [] OTHER                                          -> NextTicket(sw, sw.todo)

Fail(s) ==
  /\ faults < MaxFaults
  /\ sweep[s].pc \notin {"idle", "ticket"}
  /\ Goto(s, AfterError(sweep[s]))
  /\ faults' = faults + 1
  /\ UNCHANGED <<tables, deleting, hist, edits>>

Crash(s) ==
  /\ faults < MaxFaults
  /\ sweep[s] # Idle
  /\ Goto(s, Idle)
  /\ faults' = faults + 1
  /\ UNCHANGED <<tables, deleting, hist, edits>>

-----------------------------------------------------------------------------
(* Admins, agents, time. *)

\* create and update: the form is written, the fire log left as it is.
SaveRule(r) ==
  /\ edits < MaxEdits /\ edits' = edits + 1
  /\ rule[r] # Removed
  /\ \E body \in Bodies : rule' = [rule EXCEPT ![r] = body]
  /\ rule' # rule
  /\ UNCHANGED <<ticket, log, now, sweep, deleting, hist, faults>>

\* delete: the rule, and in a second statement its executions.
RemoveRule(r) ==
  /\ edits < MaxEdits /\ edits' = edits + 1
  /\ rule[r] \notin {NoRule, Removed}
  /\ rule' = [rule EXCEPT ![r] = Removed]
  /\ deleting' = deleting \cup {r}
  /\ UNCHANGED <<ticket, log, now, sweep, hist, faults>>

Forget(r) ==
  /\ r \in deleting
  /\ log' = [log EXCEPT ![r] = [t \in Tickets |-> NoRow]]
  /\ deleting' = deleting \ {r}
  /\ UNCHANGED <<rule, ticket, now, sweep, hist, edits, faults>>

\* An agent changes one column of a ticket.
Edit(t) ==
  /\ edits < MaxEdits /\ edits' = edits + 1
  /\ \E tk \in  {[ticket[t] EXCEPT !.status = v] : v \in Statuses}
              \cup {[ticket[t] EXCEPT !.priority = v] : v \in Priorities}
              \cup {[ticket[t] EXCEPT !.assigned = v] : v \in BOOLEAN}
              \cup {[ticket[t] EXCEPT !.merged = TRUE]} :
       tk # ticket[t] /\ Write(t, tk)
  /\ UNCHANGED <<rule, log, now, sweep, deleting, lastAct, again, acted, escalations, overlapped, faults>>

Tick ==
  /\ now < MaxTime
  /\ now' = now + 1
  /\ UNCHANGED <<rule, ticket, log, sweep, deleting, hist, edits, faults>>

Init ==
  /\ rule \in [Rules -> Bodies \cup {NoRule}]
  /\ ticket = [t \in Tickets |-> NewTicket]
  /\ log = [r \in Rules |-> [t \in Tickets |-> NoRow]]
  /\ now = 1
  /\ sweep = [s \in Sweepers |-> Idle]
  /\ deleting = {}
  /\ lastAct = [r \in Rules |-> [t \in Tickets |-> 0]]
  /\ again = 0 /\ acted = {}
  /\ entered = [t \in Tickets |-> 0]
  /\ escalations = [t \in Tickets |-> 0]
  /\ overlapped = FALSE
  /\ edits = 0 /\ faults = 0

SweepStep(s) ==
  \/ Start(s) \/ Candidates(s) \/ Due(s) \/ Rearm(s)
  \/ \E t \in Tickets : Begin(s, t)
  \/ Escalate(s) \/ WriteEscalated(s) \/ Announce(s) \/ Apply(s)
  \/ Record(s) \/ Insert(s) \/ Refresh(s)

Next ==
  \/ \E s \in Sweepers : SweepStep(s) \/ Fail(s) \/ Crash(s)
  \/ \E r \in Rules : SaveRule(r) \/ RemoveRule(r) \/ Forget(r)
  \/ \E t \in Tickets : Edit(t)
  \/ Tick

Spec == Init /\ [][Next]_vars

\* Cron starts a sweep every five minutes in every process; statements return.
Fairness == WF_vars(Tick) /\ \A s \in Sweepers : WF_vars(SweepStep(s))

FairSpec == Spec /\ Fairness

-----------------------------------------------------------------------------
Stage(sw) ==
  /\ sw.pc \in {"candidates", "due", "rearm", "ticket"} \cup OnTicket
  /\ sw.at \in 1 .. MaxTime
  /\ sw.rule \in DOMAIN sw.left /\ DOMAIN sw.left \subseteq Rules
  /\ sw.left \in [DOMAIN sw.left -> Bodies]
  /\ sw.pc = "due"   => sw.matching \subseteq Tickets
  /\ sw.pc = "rearm" => sw.stale \subseteq Tickets \X (Nat \ {0})
  /\ sw.pc \notin {"candidates", "due"} => sw.todo \subseteq Tickets
  /\ sw.pc \in OnTicket => sw.ticket \in Tickets \ sw.todo /\ sw.actions \in Seq(Action)
  /\ sw.pc \in InAction => sw.actions # <<>>

\* The tables, the sweeps and the histories hold what they are declared to hold;
\* a sweep acts only while it has an action left.
TypeOK ==
  /\ rule \in [Rules -> Bodies \cup {NoRule, Removed}]
  /\ ticket \in [Tickets -> Ticket]
  /\ log \in [Rules -> [Tickets -> {NoRow} \cup [id : Nat \ {0}, firedAt : 1 .. MaxTime]]]
  /\ now \in 1 .. MaxTime
  /\ \A s \in Sweepers : sweep[s] # Idle => Stage(sweep[s])
  /\ deleting \subseteq {r \in Rules : rule[r] = Removed}
  /\ lastAct \in [Rules -> [Tickets -> Nat]] /\ again \in Nat
  /\ acted \subseteq Rules \X Tickets
  /\ overlapped \in BOOLEAN
  /\ entered \in [Tickets -> Nat] /\ escalations \in [Tickets -> Nat]

\* As long as sweeps do not overlap, a rule acts on a ticket once until the ticket stops
\* matching it or its period is over, whatever admins and agents do meanwhile;
\* each crash or failed statement can cost at most one repetition, and so can the
\* deletion of a rule under the sweep that runs it, for each ticket
\* (processEscalations: "A rule acts on a ticket once").
ActsOncePerFault ==
  ~overlapped => again <= faults + Cardinality({r \in Rules : rule[r] = Removed} \X Tickets)

\* An execution row is never there before the rule's actions were all run on the
\* ticket: a crash may repeat an escalation and never swallows one.
FiredMeansActed ==
  \A r \in Rules, t \in Tickets : log[r][t] # NoRow => <<r, t>> \in acted

\* As long as sweeps do not overlap, ticket.escalated is announced at most once each time
\* the ticket enters the escalated status, by a rule or by hand, however many
\* rules escalate it ("A ticket already in that status is left alone").
AnnouncedOncePerEntry ==
  ~overlapped => \A t \in Tickets : escalations[t] <= entered[t]

\* What a sweep does, it does once, records, and announces (processEscalations).
ActsLaw == ActsOncePerFault /\ FiredMeansActed /\ AnnouncedOncePerEntry

\* A ticket that goes on matching an active rule which has no record of it is
\* acted on in the end, also when the sweep fails on another ticket or dies.
Waiting(r, t) ==
  /\ rule[r].active /\ log[r][t] = NoRow
  /\ IsCandidate(ticket[t], rule[r])
MatchedIsActedOn ==
  \A r \in Rules, t \in Tickets : Waiting(r, t) ~> ~Waiting(r, t)

================================================================================
