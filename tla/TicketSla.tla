------------------------------- MODULE TicketSla -------------------------------
(***************************************************************************)
(* Ticket rows, the HTTP handlers that change them and the per-minute cron *)
(* sweeps over them (SLA breaches and warnings, snooze wake-up).           *)
(*                                                                         *)
(* Every process of a deployment runs its own sweeps, and every handler    *)
(* awaits the database between its steps, so the unit of atomicity is one  *)
(* SQL statement.  `repo.update` is a statement on the columns it names;   *)
(* `repo.save` of a loaded ticket writes back every column that differs    *)
(* from the row: the whole copy, however old.                              *)
(***************************************************************************)
EXTENDS Naturals, FiniteSets

CONSTANTS
  Tickets,      \* ids a ticket can get
  Sweepers,     \* processes that run the SLA sweep
  Wakers,       \* processes that run the snooze wake-up
  Requests,     \* requests in flight, each handled once
  Updates,      \* bodies of update requests
  Minutes,      \* the minutes the SLA policy gives, by kind of deadline
  Window,       \* options.slaWarningMinutes
  MaxTime,      \* bound on the clock
  MaxCrashes    \* bound on process crashes and failed statements

Kinds  == {"first_response", "resolution"}
Flags  == {"slaFirstResponseBreached", "slaResolutionBreached",
           "slaFirstResponseWarned", "slaResolutionWarned"}
Breaches == {"slaFirstResponseBreached", "slaResolutionBreached"}
Open   == "open"
Solved == "solved"
Keep   == "keep"       \* a field the request body leaves out
Never  == 0            \* SQL NULL, for the timestamps

ASSUME SweepersAssumption == IsFiniteSet(Sweepers)
ASSUME MinutesAssumption == Minutes \in [Kinds -> Nat \ {0}]
ASSUME UpdatesAssumption ==
  Updates \subseteq [status : {Open, Solved, Keep}, tags : BOOLEAN, snooze : BOOLEAN]
ASSUME BoundsAssumption == Window \in Nat /\ MaxTime \in Nat /\ MaxCrashes \in Nat

KindOf(f) == IF f \in {"slaFirstResponseBreached", "slaFirstResponseWarned"}
               THEN "first_response" ELSE "resolution"
BreachOf(f) == IF KindOf(f) = "first_response"
                 THEN "slaFirstResponseBreached" ELSE "slaResolutionBreached"

Row == [status : {Open, Solved},
        due : [Kinds -> Nat],         \* firstResponseDueAt, resolutionDueAt
        met : [Kinds -> Nat],         \* firstRespondedAt, resolvedAt
        closedAt : Nat,
        flag : [Flags -> BOOLEAN],
        slaBreached : BOOLEAN,
        merged : BOOLEAN,
        snoozedUntil : Nat]
NoRow == [status |-> "absent"]

VARIABLES
  row,        \* the tickets table
  now,        \* the clock, in minutes
  sweep,      \* per sweeper: which query it is in, what the query found
  wake,       \* per waker: the tickets its query found
  request,    \* per request: where its handler is, the copy it read
  claims,     \* history: conditional updates that set a flag
  announced,  \* history: events emitted
  lost,       \* history: whole-row saves that cleared a flag
  stale,      \* history: tickets a whole-row save put an older row back into
  crashes     \* history: processes that died, statements that failed

db   == <<row, now>>
hist == <<claims, announced, lost, stale, crashes>>
vars == <<row, now, sweep, wake, request, claims, announced, lost, stale, crashes>>

\* One more event counted for a ticket, in one of the histories.
Count(c, t, f) == [c EXCEPT ![t] = [c[t] EXCEPT ![f] = c[t][f] + 1]]

Existing == {t \in Tickets : row[t] # NoRow}

-----------------------------------------------------------------------------
(* The SLA sweep: checkBreaches, then checkWarnings.  Each runs a query per *)
(* deadline and then works through what it found.                           *)

Idle == [pass |-> "idle", at |-> 0, found |-> {}, owes |-> {}]

\* Mutant: checkBreaches forgets the resolution deadline.
NextPassSkips(p) ==
  CASE p = "idle"                     -> "slaFirstResponseBreached"
    [] p = "slaFirstResponseBreached" -> "slaFirstResponseWarned"
    [] p = "slaFirstResponseWarned"   -> "slaResolutionWarned"
    [] OTHER                          -> "idle"

NextPass(p) ==
  CASE p = "idle"                     -> "slaFirstResponseBreached"
    [] p = "slaFirstResponseBreached" -> "slaResolutionBreached"
    [] p = "slaResolutionBreached"    -> "slaFirstResponseWarned"
    [] p = "slaFirstResponseWarned"   -> "slaResolutionWarned"
    [] p = "slaResolutionWarned"      -> "idle"

\* Mutant: the queries do not ask whether the deadline was met.
MatchesAnswered(r, f, at) ==
  LET due == r.due[KindOf(f)] IN
  /\ due # Never
  /\ IF f \in Breaches THEN due < at ELSE due \in at .. (at + Window)
  /\ ~r.flag[BreachOf(f)] /\ ~r.flag[f] /\ ~r.merged

\* The `where` of the four queries of a sweep that began at time `at`.
Matches(r, f, at) ==
  LET due == r.due[KindOf(f)] IN
  /\ due # Never
  /\ IF f \in Breaches
       THEN due < at
       ELSE due \in at .. (at + Window) /\ r.met["resolution"] = Never
  /\ r.met[KindOf(f)] = Never
  /\ ~r.flag[BreachOf(f)]
  /\ ~r.flag[f]
  /\ ~r.merged

\* The four passes: checkBreaches reads the clock once for its two queries,
\* checkWarnings once for its own two.  A window of 0 turns warnings off.
NextQuery(s) ==
  /\ sweep[s].found = {} /\ sweep[s].owes = {}
  /\ LET p  == NextPass(sweep[s].pass)
         q  == IF Window = 0 /\ p = "slaFirstResponseWarned" THEN "idle" ELSE p
         at == IF q \in {"slaFirstResponseBreached", "slaFirstResponseWarned"}
                 THEN now ELSE sweep[s].at
     IN sweep' = [sweep EXCEPT ![s] =
          IF q = "idle" THEN Idle
          ELSE [pass |-> q, at |-> at, owes |-> {},
                found |-> {t \in Existing : Matches(row[t], q, at)}]]
  /\ UNCHANGED <<db, wake, request, hist>>

Raise(r, f) == [r EXCEPT !.flag = [r.flag EXCEPT ![f] = TRUE],
                         !.slaBreached = IF f \in Breaches THEN TRUE ELSE r.slaBreached]

\* Mutant: the update names the ticket only, so every sweep that found it wins.
FlagUnconditionally(s, t) ==
  /\ t \in sweep[s].found /\ sweep[s].owes = {}
  /\ row' = [row EXCEPT ![t] = Raise(@, sweep[s].pass)]
  /\ claims' = Count(claims, t, sweep[s].pass)
  /\ sweep' = [sweep EXCEPT ![s] = [sweep[s] EXCEPT !.found = @ \ {t}, !.owes = {t}]]
  /\ UNCHANGED <<now, wake, request, announced, lost, stale, crashes>>

\* flagBreach and flagWarning: UPDATE ... WHERE id = t AND flag = false.
Flag(s, t) ==
  LET f == sweep[s].pass IN
  /\ t \in sweep[s].found /\ sweep[s].owes = {}
  /\ \/ /\ ~row[t].flag[f]
        /\ row' = [row EXCEPT ![t] = Raise(@, f)]
        /\ claims' = Count(claims, t, f)
        /\ sweep' = [sweep EXCEPT ![s] = [sweep[s] EXCEPT !.found = @ \ {t}, !.owes = {t}]]
     \/ /\ row[t].flag[f]
        /\ sweep' = [sweep EXCEPT ![s] = [sweep[s] EXCEPT !.found = @ \ {t}]]
        /\ UNCHANGED <<row, claims>>
  /\ UNCHANGED <<now, wake, request, announced, lost, stale, crashes>>

\* Mutant: the event goes out again on a retry of the emit.
EmitKeepsOwing(s) ==
  /\ \E t \in sweep[s].owes : announced' = Count(announced, t, sweep[s].pass)
  /\ UNCHANGED <<db, sweep, wake, request, claims, lost, stale, crashes>>

\* eventEmitter.emit of sla.breached or sla.warning, after the update resolved.
Emit(s) ==
  /\ \E t \in sweep[s].owes : announced' = Count(announced, t, sweep[s].pass)
  /\ sweep' = [sweep EXCEPT ![s] = [sweep[s] EXCEPT !.owes = {}]]
  /\ UNCHANGED <<db, wake, request, claims, lost, stale, crashes>>

\* The process dies with whatever it held in memory.
CrashSweep(s) ==
  /\ crashes < MaxCrashes
  /\ sweep[s] # Idle
  /\ sweep' = [sweep EXCEPT ![s] = Idle]
  /\ crashes' = crashes + 1
  /\ UNCHANGED <<db, wake, request, claims, announced, lost, stale>>

\* A failed statement aborts the method it is in: the scheduler logs it and goes
\* on with checkWarnings after checkBreaches, with the next minute after that.
FailSweep(s) ==
  /\ crashes < MaxCrashes
  /\ sweep[s].found # {} /\ sweep[s].owes = {}
  /\ sweep' = [sweep EXCEPT ![s] =
       IF @.pass \in Breaches
         THEN [@ EXCEPT !.pass = "slaResolutionBreached", !.found = {}]
         ELSE Idle]
  /\ crashes' = crashes + 1
  /\ UNCHANGED <<db, wake, request, claims, announced, lost, stale>>

-----------------------------------------------------------------------------
(* The wake-up sweep. *)

\* Mutant: looks for a snooze that ends this very minute.
FindSnoozedNow(w) ==
  /\ wake[w] = {}
  /\ wake' = [wake EXCEPT ![w] = {t \in Existing :
                 row[t].snoozedUntil = now /\ ~row[t].merged}]
  /\ wake' # wake
  /\ UNCHANGED <<db, sweep, request, hist>>

FindSnoozed(w) ==
  /\ wake[w] = {}
  /\ wake' = [wake EXCEPT ![w] = {t \in Existing :
                 /\ row[t].snoozedUntil # Never
                 /\ row[t].snoozedUntil <= now
                 /\ ~row[t].merged}]
  /\ wake' # wake
  /\ UNCHANGED <<db, sweep, request, hist>>

\* The update names the ticket only: whatever snooze it has by now is cleared.
Unsnooze(w, t) ==
  /\ t \in wake[w]
  /\ row' = [row EXCEPT ![t] = [row[t] EXCEPT !.snoozedUntil = Never]]
  /\ wake' = [wake EXCEPT ![w] = @ \ {t}]
  /\ UNCHANGED <<now, sweep, request, hist>>

-----------------------------------------------------------------------------
(* Request handlers. *)

Ready == [pc |-> "ready"]
Done  == [pc |-> "done"]

\* Mutant: a migration that adds no default for the warning flags.
NewRowUnwarned(due) ==
  [status |-> Open, due |-> due, met |-> [k \in Kinds |-> Never], closedAt |-> Never,
   flag |-> [f \in Breaches |-> FALSE], slaBreached |-> FALSE, merged |-> FALSE,
   snoozedUntil |-> Never]

NewRow(due) ==
  [status |-> Open, due |-> due, met |-> [k \in Kinds |-> Never], closedAt |-> Never,
   flag |-> [f \in Flags |-> FALSE], slaBreached |-> FALSE, merged |-> FALSE,
   snoozedUntil |-> Never]

\* TicketService.create: the insert, applyToTicket when a policy matches, and,
\* when the body names tags, a second save of the copy.  Nothing can name the
\* ticket before the handler ends, so insert and deadlines are one step.
Create(r, t) ==
  /\ request[r] = Ready /\ t \notin Existing
  /\ \E due \in {[k \in Kinds |-> Never], [k \in Kinds |-> now + Minutes[k]]},
        tags \in BOOLEAN :
       /\ row' = [row EXCEPT ![t] = NewRow(due)]
       /\ request' = [request EXCEPT ![r] =
            IF tags THEN [pc |-> "saveTags", ticket |-> t, copy |-> row'[t],
                          write |-> [to |-> Keep, stamp |-> Never, snooze |-> Never]]
                    ELSE Done]
  /\ UNCHANGED <<now, sweep, wake, hist>>

\* TicketService.update up to its first write: the copy is read, and the closing
\* timestamps are taken here, when the copy says the ticket was never closed.
ReadForUpdate(r, t) ==
  /\ request[r] = Ready /\ t \in Existing
  /\ \E u \in Updates :
     \E until \in IF u.snooze THEN (now + 1) .. (MaxTime + 1) ELSE {Never} :
       LET closes == /\ u.status = Solved /\ row[t].status # Solved
                     /\ row[t].closedAt = Never
       IN request' = [request EXCEPT ![r] =
            [pc |-> IF u.tags THEN "saveTags" ELSE "write",
             ticket |-> t, copy |-> row[t],
             write |-> [to |-> u.status,
                        stamp |-> IF closes THEN now ELSE Never,
                        snooze |-> until]]]
  /\ UNCHANGED <<db, sweep, wake, hist>>

\* ticketRepo.save(ticket) with the new tags: the copy replaces the row.
SaveTags(r) ==
  /\ request[r].pc = "saveTags"
  /\ LET t == request[r].ticket IN
     /\ row' = [row EXCEPT ![t] = request[r].copy]
     /\ lost' = [lost EXCEPT ![t] = [f \in Flags |->
                   lost[t][f] + (IF row[t].flag[f] /\ ~row'[t].flag[f] THEN 1 ELSE 0)]]
     /\ stale' = IF row' = row THEN stale ELSE stale \cup {t}
  /\ request' = [request EXCEPT ![r] = [request[r] EXCEPT !.pc = "write"]]
  /\ UNCHANGED <<now, sweep, wake, claims, announced, crashes>>

\* ticketRepo.update(id, updateData).
Updated(r, w) ==
  [r EXCEPT !.status = IF w.to = Keep THEN r.status ELSE w.to,
            !.closedAt = IF w.stamp = Never THEN r.closedAt ELSE w.stamp,
            !.met = IF w.stamp = Never THEN r.met
                    ELSE [r.met EXCEPT !["resolution"] = w.stamp],
            !.snoozedUntil = IF w.snooze = Never THEN r.snoozedUntil ELSE w.snooze]

WriteUpdate(r) ==
  /\ request[r].pc = "write"
  /\ LET t == request[r].ticket
         w == request[r].write
     IN row' = [row EXCEPT ![t] = Updated(row[t], w)]
  /\ request' = [request EXCEPT ![r] = Done]
  /\ UNCHANGED <<now, sweep, wake, hist>>

\* TicketService.merge and unsnooze: one statement each.  Any other ticket may be
\* the one merged into: it need not be among Tickets, and no column of it changes.
Merge(r, t) ==
  /\ request[r] = Ready /\ t \in Existing
  /\ row' = [row EXCEPT ![t] = [row[t] EXCEPT !.merged = TRUE]]
  /\ request' = [request EXCEPT ![r] = Done]
  /\ UNCHANGED <<now, sweep, wake, hist>>

UnsnoozeNow(r, t) ==
  /\ request[r] = Ready /\ t \in Existing
  /\ row' = [row EXCEPT ![t] = [row[t] EXCEPT !.snoozedUntil = Never]]
  /\ request' = [request EXCEPT ![r] = Done]
  /\ UNCHANGED <<now, sweep, wake, hist>>

\* ReplyService.create by an agent, public: the ticket is read, the reply saved,
\* and the first response stamped if the copy had none.
ReadForReply(r, t) ==
  /\ request[r] = Ready /\ t \in Existing
  /\ request' = [request EXCEPT ![r] =
       IF row[t].met["first_response"] = Never
         THEN [pc |-> "respond", ticket |-> t] ELSE Done]
  /\ UNCHANGED <<db, sweep, wake, hist>>

Answered(r, at) == [r EXCEPT !.met = [r.met EXCEPT !["first_response"] = at]]

FirstResponse(r) ==
  /\ request[r].pc = "respond"
  /\ LET t == request[r].ticket IN
     row' = [row EXCEPT ![t] = Answered(row[t], now)]
  /\ request' = [request EXCEPT ![r] = Done]
  /\ UNCHANGED <<now, sweep, wake, hist>>

-----------------------------------------------------------------------------
Tick ==
  /\ now < MaxTime
  /\ now' = now + 1
  /\ UNCHANGED <<row, sweep, wake, request, hist>>

Init ==
  /\ row = [t \in Tickets |-> NoRow]
  /\ now = 1
  /\ sweep = [s \in Sweepers |-> Idle]
  /\ wake = [w \in Wakers |-> {}]
  /\ request = [r \in Requests |-> Ready]
  /\ claims = [t \in Tickets |-> [f \in Flags |-> 0]]
  /\ announced = [t \in Tickets |-> [f \in Flags |-> 0]]
  /\ lost = [t \in Tickets |-> [f \in Flags |-> 0]]
  /\ stale = {}
  /\ crashes = 0

SweepStep(s) == NextQuery(s) \/ Emit(s) \/ \E t \in Tickets : Flag(s, t)
WakeStep(w)  == FindSnoozed(w) \/ \E t \in Tickets : Unsnooze(w, t)
Continue(r)  == SaveTags(r) \/ WriteUpdate(r) \/ FirstResponse(r)
Arrive(r)    == \E t \in Tickets :
                  \/ Create(r, t) \/ ReadForUpdate(r, t) \/ ReadForReply(r, t)
                  \/ Merge(r, t) \/ UnsnoozeNow(r, t)

Next ==
  \/ Tick
  \/ \E s \in Sweepers : SweepStep(s) \/ CrashSweep(s) \/ FailSweep(s)
  \/ \E w \in Wakers : WakeStep(w)
  \/ \E r \in Requests : Arrive(r) \/ Continue(r)

Spec == Init /\ [][Next]_vars

\* Cron runs the sweeps every minute, an awaited statement returns, and time
\* passes; requests need not arrive, but an accepted one is worked off.
Fairness ==
  /\ WF_vars(Tick)
  /\ \A s \in Sweepers : WF_vars(SweepStep(s))
  /\ \A w \in Wakers : WF_vars(WakeStep(w))
  /\ \A r \in Requests : WF_vars(Continue(r))

FairSpec == Spec /\ Fairness

-----------------------------------------------------------------------------
Write == [to : {Open, Solved, Keep}, stamp : Nat, snooze : Nat]

Handler == [pc : {"ready", "done"}]
           \cup [pc : {"respond"}, ticket : Tickets]
           \cup [pc : {"saveTags", "write"}, ticket : Tickets, copy : Row,
                 write : Write]

Sweep == [pass : Flags \cup {"idle"}, at : Nat,
          found : SUBSET Tickets, owes : SUBSET Tickets]

TypeOK ==
  /\ row \in [Tickets -> Row \cup {NoRow}]
  /\ now \in Nat
  /\ sweep \in [Sweepers -> Sweep]
  /\ wake \in [Wakers -> SUBSET Tickets]
  /\ request \in [Requests -> Handler]
  /\ claims \in [Tickets -> [Flags -> Nat]]
  /\ announced \in [Tickets -> [Flags -> Nat]]
  /\ lost \in [Tickets -> [Flags -> Nat]]
  /\ stale \subseteq Tickets
  /\ crashes \in Nat

FlaggedIn(table, t, f) == table[t] # NoRow /\ table[t].flag[f]
Flagged(t, f) == FlaggedIn(row, t, f)

\* However many sweeps overlap, crash or fail, a flag is won once for every time
\* it is clear: a second win needs a whole-row save that cleared it in between
\* (flagBreach and flagWarning: "so concurrent ticks emit once").
NoticeLaw ==
  \A t \in Tickets, f \in Flags :
    /\ claims[t][f] <= lost[t][f] + 1
    /\ ~Flagged(t, f) => claims[t][f] <= lost[t][f]

\* What subscribers see of it: an event is repeated only after such a save, and
\* one that was never won is never sent.
OnceUnlessOverwritten ==
  \A t \in Tickets, f \in Flags :
    announced[t][f] <= claims[t][f] /\ claims[t][f] <= 1 + lost[t][f]

\* slaBreached is the disjunction of the two breach flags; and a ticket answered
\* in time is never flagged for a late first response, nor warned about before the
\* window, although a sweep flags what its query found some statements ago.
\* Putting an older row back can undo the second.
AnsweredInTime(r, f) ==
  LET met == r.met[KindOf(f)]  due == r.due[KindOf(f)] IN
  met # Never /\ IF f \in Breaches THEN met <= due ELSE met + Window < due

FlagIsReal ==
  \A t \in Existing :
    /\ row[t].slaBreached <=> \E f \in Breaches : row[t].flag[f]
    /\ \A f \in {"slaFirstResponseBreached", "slaFirstResponseWarned"} :
         row[t].flag[f] /\ t \notin stale => ~AnsweredInTime(row[t], f)

\* An event is announced once and only for what is so.
AnnouncedRightly == OnceUnlessOverwritten /\ FlagIsReal

\* A deadline that passed unmet, which some later sweep is to flag, unless the ticket
\* is answered or merged first.
Missed(t, k) ==
  /\ t \in Existing
  /\ row[t].due[k] # Never /\ row[t].due[k] < now /\ row[t].met[k] = Never
  /\ ~row[t].merged

\* A snoozed ticket whose time has come, which the wake-up is to clear.
Overslept(t) == t \in Existing /\ row[t].snoozedUntil \in 1 .. now /\ ~row[t].merged

-----------------------------------------------------------------------------
(* What the documentation says, and the code does not do. *)

\* README.md:489 "sla.warning fires once per deadline" and CHANGELOG.md:1002
\* "sla.breached fires once per missed deadline": no event is sent twice.
FiresOnce == \A t \in Tickets, f \in Flags : announced[t][f] <= 1
================================================================================
