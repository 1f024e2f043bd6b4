----------------------------- MODULE Deadlines ------------------------------
(***************************************************************************)
(* Which deadlines a ticket gets: sla.service.ts picks a policy and a      *)
(* business schedule, and business-hours.ts walks the schedule's opening   *)
(* windows, counting real time, until the minutes are used up.  Meanwhile  *)
(* admins edit the schedule, one statement after another.                  *)
(*                                                                         *)
(* The clock is cut: a day has DayLength slots, the week the days of the   *)
(* schedule's hours, the year YearLength days.  A zone is two offsets and  *)
(* the instant the clocks change from the first to the second.             *)
(***************************************************************************)
EXTENDS Integers, Sequences, FiniteSets, FiniteSetsExt

CONSTANTS DayLength, YearLength,
          MaxScanDays,   \* how many days the walk looks at
          Schedules,     \* ids, numbers
          PolicySets,    \* what the policies may be: sequences of policies
          Kinds,         \* the tickets: [departmentId, ticketType, priority]
          Instants,      \* when tickets are created
          FirstRows,     \* what the first schedule may be at the start
          Rows,          \* what an admin may save
          MaxEdits,      \* bound on what admins do
          NoId, NoDate

VARIABLES schedules,  \* the schedule rows, their holidays with them
          policies, department,   \* the department's own schedule
          targeted,   \* the option targetedSlas
          ticket,     \* the ticket being created: [at, kind, from, policy, ids, counted, due]
          admin,      \* the admin's save in hand
          edits

vars == <<schedules, policies, department, targeted, ticket, admin, edits>>

Closed == <<>>
(* A day's hours are the slots it opens and closes at; DayLength is the next midnight. *)
bounds(hours) ==
    IF hours # Closed /\ hours[1] < DayLength /\ hours[1] # hours[2] THEN hours ELSE Closed

WeekLength(schedule) == Len(schedule.hours)
HoursOn(day, schedule) == bounds(schedule.hours[1 + (day % WeekLength(schedule))])
hasOpenDay(schedule) == \E i \in 1 .. WeekLength(schedule) : bounds(schedule.hours[i]) # Closed

(* A holiday is one date, or its day of the year, every year. *)
isHoliday(day, schedule) ==
    \E holiday \in schedule.holidays :
        IF holiday.isRecurring THEN holiday.date % YearLength = day % YearLength
        ELSE holiday.date = day

offsetAt(t, zone) == IF t < zone.change THEN zone.before ELSE zone.after
wallMillis(t, zone) == t + offsetAt(t, zone)
localDate(t, zone) == wallMillis(t, zone) \div DayLength

(* wallClock: the instant the clock reads `slot` on `day`.  The offsets a day before and a day *)
(* after give two candidates; when neither reads right, the search between them ends at the    *)
(* first instant whose reading is not before the one asked for.                                *)
wallClock(day, slot, zone) ==
    LET wanted == day * DayLength + slot
        candidates == {wanted - offsetAt(wanted - DayLength, zone),
                       wanted - offsetAt(wanted + DayLength, zone)}
        exact == {t \in candidates : wallMillis(t, zone) = wanted}
    IN IF exact # {} THEN Min(exact)
       ELSE Min({t \in Min(candidates) .. Max(candidates) : wallMillis(t, zone) >= wanted})

NoWindow == [start |-> 0, end |-> 0]

\* Mutant: a window that runs past midnight ends on its own day.
windowOnSameDay(day, schedule) ==
    LET hours == HoursOn(day, schedule) IN
    IF hours = Closed \/ isHoliday(day, schedule) \/ hours[2] < hours[1] THEN NoWindow
    ELSE [start |-> wallClock(day, hours[1], schedule.zone),
          end |-> wallClock(day, hours[2], schedule.zone)]

windowOn(day, schedule) ==
    LET hours == HoursOn(day, schedule)
        start == wallClock(day, hours[1], schedule.zone)
        end == wallClock(IF hours[2] <= hours[1] THEN day + 1 ELSE day, hours[2], schedule.zone)
    IN IF hours = Closed \/ isHoliday(day, schedule) THEN NoWindow
       ELSE IF end > start THEN [start |-> start, end |-> end] ELSE NoWindow

isWithinBusinessHours(t, schedule) ==
    \E day \in {localDate(t, schedule.zone) - 1, localDate(t, schedule.zone)} :
        LET win == windowOn(day, schedule) IN t >= win.start /\ t < win.end

(* addBusinessMinutes: from the day before, window after window, the cursor at the end of what *)
(* has been counted; calendar time when no day is open, or none was within MaxScanDays.        *)
addBusinessMinutes(from, minutes, schedule) ==
    LET first == localDate(from, schedule.zone) - 1
        scan[i \in 0 .. MaxScanDays] ==
            IF i = 0 THEN [cursor |-> from, remaining |-> minutes, due |-> NoDate]
            ELSE LET so == scan[i - 1]
                     win == windowOn(first + i - 1, schedule)
                     start == IF win.start > so.cursor THEN win.start ELSE so.cursor
                 IN CASE so.due # NoDate \/ win.end <= so.cursor -> so
                      [] so.remaining <= win.end - start -> [so EXCEPT !.due = start + so.remaining]
                      [] OTHER -> [so EXCEPT !.cursor = win.end,
                                             !.remaining = so.remaining - (win.end - start)]
        due == scan[MaxScanDays].due
    IN IF minutes <= 0 THEN from
       ELSE IF ~hasOpenDay(schedule) \/ due = NoDate THEN from + minutes
       ELSE due

-----------------------------------------------------------------------------
countsBusinessHours(policy) == policy.businessHoursOnly \/ policy.businessScheduleId # NoId

(* findMatchingPolicy: with targeted SLAs, the policies of this department and type, the most  *)
(* specific first, a general one only when it is the default; otherwise the first whose        *)
(* conditions hold, else the default.  Policies are in the order of their ids and sort orders. *)
General(policy) == policy.departmentId = NoId /\ policy.ticketType = NoId

rank(policy) ==
    IF policy.departmentId # NoId
    THEN IF policy.ticketType # NoId THEN 0 ELSE 1
    ELSE IF policy.ticketType # NoId THEN 2 ELSE 3

matchesConditions(kind, conditions) == conditions # {} /\ kind.priority \in conditions

Applies(policy, kind) ==
    /\ policy.isActive
    /\ policy.departmentId \in {NoId, kind.departmentId}
    /\ policy.ticketType \in {NoId, kind.ticketType}
    /\ General(policy) => policy.isDefault

(* getFirstResponseMinutes, getResolutionMinutes: by priority, and an unknown one is medium. *)
minutesFor(policy, priority) ==
    policy.minutes[IF priority \in DOMAIN policy.minutes THEN priority ELSE "medium"]

First(indices) == {i \in indices : \A j \in indices : i <= j}

findMatchingPolicy(kind) ==
    LET Targets == {i \in DOMAIN policies : Applies(policies[i], kind)}
        Closest == {i \in Targets : \A j \in Targets : rank(policies[i]) <= rank(policies[j])}
        Matching == {i \in DOMAIN policies :
                        /\ policies[i].isActive /\ General(policies[i])
                        /\ matchesConditions(kind, policies[i].conditions)}
        Default == {i \in DOMAIN policies :
                        policies[i].isActive /\ General(policies[i]) /\ policies[i].isDefault}
    IN IF targeted THEN First(Closest)
       ELSE IF Matching # {} THEN First(Matching)
       ELSE First(Default)

NoRow == [exists |-> FALSE, isDefault |-> FALSE, hours |-> <<Closed>>, holidays |-> {},
          zone |-> [before |-> 0, after |-> 0, change |-> 0]]
NoTicket == [at |-> "none", kind |-> NoId, from |-> 0, policy |-> NoId, ids |-> <<>>,
             counted |-> NoRow, due |-> NoDate]
NoSave == [at |-> "none", id |-> NoId, row |-> NoRow]

Init ==
    /\ schedules \in {[s \in Schedules |-> IF s = 1 THEN row ELSE NoRow] : row \in FirstRows}
    /\ policies \in PolicySets
    /\ department = 1
    /\ targeted \in BOOLEAN
    /\ ticket = NoTicket /\ admin = NoSave /\ edits = 0

-----------------------------------------------------------------------------
(* applyToTicket, one action for each query it awaits. *)
FindPolicy(kind, from) ==
    /\ ticket.at = "none"
    /\ LET found == findMatchingPolicy(kind) IN
       ticket' = IF found = {} THEN [ticket EXCEPT !.at = "done"]
                 ELSE LET policy == policies[CHOOSE i \in found : TRUE] IN
                      [ticket EXCEPT !.at = IF countsBusinessHours(policy) THEN "department"
                                            ELSE "update",
                                     !.kind = kind, !.from = from, !.policy = policy]
    /\ UNCHANGED <<schedules, policies, department, targeted, admin, edits>>

(* scheduleFor: the policy's own schedule, else the department's, else the default one. *)
FindDepartment ==
    /\ ticket.at = "department"
    /\ ticket' = [ticket EXCEPT !.at = "schedule",
          !.ids = SelectSeq(<<ticket.policy.businessScheduleId,
                              IF ticket.kind.departmentId = NoId THEN NoId ELSE department>>,
                            LAMBDA id : id # NoId)]
    /\ UNCHANGED <<schedules, policies, department, targeted, admin, edits>>

FindSchedule ==
    /\ ticket.at = "schedule"
    /\ ticket' =
          IF ticket.ids # <<>>
          THEN IF schedules[Head(ticket.ids)].exists
               THEN [ticket EXCEPT !.at = "update", !.counted = schedules[Head(ticket.ids)]]
               ELSE [ticket EXCEPT !.ids = Tail(ticket.ids)]
          ELSE LET defaults == {s \in Schedules : schedules[s].exists /\ schedules[s].isDefault} IN
               [ticket EXCEPT !.at = "update",
                  !.counted = IF defaults = {} THEN NoRow ELSE schedules[Min(defaults)]]
    /\ UNCHANGED <<schedules, policies, department, targeted, admin, edits>>

WriteDeadline ==
    /\ ticket.at = "update"
    /\ LET minutes == minutesFor(ticket.policy, ticket.kind.priority) IN
       ticket' = [ticket EXCEPT !.at = "done",
          !.due = IF ticket.counted.exists
                  THEN addBusinessMinutes(ticket.from, minutes, ticket.counted)
                  ELSE ticket.from + minutes]
    /\ UNCHANGED <<schedules, policies, department, targeted, admin, edits>>

-----------------------------------------------------------------------------
(* scheduleStore and scheduleUpdate: the columns, then the other defaults are cleared, then *)
(* the holidays are deleted, then inserted.                                                 *)
SaveSchedule(s, row) ==
    /\ admin.at = "none" /\ edits < MaxEdits /\ edits' = edits + 1
    /\ schedules' = [schedules EXCEPT ![s] = [row EXCEPT !.holidays = schedules[s].holidays]]
    /\ admin' = [at |-> "default", id |-> s, row |-> row]
    /\ UNCHANGED <<policies, department, targeted, ticket>>

soleDefault ==
    /\ admin.at = "default"
    /\ schedules' = [s \in Schedules |->
          IF admin.row.isDefault /\ s # admin.id THEN [schedules[s] EXCEPT !.isDefault = FALSE]
          ELSE schedules[s]]
    /\ admin' = [admin EXCEPT !.at = "delete"]
    /\ UNCHANGED <<policies, department, targeted, ticket, edits>>

replaceHolidays ==
    /\ admin.at \in {"delete", "insert"}
    /\ schedules' = [schedules EXCEPT ![admin.id].holidays =
          IF admin.at = "delete" THEN {} ELSE admin.row.holidays]
    /\ admin' = IF admin.at = "delete" THEN [admin EXCEPT !.at = "insert"] ELSE NoSave
    /\ UNCHANGED <<policies, department, targeted, ticket, edits>>

(* delete clears the schedule from the policies, then from the departments, then removes it. *)
ClearPolicies(s) ==
    /\ admin.at = "none" /\ schedules[s].exists /\ edits < MaxEdits /\ edits' = edits + 1
    /\ policies' = [i \in DOMAIN policies |->
          IF policies[i].businessScheduleId = s THEN [policies[i] EXCEPT !.businessScheduleId = NoId]
          ELSE policies[i]]
    /\ admin' = [NoSave EXCEPT !.at = "departments", !.id = s]
    /\ UNCHANGED <<schedules, department, targeted, ticket>>

ClearDepartments ==
    /\ admin.at = "departments"
    /\ department' = IF department = admin.id THEN NoId ELSE department
    /\ admin' = [admin EXCEPT !.at = "remove"]
    /\ UNCHANGED <<schedules, policies, targeted, ticket, edits>>

RemoveSchedule ==
    /\ admin.at = "remove"
    /\ schedules' = [schedules EXCEPT ![admin.id] = NoRow]
    /\ admin' = NoSave
    /\ UNCHANGED <<policies, department, targeted, ticket, edits>>

(* SlaService.update, findById and update: nothing checks that the schedule is still there. *)
UpdatePolicy(i, s) ==
    /\ edits < MaxEdits /\ edits' = edits + 1
    /\ policies' = [policies EXCEPT ![i].businessScheduleId = s]
    /\ UNCHANGED <<schedules, department, targeted, ticket, admin>>

Next ==
    \/ \E i \in DOMAIN policies, s \in Schedules \union {NoId} : UpdatePolicy(i, s)
    \/ \E kind \in Kinds, from \in Instants : FindPolicy(kind, from)
    \/ FindDepartment \/ FindSchedule \/ WriteDeadline
    \/ \E s \in Schedules, row \in Rows : SaveSchedule(s, row)
    \/ soleDefault \/ replaceHolidays
    \/ \E s \in Schedules : ClearPolicies(s)
    \/ ClearDepartments \/ RemoveSchedule

Spec == Init /\ [][Next]_vars

-----------------------------------------------------------------------------
TypeOK ==
    /\ ticket.at \in {"none", "department", "schedule", "update", "done"}
    /\ admin.at \in {"none", "default", "delete", "insert", "departments", "remove"}
    /\ department \in Schedules \union {NoId}
    /\ \A s \in Schedules : schedules[s].exists \in BOOLEAN
    /\ edits \in 0 .. MaxEdits

(* When a schedule is open, said without candidates, windows or a walk: a day that is open and *)
(* no holiday opens at the first instant whose clock has reached its opening time, and closes  *)
(* at the first that has reached its closing time.                                             *)
Reaches(t, reading, zone) ==
    /\ wallMillis(t, zone) >= reading
    /\ \A u \in (t - 2 * DayLength) .. (t - 1) : wallMillis(u, zone) < reading

Open(t, schedule) ==
    \E day \in (localDate(t, schedule.zone) - 2) .. (localDate(t, schedule.zone) + 1) :
        LET hours == HoursOn(day, schedule) IN
        /\ hours # Closed /\ ~isHoliday(day, schedule)
        /\ LET opens == day * DayLength + hours[1]
               closes == (IF hours[2] <= hours[1] THEN day + 1 ELSE day) * DayLength + hours[2]
           IN /\ \E u \in (t - 2 * DayLength) .. t : Reaches(u, opens, schedule.zone)
              /\ ~\E u \in (t - 3 * DayLength) .. t : Reaches(u, closes, schedule.zone)

(* A deadline falls where it should: between the creation and the deadline the schedule that   *)
(* was read is open for exactly the minutes of the policy, the last of them just before the    *)
(* deadline - over nights, holidays and a change of the clocks (addBusinessMinutes, windowOn,  *)
(* wallClock) - unless nothing opened within the days the walk looks at.  On the way, a moment *)
(* is within business hours exactly when the schedule is open (isWithinBusinessHours).         *)
DueInOpenTime ==
    ticket.at = "done" /\ ticket.counted.exists =>
        LET minutes == minutesFor(ticket.policy, ticket.kind.priority)
            OpenUpTo(end) == {t \in ticket.from .. end : Open(t, ticket.counted)}
            open == OpenUpTo(ticket.due - 1)
        IN /\ \A t \in ticket.from .. ticket.due :
                  isWithinBusinessHours(t, ticket.counted) <=> Open(t, ticket.counted)
           /\ \/ Cardinality(open) = minutes /\ ticket.due - 1 \in open
              \/ /\ ticket.due = ticket.from + minutes
                 /\ Cardinality(OpenUpTo(ticket.from + (MaxScanDays - 3) * DayLength)) < minutes
=============================================================================
