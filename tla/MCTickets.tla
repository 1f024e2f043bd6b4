------------------------------- MODULE MCTickets -------------------------------
(***************************************************************************)
(* The components around a ticket, for TLC: its form and its history, its  *)
(* records, its custom fields, its deadlines, the reports about it and the *)
(* help articles.  They share no state, so a behaviour runs one of them,   *)
(* `part`; its variables are v1, v2, ..., in their order, and those it has *)
(* no use for are Off.                                                     *)
(***************************************************************************)
EXTENDS Naturals, Sequences, FiniteSets, TLC

CONSTANTS Off, None,
          r1, r2, x, y,        \* requests; tags, and slugs
          ada, d1, acme, beta, s1, s2, pending, closed, gold

VARIABLES part, v1, v2, v3, v4, v5, v6, v7, v8, v9, v10, v11

vars == <<part, v1, v2, v3, v4, v5, v6, v7, v8, v9, v10, v11>>

-----------------------------------------------------------------------------
(* The form, the customer's buttons, merge, split, tags in bulk, delete. *)
Work == INSTANCE TicketWork WITH
  ticket <- v1, history <- v2, request <- v3, born <- v4, deleted <- v5, faults <- v6,
  Tickets <- {1, 2}, Agents <- {ada}, Tags <- {x, y}, Statuses <- {pending, closed}, Solved <- {closed},
  ClosedStatus <- closed, Reopened <- pending, Requests <- {r1, r2}, Nothing <- None, MaxFaults <- 1
ASSUME Work!StatusesAssumption

(* Two subjects of two accounts; agents see their departments and their account. *)
Beside == INSTANCE TicketRecords WITH
  ticket <- v1, member <- v2, host <- v3, links <- v4, subjects <- v5, talks <- v6, req <- v7,
  strayed <- v8, changes <- v9, requests <- v10, faults <- v11,
  Tickets <- {1, 2}, Agents <- {ada}, Departments <- {d1}, Accounts <- {acme, beta}, First <- acme,
  Subjects <- {s1, s2}, AccountOf <- (s1 :> acme @@ s2 :> beta), SubjectLists <- {<<s2, s1>>},
  Visibility <- "department", ScopeAgents <- TRUE, Requests <- {r1, r2},
  MaxChanges <- 1, MaxRequests <- 2, MaxFaults <- 1
ASSUME Beside!validateTicketAccess

(* One field, whatever the admin makes of it, and one object. *)
Def(t, o, q, a) == [type |-> t, options |-> o, required |-> q, active |-> a]
Custom == INSTANCE CustomFields WITH
  field <- v1, value <- v2, request <- v3, object <- v4, record <- v5, edits <- v6,
  Fields <- {"f"}, Tickets <- {"t"}, Requests <- {r1, r2}, Records <- {1}, MaxEdits <- 2,
  Definitions <- {Def("select", {"a"}, TRUE, TRUE), Def("select", {"a"}, FALSE, TRUE),
                  Def("checkbox", {}, FALSE, TRUE), Def("multi_select", {"a", "1"}, FALSE, TRUE),
                  Def("number", {}, FALSE, FALSE), Def("number", {}, FALSE, TRUE), Def("text", {}, FALSE, TRUE)},
  Values <- {<<"nothing">>, <<"string", "a">>, <<"string", "1">>, <<"boolean", "true">>, <<"array", "a", "1">>},
  Schemas <- {[due |-> Def("date", {}, TRUE, TRUE)], [n |-> Def("number", {}, FALSE, TRUE)]}

(* A day of four slots (hours are slots, 4 the next midnight), a year of five days, clocks    *)
(* that go forward, or back, inside and outside opening hours.                                *)
Zone(b, a, c) == [before |-> b, after |-> a, change |-> c]
DaysHours == {<<>>, <<1, 3>>, <<2, 4>>, <<2, 1>>}
Schedule(h, z, hs, d) == [exists |-> TRUE, isDefault |-> d, hours |-> h, holidays |-> hs, zone |-> z]
Policy(d, def, c, s, b, u, l) ==
  [departmentId |-> d, ticketType |-> None, isDefault |-> def, isActive |-> TRUE, conditions |-> c,
   businessScheduleId |-> s, businessHoursOnly |-> b, minutes |-> [urgent |-> u, medium |-> l]]
Due == INSTANCE Deadlines WITH
  schedules <- v1, policies <- v2, department <- v3, targeted <- v4, ticket <- v5, admin <- v6,
  edits <- v7,
  DayLength <- 4, YearLength <- 5, MaxScanDays <- 8, Schedules <- {1, 2}, NoId <- None, NoDate <- Off,
  PolicySets <- {<<Policy(None, TRUE, {"urgent"}, None, TRUE, 1, 4),
                   Policy("d1", FALSE, {}, 1, FALSE, 2, 5)>>},
  Kinds <- {[departmentId |-> "d1", ticketType |-> "question", priority |-> "low"],
            [departmentId |-> None, ticketType |-> "question", priority |-> "urgent"]},
  Instants <- {20, 25}, MaxEdits <- 1,
  FirstRows <- {Schedule(<<a, b>>, z, hs, TRUE) :
      a \in DaysHours, b \in {<<>>, <<1, 3>>, <<2, 1>>},
      z \in {Zone(0, 1, 25), Zone(0, 1, 26), Zone(1, 0, 26), Zone(0 - 1, 0 - 1, 0)},
      hs \in {{[date |-> 1, isRecurring |-> TRUE], [date |-> 5, isRecurring |-> FALSE]}}},
  Rows <- {Schedule(<<<<1, 3>>, <<>>>>, Zone(0, 0, 0), {[date |-> 6, isRecurring |-> TRUE]}, FALSE),
           Schedule(<<<<0, 4>>, <<2, 1>>>>, Zone(0, 1, 27), {}, TRUE)}

(* Things happen at midnight, some hours later and five days later. *)
Reports == INSTANCE Reporting WITH
  clock <- v1, tickets <- v2, ratings <- v3, changes <- v4, request <- v5,
  Tickets <- {1, 2}, Agents <- {ada}, Priorities <- {"high"}, Policies <- {gold}, Active <- {gold},
  Stars <- {5}, Instants <- {0, 4, 120}, Weekday0 <- 3, NewYear <- 2, Windows <- {7}, Nothing <- None,
  MaxChanges <- 1
ASSUME Reports!CalendarAssumption

Help == INSTANCE KnowledgeBase WITH
  article <- v1, category <- v2, req <- v3, asked <- v4, tally <- v5,
  Articles <- {1, 2}, Categories <- {1}, Slugs <- {x, y}, Requests <- {r1, r2}, MaxAsked <- 4

-----------------------------------------------------------------------------
Alike == Permutations({r1, r2}) \cup Permutations({x, y})

Init ==
  \/ part = "work" /\ Work!Init /\ v7 = Off /\ v8 = Off /\ v9 = Off /\ v10 = Off /\ v11 = Off
  \/ part = "records" /\ Beside!Init
  \/ part = "fields" /\ Custom!Init /\ v7 = Off /\ v8 = Off /\ v9 = Off /\ v10 = Off /\ v11 = Off
  \/ part = "due" /\ Due!Init /\ v8 = Off /\ v9 = Off /\ v10 = Off /\ v11 = Off
  \/ part = "reports" /\ Reports!Init /\ v6 = Off /\ v7 = Off /\ v8 = Off /\ v9 = Off /\ v10 = Off /\ v11 = Off
  \/ part = "articles" /\ Help!Init /\ v6 = Off /\ v7 = Off /\ v8 = Off /\ v9 = Off /\ v10 = Off /\ v11 = Off
Next ==
  \/ part = "work" /\ Work!Next /\ UNCHANGED <<part, v7, v8, v9, v10, v11>>
  \/ part = "records" /\ Beside!Next /\ UNCHANGED <<part>>
  \/ part = "fields" /\ Custom!Next /\ UNCHANGED <<part, v7, v8, v9, v10, v11>>
  \/ part = "due" /\ Due!Next /\ UNCHANGED <<part, v8, v9, v10, v11>>
  \/ part = "reports" /\ Reports!Next /\ UNCHANGED <<part, v6, v7, v8, v9, v10, v11>>
  \/ part = "articles" /\ Help!Next /\ UNCHANGED <<part, v6, v7, v8, v9, v10, v11>>

Spec == Init /\ [][Next]_vars

-----------------------------------------------------------------------------
\* Every variable of the component that runs has its type.
TypeOK ==
  /\ part = "work"     => Work!TypeOK
  /\ part = "records"  => Beside!TypeOK
  /\ part = "fields"   => Custom!TypeOK
  /\ part = "due"      => Due!TypeOK
  /\ part = "reports"  => Reports!TypeOK
  /\ part = "articles" => Help!TypeOK

\* Nothing goes astray around a ticket: no column changes without its row in the history,
\* values are what was sent, records are under their object, and a request is shown only
\* records of tickets its actor sees; nor around an article: what is public has a date,
\* every read and vote counts, and pages show what is public.
RecordsLaw ==
  /\ part = "work"     => Work!NothingOffTheRecord
  /\ part = "fields"   => Custom!ShownIsMeant /\ Custom!RecordsBelong
  /\ part = "records"  => Beside!RecordsFollowTicket
  /\ part = "articles" => Help!PublishedIsDated /\ Help!EveryReadCounts /\ Help!PagesShowPublished

\* Deadlines fall in opening hours, and the numbers of one report agree with each other and
\* with the tickets (BusinessHoursService, ReportingService).
DatesAndFigures ==
  /\ part = "due"     => Due!DueInOpenTime
  /\ part = "reports" => Reports!FiguresAgree

\* No step takes away what must stay: the value of a required field, an account filled in.
StepsLaw ==
  [][/\ part = "fields"  => Custom!FilledStays
     /\ part = "records" => Beside!AccountsStay]_vars
================================================================================
