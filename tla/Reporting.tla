------------------------------- MODULE Reporting -------------------------------
(***************************************************************************)
(* The admin report screens and exports, over ReportingService.  A report  *)
(* is a request: it fixes its window, reads tickets and ratings in two     *)
(* queries that other work runs between, and computes figures from what it *)
(* read.  The figures are small algorithms - buckets of hours, calendar    *)
(* buckets, percentiles, rates, groups - and a screen shows several of the *)
(* same tickets side by side, so they have to add up.                      *)
(*                                                                         *)
(* Times are whole hours.  A figure the code rounds to one decimal is its  *)
(* number of tenths.  Departments, channels, types and tags are groupings  *)
(* by one more column like `priority`, which stands for them.  The         *)
(* calendar has one turn of the year, at the start of day NewYear.         *)
(***************************************************************************)
EXTENDS Integers, Sequences, FiniteSets, FiniteSetsExt, SequencesExt

CONSTANTS
  Tickets,             \* ids
  Agents, Priorities,
  Policies, Active,    \* SLA policies, and the ones still active
  Stars,               \* the ratings customers leave
  Instants,            \* the hours at which something happens
  Weekday0, NewYear,   \* the weekday (Monday is 1) of day 0, and the day that is 1 January
  Windows,             \* the periods asked for, in days
  Nothing,             \* an unset column, a query not yet answered
  MaxChanges           \* bound on changes to tickets after they were filed, and ratings

CalendarAssumption ==
  /\ Weekday0 \in 1 .. 7 /\ NewYear \in 1 .. 20
  /\ Instants \subseteq 0 .. 240 /\ 0 \in Instants

VARIABLES clock, tickets, ratings, changes, request

vars == <<clock, tickets, ratings, changes, request>>

-----------------------------------------------------------------------------
(* Figures                                                                   *)

(* A quotient in tenths, half up, as round1 rounds. *)
round1(part, whole) == (20 * part + whole) \div (2 * whole)
rate(part, total) == IF total > 0 THEN round1(100 * part, total) ELSE 0
SumOf(seq) == FoldSeq(LAMBDA a, b : a + b, 0, seq)
average(seq) == IF seq = <<>> THEN 0 ELSE round1(SumOf(seq), Len(seq))

(* Hundredths of the value between the closest ranks of a sorted sequence. *)
percentile(sorted, p) ==
  LET index == p * (Len(sorted) - 1)
      lower == index \div 100
      upper == (index + 99) \div 100
  IN IF sorted = <<>> THEN 0
     ELSE 100 * sorted[lower + 1] + (index - 100 * lower) * (sorted[upper + 1] - sorted[lower + 1])

(* AdvancedReportingService: ranges of equal size from 0 up to the greatest value. *)
buildDistribution(sorted) ==
  LET greatest == sorted[Len(sorted)]
      size == Max({(greatest + 9) \div 10, 1})
  IN [start \in {size * n : n \in 0 .. (greatest \div size)} |->
        Len(SelectSeq(sorted, LAMBDA v : v >= start /\ v < start + size))]

MaxClock == Max(Instants)
DayOf(time) == time \div 24
weekOf(day) ==
  LET thursday == day + 4 - (((Weekday0 + day - 1) % 7) + 1)
      year == IF thursday >= NewYear THEN 1 ELSE 0
      yearStart == NewYear - 365 * (1 - year)
  IN <<year, (thursday - yearStart + 7) \div 7>>
bucketOf(time, by) ==
  CASE by = "day" -> <<0, DayOf(time)>>
    [] by = "week" -> weekOf(DayOf(time))
    [] by = "month" -> <<IF DayOf(time) >= NewYear THEN 1 ELSE 0, 0>>

(* Rows in groups, by the key of each. *)
groupBy(keyOf) == [key \in Range(keyOf) |-> {row \in DOMAIN keyOf : keyOf[row] = key}]
ByColumn(rows, column) == groupBy([row \in rows |-> row[column]])
ByPeriod(rows, by) == groupBy([row \in rows |-> bucketOf(row.created, by)])

-----------------------------------------------------------------------------
(* What a report reads                                                       *)

TicketRows == [created : 0 .. MaxClock, firstRespondedAt : 0 .. MaxClock \cup {Nothing},
               resolvedAt : 0 .. MaxClock \cup {Nothing}, assignee : Agents \cup {Nothing},
               priority : Priorities, policy : Policies \cup {Nothing},
               firstBreached : BOOLEAN, resolutionBreached : BOOLEAN, slaBreached : BOOLEAN]
toFact(t) ==
  [id |-> t, created |-> tickets[t].created, firstRespondedAt |-> tickets[t].firstRespondedAt,
   resolvedAt |-> tickets[t].resolvedAt, assignee |-> tickets[t].assignee,
   priority |-> tickets[t].priority, policy |-> tickets[t].policy,
   first |-> tickets[t].firstBreached, resolution |-> tickets[t].resolutionBreached,
   breached |-> \/ tickets[t].firstBreached \/ tickets[t].resolutionBreached
                \/ tickets[t].slaBreached]
facts(start, end) ==
  {toFact(t) : t \in {u \in DOMAIN tickets : tickets[u].created >= start /\ tickets[u].created <= end}}
ratingFacts(start, end) ==
  {[ticket |-> r.ticket, rating |-> r.rating, created |-> r.created,
    assignee |-> tickets[r.ticket].assignee] : r \in {q \in ratings : q.created \in start .. end}}

-----------------------------------------------------------------------------
(* Building blocks                                                           *)

FirstResponseBuckets == {<<0, 1>>, <<1, 4>>, <<4, 8>>, <<8, 24>>, <<24, MaxClock + 1>>}
ResolutionBuckets == {<<0, 4>>, <<4, 8>>, <<8, 24>>, <<24, 72>>, <<72, 168>>, <<168, MaxClock + 1>>}

hours(rows, column) ==
  LET timed == {row \in rows : row[column] # Nothing}
  IN SortSeq([n \in 1 .. Cardinality(timed) |->
                LET row == SetToSeq(timed)[n] IN row[column] - row.created], LAMBDA a, b : a < b)
summary(rows, column, target) ==
  LET sorted == hours(rows, column)
  IN [avg |-> average(sorted), median |-> percentile(sorted, 50), p90 |-> percentile(sorted, 90),
      under |-> rate(Len(SelectSeq(sorted, LAMBDA h : h <= target)), Len(sorted))]

\* Mutant: a bucket holds its upper end too
histogramBothEnds(rows, column, buckets) ==
  [b \in buckets |-> Len(SelectSeq(hours(rows, column), LAMBDA h : h >= b[1] /\ h <= b[2]))]
histogram(rows, column, buckets) ==
  [b \in buckets |-> Len(SelectSeq(hours(rows, column), LAMBDA h : h >= b[1] /\ h < b[2]))]

trend(rows, column) ==
  LET groups == ByPeriod({row \in rows : row[column] # Nothing}, "day")
  IN [day \in DOMAIN groups |-> average(hours(groups[day], column))]
timesBy(rows, column, key) ==
  LET groups == ByColumn({row \in rows : row[column] # Nothing}, key)
  IN [k \in DOMAIN groups |->
        LET sorted == hours(groups[k], column)
        IN [count |-> Len(sorted), avg |-> average(sorted), median |-> percentile(sorted, 50),
            p90 |-> percentile(sorted, 90)]]
volumeByDate(rows) ==
  LET groups == ByPeriod(rows, "day")
  IN [day \in DOMAIN groups |-> Cardinality(groups[day])]

breachedOf(rows) == {row \in rows : row.breached}
slaCompliance(rows) ==
  LET covered == {row \in rows : row.policy # Nothing}
  IN IF covered = {} THEN 1000
     ELSE round1(100 * Cardinality(covered \ breachedOf(covered)), Cardinality(covered))
complianceByPolicy(rows) ==
  [policy \in Active |->
     LET own == {row \in rows : row.policy = policy}
     IN [total |-> Cardinality(own), breached |-> Cardinality(breachedOf(own)),
         met |-> Cardinality(own) - Cardinality(breachedOf(own))]]
breachBy(rows, key) ==
  LET groups == ByColumn({row \in rows : row.policy # Nothing}, key)
  IN [k \in DOMAIN groups |->
        [total |-> Cardinality(groups[k]), breached |-> Cardinality(breachedOf(groups[k])),
         rate |-> rate(Cardinality(breachedOf(groups[k])), Cardinality(groups[k]))]]
breachTrends(rows, by) ==
  LET groups == ByPeriod(breachedOf(rows), by)
  IN [period \in DOMAIN groups |-> Cardinality(groups[period])]
breachCounts(rows) ==
  [total |-> Cardinality(breachedOf(rows)), rate |-> rate(Cardinality(breachedOf(rows)), Cardinality(rows)),
   first |-> Cardinality({row \in rows : row.first}),
   resolution |-> Cardinality({row \in rows : row.resolution})]

stars(rated) == LET seq == SetToSeq(rated) IN [n \in DOMAIN seq |-> seq[n].rating]
csatAverage(rated) == average(stars(rated))
csatByAgent(rated) ==
  LET groups == ByColumn({r \in rated : r.assignee # Nothing}, "assignee")
  IN [a \in DOMAIN groups |-> [avg |-> csatAverage(groups[a]), total |-> Cardinality(groups[a])]]
csatOverTime(rated) ==
  LET groups == ByPeriod(rated, "day")
  IN [day \in DOMAIN groups |-> csatAverage(groups[day])]

agentPerformance(rows) ==
  LET groups == ByColumn({row \in rows : row.assignee # Nothing}, "assignee")
  IN [a \in DOMAIN groups |->
        [total |-> Cardinality(groups[a]),
         resolved |-> Cardinality({row \in groups[a] : row.resolvedAt # Nothing}),
         response |-> average(hours(groups[a], "firstRespondedAt")),
         resolution |-> average(hours(groups[a], "resolvedAt"))]]
(* The composite score in thousandths: resolution 30 %, response 25 %, CSAT 25 %, volume 20 %. *)
agentRanking(rows, rated) ==
  LET row == agentPerformance(rows)
      Of(a) == stars({r \in rated : r.assignee = a})
      response(a) == IF row[a].response > 0 THEN Max({0, 1000 - 5 * row[a].response}) ELSE 500
      csat(a) == IF Of(a) = <<>> THEN 0 ELSE (5000 * SumOf(Of(a))) \div Len(Of(a))
  IN [a \in DOMAIN row |->
        ((30000 * row[a].resolved) \div row[a].total) + 25 * response(a) + csat(a)
        + 200 * Min({100, 2 * row[a].total})]
cohorts(rows, rated, key) ==
  LET groups == ByColumn(rows, key)
  IN [k \in DOMAIN groups |->
        [volume |-> Cardinality(groups[k]), breached |-> Cardinality(breachedOf(groups[k])),
         resolution |-> average(hours(groups[k], "resolvedAt")),
         csat |-> csatAverage({r \in rated : r.ticket \in {row.id : row \in groups[k]}})]]

(* Tickets whose deadlines come at fixed times after filing: the query picks the open ones with a   *)
(* deadline within reach that is neither met nor missed, then the earliest one in reach is shown.   *)
FirstResponseDue(t) == tickets[t].created + 8
ResolutionDue(t) == tickets[t].created + 120
atRiskRows(now, deadline) ==
  {t \in DOMAIN tickets :
     /\ tickets[t].policy # Nothing /\ tickets[t].resolvedAt = Nothing
     /\ \/ /\ tickets[t].firstRespondedAt = Nothing /\ ~tickets[t].firstBreached
           /\ FirstResponseDue(t) \in now .. deadline
        \/ ~tickets[t].resolutionBreached /\ ResolutionDue(t) \in now .. deadline}
dueTimes(t, now, deadline) ==
  {at \in now .. deadline : \/ tickets[t].firstRespondedAt = Nothing /\ at = FirstResponseDue(t)
                            \/ tickets[t].resolvedAt = Nothing /\ at = ResolutionDue(t)}

-----------------------------------------------------------------------------
(* The screens                                                               *)

overview(F, R) ==
  [total |-> Cardinality(F), breaches |-> Cardinality(breachedOf(F)), ratings |-> Cardinality(R),
   response |-> average(hours(F, "firstRespondedAt")), csat |-> csatAverage(R),
   breakdown |-> [n \in Stars |-> Cardinality({r \in R : r.rating = n})]]
side(F, R) ==
  [total |-> Cardinality(F), resolved |-> Cardinality({row \in F : row.resolvedAt # Nothing}),
   response |-> average(hours(F, "firstRespondedAt")), resolution |-> average(hours(F, "resolvedAt")),
   compliance |-> slaCompliance(F), csat |-> csatAverage(R), trend |-> volumeByDate(F)]
dashboard(F, R) ==
  [volume |-> volumeByDate(F), performance |-> agentPerformance(F), compliance |-> slaCompliance(F),
   csat |-> csatAverage(R)]
sla(F) == [compliance |-> slaCompliance(F), policies |-> complianceByPolicy(F),
           breaches |-> {row.id : row \in breachedOf(F)}]
csat(F, R) ==
  [average |-> csatAverage(R), total |-> Cardinality(R), agents |-> csatByAgent(R),
   time |-> csatOverTime(R), responses |-> rate(Cardinality(R), Cardinality(F))]
slaTrends(F, by) ==
  [counts |-> breachCounts(F), trend |-> breachTrends(F, by), priorities |-> breachBy(F, "priority")]
responseTimes(F) ==
  [summary |-> summary(F, "firstRespondedAt", 4), trend |-> trend(F, "firstRespondedAt"),
   distribution |-> histogram(F, "firstRespondedAt", FirstResponseBuckets),
   agents |-> timesBy(F, "firstRespondedAt", "assignee")]
resolutionTimes(F) ==
  [summary |-> summary(F, "resolvedAt", 24), trend |-> trend(F, "resolvedAt"),
   distribution |-> histogram(F, "resolvedAt", ResolutionBuckets),
   agents |-> timesBy(F, "resolvedAt", "assignee")]
agentFigures(agent, F, R) ==
  LET mine == {row \in F : row.assignee = agent}
      rated == {r \in R : r.assignee = agent}
  IN [total |-> Cardinality(mine), workload |-> volumeByDate(mine),
      percentiles |-> [p \in {50, 75, 90, 95, 99} |-> percentile(hours(mine, "firstRespondedAt"), p)],
      breakdown |-> [n \in Stars |-> Cardinality({r \in rated : r.rating = n})],
      rated |-> Cardinality(rated)]

Screens == {"overview", "comparison", "dashboard", "sla", "csat", "slaTrends", "responseTimes", "resolutionTimes", "ranking",
            "cohorts", "agent", "distribution"}
Figures(screen, agent, by, F, R) ==
  CASE screen = "dashboard" -> dashboard(F, R)
    [] screen = "overview" -> overview(F, R)
    [] screen = "comparison" -> side(F, R)
    [] screen = "sla" -> sla(F)
    [] screen = "csat" -> csat(F, R)
    [] screen = "slaTrends" -> slaTrends(F, by)
    [] screen = "responseTimes" -> responseTimes(F)
    [] screen = "resolutionTimes" -> resolutionTimes(F)
    [] screen = "ranking" -> [scores |-> agentRanking(F, R)]
    [] screen = "cohorts" -> [rows |-> cohorts(F, R, "priority")]
    [] screen = "agent" -> agentFigures(agent, F, R)
    [] screen = "distribution" ->
         [buckets |-> IF hours(F, "resolvedAt") = <<>> THEN [start \in {} |-> 0]
                      ELSE buildDistribution(hours(F, "resolvedAt"))]

-----------------------------------------------------------------------------
(* Behaviour                                                                 *)

NoRequest == [window |-> Nothing, facts |-> Nothing, ratings |-> Nothing]
Init ==
  /\ clock = 0 /\ tickets = <<>> /\ ratings = {} /\ changes = 0
  /\ request = NoRequest

Change(t, column, value) ==
  /\ changes < MaxChanges
  /\ changes' = changes + 1
  /\ tickets' = [tickets EXCEPT ![t][column] = value]
  /\ UNCHANGED <<clock, ratings, request>>

File(t, assignee, priority, policy) ==
  /\ t \notin DOMAIN tickets /\ \A u \in Tickets : u < t => u \in DOMAIN tickets
  /\ tickets' = [u \in DOMAIN tickets \cup {t} |->
       IF u = t THEN [created |-> clock, firstRespondedAt |-> Nothing, resolvedAt |-> Nothing,
                      assignee |-> assignee, priority |-> priority, policy |-> policy,
                      firstBreached |-> FALSE, resolutionBreached |-> FALSE, slaBreached |-> FALSE]
       ELSE tickets[u]]
  /\ UNCHANGED <<clock, ratings, changes, request>>

Work ==
  \E t \in DOMAIN tickets :
    \/ tickets[t].firstRespondedAt = Nothing /\ Change(t, "firstRespondedAt", clock)
    \/ tickets[t].resolvedAt = Nothing /\ Change(t, "resolvedAt", clock)
    \/ \E a \in Agents : tickets[t].assignee # a /\ Change(t, "assignee", a)
    \/ /\ tickets[t].policy # Nothing
       /\ \E flag \in {"firstBreached", "resolutionBreached", "slaBreached"} :
            ~tickets[t][flag] /\ Change(t, flag, TRUE)

(* A rating is refused when the ticket has one: two given at the same time both find none. *)
Rate(t, n) ==
  /\ t \in DOMAIN tickets
  /\ \A r \in ratings : r.ticket = t => r.created = clock
  /\ changes < MaxChanges
  /\ changes' = changes + 1
  /\ ratings' = ratings \cup {[ticket |-> t, rating |-> n, created |-> clock]}
  /\ UNCHANGED <<clock, tickets, request>>

Pass ==
  /\ clock < MaxClock
  /\ clock' = Min({i \in Instants : i > clock})
  /\ UNCHANGED <<tickets, ratings, changes, request>>

(* The window is fixed when the request arrives; some screens bound what they read at its start only. *)
Window(days) == [start |-> clock - 24 * days, end |-> clock]
Ask(days) ==
  /\ request = NoRequest
  /\ request' = [NoRequest EXCEPT !.window = Window(days)]
  /\ UNCHANGED <<clock, tickets, ratings, changes>>

Asked == request.window # Nothing
Read(column, rows) ==
  /\ Asked /\ request[column] = Nothing
  /\ request' = [request EXCEPT ![column] = rows]
  /\ UNCHANGED <<clock, tickets, ratings, changes>>
ReadFacts == \E end \in {request.window.end, clock} : Read("facts", facts(request.window.start, end))
ReadRatings ==
  \E end \in {request.window.end, clock} : Read("ratings", ratingFacts(request.window.start, end))

(* Everything is read: the figures of the screen asked for follow from it. *)
Answerable == request.facts # Nothing /\ request.ratings # Nothing
Answer ==
  /\ Answerable
  /\ request' = NoRequest
  /\ UNCHANGED <<clock, tickets, ratings, changes>>

Next ==
  \/ \E t \in Tickets, a \in Agents \cup {Nothing}, p \in Priorities, s \in Policies \cup {Nothing} :
       File(t, a, p, s)
  \/ Work
  \/ \E t \in Tickets, n \in Stars : Rate(t, n)
  \/ Pass
  \/ \E days \in Windows : Ask(days)
  \/ Asked /\ (ReadFacts \/ ReadRatings)
  \/ Answer

Spec == Init /\ [][Next]_vars

-----------------------------------------------------------------------------
(* Properties                                                                *)

(* Rows, ratings and the request have their shapes, and the past is not ahead of the clock. *)
TypeOK ==
  /\ clock \in 0 .. MaxClock /\ changes \in 0 .. MaxChanges
  /\ DOMAIN tickets \subseteq Tickets /\ \A t \in DOMAIN tickets : tickets[t] \in TicketRows
  /\ \A r \in ratings : r.ticket \in DOMAIN tickets /\ r.rating \in Stars /\ r.created <= clock
  /\ Answerable => Asked

Total(f) == MapThenSumSet(LAMBDA x : f[x], DOMAIN f)
TotalOf(f, column) == MapThenSumSet(LAMBDA x : f[x][column], DOMAIN f)
Timed(F, column) == Cardinality({row \in F : row[column] # Nothing})
SameMonday(d, e) == (d + Weekday0 - 1) \div 7 = (e + Weekday0 - 1) \div 7

(* The laws of a screen of times, over the tickets F it is about. *)
TimesAddUp(f, F, column) ==
  /\ Total(f.distribution) = Timed(F, column)
  /\ TotalOf(f.agents, "count") = Timed(F, column)
  /\ f.summary.median <= f.summary.p90
  /\ f.summary.p90 <= 100 * Max({0} \cup {row[column] - row.created : row \in
                                   {r \in F : r[column] # Nothing}})

(* The laws of each screen. *)
Agree(screen, f, F, R) ==
    CASE screen = "dashboard" ->
           /\ Total(f.volume) = Cardinality(F)
           /\ TotalOf(f.performance, "total") = Cardinality({row \in F : row.assignee # Nothing})
           /\ \A a \in DOMAIN f.performance : f.performance[a].resolved <= f.performance[a].total
      [] screen = "overview" -> Total(f.breakdown) = f.ratings /\ f.breaches <= f.total
      [] screen = "comparison" -> Total(f.trend) = f.total /\ f.resolved <= f.total
      [] screen = "sla" ->
           \A p \in Active : /\ f.policies[p].met >= 0
                             /\ f.compliance = 1000 => f.policies[p].breached = 0
      [] screen = "csat" ->
           /\ TotalOf(f.agents, "total") <= f.total
           /\ \A a \in DOMAIN f.agents : f.agents[a].avg \in 10 .. 50
           /\ f.average <= 10 * Max({0} \cup Stars)
      [] screen = "slaTrends" ->
           /\ Total(f.trend) = f.counts.total
           /\ f.counts.total <= f.counts.first + f.counts.resolution
                                + Cardinality({row \in F : row.breached /\ ~row.first /\ ~row.resolution})
           /\ TotalOf(f.priorities, "breached") <= f.counts.total
           /\ \A t \in atRiskRows(clock, clock + 8) : dueTimes(t, clock, clock + 8) # {}
           /\ \A row, other \in breachedOf(F) :
                (bucketOf(row.created, "week") = bucketOf(other.created, "week"))
                  <=> SameMonday(DayOf(row.created), DayOf(other.created))
      [] screen = "responseTimes" -> TimesAddUp(f, F, "firstRespondedAt")
      [] screen = "resolutionTimes" -> TimesAddUp(f, F, "resolvedAt")
      [] screen = "ranking" -> \A a \in DOMAIN f.scores : f.scores[a] \in 0 .. 100000
      [] screen = "cohorts" -> TotalOf(f.rows, "volume") = Cardinality(F)
      [] screen = "agent" ->
           /\ Total(f.workload) = f.total
           /\ Total(f.breakdown) = f.rated
           /\ f.percentiles[50] <= f.percentiles[90] /\ f.percentiles[90] <= f.percentiles[99]
      [] screen = "distribution" -> Total(f.buckets) = Timed(F, "resolvedAt")

(* The figures of one screen agree with each other and with the tickets    *)
(* they are of, whatever changed while they were read: every time falls in *)
(* exactly one bucket, groups partition the rows, percentiles are in order *)
(* and among the values, breaches count alike in the total and the trend,  *)
(* two days share a week exactly when they share its Monday, across the    *)
(* turn of the year too, and a composite score stays within 0 and 100.     *)
FiguresAgree ==
  Answerable =>
    \A screen \in Screens, by \in {"day", "week", "month"} :
      (screen = "slaTrends" \/ by = "day") =>
        \A agent \in IF screen = "agent" THEN Agents ELSE {Nothing} :
          Agree(screen, Figures(screen, agent, by, request.facts, request.ratings),
                request.facts, request.ratings)
=============================================================================
