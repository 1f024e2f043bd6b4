-------------------------------- MODULE Plugins --------------------------------
(***************************************************************************)
(* In-process plugins: the activation rows and their lifecycle, the        *)
(* dispatch of hooks to the active plugins under timeouts, filters, cron   *)
(* schedules, endpoints, pages and webhooks, and `ctx.config`.             *)
(***************************************************************************)
EXTENDS Naturals, Sequences, FiniteSets

CONSTANTS
  Registered,  \* the plugins the host was given, in order
  Handles,     \* plugin |-> the hooks it handles
  Priority,    \* plugin |-> the priority of its filter, or NoFilter
  Schedule,    \* plugin |-> its cron schedule, or Never
  Minutes,     \* the minutes the cron ticks of a run fall in
  Tasks,       \* numbers of admins' requests, visitors' requests, events and cron ticks
  MaxTasks     \* bound on the tasks begun and the hooks emitted

VARIABLES
  row,      \* plugin |-> "none", "off" or "on": its row in escalated_plugins
  task,     \* what each task is doing
  calls,    \* handlers running: plugin, hook, whose dispatch, and timed out or not
  config,   \* plugin |-> its config rows, oldest first, each the keys it has
  begun,
  hooked,   \* history: plugin |-> the lifecycle hook it was last called with
  twice,    \* history: plugins called with one lifecycle hook twice in a row
  met,      \* history: plugins whose row, or config, two tasks changed at once
  written   \* history: plugin |-> the config keys it was told were stored

vars == <<row, task, calls, config, begun, hooked, twice, met, written>>

Plugin   == {Registered[i] : i \in DOMAIN Registered}
NoFilter == 1000
Emitted  == 0      \* who called, when it was a hook a plugin emitted
Never    == <<>>
Idle     == [kind |-> "idle"]

-----------------------------------------------------------------------------
(* Names, schedules, routes and answers. *)

PLUGIN_LIFECYCLE_ACTIONS == {"plugin.activated", "plugin.deactivated", "plugin.uninstalling"}
CANONICAL_EVENTS == {"ticket.updated"}  \* and the others of the shared vocabulary
RESERVED_HOOKS == PLUGIN_LIFECYCLE_ACTIONS \cup CANONICAL_EVENTS

\* A cron field: a set of parts, `*` being the part "any"; [from, to] stands for a value,
\* a range or `n/step` with its end filled in.
Any == [from |-> 0, to |-> 60, step |-> 1]
values(field, min, max) ==
  {n \in min..max : \E part \in field :
     LET from == IF part.from < min THEN min ELSE part.from
     IN n >= from /\ n <= part.to /\ (n - from) % part.step = 0}

\* Minute, hour, day of month, month and day of week, 7 being Sunday too; of two
\* restricted day fields either is enough.
cronDue(schedule, at) ==
  /\ schedule # Never
  /\ at.minute \in values(schedule[1], 0, 59)
  /\ at.hour \in values(schedule[2], 0, 23)
  /\ at.month \in values(schedule[4], 1, 12)
  /\ LET dom == at.date \in values(schedule[3], 1, 31)
         days == values(schedule[5], 0, 7)
         dow == at.day \in days \/ (at.day = 0 /\ 7 \in days)
     IN IF Any \notin schedule[3] /\ Any \notin schedule[5] THEN dom \/ dow ELSE dom /\ dow

\* What a handler's result becomes: its own envelope, JSON, or an error.
pluginReply(result) ==
  CASE result = "value" -> 200
    [] result = "envelope" -> 201
    [] result \in {"malformed", "bad header"} -> 502
    [] result \in {"throws", "timeout"} -> 500

activePlugins == {p \in Plugin : row[p] = "on"}

\* Active plugins' filters, lowest priority first, in the order given among equals.
RECURSIVE Sorted(_)
Sorted(ps) ==
  IF ps = {} THEN <<>>
  ELSE LET Place(p) == CHOOSE i \in DOMAIN Registered : Registered[i] = p
           first == CHOOSE p \in ps : \A q \in ps \ {p} :
                      Priority[p] < Priority[q] \/ (Priority[p] = Priority[q] /\ Place(p) < Place(q))
       IN <<first>> \o Sorted(ps \ {first})

filtersOf(active) == Sorted({p \in active : Priority[p] # NoFilter})

-----------------------------------------------------------------------------
(* Calls: each races its timeout. *)

MyCalls(t) == {c \in calls : c.task = t /\ ~c.late}
Call(p, hook, t) == [plugin |-> p, hook |-> hook, task |-> t, late |-> FALSE]

\* Starts the handlers of `hook` side by side.
Starts(ps, hook, t) ==
  calls' = calls \cup {Call(p, hook, t) : p \in ps}

dispatchAction(hook, t) == Starts({p \in activePlugins : hook \in Handles[p]}, hook, t)

At(t, place) == task' = [task EXCEPT ![t].at = place]

\* Mutant: a filter that answers after its time still sets the value.
LateFilterCounts(c) ==
  /\ calls' = calls \ {c}
  /\ task' = [t \in Tasks |->
       IF t = c.task /\ c.late /\ c.hook = "filters" /\ task[t].kind = "filters"
       THEN [task[t] EXCEPT !.value = Append(@, c.plugin)] ELSE task[t]]
  /\ UNCHANGED <<row, config, begun, hooked, twice, met, written>>

\* Any answer or failure: both are the end of it.
CallEnds(c) ==
  /\ calls' = calls \ {c}
  /\ UNCHANGED <<row, task, config, begun, hooked, twice, met, written>>

\* Mutant: nothing races the handler.
CallWaits(c) == c.late /\ UNCHANGED vars

\* The race is lost; the handler itself runs on.
CallTimesOut(c) ==
  /\ ~c.late
  /\ calls' = (calls \ {c}) \cup {[c EXCEPT !.late = TRUE]}
  /\ UNCHANGED <<row, task, config, begun, hooked, twice, met, written>>

\* A handler of a plugin's fires a hook of its own: a reserved name is dropped.
Emit(c, hook) ==
  /\ begun < MaxTasks /\ begun' = begun + 1
  /\ hook \notin RESERVED_HOOKS
  /\ Starts({p \in activePlugins : hook \in Handles[p]}, hook, Emitted)
  /\ UNCHANGED <<row, task, config, hooked, twice, met, written>>

-----------------------------------------------------------------------------
(* Activating, deactivating and uninstalling. *)

Lifecycles == {"activate", "deactivate", "uninstall"}
Busy(p) == \E t \in Tasks : task[t].kind \in Lifecycles /\ task[t].plugin = p

BeginLifecycle(t, kind, p) ==
  /\ task[t] = Idle /\ begun < MaxTasks
  /\ task' = [task EXCEPT ![t] = [kind |-> kind, plugin |-> p, seen |-> "none",
                at |-> IF kind = "uninstall" THEN "exists" ELSE "read"]]
  /\ begun' = begun + 1
  /\ met' = IF Busy(p) THEN met \cup {p} ELSE met
  /\ UNCHANGED <<row, calls, config, hooked, twice, written>>

In(t, kinds, place) == task[t].kind \in kinds /\ task[t].at = place /\ MyCalls(t) = {}
Quiet == UNCHANGED <<config, begun, met, written>>

uninstalling(t) ==
  /\ In(t, {"uninstall"}, "exists")
  /\ IF row[task[t].plugin] = "on" THEN dispatchAction("plugin.uninstalling", t)
     ELSE UNCHANGED calls
  /\ At(t, "read")
  /\ Quiet /\ UNCHANGED <<row, hooked, twice>>

\* Mutant: nothing is asked of the row that was read.
ReadsNothing(t) ==
  /\ In(t, Lifecycles, "read")
  /\ task' = [task EXCEPT ![t].seen = row[task[t].plugin],
                ![t].at = IF task[t].kind = "activate" THEN "save" ELSE "tell"]
  /\ Quiet /\ UNCHANGED <<row, calls, hooked, twice>>

\* The row is read once; already as wanted, there is nothing to do.
ReadRow(t) ==
  /\ In(t, Lifecycles, "read")
  /\ LET seen == row[task[t].plugin]
         next == IF task[t].kind = "activate" THEN (IF seen = "on" THEN "done" ELSE "save")
                 ELSE IF seen = "on" THEN "tell"
                 ELSE IF task[t].kind = "uninstall" THEN "delete" ELSE "done"
     IN task' = [task EXCEPT ![t].seen = seen, ![t].at = next]
  /\ Quiet /\ UNCHANGED <<row, calls, hooked, twice>>

\* Two inserts of one slug: the second is refused.
activateRow(t) ==
  LET p == task[t].plugin IN
  /\ In(t, {"activate"}, "save")
  /\ IF task[t].seen = "none" /\ row[p] # "none" THEN At(t, "done") /\ UNCHANGED row
     ELSE row' = [row EXCEPT ![p] = "on"] /\ At(t, "hook")
  /\ Quiet /\ UNCHANGED <<calls, hooked, twice>>

tellDeactivated(t) ==
  /\ In(t, {"deactivate", "uninstall"}, "tell")
  /\ dispatchAction("plugin.deactivated", t)
  /\ At(t, "hook")
  /\ Quiet /\ UNCHANGED <<row, hooked, twice>>

\* onActivate or onDeactivate, its failure logged.
lifecycle(t) ==
  LET p == task[t].plugin
      hook == IF task[t].kind = "activate" THEN "onActivate" ELSE "onDeactivate"
  IN /\ In(t, Lifecycles, "hook")
     /\ calls' = calls \cup {Call(p, hook, t)}
     /\ hooked' = [hooked EXCEPT ![p] = hook]
     /\ twice' = IF hooked[p] = hook THEN twice \cup {p} ELSE twice
     /\ At(t, IF task[t].kind = "activate" THEN "told" ELSE "off")
     /\ Quiet /\ UNCHANGED <<row>>

tellActivated(t) ==
  /\ In(t, {"activate"}, "told")
  /\ dispatchAction("plugin.activated", t)
  /\ At(t, "done")
  /\ Quiet /\ UNCHANGED <<row, hooked, twice>>

\* The row read at the start is saved: one deleted since is inserted again.
deactivateRow(t) ==
  /\ In(t, {"deactivate", "uninstall"}, "off")
  /\ row' = [row EXCEPT ![task[t].plugin] = "off"]
  /\ At(t, IF task[t].kind = "uninstall" THEN "delete" ELSE "done")
  /\ Quiet /\ UNCHANGED <<calls, hooked, twice>>

deleteRow(t) ==
  /\ In(t, {"uninstall"}, "delete")
  /\ row' = [row EXCEPT ![task[t].plugin] = "none"]
  /\ At(t, "done")
  /\ Quiet /\ UNCHANGED <<calls, hooked, twice>>

-----------------------------------------------------------------------------
(* Requests, events, filters and cron ticks. *)

Work == {"filters", "endpoint", "webhook", "event", "cron"}

\* Who is active is read once, here; what follows works on that.
BeginWork(t, kind, left) ==
  /\ task[t] = Idle /\ begun < MaxTasks
  /\ task' = [task EXCEPT ![t] = [kind |-> kind, at |-> "call", left |-> left, value |-> <<>>, answer |-> 0]]
  /\ begun' = begun + 1
  /\ UNCHANGED <<row, calls, config, hooked, twice, met, written>>

beginFilters(t) == BeginWork(t, "filters", filtersOf(activePlugins))

\* Only active plugins answer; a capability is asked for between that and the call.
endpoint(t, p) == p \in activePlugins /\ BeginWork(t, "endpoint", <<p>>)
webhook(t, p)  == p \in activePlugins /\ BeginWork(t, "webhook", <<p>>)

\* A canonical event is delivered to those who handle it; other names are not.
handleEvent(t, name) ==
  /\ task[t] = Idle /\ begun < MaxTasks
  /\ task' = [task EXCEPT ![t] = [kind |-> "event", at |-> "done"]] /\ begun' = begun + 1
  /\ IF name \in CANONICAL_EVENTS THEN dispatchAction(name, t) ELSE UNCHANGED calls
  /\ UNCHANGED <<row, config, hooked, twice, met, written>>

runDueCron(t, now) ==
  /\ task[t] = Idle /\ begun < MaxTasks
  /\ task' = [task EXCEPT ![t] = [kind |-> "cron", at |-> "done"]] /\ begun' = begun + 1
  /\ Starts({p \in activePlugins : cronDue(Schedule[p], now)}, "cron", t)
  /\ UNCHANGED <<row, config, hooked, twice, met, written>>

\* The next filter, or the endpoint's handler; a viewer without the capability is refused.
CallNext(t) ==
  /\ In(t, Work, "call")
  /\ IF task[t].left = <<>> THEN At(t, "done") /\ UNCHANGED calls
     ELSE \/ /\ Starts({Head(task[t].left)}, task[t].kind, t)
             /\ At(t, "result")
          \/ /\ task[t].kind = "endpoint"
             /\ task' = [task EXCEPT ![t].at = "done", ![t].answer = 403]
             /\ UNCHANGED calls
  /\ Quiet /\ UNCHANGED <<row, hooked, twice>>

\* A failing filter is skipped; an endpoint's result becomes its reply.
Result(t, result, failed) ==
  task' = IF task[t].kind = "filters"
          THEN [task EXCEPT ![t].at = "call", ![t].left = Tail(@),
                  ![t].value = IF failed THEN @ ELSE Append(@, Head(task[t].left))]
          ELSE [task EXCEPT ![t].at = "done", ![t].answer = pluginReply(result)]

CallReturns(t) ==
  /\ task[t].kind \in Work /\ task[t].at = "result"
  /\ \E c \in MyCalls(t) :
       /\ calls' = calls \ {c}
       /\ \E result \in {"value", "envelope", "malformed", "bad header", "throws"} :
            Result(t, result, result = "throws")
  /\ Quiet /\ UNCHANGED <<row, hooked, twice>>

CallIsSlow(t) ==
  /\ task[t].kind \in Work /\ task[t].at = "result"
  /\ \E c \in MyCalls(t) : calls' = (calls \ {c}) \cup {[c EXCEPT !.late = TRUE]}
  /\ Result(t, "timeout", TRUE)
  /\ Quiet /\ UNCHANGED <<row, hooked, twice>>

-----------------------------------------------------------------------------
(* ctx.config.set: what there is, with the new keys. *)

BeginSet(t, p, key) ==
  /\ task[t] = Idle /\ begun < MaxTasks /\ p \in activePlugins
  /\ task' = [task EXCEPT ![t] = [kind |-> "config", plugin |-> p, key |-> key, at |-> "merge",
                                  merged |-> {}, exists |-> FALSE]]
  /\ met' = IF \E u \in Tasks : task[u].kind = "config" /\ task[u].plugin = p
            THEN met \cup {p} ELSE met
  /\ begun' = begun + 1
  /\ UNCHANGED <<row, calls, config, hooked, twice, written>>

configAll(p) == IF config[p] = <<>> THEN {} ELSE Head(config[p])

\* Mutant: the keys given replace the ones there are.
configReplace(t) ==
  /\ In(t, {"config"}, "merge")
  /\ task' = [task EXCEPT ![t].merged = {task[t].key}, ![t].at = "find"]
  /\ UNCHANGED <<row, calls, config, begun, hooked, twice, met, written>>

configSet(t) ==
  /\ In(t, {"config"}, "merge")
  /\ task' = [task EXCEPT ![t].merged = configAll(task[t].plugin) \cup {task[t].key}, ![t].at = "find"]
  /\ UNCHANGED <<row, calls, config, begun, hooked, twice, met, written>>

findRow(t) ==
  /\ In(t, {"config"}, "find")
  /\ task' = [task EXCEPT ![t].exists = config[task[t].plugin] # <<>>, ![t].at = "write"]
  /\ UNCHANGED <<row, calls, config, begun, hooked, twice, met, written>>

\* No index keeps the rows of a key to one.
set(t) ==
  LET p == task[t].plugin  data == task[t].merged IN
  /\ In(t, {"config"}, "write")
  /\ config' = [config EXCEPT ![p] = IF task[t].exists THEN [@ EXCEPT ![1] = data] ELSE Append(@, data)]
  /\ written' = [written EXCEPT ![p] = @ \cup {task[t].key}]
  /\ At(t, "done")
  /\ UNCHANGED <<row, calls, begun, hooked, twice, met>>

-----------------------------------------------------------------------------
Done(t) ==
  /\ task[t] # Idle /\ task[t].at = "done" /\ MyCalls(t) = {}
  /\ task' = [task EXCEPT ![t] = Idle]
  /\ UNCHANGED <<row, calls, config, begun, hooked, twice, met, written>>

\* The process ends and starts again: what ran is gone, rows stay.
Restart ==
  /\ \E t \in Tasks : task[t] # Idle
  /\ task' = [t \in Tasks |-> Idle] /\ calls' = {}
  /\ met' = met \cup {p \in Plugin : Busy(p)}
  /\ UNCHANGED <<row, config, begun, hooked, twice, written>>

Init ==
  /\ row \in [Plugin -> {"none", "off", "on"}]
  /\ \A i \in DOMAIN Registered : i > 1 => row[Registered[i]] = "on"
  /\ task = [t \in Tasks |-> Idle] /\ calls = {}
  /\ config = [p \in Plugin |-> <<>>] /\ begun = 0
  /\ hooked = [p \in Plugin |-> CASE row[p] = "none" -> "never" [] row[p] = "on" -> "onActivate"
                                [] row[p] = "off" -> "onDeactivate"]
  /\ twice = {} /\ met = {}
  /\ written = [p \in Plugin |-> {}]

Awaited(c) == c.task \in Tasks /\ task[c.task].kind \in Work /\ task[c.task].at = "result" /\ ~c.late

Proceed(t) ==
  \/ uninstalling(t) \/ ReadRow(t) \/ activateRow(t) \/ tellDeactivated(t) \/ lifecycle(t)
  \/ tellActivated(t) \/ deactivateRow(t) \/ deleteRow(t)
  \/ CallNext(t) \/ CallReturns(t) \/ CallIsSlow(t)
  \/ configSet(t) \/ findRow(t) \/ set(t) \/ Done(t)

BeginAny(t) ==
  \/ \E p \in Plugin, kind \in Lifecycles : BeginLifecycle(t, kind, p)
  \/ beginFilters(t)
  \/ \E p \in Plugin : endpoint(t, p) \/ webhook(t, p)
  \/ \E name \in {"ticket.updated", "ticket.merged"} : handleEvent(t, name)
  \/ \E now \in Minutes : runDueCron(t, now)
  \/ \E p \in Plugin, key \in Tasks : BeginSet(t, p, key)

\* Of the numbers not in use a task takes the first.
Begin(t) == (\A u \in Tasks : u < t => task[u] # Idle) /\ BeginAny(t)

Running ==
  \E c \in calls : ~Awaited(c) /\ (CallEnds(c) \/ CallTimesOut(c) \/ Emit(c, "custom"))

Next == (\E t \in Tasks : Begin(t) \/ Proceed(t)) \/ Running \/ Restart

Spec == Init /\ [][Next]_vars

TimesOut(t, p) == \E c \in MyCalls(t) : c.plugin = p /\ ~Awaited(c) /\ CallTimesOut(c)

\* Tasks go on, timers fire; handlers themselves may never end.
GoesOn == \E t \in Tasks : Proceed(t) \/ \E p \in Plugin : TimesOut(t, p)
Fairness == WF_vars(GoesOn)

-----------------------------------------------------------------------------
\* Rows, hooks and running calls have one of their states.
TypeOK ==
  /\ row \in [Plugin -> {"none", "off", "on"}]
  /\ hooked \in [Plugin -> {"never", "onActivate", "onDeactivate"}]
  /\ \A c \in calls : c.plugin \in Plugin /\ c.task \in Tasks \cup {Emitted}

\* A plugin's onActivate and onDeactivate alternate, and once nothing is in hand its row
\* says which was last: a repeated click runs nothing again. Two admins at once, or a
\* process that dies between the row and the hook, can break this; nothing else does.
HooksAlternate ==
  \A p \in Plugin \ met :
    /\ p \notin twice
    /\ ~Busy(p) => (row[p] = "on" <=> hooked[p] = "onActivate")

\* A filter that failed or came late has no part in the value: the filters that do are in
\* order of priority, each once.
ChainInOrder ==
  \A t \in Tasks : task[t].kind = "filters" =>
    LET all == Sorted({p \in Plugin : Priority[p] # NoFilter})
        value == task[t].value
        Place(p) == CHOOSE i \in DOMAIN all : all[i] = p
    IN \A i, j \in DOMAIN value : i < j => Place(value[i]) < Place(value[j])

\* Every key a plugin stored in its config is there, unless two of its tasks stored at once.
ConfigKept == \A p \in Plugin \ met : written[p] \subseteq configAll(p)

\* "A failing or slow handler is logged and never reaches the caller": every task ends,
\* though a handler may hang for ever.
Begun(t) == task[t] # Idle
================================================================================
