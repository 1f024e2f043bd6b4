------------------------------- MODULE ImportJob -------------------------------
(***************************************************************************)
(* One import from another platform.  A run walks the source's entity      *)
(* types page by page, writes each record that has no source map, and      *)
(* saves its cursors and its error log after each page; an admin pauses,   *)
(* resumes and cancels the job meanwhile.  Nothing keeps two runs of one   *)
(* job apart: they meet in the job's row and in the source maps.  One step *)
(* is one statement.                                                       *)
(***************************************************************************)
EXTENDS Integers, FiniteSets, Sequences

CONSTANTS
  Records,     \* what the source holds
  Pages,       \* per entity type in order, the pages extract returns for it
  Parent,      \* per record, the record it refers to, or NoParent
  NoParent,
  Invalid,     \* records that fail their checks
  Found,       \* tags, contacts, ...: looked up before they are created
  Single,      \* ratings: refused when the ticket has one
  Runs,        \* runs alive at the same time
  Requests,    \* admin requests, each handled once
  MaxFaults    \* bound on crashes and failed statements

Types == DOMAIN Pages

ASSUME PagesAssumption ==
  /\ Pages \in Seq(Seq(Seq(Records)))
  /\ \A i \in Types : Pages[i] # <<>>
ASSUME ParentAssumption == Parent \in [Records -> Records \cup {NoParent}]
ASSUME KindsAssumption == Invalid \cup Found \cup Single \subseteq Records
ASSUME FaultsAssumption == MaxFaults \in Nat

VARIABLES
  job,         \* the row of escalated_import_jobs
  maps,        \* records in escalated_import_source_maps
  stored,      \* per record, the rows it was imported as
  run,         \* per run, where it is, and what it holds in memory
  request,     \* per request, where its handler is
  refused,     \* history: records some run gave up on
  overlapped,  \* history: two runs were at work at once
  crashed,     \* history: a run or a handler died
  faults

vars == <<job, maps, stored, run, request, refused, overlapped, crashed, faults>>
hist == <<overlapped, crashed, faults>>
data == <<maps, stored, refused>>

Transitions == [mapping   |-> {"importing", "failed"},
                importing |-> {"paused", "completed", "failed"},
                paused    |-> {"importing", "failed"},
                completed |-> {},
                failed    |-> {"mapping"}]
Statuses == DOMAIN Transitions
Stopped  == {"paused", "failed"}

NoJob  == [status |-> "absent"]
Idle   == [pc |-> "idle"]
Queued == [pc |-> "load"]
Ready  == [pc |-> "ready"]
Done   == [pc |-> "done"]

-----------------------------------------------------------------------------
(* A run. *)

Working(w) == run[w].pc \notin {"idle", "load"}

\* run: a completed job is left alone; transitionTo throws where it may not go.
Load(w) ==
  /\ run[w] = Queued
  /\ \/ job.status = "completed" /\ run' = [run EXCEPT ![w] = Idle]
     \/ /\ job.status = "importing" \/ "importing" \in Transitions[job.status]
        /\ run' = [run EXCEPT ![w] = [pc |-> "begin"]]
     \/ /\ job.status \notin {"completed", "importing"}
        /\ "importing" \notin Transitions[job.status]
        /\ run' = [run EXCEPT ![w] = [pc |-> "fail"]]
  /\ overlapped' = (overlapped \/ \E v \in Runs \ {w} : Working(v))
  /\ UNCHANGED <<job, data, request, crashed, faults>>

\* runJob writes the status it decided on from what it had read.
Begin(w) ==
  /\ run[w].pc = "begin"
  /\ job' = [job EXCEPT !.status = "importing"]
  /\ run' = [run EXCEPT ![w] = [pc |-> "check", type |-> 1]]
  /\ UNCHANGED <<data, request, hist>>

\* stopped, before each entity type and before the end.
Check(w) ==
  /\ run[w].pc = "check"
  /\ run' = [run EXCEPT ![w] =
       IF job.status \in Stopped THEN Idle
       ELSE [pc |-> IF run[w].type \in Types THEN "open" ELSE "complete", type |-> run[w].type]]
  /\ UNCHANGED <<job, data, request, hist>>

\* importEntityType starts from the saved cursor and log, whoever saved them.
Open(w) ==
  /\ run[w].pc = "open"
  /\ run' = [run EXCEPT ![w] =
       [pc |-> "extract", type |-> run[w].type, page |-> job.cursor[run[w].type] + 1,
        at |-> 1, cursor |-> job.cursor, errors |-> job.errors]]
  /\ UNCHANGED <<job, data, request, hist>>

Page(w) == Pages[run[w].type][run[w].page]
Record(w) == Page(w)[run[w].at]
IsLast(w) == run[w].page = Len(Pages[run[w].type])

\* The records of one page; a null cursor comes with the last one.
Extract(w) ==
  /\ run[w].pc = "extract"
  /\ run' = [run EXCEPT ![w] =
       [@ EXCEPT !.pc = IF Page(w) = <<>> THEN "save" ELSE "resolve", !.at = 1]]
  /\ UNCHANGED <<job, data, request, hist>>

\* The run that goes on to its next record, having logged the ones in errs.
GoOn(w, errs) ==
  run' = [run EXCEPT ![w] =
    [@ EXCEPT !.pc = IF run[w].at = Len(Page(w)) THEN "save" ELSE "resolve",
              !.at = run[w].at + 1, !.errors = run[w].errors \cup errs]]

\* Mutant: a record is imported whether or not it is mapped.
ResolveNothing(w) ==
  /\ run[w].pc = "resolve"
  /\ run' = [run EXCEPT ![w] = [@ EXCEPT !.pc = "persist"]]
  /\ UNCHANGED <<job, data, request, hist>>

\* A record that is mapped is skipped.
Resolve(w) ==
  /\ run[w].pc = "resolve"
  /\ IF Record(w) \in maps THEN GoOn(w, {}) ELSE run' = [run EXCEPT ![w] = [@ EXCEPT !.pc = "persist"]]
  /\ UNCHANGED <<job, data, request, hist>>

Acceptable(r) ==
  /\ r \notin Invalid
  /\ Parent[r] = NoParent \/ Parent[r] \in maps
  /\ r \in Single => stored[r] = 0

Give(r) ==
  stored' = [stored EXCEPT ![r] = IF r \in Found /\ stored[r] > 0 THEN stored[r] ELSE stored[r] + 1]

\* Mutant: what cannot be imported is skipped and not logged.
RefuseSilently(w, r) == GoOn(w, {}) /\ refused' = refused \cup {r}

Refuse(w, r) == GoOn(w, {r}) /\ refused' = refused \cup {r}

\* persist: the record's own row, and what hangs on it; or an exception, before
\* the row is written or after it.
Persist(w) ==
  /\ run[w].pc = "persist"
  /\ LET r == Record(w) IN
     \/ /\ Acceptable(r) /\ Give(r)
        /\ run' = [run EXCEPT ![w] = [@ EXCEPT !.pc = "map"]]
        /\ UNCHANGED <<refused, faults>>
     \/ ~Acceptable(r) /\ Refuse(w, r) /\ UNCHANGED <<stored, faults>>
     \/ /\ faults < MaxFaults /\ faults' = faults + 1
        /\ Refuse(w, r)
        /\ \/ stored' = stored
           \/ Acceptable(r) /\ Give(r)
  /\ UNCHANGED <<job, maps, request, overlapped, crashed>>

\* The source map, unique by record: a second one fails, and counts as a failure.
MapRecord(w) ==
  /\ run[w].pc = "map"
  /\ LET r == Record(w) IN
     \/ /\ r \notin maps /\ maps' = maps \cup {r}
        /\ GoOn(w, {})
        /\ UNCHANGED <<refused, faults>>
     \/ r \in maps /\ Refuse(w, r) /\ UNCHANGED <<maps, faults>>
     \/ /\ faults < MaxFaults /\ faults' = faults + 1
        /\ Refuse(w, r) /\ UNCHANGED maps
  /\ UNCHANGED <<job, stored, request, overlapped, crashed>>

\* Mutant: the cursor moves past the last page.
AdvancedPast(w) == [run[w].cursor EXCEPT ![run[w].type] = run[w].page]

\* An exhausted extract keeps the last cursor: a resumed run reads one page again.
Advanced(w) == IF IsLast(w) THEN run[w].cursor
               ELSE [run[w].cursor EXCEPT ![run[w].type] = run[w].page]

\* Mutant: the status is saved with the progress.
SaveOverStatus(w) ==
  /\ run[w].pc = "save"
  /\ job' = [job EXCEPT !.status = "importing", !.cursor = Advanced(w), !.errors = run[w].errors]
  /\ run' = [run EXCEPT ![w] = [@ EXCEPT !.pc = "batch", !.cursor = Advanced(w)]]
  /\ UNCHANGED <<data, request, hist>>

\* Progress and errors, each column whole, from the run's copy of them.
Save(w) ==
  /\ run[w].pc = "save"
  /\ job' = [job EXCEPT !.cursor = Advanced(w), !.errors = run[w].errors]
  /\ run' = [run EXCEPT ![w] = [@ EXCEPT !.pc = "batch", !.cursor = Advanced(w)]]
  /\ UNCHANGED <<data, request, hist>>

\* stopped, after each page.
CheckBatch(w) ==
  /\ run[w].pc = "batch"
  /\ run' = [run EXCEPT ![w] =
       IF job.status \in Stopped THEN Idle
       ELSE IF IsLast(w) THEN [pc |-> "check", type |-> run[w].type + 1]
       ELSE [@ EXCEPT !.pc = "extract", !.page = run[w].page + 1, !.at = 1]]
  /\ UNCHANGED <<job, data, request, hist>>

\* The end, whatever the status has become since the check.
Complete(w) ==
  /\ run[w].pc = "complete"
  /\ job' = [job EXCEPT !.status = "completed", !.credentials = FALSE]
  /\ run' = [run EXCEPT ![w] = Idle]
  /\ UNCHANGED <<data, request, hist>>

\* An exception outside the handling of one record fails the job.
Throw(w) ==
  /\ faults < MaxFaults /\ faults' = faults + 1
  /\ Working(w) /\ run[w].pc \notin {"persist", "map", "fail"}
  /\ run' = [run EXCEPT ![w] = [pc |-> "fail"]]
  /\ UNCHANGED <<job, data, request, overlapped, crashed>>

Fail(w) ==
  /\ run[w].pc = "fail"
  /\ job' = [job EXCEPT !.status = "failed"]
  /\ run' = [run EXCEPT ![w] = Idle]
  /\ UNCHANGED <<data, request, hist>>

\* The process dies; a host's queue hands the job out again, a run in the
\* process is gone.
Crash(w) ==
  /\ faults < MaxFaults /\ faults' = faults + 1 /\ crashed' = TRUE
  /\ run[w] # Idle
  /\ \E next \in {Idle, Queued} : run' = [run EXCEPT ![w] = next]
  /\ UNCHANGED <<job, data, request, overlapped>>

-----------------------------------------------------------------------------
(* The admin. *)

\* start: the job, saved as mapping once its credentials are sealed on it.
Start(q) ==
  /\ request[q] = Ready /\ job = NoJob
  /\ job' = [status |-> "mapping", credentials |-> TRUE,
             cursor |-> [i \in Types |-> 0], errors |-> {}]
  /\ request' = [request EXCEPT ![q] = [pc |-> "dispatch"]]
  /\ UNCHANGED <<data, run, hist>>

Writing(status, keep, dispatch) ==
  [pc |-> "write", status |-> status, keep |-> keep, dispatch |-> dispatch]

Ask(q, writing) ==
  /\ request[q] = Ready /\ job # NoJob
  /\ request' = [request EXCEPT ![q] = writing]
  /\ UNCHANGED <<job, data, run, hist>>

Pause(q) ==
  /\ job # NoJob /\ "paused" \in Transitions[job.status]
  /\ Ask(q, Writing("paused", TRUE, FALSE))

\* Mutant: the job is marked to go on, and no run is dispatched.
ResumeUnheard(q) ==
  /\ job # NoJob /\ job.status \in Stopped /\ job.credentials
  /\ Ask(q, Writing(IF job.status = "failed" THEN "mapping" ELSE job.status, TRUE, FALSE))

\* A failed import goes back through mapping, a paused one stays paused for its run.
Resume(q) ==
  /\ job # NoJob /\ job.status \in Stopped /\ job.credentials
  /\ Ask(q, Writing(IF job.status = "failed" THEN "mapping" ELSE job.status, TRUE, TRUE))

Cancel(q) ==
  /\ job # NoJob /\ job.status # "completed"
  /\ Ask(q, Writing("failed", FALSE, FALSE))

\* The update, of the row as it has become.
Write(q) ==
  /\ request[q].pc = "write"
  /\ job' = [job EXCEPT !.status = request[q].status, !.credentials = job.credentials /\ request[q].keep]
  /\ request' = [request EXCEPT ![q] = IF request[q].dispatch THEN [pc |-> "dispatch"] ELSE Done]
  /\ UNCHANGED <<data, run, hist>>

\* dispatch: a run in this process, or one the host's queue starts.
Dispatch(q) ==
  /\ request[q].pc = "dispatch"
  /\ \E w \in Runs : run[w] = Idle /\ run' = [run EXCEPT ![w] = Queued]
  /\ request' = [request EXCEPT ![q] = Done]
  /\ UNCHANGED <<job, data, hist>>

\* A handler dies between its statements.
Drop(q) ==
  /\ faults < MaxFaults /\ faults' = faults + 1 /\ crashed' = TRUE
  /\ request[q].pc \in {"write", "dispatch"}
  /\ request' = [request EXCEPT ![q] = Done]
  /\ UNCHANGED <<job, data, run, overlapped>>

-----------------------------------------------------------------------------
Init ==
  /\ job = NoJob
  /\ maps = {} /\ stored = [r \in Records |-> 0]
  /\ run = [w \in Runs |-> Idle]
  /\ request = [q \in Requests |-> Ready]
  /\ refused = {} /\ overlapped = FALSE /\ crashed = FALSE /\ faults = 0

RunStep(w) ==
  \/ Load(w) \/ Begin(w) \/ Check(w) \/ Open(w) \/ Extract(w) \/ Resolve(w) \/ Persist(w)
  \/ MapRecord(w) \/ Save(w) \/ CheckBatch(w) \/ Complete(w) \/ Fail(w)
Handle(q) == Write(q) \/ Dispatch(q)

Next ==
  \/ \E w \in Runs : RunStep(w) \/ Throw(w) \/ Crash(w)
  \/ \E q \in Requests : \/ Start(q) \/ Pause(q) \/ Resume(q) \/ Cancel(q)
                         \/ Handle(q) \/ Drop(q)

Spec == Init /\ [][Next]_vars

\* Statements return, and so does the source.
FairSpec == /\ Spec
            /\ \A w \in Runs : WF_vars(RunStep(w))
            /\ \A q \in Requests : WF_vars(Handle(q))

-----------------------------------------------------------------------------
Job == [status : Statuses, credentials : BOOLEAN, cursor : [Types -> Nat],
        errors : SUBSET Records]

Outside == [pc : {"idle", "load", "begin", "fail"}]
Between == [pc : {"check", "open", "complete"}, type : 1 .. Len(Pages) + 1]
Within  == [pc : {"extract", "resolve", "persist", "map", "save", "batch"},
            type : Types, page : Nat, at : Nat, cursor : [Types -> Nat], errors : SUBSET Records]

Handler == [pc : {"ready", "dispatch", "done"}]
           \cup [pc : {"write"}, status : {"mapping", "paused", "failed"},
                 keep : BOOLEAN, dispatch : BOOLEAN]

\* Cursors stop short of the last page: one is left to read.
Short(cursor) == \A i \in Types : cursor[i] < Len(Pages[i])

\* A run's place in the source: a type it has, a page of it, a record of that.
Place(s) ==
  /\ s \in Between => (s.pc = "open" => s.type \in Types)
                      /\ (s.pc = "complete" => s.type \notin Types)
  /\ s \in Within => /\ s.page \in DOMAIN Pages[s.type] /\ Short(s.cursor)
                     /\ s.pc \in {"resolve", "persist", "map"} =>
                          s.at \in DOMAIN Pages[s.type][s.page]

\* The tables and handlers are well formed, and every run is at a page and a
\* record the source has, wherever the cursors it started from came from.
TypeOK ==
  /\ job \in Job \cup {NoJob}
  /\ job # NoJob => Short(job.cursor)
  /\ maps \subseteq Records /\ refused \subseteq Records
  /\ stored \in [Records -> Nat]
  /\ run \in [Runs -> Outside \cup Between \cup Within]
  /\ \A w \in Runs : Place(run[w])
  /\ request \in [Requests -> Handler]
  /\ overlapped \in BOOLEAN /\ crashed \in BOOLEAN /\ faults \in 0 .. MaxFaults

\* As long as runs of the job do not overlap, each crash or failed statement costs at
\* most one record imported twice, however often the job is paused, failed and
\* resumed ("skips what is already mapped").
Surplus == UNION {{r} \X (2 .. stored[r]) : r \in Records}

ImportedOncePerFault == ~overlapped => Cardinality(Surplus) <= faults

\* When the import says it is completed, every record of the source is mapped
\* or was refused, also when runs overlap and save older cursors over newer ones;
\* and what was refused stands in the error log, unless runs overlapped.
CompletedLostNothing ==
  (job # NoJob /\ job.status = "completed") =>
    \A i \in Types : \A p \in DOMAIN Pages[i] : \A k \in DOMAIN Pages[i][p] :
      LET r == Pages[i][p][k]
      IN r \in maps \/ (r \in refused /\ (overlapped \/ r \in job.errors))

\* Every record of the source is imported, and once (ImportJobService.run).
RecordsImported == ImportedOncePerFault /\ CompletedLostNothing

\* A pause or a cancellation the admin stored is undone only by a request, by a run
\* that had read the job before it, or by one past its last check: in between, "the
\* status is the admin's to change mid-run" (importEntityType).
StopUndoneOnlyInHand ==
  [][(job # NoJob /\ job.status \in Stopped /\ job'.status \notin Stopped) =>
       \/ \E w \in Runs : run[w].pc \in {"begin", "complete"} /\ run'[w] # run[w]
       \/ \E q \in Requests : request[q].pc = "write" /\ request'[q] # request[q]]_vars

\* An import that is under way settles: completed, paused or failed, after any
\* number of pauses, failures and resumes.  Only the death of a run or of a request
\* can leave it importing with nobody at work.
UnderWay == job # NoJob /\ job.status \in {"mapping", "importing"} /\ ~crashed
EveryImportSettles == UnderWay ~> ~UnderWay

-----------------------------------------------------------------------------
(* What the documentation says, and the code does not do. *)

\* CHANGELOG.md:628 "skips what is already mapped (so a paused, failed or
\* interrupted run imports nothing twice)".
NothingTwice == \A r \in Records : stored[r] <= 1
================================================================================
