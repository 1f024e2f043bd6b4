----------------------------- MODULE ImportJobProofs -----------------------------
(***************************************************************************)
(* Proofs about ImportJob for any source, any number of runs and admin     *)
(* requests, and any number of crashes and failed statements.              *)
(***************************************************************************)
EXTENDS ImportJob, FiniteSetTheorems, TLAPS

State == Outside \cup Between \cup Within

\* Nothing runs before there is a job; and until runs overlap, one is at work.
Nobody == job = NoJob => /\ \A w \in Runs : run[w] = Idle
                         /\ \A q \in Requests : request[q] \in {Ready, Done}
Serial == ~overlapped => \A v, w \in Runs : Working(v) /\ Working(w) => v = w

Base == TypeOK /\ Nobody /\ Serial

\* A record the import has dealt with, as a log of errs tells it.
Accounted(r, errs) == r \in maps \/ (r \in refused /\ (overlapped \/ r \in errs))
Covers(i, p, errs) == \A k \in DOMAIN Pages[i][p] : Accounted(Pages[i][p][k], errs)
Finished(i, errs) == \A p \in DOMAIN Pages[i] : Covers(i, p, errs)
\* What the cursors leave behind them is dealt with.
Behind(cursor, errs) ==
  \A i \in Types : \A p \in DOMAIN Pages[i] : p <= cursor[i] => Covers(i, p, errs)

JobCovered ==
  job # NoJob => /\ Behind(job.cursor, job.errors)
                 /\ job.status = "completed" => \A i \in Types : Finished(i, job.errors)

RunCovered(s) ==
  /\ s \in Between => \A i \in Types : i < s.type => Finished(i, job.errors)
  /\ s \in Within =>
       /\ \A i \in Types : i < s.type => Finished(i, s.errors)
       /\ Behind(s.cursor, s.errors)
       /\ \A p \in DOMAIN Pages[s.type] : p < s.page => Covers(s.type, p, s.errors)
       /\ s.pc \in {"resolve", "persist", "map"} =>
            \A k \in DOMAIN Pages[s.type][s.page] :
              k < s.at => Accounted(Pages[s.type][s.page][k], s.errors)
       /\ s.pc \in {"save", "batch"} => Covers(s.type, s.page, s.errors)
       /\ ~overlapped => job.errors \subseteq s.errors
       /\ s.pc = "batch" /\ ~overlapped => s.errors = job.errors

Coverage == JobCovered /\ \A w \in Runs : RunCovered(run[w])

\* What a run is about to import or to map has no source map, while it is alone.
Unmapped ==
  ~overlapped => \A w \in Runs : run[w].pc \in {"persist", "map"} => Record(w) \notin maps

\* The copies too many, and the records that may yet get one: imported, not mapped,
\* and in no run's hands.
Owed(r, k) ==
  \/ k \in 2 .. stored[r]
  \/ /\ k = 1 /\ stored[r] > 0 /\ r \notin maps
     /\ \A w \in Runs : run[w].pc = "map" => Record(w) # r
Owing == {p \in Records \X Nat : Owed(p[1], p[2])}
Debts == ~overlapped => IsFiniteSet(Owing) /\ Cardinality(Owing) <= faults

IInv == Base /\ Coverage /\ Unmapped /\ Debts

Grows == maps \subseteq maps' /\ refused \subseteq refused' /\ (overlapped => overlapped')

-----------------------------------------------------------------------------
(* The shapes of rows, runs and handlers *)

LEMMA StatusNames == Statuses = {"mapping", "importing", "paused", "completed", "failed"}
BY DEF Statuses, Transitions

LEMMA NoJobApart == NoJob \notin Job
<1>1. \A j \in Job : j.status \in Statuses
  BY DEF Job
<1>2. NoJob.status = "absent"
  BY DEF NoJob
<1> QED  BY <1>1, <1>2, StatusNames

LEMMA JobFields ==
  ASSUME TypeOK, job # NoJob
  PROVE  /\ job \in Job /\ job.status \in Statuses /\ job.credentials \in BOOLEAN
         /\ job.cursor \in [Types -> Nat] /\ job.errors \in SUBSET Records
         /\ Short(job.cursor)
BY DEF TypeOK, Job

LEMMA PagesTyped ==
  /\ \A i \in Types : Pages[i] \in Seq(Seq(Records)) /\ Len(Pages[i]) \in Nat
                      /\ DOMAIN Pages[i] = 1 .. Len(Pages[i]) /\ Len(Pages[i]) > 0
  /\ \A i \in Types : \A p \in DOMAIN Pages[i] :
       /\ Pages[i][p] \in Seq(Records) /\ Len(Pages[i][p]) \in Nat
       /\ DOMAIN Pages[i][p] = 1 .. Len(Pages[i][p])
  /\ \A i \in Types : \A p \in DOMAIN Pages[i] : \A k \in DOMAIN Pages[i][p] :
       Pages[i][p][k] \in Records
  /\ Len(Pages) \in Nat /\ Types = 1 .. Len(Pages)
<1>1. Pages \in Seq(Seq(Seq(Records))) /\ \A i \in Types : Pages[i] # <<>>
  BY PagesAssumption
<1>2. Len(Pages) \in Nat /\ Types = 1 .. Len(Pages)
  BY <1>1 DEF Types
<1>3. \A i \in Types : /\ Pages[i] \in Seq(Seq(Records)) /\ Len(Pages[i]) \in Nat
                       /\ DOMAIN Pages[i] = 1 .. Len(Pages[i])
  BY <1>1, <1>2
<1>4. \A i \in Types : Len(Pages[i]) > 0
  BY <1>1, <1>3
<1>5. \A i \in Types : \A p \in DOMAIN Pages[i] : Pages[i][p] \in Seq(Records)
  BY <1>3
<1> QED  BY <1>2, <1>3, <1>4, <1>5

Stages == {"extract", "resolve", "persist", "map", "save", "batch"}

LEMMA RunFields ==
  ASSUME NEW s \in State
  PROVE  /\ s.pc \in {"idle", "load", "begin", "fail"} <=> s \in Outside
         /\ s.pc \in {"check", "open", "complete"} <=> s \in Between
         /\ s.pc \in Stages <=> s \in Within
         /\ s \in Between => s.type \in 1 .. Len(Pages) + 1
         /\ s \in Within => /\ s.type \in Types /\ s.page \in Nat /\ s.at \in Nat
                            /\ s.cursor \in [Types -> Nat] /\ s.errors \in SUBSET Records
         /\ (s = Idle <=> s.pc = "idle") /\ (s = Queued <=> s.pc = "load")
BY DEF State, Outside, Between, Within, Stages, Idle, Queued

LEMMA Spot ==
  ASSUME NEW pc \in Stages, NEW type \in Types, NEW page \in Nat, NEW at \in Nat,
         NEW cursor \in [Types -> Nat], NEW errors \in SUBSET Records
  PROVE  LET s == [pc |-> pc, type |-> type, page |-> page, at |-> at,
                   cursor |-> cursor, errors |-> errors] IN
         /\ s \in Within /\ s \in State /\ s.pc = pc /\ s.type = type /\ s.page = page
         /\ s.at = at /\ s.cursor = cursor /\ s.errors = errors
BY DEF Within, State, Stages

\* The records a run's updates give.
Like(s, e, pc, page, at, cursor, errors) ==
  /\ e \in Within /\ e \in State /\ e.pc = pc /\ e.type = s.type /\ e.page = page /\ e.at = at
  /\ e.cursor = cursor /\ e.errors = errors

LEMMA UpdatedPc ==
  ASSUME NEW s \in Within, NEW pc \in Stages
  PROVE  Like(s, [s EXCEPT !.pc = pc], pc, s.page, s.at, s.cursor, s.errors)
BY DEF Like, Within, State, Stages

LEMMA UpdatedAt ==
  ASSUME NEW s \in Within, NEW pc \in Stages, NEW at \in Nat
  PROVE  Like(s, [s EXCEPT !.pc = pc, !.at = at], pc, s.page, at, s.cursor, s.errors)
BY DEF Like, Within, State, Stages

LEMMA UpdatedErrors ==
  ASSUME NEW s \in Within, NEW pc \in Stages, NEW at \in Nat, NEW errors \in SUBSET Records
  PROVE  Like(s, [s EXCEPT !.pc = pc, !.at = at, !.errors = errors], pc, s.page, at, s.cursor, errors)
BY DEF Like, Within, State, Stages

LEMMA UpdatedCursor ==
  ASSUME NEW s \in Within, NEW pc \in Stages, NEW cursor \in [Types -> Nat]
  PROVE  Like(s, [s EXCEPT !.pc = pc, !.cursor = cursor], pc, s.page, s.at, cursor, s.errors)
BY DEF Like, Within, State, Stages

LEMMA UpdatedPage ==
  ASSUME NEW s \in Within, NEW pc \in Stages, NEW page \in Nat, NEW at \in Nat
  PROVE  Like(s, [s EXCEPT !.pc = pc, !.page = page, !.at = at], pc, page, at, s.cursor, s.errors)
BY DEF Like, Within, State, Stages

\* Where a run is, in the source.
LEMMA AtPlace ==
  ASSUME TypeOK, NEW w \in Runs
  PROVE  /\ run[w] \in State /\ Place(run[w])
         /\ run[w].pc \in Stages =>
              /\ run[w] \in Within
              /\ Page(w) = Pages[run[w].type][run[w].page]
              /\ run[w].page \in DOMAIN Pages[run[w].type] /\ Short(run[w].cursor)
              /\ run[w].pc \in {"resolve", "persist", "map"} =>
                   run[w].at \in DOMAIN Page(w) /\ Record(w) \in Records
<1>1. run[w] \in State /\ Place(run[w])
  BY DEF TypeOK, State
<1>2. ASSUME run[w].pc \in Stages
      PROVE  /\ run[w] \in Within /\ run[w].type \in Types
             /\ run[w].page \in DOMAIN Pages[run[w].type] /\ Short(run[w].cursor)
             /\ run[w].pc \in {"resolve", "persist", "map"} =>
                  run[w].at \in DOMAIN Pages[run[w].type][run[w].page]
  BY <1>1, <1>2, RunFields DEF Place
<1> QED  BY <1>1, <1>2, PagesTyped DEF Page, Record

-----------------------------------------------------------------------------
(* One step of a run: each part of the invariant *)

LEMMA Overwritten ==
  ASSUME TypeOK, NEW w \in Runs, NEW s \in State, run' = [run EXCEPT ![w] = s]
  PROVE  /\ run' \in [Runs -> State] /\ run'[w] = s
         /\ \A v \in Runs : v # w => run'[v] = run[v]
BY DEF TypeOK, State

LEMMA BaseRun ==
  ASSUME Base, NEW w \in Runs, NEW s \in State, Place(s), run' = [run EXCEPT ![w] = s],
         run[w] # Idle, request' = request, job' \in Job, Short(job'.cursor),
         maps' \subseteq Records, refused' \subseteq Records, stored' \in [Records -> Nat],
         overlapped' \in BOOLEAN, crashed' \in BOOLEAN, faults' \in 0 .. MaxFaults,
         overlapped => overlapped',
         s.pc \notin {"idle", "load"} =>
           overlapped' \/ Working(w) \/ \A v \in Runs \ {w} : ~Working(v)
  PROVE  Base'
<1> USE DEF Base
<1>1. /\ run' \in [Runs -> State] /\ run'[w] = s
      /\ \A v \in Runs : v # w => run'[v] = run[v]
  BY Overwritten
<1>2. TypeOK'
  BY <1>1 DEF TypeOK, State, Place, Short
<1>3. Nobody'
  BY NoJobApart DEF Nobody
<1>4. Serial'
  <2> SUFFICES ASSUME ~overlapped', NEW v \in Runs, NEW u \in Runs, Working(v)', Working(u)'
               PROVE  v = u
    BY DEF Serial
  <2>1. \A x \in Runs : x # w => (Working(x)' <=> Working(x))
    BY <1>1 DEF Working
  <2>2. Working(w)' => s.pc \notin {"idle", "load"}
    BY <1>1 DEF Working
  <2> QED  BY <2>1, <2>2 DEF Serial
<1> QED  BY <1>2, <1>3, <1>4

LEMMA Stays ==
  ASSUME Grows, NEW e, NEW f, overlapped' \/ e \subseteq f
  PROVE  /\ \A r : Accounted(r, e) => Accounted(r, f)'
         /\ \A i, p : Covers(i, p, e) => Covers(i, p, f)'
         /\ \A i : Finished(i, e) => Finished(i, f)'
         /\ \A c : Behind(c, e) => Behind(c, f)'
<1>1. \A r : Accounted(r, e) => Accounted(r, f)'
  BY DEF Grows, Accounted
<1>2. \A i, p : Covers(i, p, e) => Covers(i, p, f)'
  BY <1>1 DEF Covers
<1> QED  BY <1>1, <1>2 DEF Finished, Behind

LEMMA JobStays ==
  ASSUME TypeOK, JobCovered, Grows,
         \/ job' = job
         \/ /\ job # NoJob /\ job'.cursor = job.cursor /\ job'.errors = job.errors
            /\ job'.status = job.status \/ job'.status # "completed"
  PROVE  JobCovered'
<1>1. CASE job = NoJob /\ job' = job
  BY <1>1 DEF JobCovered
<1>2. CASE job # NoJob
  <2>1. PICK e, c : e = job.errors /\ c = job.cursor
    OBVIOUS
  <2>2. /\ \A i : Finished(i, e) => Finished(i, e)'
        /\ Behind(c, e) => Behind(c, e)'
    BY Stays
  <2>3. job'.cursor = c /\ job'.errors = e
    BY <1>2, <2>1
  <2>4. Behind(c, e)
    BY <1>2, <2>1 DEF JobCovered
  <2>5. Behind(job.cursor, job.errors)'
    BY <2>2, <2>3, <2>4
  <2>6. (job.status = "completed" => \A i \in Types : Finished(i, job.errors))'
    BY <1>2, <2>1, <2>2, <2>3 DEF JobCovered
  <2> QED  BY <2>5, <2>6 DEF JobCovered
<1> QED  BY <1>1, <1>2

LEMMA RunStays ==
  ASSUME Grows, NEW s \in State, RunCovered(s),
         overlapped' \/ job'.errors = job.errors
  PROVE  RunCovered(s)'
<1>1. ASSUME s \in Between
      PROVE  \A i \in Types : i < s.type => Finished(i, job.errors)'
  <2>1. PICK e, f : e = job.errors /\ f = job'.errors
    OBVIOUS
  <2>2. \A i : Finished(i, e) => Finished(i, f)'
    BY <2>1, Stays
  <2> QED  BY <1>1, <2>1, <2>2 DEF RunCovered
<1>2. ASSUME s \in Within
      PROVE  /\ \A i \in Types : i < s.type => Finished(i, s.errors)'
             /\ Behind(s.cursor, s.errors)'
             /\ \A p \in DOMAIN Pages[s.type] : p < s.page => Covers(s.type, p, s.errors)'
             /\ s.pc \in {"resolve", "persist", "map"} =>
                  \A k \in DOMAIN Pages[s.type][s.page] :
                    k < s.at => Accounted(Pages[s.type][s.page][k], s.errors)'
             /\ s.pc \in {"save", "batch"} => Covers(s.type, s.page, s.errors)'
  BY <1>2, Stays DEF RunCovered
<1>3. ASSUME s \in Within
      PROVE  /\ ~overlapped' => job'.errors \subseteq s.errors
             /\ s.pc = "batch" /\ ~overlapped' => s.errors = job'.errors
  BY <1>3 DEF RunCovered, Grows
<1> QED  BY <1>1, <1>2, <1>3 DEF RunCovered

LEMMA CoverRun ==
  ASSUME Base, Coverage, NEW w \in Runs, NEW s \in State, run' = [run EXCEPT ![w] = s],
         Grows, job'.errors = job.errors \/ Working(w), JobCovered', RunCovered(s)'
  PROVE  Coverage'
<1>1. /\ run'[w] = s
      /\ \A v \in Runs : v # w => run'[v] = run[v]
  BY Overwritten DEF Base
<1>2. ASSUME NEW v \in Runs, v # w
      PROVE  RunCovered(run[v])'
  <2>1. PICK t \in State : t = run[v]
    BY DEF Base, TypeOK, State
  <2>2. CASE Working(v)
    <3>1. overlapped' \/ job'.errors = job.errors
      BY <1>2, <2>2 DEF Base, Serial, Grows
    <3> QED  BY <1>1, <1>2, <2>1, <3>1, RunStays DEF Coverage
  <2>3. CASE ~Working(v)
    <3>1. t \notin Between /\ t \notin Within
      BY <2>1, <2>3, RunFields DEF Working, Stages
    <3> QED  BY <1>1, <1>2, <2>1, <3>1 DEF RunCovered
  <2> QED  BY <2>2, <2>3
<1> QED  BY <1>1, <1>2 DEF Coverage

LEMMA UnmappedRun ==
  ASSUME Base, Unmapped, NEW w \in Runs, NEW s \in State, run' = [run EXCEPT ![w] = s], Grows,
         maps' = maps \/ Working(w),
         s.pc \in {"persist", "map"} =>
           overlapped' \/ Pages[s.type][s.page][s.at] \notin maps'
  PROVE  Unmapped'
<1>1. /\ run'[w] = s
      /\ \A v \in Runs : v # w => run'[v] = run[v]
  BY Overwritten DEF Base
<1> SUFFICES ASSUME ~overlapped', NEW v \in Runs, run'[v].pc \in {"persist", "map"}
             PROVE  Record(v)' \notin maps'
  BY DEF Unmapped
<1>2. ~overlapped
  BY DEF Grows
<1>3. CASE v = w
  BY <1>1, <1>3 DEF Record, Page
<1>4. CASE v # w
  <2>1. Record(v)' = Record(v)
    BY <1>1, <1>4 DEF Record, Page
  <2>2. Record(v) \notin maps
    BY <1>1, <1>2, <1>4 DEF Unmapped
  <2>3. Working(v)
    BY <1>1, <1>4 DEF Working
  <2>4. maps' = maps
    BY <1>2, <1>4, <2>3 DEF Base, Serial
  <2> QED  BY <2>1, <2>2, <2>4
<1> QED  BY <1>3, <1>4

\* What is owed after a step of w that imports nothing.
LEMMA OwingStays ==
  ASSUME Base, NEW w \in Runs, NEW s \in State, run' = [run EXCEPT ![w] = s],
         stored' = stored, maps \subseteq maps'
  PROVE  /\ Owing' \subseteq Owing \cup {<<Record(w), 1>>}
         /\ \/ run[w].pc # "map"
            \/ Record(w) \in maps'
            \/ (s.pc = "map" /\ Record(w)' = Record(w))
            => Owing' \subseteq Owing
<1>1. /\ run'[w] = s
      /\ \A v \in Runs : v # w => run'[v] = run[v]
  BY Overwritten DEF Base
<1>2. \A v \in Runs : v # w => Record(v)' = Record(v)
  BY <1>1 DEF Record, Page
<1>3. ASSUME NEW r \in Records, NEW k \in Nat, Owed(r, k)',
             run[w].pc = "map" => Record(w) # r
      PROVE  Owed(r, k)
  BY <1>1, <1>2, <1>3 DEF Owed
<1>4. ASSUME NEW r \in Records, NEW k \in Nat, Owed(r, k)', ~Owed(r, k)
      PROVE  run[w].pc = "map" /\ Record(w) = r /\ k = 1 /\ r \notin maps'
  BY <1>1, <1>2, <1>3, <1>4 DEF Owed
<1>5. ASSUME NEW r \in Records, NEW k \in Nat, Owed(r, k)', ~Owed(r, k)
      PROVE  ~(s.pc = "map" /\ Record(w)' = Record(w))
  <2>1. run'[w].pc = "map" => Record(w)' # r
    BY <1>4, <1>5 DEF Owed
  <2> QED  BY <1>1, <1>4, <1>5, <2>1
<1>6. ASSUME NEW p \in Owing', p \notin Owing
      PROVE  /\ run[w].pc = "map" /\ p = <<Record(w), 1>> /\ Record(w) \notin maps'
             /\ ~(s.pc = "map" /\ Record(w)' = Record(w))
  <2>1. PICK r \in Records, k \in Nat : p = <<r, k>> /\ Owed(r, k)'
    BY <1>6 DEF Owing
  <2>2. ~Owed(r, k)
    BY <1>6, <2>1 DEF Owing
  <2> QED  BY <1>4, <1>5, <2>1, <2>2
<1> QED  BY <1>6

LEMMA DebtsFewer ==
  ASSUME Base, Debts, Grows, faults' \in Nat, faults <= faults', Owing' \subseteq Owing
  PROVE  Debts'
<1> SUFFICES ASSUME ~overlapped' PROVE IsFiniteSet(Owing)' /\ (Cardinality(Owing) <= faults)'
  BY DEF Debts
<1>1. PICK S, T : S = Owing /\ T = Owing'
  OBVIOUS
<1>2. IsFiniteSet(S) /\ Cardinality(S) <= faults
  BY <1>1 DEF Debts, Grows
<1>3. IsFiniteSet(T) /\ Cardinality(T) <= Cardinality(S)
  BY <1>1, <1>2, FS_Subset
<1>4. Cardinality(S) \in Nat /\ Cardinality(T) \in Nat /\ faults \in Nat
  BY <1>2, <1>3, FS_CardinalityType DEF Base, TypeOK
<1>5. Cardinality(T) <= faults'
  BY <1>2, <1>3, <1>4
<1> QED  BY <1>1, <1>3, <1>5

LEMMA DebtsMore ==
  ASSUME Base, Debts, Grows, faults' = faults + 1, NEW x, Owing' \subseteq Owing \cup {x}
  PROVE  Debts'
<1> SUFFICES ASSUME ~overlapped' PROVE IsFiniteSet(Owing)' /\ (Cardinality(Owing) <= faults)'
  BY DEF Debts
<1>1. PICK S, T : S = Owing /\ T = Owing'
  OBVIOUS
<1>2. IsFiniteSet(S) /\ Cardinality(S) <= faults
  BY <1>1 DEF Debts, Grows
<1>3. IsFiniteSet(S \cup {x}) /\ Cardinality(S \cup {x}) <= Cardinality(S) + 1
  <2>1. Cardinality(S) \in Nat
    BY <1>2, FS_CardinalityType
  <2>2. /\ IsFiniteSet(S \cup {x})
        /\ Cardinality(S \cup {x}) = IF x \in S THEN Cardinality(S) ELSE Cardinality(S) + 1
    BY <1>2, FS_AddElement
  <2> QED  BY <2>1, <2>2
<1>4. IsFiniteSet(T) /\ Cardinality(T) <= Cardinality(S \cup {x})
  BY <1>1, <1>3, FS_Subset
<1>5. /\ Cardinality(S) \in Nat /\ Cardinality(T) \in Nat /\ faults \in Nat
      /\ Cardinality(S \cup {x}) \in Nat
  BY <1>2, <1>3, <1>4, FS_CardinalityType DEF Base, TypeOK
<1>6. Cardinality(T) <= faults'
  BY <1>2, <1>3, <1>4, <1>5
<1> QED  BY <1>1, <1>4, <1>6

LEMMA DebtsSwap ==
  ASSUME Base, Debts, Grows, faults' = faults, NEW x, NEW y, ~overlapped' => x \in Owing,
         Owing' \subseteq (Owing \ {x}) \cup {y}
  PROVE  Debts'
<1> SUFFICES ASSUME ~overlapped' PROVE IsFiniteSet(Owing)' /\ (Cardinality(Owing) <= faults)'
  BY DEF Debts
<1>1. PICK S, T : S = Owing /\ T = Owing'
  OBVIOUS
<1>2. IsFiniteSet(S) /\ Cardinality(S) <= faults /\ x \in S
  BY <1>1 DEF Debts, Grows
<1>3. PICK R : R = S \ {x}
  OBVIOUS
<1>4. IsFiniteSet(R) /\ Cardinality(R) = Cardinality(S) - 1
  BY <1>2, <1>3, FS_RemoveElement
<1>5. Cardinality(S) \in Nat /\ Cardinality(R) \in Nat /\ faults \in Nat
  BY <1>2, <1>4, FS_CardinalityType DEF Base, TypeOK
<1>6. IsFiniteSet(R \cup {y}) /\ Cardinality(R \cup {y}) <= Cardinality(S)
  <2>1. /\ IsFiniteSet(R \cup {y})
        /\ Cardinality(R \cup {y}) = IF y \in R THEN Cardinality(R) ELSE Cardinality(R) + 1
    BY <1>4, FS_AddElement
  <2> QED  BY <1>4, <1>5, <2>1
<1>7. IsFiniteSet(T) /\ Cardinality(T) <= Cardinality(R \cup {y})
  BY <1>1, <1>3, <1>6, FS_Subset
<1>8. Cardinality(T) \in Nat /\ Cardinality(R \cup {y}) \in Nat
  BY <1>6, <1>7, FS_CardinalityType
<1>9. Cardinality(T) <= faults'
  BY <1>2, <1>5, <1>6, <1>7, <1>8
<1> QED  BY <1>1, <1>7, <1>9

\* The step of a run, in one.
LEMMA RunMoves ==
  ASSUME IInv, NEW w \in Runs, NEW s \in State, Place(s), run' = [run EXCEPT ![w] = s],
         run[w] # Idle, request' = request, job' \in Job, Short(job'.cursor),
         job'.errors = job.errors \/ Working(w), JobCovered', RunCovered(s)',
         maps' \subseteq Records, refused' \subseteq Records, stored' \in [Records -> Nat],
         Grows, maps' = maps \/ Working(w),
         overlapped' \in BOOLEAN, crashed' \in BOOLEAN, faults' \in 0 .. MaxFaults,
         s.pc \notin {"idle", "load"} =>
           overlapped' \/ Working(w) \/ \A v \in Runs \ {w} : ~Working(v),
         s.pc \in {"persist", "map"} =>
           overlapped' \/ Pages[s.type][s.page][s.at] \notin maps',
         Debts'
  PROVE  IInv'
<1>1. Base'
  BY BaseRun DEF IInv, Grows
<1>2. Coverage'
  BY CoverRun DEF IInv
<1>3. Unmapped'
  BY UnmappedRun DEF IInv
<1> QED  BY <1>1, <1>2, <1>3 DEF IInv

\* The step of a run that only reads.
LEMMA RunReads ==
  ASSUME IInv, NEW w \in Runs, NEW s \in State, Place(s), run' = [run EXCEPT ![w] = s],
         run[w] # Idle, UNCHANGED <<job, data, request>>, RunCovered(s),
         overlapped' \in BOOLEAN, crashed' \in BOOLEAN, overlapped => overlapped',
         faults' \in 0 .. MaxFaults,
         faults' = faults + 1 \/ (faults' = faults /\ run[w].pc # "map"),
         s.pc \notin {"idle", "load"} =>
           overlapped' \/ Working(w) \/ \A v \in Runs \ {w} : ~Working(v),
         s.pc \in {"persist", "map"} =>
           overlapped' \/ Pages[s.type][s.page][s.at] \notin maps
  PROVE  IInv'
<1>1. Grows /\ maps' = maps /\ stored' = stored /\ refused' = refused /\ job' = job
  BY DEF data, Grows
<1>2. /\ job \in Job /\ Short(job.cursor) /\ maps \subseteq Records /\ refused \subseteq Records
      /\ stored \in [Records -> Nat]
  BY DEF IInv, Base, TypeOK, Nobody
<1>3. Short(job'.cursor) /\ JobCovered' /\ RunCovered(s)'
  BY <1>1, <1>2, JobStays, RunStays DEF IInv, Base, Coverage
<1>4. Debts'
  <2>1. CASE faults' = faults + 1
    <3>1. PICK x : x = <<Record(w), 1>>
      OBVIOUS
    <3>2. Owing' \subseteq Owing \cup {x}
      BY <1>1, <3>1, OwingStays DEF IInv
    <3> QED  BY <1>1, <2>1, <3>2, DebtsMore DEF IInv
  <2>2. CASE faults' = faults /\ run[w].pc # "map"
    <3>1. Owing' \subseteq Owing
      BY <1>1, <2>2, OwingStays DEF IInv
    <3> QED  BY <1>1, <2>2, <3>1, DebtsFewer DEF IInv
  <2> QED  BY <2>1, <2>2
<1> QED  BY <1>1, <1>2, <1>3, <1>4, RunMoves

-----------------------------------------------------------------------------
(* The steps of a run *)

LEMMA OutsideRun ==
  ASSUME NEW s \in Outside
  PROVE  s \in State /\ Place(s) /\ RunCovered(s)
<1>1. s \notin Between /\ s \notin Within
  BY DEF Outside, Between, Within
<1> QED  BY <1>1 DEF State, Place, RunCovered

LEMMA OutsideRunNext ==
  ASSUME NEW s \in Outside
  PROVE  RunCovered(s)'
<1>1. s \notin Between /\ s \notin Within
  BY DEF Outside, Between, Within
<1> QED  BY <1>1 DEF RunCovered

LEMMA BetweenRun ==
  ASSUME NEW pc \in {"check", "open", "complete"}, NEW type \in 1 .. Len(Pages) + 1
  PROVE  LET s == [pc |-> pc, type |-> type] IN
         s \in Between /\ s \in State /\ s \notin Within /\ s.pc = pc /\ s.type = type
BY DEF Between, Within, State

LEMMA LoadStep ==
  ASSUME IInv, NEW w \in Runs, Load(w)
  PROVE  IInv'
<1>1. PICK s \in Outside : run' = [run EXCEPT ![w] = s]
  <2>1. {Idle, [pc |-> "begin"], [pc |-> "fail"]} \subseteq Outside
    BY DEF Idle, Outside
  <2> QED  BY <2>1 DEF Load
<1>2. run[w] # Idle /\ run[w].pc = "load"
  BY DEF Load, Queued, Idle
<1>3. s \in State /\ Place(s) /\ RunCovered(s) /\ s.pc \notin {"persist", "map"}
  BY OutsideRun DEF Outside
<1>4. UNCHANGED <<job, data, request, crashed, faults>>
  BY DEF Load
<1>5. /\ overlapped' \in BOOLEAN
      /\ overlapped => overlapped'
      /\ overlapped' \/ \A v \in Runs \ {w} : ~Working(v)
  BY DEF Load, IInv, Base, TypeOK
<1>6. /\ faults' \in 0 .. MaxFaults /\ crashed' \in BOOLEAN
      /\ faults' = faults /\ run[w].pc # "map" /\ UNCHANGED <<job, data, request>>
  BY <1>2, <1>4 DEF IInv, Base, TypeOK
<1>7. s.pc \notin {"idle", "load"} =>
        overlapped' \/ Working(w) \/ \A v \in Runs \ {w} : ~Working(v)
  BY <1>5
<1> QED  BY <1>1, <1>2, <1>3, <1>5, <1>6, <1>7, RunReads

\* What holds for a run at work.
LEMMA AtWork ==
  ASSUME IInv, NEW w \in Runs, run[w].pc \notin {"idle", "load"}
  PROVE  /\ Working(w) /\ run[w] # Idle /\ job # NoJob
         /\ job \in Job /\ job.cursor \in [Types -> Nat] /\ job.errors \in SUBSET Records
         /\ Short(job.cursor)
<1>1. Working(w) /\ run[w] # Idle
  BY DEF Working, Idle
<1>2. job # NoJob
  BY <1>1 DEF IInv, Base, Nobody
<1> QED  BY <1>1, <1>2, JobFields DEF IInv, Base

LEMMA BeginStep ==
  ASSUME IInv, NEW w \in Runs, Begin(w)
  PROVE  IInv'
<1>1. Working(w) /\ run[w] # Idle /\ job # NoJob /\ job \in Job /\ Short(job.cursor)
  BY AtWork DEF Begin
<1>2. /\ job' = [job EXCEPT !.status = "importing"]
      /\ run' = [run EXCEPT ![w] = [pc |-> "check", type |-> 1]]
      /\ UNCHANGED <<maps, stored, refused, request, overlapped, crashed, faults>>
      /\ run[w].pc = "begin"
  BY DEF Begin, data, hist
<1>3. /\ job' \in Job /\ job'.cursor = job.cursor /\ job'.errors = job.errors
      /\ job'.status = "importing"
  BY <1>1, <1>2, StatusNames DEF Job
<1>4. PICK s : s = [pc |-> "check", type |-> 1]
  OBVIOUS
<1>5. s \in Between /\ s \in State /\ s \notin Within /\ s.pc = "check" /\ s.type = 1
  BY <1>4, BetweenRun, PagesTyped
<1>6. Place(s) /\ RunCovered(s)'
  BY <1>5, PagesTyped DEF Place, RunCovered
<1>7. Grows
  BY <1>2 DEF Grows
<1>8. JobCovered'
  BY <1>1, <1>3, <1>7, JobStays DEF IInv, Base, Coverage
<1>9. Debts'
  <2>1. Owing' \subseteq Owing
    BY <1>2, <1>4, <1>5, OwingStays DEF IInv
  <2>2. faults' = faults /\ faults \in Nat
    BY <1>2 DEF IInv, Base, TypeOK
  <2> QED  BY <1>7, <2>1, <2>2, DebtsFewer DEF IInv
<1>10. /\ maps' \subseteq Records /\ refused' \subseteq Records /\ stored' \in [Records -> Nat]
       /\ overlapped' \in BOOLEAN /\ crashed' \in BOOLEAN /\ faults' \in 0 .. MaxFaults
  BY <1>2 DEF IInv, Base, TypeOK
<1>11. Short(job'.cursor)
  BY <1>1, <1>3
<1> QED  BY <1>1, <1>2, <1>3, <1>4, <1>5, <1>6, <1>7, <1>8, <1>9, <1>10, <1>11, RunMoves

LEMMA ReadsOnly ==
  ASSUME IInv, NEW w \in Runs, NEW s \in State, Place(s), run' = [run EXCEPT ![w] = s],
         Working(w), run[w].pc # "map", UNCHANGED <<job, data, request, hist>>, RunCovered(s),
         s.pc \in {"persist", "map"} =>
           overlapped \/ Pages[s.type][s.page][s.at] \notin maps
  PROVE  IInv'
<1>1. /\ overlapped' = overlapped /\ crashed' = crashed /\ faults' = faults /\ run[w] # Idle
      /\ overlapped' \in BOOLEAN /\ crashed' \in BOOLEAN /\ faults' \in 0 .. MaxFaults
  BY DEF hist, Working, Idle, IInv, Base, TypeOK
<1> QED  BY <1>1, RunReads

LEMMA CheckStep ==
  ASSUME IInv, NEW w \in Runs, Check(w)
  PROVE  IInv'
<1>1. Working(w) /\ run[w].pc # "map" /\ UNCHANGED <<job, data, request, hist>>
  BY AtWork DEF Check
<1>2. PICK old \in State : old = run[w] /\ RunCovered(old)
  BY AtPlace DEF IInv, Base, Coverage
<1>3. old \in Between /\ old.type \in 1 .. Len(Pages) + 1
  BY <1>2, RunFields DEF Check
<1>4. CASE job.status \in Stopped
  <2>1. run' = [run EXCEPT ![w] = Idle] /\ Idle \in Outside /\ Idle.pc = "idle"
    BY <1>4 DEF Check, Idle, Outside
  <2> QED  BY <1>1, <2>1, OutsideRun, ReadsOnly
<1>5. CASE job.status \notin Stopped
  <2>1. PICK pc \in {"open", "complete"} :
          /\ pc = (IF run[w].type \in Types THEN "open" ELSE "complete")
          /\ run' = [run EXCEPT ![w] = [pc |-> pc, type |-> old.type]]
    BY <1>2, <1>5 DEF Check
  <2>2. PICK s : s = [pc |-> pc, type |-> old.type]
    OBVIOUS
  <2>3. s \in Between /\ s \in State /\ s \notin Within /\ s.pc = pc /\ s.type = old.type
    BY <1>3, <2>2, BetweenRun
  <2>4. Place(s)
    BY <1>2, <2>1, <2>3 DEF Place
  <2>5. RunCovered(s)
    BY <1>2, <1>3, <2>3 DEF RunCovered
  <2> QED  BY <1>1, <2>1, <2>2, <2>3, <2>4, <2>5, ReadsOnly
<1> QED  BY <1>4, <1>5

LEMMA OpenStep ==
  ASSUME IInv, NEW w \in Runs, Open(w)
  PROVE  IInv'
<1>1. Working(w) /\ run[w].pc # "map" /\ UNCHANGED <<job, data, request, hist>>
  BY AtWork DEF Open
<1>2. PICK old \in State : old = run[w] /\ RunCovered(old) /\ Place(old) /\ old.pc = "open"
  BY AtPlace DEF IInv, Base, Coverage, Open
<1>3. old \in Between /\ old.type \in Types
  BY <1>2, RunFields DEF Place
<1>4. /\ job # NoJob /\ job.cursor \in [Types -> Nat] /\ job.errors \in SUBSET Records
      /\ Short(job.cursor)
  BY AtWork DEF Open
<1>5. PICK type, page, cursor, errors :
        /\ type = old.type /\ page = job.cursor[type] + 1 /\ cursor = job.cursor
        /\ errors = job.errors
  OBVIOUS
<1>6. /\ type \in Types /\ page \in Nat /\ cursor \in [Types -> Nat]
      /\ errors \in SUBSET Records
  BY <1>3, <1>4, <1>5
<1>7. PICK s : s = [pc |-> "extract", type |-> type, page |-> page, at |-> 1,
                    cursor |-> cursor, errors |-> errors]
  OBVIOUS
<1>8. run' = [run EXCEPT ![w] = s]
  BY <1>2, <1>5, <1>7 DEF Open
<1>9. /\ s \in Within /\ s \in State /\ s.pc = "extract" /\ s.type = type /\ s.page = page
      /\ s.at = 1 /\ s.cursor = cursor /\ s.errors = errors
  BY <1>6, <1>7, Spot DEF Stages
<1>10. page \in DOMAIN Pages[type]
  BY <1>4, <1>5, <1>6, PagesTyped DEF Short
<1>11. s \notin Between
  BY <1>9, RunFields
<1>12. Place(s)
  BY <1>4, <1>5, <1>9, <1>10, <1>11 DEF Place
<1>13. Behind(cursor, errors) /\ \A i \in Types : i < type => Finished(i, errors)
  BY <1>2, <1>3, <1>4, <1>5 DEF RunCovered, IInv, Coverage, JobCovered
<1>14. \A p \in DOMAIN Pages[type] : p < page => Covers(type, p, errors)
  <2> SUFFICES ASSUME NEW p \in DOMAIN Pages[type], p < page PROVE Covers(type, p, errors)
    OBVIOUS
  <2>1. p <= cursor[type]
    BY <1>4, <1>5, <1>6, PagesTyped
  <2> QED  BY <1>6, <1>13, <2>1 DEF Behind
<1>15. RunCovered(s)
  BY <1>5, <1>9, <1>11, <1>13, <1>14 DEF RunCovered
<1> QED  BY <1>1, <1>8, <1>9, <1>12, <1>15, ReadsOnly

LEMMA ExtractStep ==
  ASSUME IInv, NEW w \in Runs, Extract(w)
  PROVE  IInv'
<1>1. Working(w) /\ run[w].pc # "map" /\ UNCHANGED <<job, data, request, hist>>
  BY AtWork DEF Extract
<1>2. PICK old \in Within : old = run[w] /\ RunCovered(old) /\ Place(old)
  BY AtPlace DEF IInv, Base, Coverage, Extract, Stages
<1>3. PICK pc \in {"save", "resolve"} :
        /\ pc = (IF Page(w) = <<>> THEN "save" ELSE "resolve")
        /\ run' = [run EXCEPT ![w] = [old EXCEPT !.pc = pc, !.at = 1]]
  BY <1>2 DEF Extract
<1>4. PICK s : s = [old EXCEPT !.pc = pc, !.at = 1]
  OBVIOUS
<1>5. Like(old, s, pc, old.page, 1, old.cursor, old.errors)
  BY <1>4, UpdatedAt DEF Stages
<1>6. s \in Within /\ s \in State /\ s \notin Between
  BY <1>5, RunFields DEF Like
<1>7. /\ old.page \in DOMAIN Pages[old.type] /\ Short(old.cursor) /\ old.type \in Types
      /\ Page(w) = Pages[old.type][old.page]
  BY <1>2 DEF Place, Within, Page
<1>8. pc = "save" => DOMAIN Pages[old.type][old.page] = {}
  BY <1>3, <1>7
<1>9. pc = "resolve" => 1 \in DOMAIN Pages[old.type][old.page]
  BY <1>3, <1>7, PagesTyped
<1>10. Place(s)
  BY <1>3, <1>5, <1>6, <1>7, <1>9 DEF Place, Like
<1>11. RunCovered(s)
  <2>1. pc \in {"save", "batch"} => Covers(old.type, old.page, old.errors)
    BY <1>3, <1>8 DEF Covers
  <2>2. \A k \in DOMAIN Pages[old.type][old.page] : ~(k < 1)
    BY <1>7, PagesTyped
  <2> QED  BY <1>2, <1>3, <1>5, <1>6, <2>1, <2>2 DEF RunCovered, Like
<1>12. s.pc \notin {"persist", "map"}
  BY <1>3, <1>5 DEF Like
<1> QED  BY <1>1, <1>3, <1>4, <1>6, <1>10, <1>11, <1>12, ReadsOnly

\* A run goes on to its next record, having dealt with one.
LEMMA GoesOn ==
  ASSUME IInv, NEW w \in Runs, NEW errs \in SUBSET Records, GoOn(w, errs),
         run[w].pc \in {"resolve", "persist", "map"},
         Grows, UNCHANGED <<job, request, crashed, overlapped>>,
         maps' \subseteq Records, refused' \subseteq Records, stored' \in [Records -> Nat],
         faults' \in 0 .. MaxFaults,
         Record(w) \in maps' \/ (Record(w) \in refused' /\ Record(w) \in errs),
         \A s \in State : s.pc \in {"save", "resolve"} /\ run' = [run EXCEPT ![w] = s] => Debts'
  PROVE  IInv'
<1>1. PICK old \in Within : old = run[w] /\ RunCovered(old) /\ Place(old)
  BY AtPlace DEF IInv, Base, Coverage, Stages
<1>2. /\ old.type \in Types /\ old.page \in DOMAIN Pages[old.type] /\ Short(old.cursor)
      /\ Page(w) = Pages[old.type][old.page] /\ old.at \in DOMAIN Pages[old.type][old.page]
      /\ Record(w) = Pages[old.type][old.page][old.at]
  BY <1>1 DEF Place, Within, Page, Record
<1>3. PICK page, at, len, errors :
        /\ page = Pages[old.type][old.page] /\ at = old.at + 1 /\ len = Len(page)
        /\ errors = old.errors \cup errs
  OBVIOUS
<1>4. /\ DOMAIN page = 1 .. len /\ len \in Nat /\ at \in Nat /\ errors \in SUBSET Records
      /\ old.at \in 1 .. len
  <2>1. DOMAIN page = 1 .. len /\ len \in Nat
    BY <1>2, <1>3, PagesTyped
  <2>2. old.at \in 1 .. len
    BY <1>2, <1>3, <2>1
  <2>3. old.errors \in SUBSET Records
    BY DEF Within
  <2> QED  BY <1>3, <2>1, <2>2, <2>3
<1>5. PICK pc \in {"save", "resolve"} :
        /\ pc = (IF old.at = len THEN "save" ELSE "resolve")
        /\ run' = [run EXCEPT ![w] = [old EXCEPT !.pc = pc, !.at = at, !.errors = errors]]
  BY <1>1, <1>2, <1>3 DEF GoOn
<1>6. PICK s : s = [old EXCEPT !.pc = pc, !.at = at, !.errors = errors]
  OBVIOUS
<1>7. Like(old, s, pc, old.page, at, old.cursor, errors)
  BY <1>4, <1>6, UpdatedErrors DEF Stages
<1>8. s \in Within /\ s \in State /\ s \notin Between /\ s.pc = pc
  BY <1>7, RunFields DEF Like
<1>9. pc = "resolve" => at \in DOMAIN page
  BY <1>3, <1>4, <1>5
<1>10. Place(s)
  BY <1>2, <1>3, <1>5, <1>7, <1>8, <1>9 DEF Place, Like
<1>11. /\ \A i \in Types : i < old.type => Finished(i, errors)'
       /\ Behind(old.cursor, errors)'
       /\ \A p \in DOMAIN Pages[old.type] : p < old.page => Covers(old.type, p, errors)'
  BY <1>1, <1>3, Stays DEF RunCovered
<1>12. \A k \in DOMAIN page : k < at => Accounted(page[k], errors)'
  <2> SUFFICES ASSUME NEW k \in DOMAIN page, k < at PROVE Accounted(page[k], errors)'
    OBVIOUS
  <2>1. CASE k < old.at
    BY <1>1, <1>3, <2>1, Stays DEF RunCovered
  <2>2. CASE k = old.at
    BY <1>2, <1>3, <2>2 DEF Accounted
  <2>3. k < old.at \/ k = old.at
    BY <1>3, <1>4
  <2> QED  BY <2>1, <2>2, <2>3
<1>13. pc = "save" => Covers(old.type, old.page, errors)'
  <2>1. pc = "save" => \A k \in DOMAIN page : k < at
    BY <1>3, <1>4, <1>5
  <2> QED  BY <1>3, <1>12, <2>1 DEF Covers
<1>14. ~overlapped' => job'.errors \subseteq errors
  BY <1>1, <1>3 DEF RunCovered
<1>15. RunCovered(s)'
  BY <1>3, <1>5, <1>7, <1>8, <1>11, <1>12, <1>13, <1>14 DEF RunCovered, Like
<1>16. Working(w) /\ run[w] # Idle /\ job \in Job /\ Short(job.cursor)
  BY AtWork
<1>17. JobCovered'
  BY JobStays DEF IInv, Base, Coverage
<1>18. /\ s.pc \notin {"persist", "map"} /\ overlapped' \in BOOLEAN /\ crashed' \in BOOLEAN
       /\ Short(job'.cursor) /\ run' = [run EXCEPT ![w] = s]
  BY <1>5, <1>6, <1>8, <1>16 DEF IInv, Base, TypeOK
<1>19. Debts'
  BY <1>5, <1>8, <1>18
<1> QED  BY <1>8, <1>10, <1>15, <1>16, <1>17, <1>18, <1>19, RunMoves

LEMMA ResolveStep ==
  ASSUME IInv, NEW w \in Runs, Resolve(w)
  PROVE  IInv'
<1>1. Working(w) /\ run[w].pc = "resolve" /\ UNCHANGED <<job, data, request, hist>>
  BY AtWork DEF Resolve
<1>2. CASE Record(w) \in maps
  <2>1. GoOn(w, {})
    BY <1>2 DEF Resolve
  <2>2. /\ Grows /\ UNCHANGED <<job, request, crashed, overlapped, stored, maps>>
        /\ maps' \subseteq Records /\ refused' \subseteq Records /\ stored' \in [Records -> Nat]
        /\ faults' \in 0 .. MaxFaults /\ faults' = faults /\ faults \in Nat
    BY <1>1 DEF data, hist, Grows, IInv, Base, TypeOK
  <2>3. ASSUME NEW s \in State, run' = [run EXCEPT ![w] = s]
        PROVE  Debts'
    <3>1. Owing' \subseteq Owing
      BY <1>1, <2>2, <2>3, OwingStays DEF IInv
    <3> QED  BY <2>2, <3>1, DebtsFewer DEF IInv
  <2> QED  BY <1>1, <1>2, <2>1, <2>2, <2>3, GoesOn
<1>3. CASE Record(w) \notin maps
  <2>1. PICK old \in Within : old = run[w] /\ RunCovered(old) /\ Place(old)
    BY <1>1, AtPlace DEF IInv, Base, Coverage, Stages
  <2>2. PICK s : s = [old EXCEPT !.pc = "persist"]
    OBVIOUS
  <2>3. run' = [run EXCEPT ![w] = s]
    BY <1>3, <2>1, <2>2 DEF Resolve
  <2>4. Like(old, s, "persist", old.page, old.at, old.cursor, old.errors)
    BY <2>2, UpdatedPc DEF Stages
  <2>5. s \in Within /\ s \in State /\ s \notin Between
    BY <2>4, RunFields DEF Like
  <2>6. Place(s) /\ RunCovered(s)
    BY <1>1, <2>1, <2>4, <2>5 DEF Place, RunCovered, Like
  <2>7. Pages[s.type][s.page][s.at] \notin maps
    BY <1>3, <2>1, <2>4 DEF Like, Record, Page
  <2>8. run[w].pc # "map"
    BY <1>1
  <2> QED  BY <1>1, <2>3, <2>5, <2>6, <2>7, <2>8, ReadsOnly
<1> QED  BY <1>2, <1>3

\* What is given to a record in hand makes up at most one copy.
LEMMA Given ==
  ASSUME Base, NEW w \in Runs, NEW s \in State, run' = [run EXCEPT ![w] = s],
         run[w].pc = "persist", NEW r \in Records, r = Record(w), maps' = maps, Give(r)
  PROVE  /\ stored' \in [Records -> Nat]
         /\ stored[r] = 0 => Owing' \subseteq Owing \cup {<<r, 1>>}
         /\ stored[r] > 0 => Owing' \subseteq Owing \cup {<<r, stored[r] + 1>>}
         /\ s.pc = "map" /\ Record(w)' = r =>
              /\ <<r, 1>> \notin Owing'
              /\ stored[r] = 0 => Owing' \subseteq Owing
<1>1. PICK n \in Nat : n = stored[r]
  BY DEF Base, TypeOK
<1>2. PICK m : /\ stored' = [stored EXCEPT ![r] = m]
               /\ m \in {n, n + 1} /\ (n = 0 => m = 1)
  <2>1. PICK m : m = IF r \in Found /\ stored[r] > 0 THEN stored[r] ELSE stored[r] + 1
    OBVIOUS
  <2>2. stored' = [stored EXCEPT ![r] = m]
    BY <2>1 DEF Give
  <2>3. m \in {n, n + 1} /\ (n = 0 => m = 1)
    BY <1>1, <2>1
  <2> QED  BY <2>2, <2>3
<1>3. /\ stored' \in [Records -> Nat] /\ stored'[r] = m
      /\ \A q \in Records : q # r => stored'[q] = stored[q]
  BY <1>2 DEF Base, TypeOK
<1>4. /\ run'[w] = s
      /\ \A v \in Runs : v # w => run'[v] = run[v]
  BY Overwritten DEF Base
<1>5. \A v \in Runs : v # w => Record(v)' = Record(v)
  BY <1>4 DEF Record, Page
<1>6. ASSUME NEW q \in Records, NEW k \in Nat, Owed(q, k)', ~Owed(q, k)
      PROVE  q = r /\ k = (IF n = 0 THEN 1 ELSE n + 1)
  <2>1. q = r
    BY <1>3, <1>4, <1>5, <1>6 DEF Owed
  <2>2. CASE k \in 2 .. m
    BY <1>1, <1>2, <1>6, <2>1, <2>2 DEF Owed
  <2>3. CASE k = 1
    <3>1. q \notin maps /\ \A v \in Runs : run'[v].pc = "map" => Record(v)' # q
      BY <1>6, <2>3 DEF Owed
    <3>2. \A v \in Runs : run[v].pc = "map" => Record(v) # q
      BY <1>4, <1>5, <3>1
    <3>3. n = 0
      BY <1>1, <1>6, <2>1, <2>3, <3>1, <3>2 DEF Owed
    <3> QED  BY <2>1, <2>3, <3>3
  <2> QED  BY <1>3, <1>6, <2>1, <2>2, <2>3 DEF Owed
<1>7. ASSUME NEW p \in Owing', p \notin Owing
      PROVE  p = <<r, IF n = 0 THEN 1 ELSE n + 1>>
  <2>1. PICK q \in Records, k \in Nat : p = <<q, k>> /\ Owed(q, k)'
    BY <1>7 DEF Owing
  <2>2. ~Owed(q, k)
    BY <1>7, <2>1 DEF Owing
  <2> QED  BY <1>6, <2>1, <2>2
<1>8. ASSUME s.pc = "map", Record(w)' = r
      PROVE  <<r, 1>> \notin Owing'
  <2>1. ~Owed(r, 1)'
    BY <1>4, <1>8 DEF Owed
  <2> QED  BY <2>1 DEF Owing
<1>9. n = 0 \/ n > 0
  OBVIOUS
<1> QED  BY <1>1, <1>3, <1>7, <1>8, <1>9

LEMMA PersistStep ==
  ASSUME IInv, NEW w \in Runs, Persist(w)
  PROVE  IInv'
<1>1. /\ Working(w) /\ run[w].pc = "persist" /\ run[w] # Idle /\ job \in Job
      /\ Short(job.cursor)
  BY AtWork DEF Persist
<1>2. UNCHANGED <<job, maps, request, overlapped, crashed>>
  BY DEF Persist
<1>3. PICK r \in Records : r = Record(w)
  BY <1>1, AtPlace DEF IInv, Base, Stages
<1>4. /\ maps \subseteq Records /\ refused \subseteq Records /\ stored \in [Records -> Nat]
      /\ faults \in 0 .. MaxFaults /\ faults \in Nat /\ overlapped \in BOOLEAN
      /\ crashed \in BOOLEAN
  BY DEF IInv, Base, TypeOK
<1>5. CASE Acceptable(r) /\ Give(r) /\ run' = [run EXCEPT ![w] = [@ EXCEPT !.pc = "map"]]
           /\ UNCHANGED <<refused, faults>>
  <2>1. PICK old \in Within : old = run[w] /\ RunCovered(old) /\ Place(old)
    BY <1>1, AtPlace DEF IInv, Base, Coverage, Stages
  <2>2. PICK s : s = [old EXCEPT !.pc = "map"]
    OBVIOUS
  <2>3. run' = [run EXCEPT ![w] = s]
    BY <1>5, <2>1, <2>2
  <2>4. Like(old, s, "map", old.page, old.at, old.cursor, old.errors)
    BY <2>2, UpdatedPc DEF Stages
  <2>5. s \in Within /\ s \in State /\ s \notin Between /\ s.pc = "map"
    BY <2>4, RunFields DEF Like
  <2>6. Place(s) /\ RunCovered(s)
    BY <1>1, <2>1, <2>4, <2>5 DEF Place, RunCovered, Like
  <2>7. Grows /\ RunCovered(s)' /\ JobCovered'
    <3>1. Grows
      BY <1>2, <1>5 DEF Grows
    <3> QED  BY <1>2, <2>5, <2>6, <3>1, RunStays, JobStays DEF IInv, Base, Coverage
  <2>8. Pages[s.type][s.page][s.at] = r
    BY <1>3, <2>1, <2>4 DEF Like, Record, Page
  <2>9. overlapped \/ r \notin maps
    BY <1>1, <1>3 DEF IInv, Unmapped
  <2>10. Record(w)' = r
    <3>1. run'[w] = s
      BY <2>3, <2>5, Overwritten DEF IInv, Base
    <3> QED  BY <2>8, <3>1 DEF Record, Page
  <2>11. /\ stored' \in [Records -> Nat]
         /\ stored[r] > 0 => Owing' \subseteq Owing \cup {<<r, stored[r] + 1>>}
         /\ <<r, 1>> \notin Owing'
         /\ stored[r] = 0 => Owing' \subseteq Owing
    BY <1>1, <1>2, <1>3, <1>5, <2>3, <2>5, <2>10, Given DEF IInv
  <2>12. Debts'
    <3>1. CASE stored[r] = 0
      BY <1>4, <1>5, <2>7, <2>11, <3>1, DebtsFewer DEF IInv
    <3>2. CASE stored[r] > 0
      <4>1. PICK x, y : x = <<r, 1>> /\ y = <<r, stored[r] + 1>>
        OBVIOUS
      <4>2. Owing' \subseteq (Owing \ {x}) \cup {y}
        BY <2>11, <3>2, <4>1
      <4>3. ASSUME ~overlapped PROVE Owed(r, 1)
        <5>1. r \notin maps
          BY <2>9, <4>3
        <5>2. \A v \in Runs : run[v].pc # "map"
          BY <1>1, <4>3 DEF IInv, Base, Serial, Working
        <5> QED  BY <3>2, <5>1, <5>2 DEF Owed
      <4>4. ~overlapped' => x \in Owing
        BY <1>2, <4>1, <4>3 DEF Owing
      <4>5. faults' = faults
        BY <1>5
      <4> QED  BY <2>7, <4>2, <4>4, <4>5, DebtsSwap DEF IInv
    <3> QED  BY <1>4, <3>1, <3>2
  <2>13. /\ maps' \subseteq Records /\ refused' \subseteq Records /\ job' \in Job
         /\ Short(job'.cursor) /\ job'.errors = job.errors /\ request' = request
         /\ overlapped' \in BOOLEAN /\ crashed' \in BOOLEAN /\ faults' \in 0 .. MaxFaults
         /\ maps' = maps
         /\ s.pc \in {"persist", "map"} =>
              overlapped' \/ Pages[s.type][s.page][s.at] \notin maps'
    BY <1>1, <1>2, <1>4, <1>5, <2>8, <2>9
  <2> QED  BY <1>1, <2>3, <2>5, <2>6, <2>7, <2>11, <2>12, <2>13, RunMoves
<1>6. CASE ~Acceptable(r) /\ Refuse(w, r) /\ UNCHANGED <<stored, faults>>
  <2>1. /\ Grows /\ maps' \subseteq Records /\ refused' \subseteq Records
        /\ stored' \in [Records -> Nat] /\ faults' \in 0 .. MaxFaults /\ r \in refused'
    BY <1>2, <1>4, <1>6 DEF Refuse, Grows
  <2>2. GoOn(w, {r})
    BY <1>6 DEF Refuse
  <2>3. ASSUME NEW s \in State, run' = [run EXCEPT ![w] = s]
        PROVE  Debts'
    <3>1. Owing' \subseteq Owing
      BY <1>1, <1>2, <1>6, <2>3, OwingStays DEF IInv
    <3> QED  BY <1>4, <1>6, <2>1, <3>1, DebtsFewer DEF IInv
  <2>4. {r} \in SUBSET Records
    OBVIOUS
  <2> QED  BY <1>1, <1>2, <1>3, <2>1, <2>2, <2>3, <2>4, GoesOn
<1>7. CASE /\ faults < MaxFaults /\ faults' = faults + 1
           /\ Refuse(w, r)
           /\ stored' = stored \/ (Acceptable(r) /\ Give(r))
  <2>1. /\ Grows /\ maps' \subseteq Records /\ refused' \subseteq Records
        /\ faults' \in 0 .. MaxFaults /\ r \in refused'
    BY <1>2, <1>4, <1>7, FaultsAssumption DEF Refuse, Grows
  <2>2. GoOn(w, {r})
    BY <1>7 DEF Refuse
  <2>3. stored' \in [Records -> Nat]
    BY <1>4, <1>7 DEF Give
  <2>4. ASSUME NEW s \in State, run' = [run EXCEPT ![w] = s]
        PROVE  Debts'
    <3>1. CASE stored' = stored
      <4>1. Owing' \subseteq Owing
        BY <1>1, <1>2, <2>4, <3>1, OwingStays DEF IInv
      <4>2. PICK x : x = 0
        OBVIOUS
      <4>3. Owing' \subseteq Owing \cup {x}
        BY <4>1
      <4> QED  BY <1>7, <2>1, <4>3, DebtsMore DEF IInv
    <3>2. CASE Give(r)
      <4>1. /\ stored[r] = 0 => Owing' \subseteq Owing \cup {<<r, 1>>}
            /\ stored[r] > 0 => Owing' \subseteq Owing \cup {<<r, stored[r] + 1>>}
        BY <1>1, <1>2, <1>3, <2>4, <3>2, Given DEF IInv
      <4>2. PICK x : x = <<r, IF stored[r] = 0 THEN 1 ELSE stored[r] + 1>>
        OBVIOUS
      <4>3. stored[r] = 0 \/ stored[r] > 0
        BY <1>4
      <4>4. Owing' \subseteq Owing \cup {x}
        BY <4>1, <4>2, <4>3
      <4> QED  BY <1>7, <2>1, <4>4, DebtsMore DEF IInv
    <3> QED  BY <1>7, <3>1, <3>2
  <2>5. {r} \in SUBSET Records
    OBVIOUS
  <2> QED  BY <1>1, <1>2, <1>3, <2>1, <2>2, <2>3, <2>4, <2>5, GoesOn
<1> QED  BY <1>3, <1>5, <1>6, <1>7 DEF Persist

LEMMA MapRecordStep ==
  ASSUME IInv, NEW w \in Runs, MapRecord(w)
  PROVE  IInv'
<1>1. run[w].pc = "map" /\ Working(w)
  BY AtWork DEF MapRecord
<1>2. UNCHANGED <<job, stored, request, overlapped, crashed>>
  BY DEF MapRecord
<1>3. PICK r \in Records : r = Record(w)
  BY <1>1, AtPlace DEF IInv, Base, Stages
<1>4. /\ maps \subseteq Records /\ refused \subseteq Records /\ stored' \in [Records -> Nat]
      /\ faults \in 0 .. MaxFaults /\ faults \in Nat
  BY <1>2 DEF IInv, Base, TypeOK
<1>5. overlapped \/ r \notin maps
  BY <1>1, <1>3 DEF IInv, Unmapped
<1>6. CASE /\ r \notin maps /\ maps' = maps \cup {r} /\ GoOn(w, {})
           /\ UNCHANGED <<refused, faults>>
  <2>1. /\ Grows /\ maps' \subseteq Records /\ refused' \subseteq Records
        /\ faults' \in 0 .. MaxFaults /\ r \in maps'
    BY <1>2, <1>4, <1>6 DEF Grows
  <2>2. ASSUME NEW s \in State, run' = [run EXCEPT ![w] = s]
        PROVE  Debts'
    <3>1. Owing' \subseteq Owing
      BY <1>2, <1>3, <1>6, <2>1, <2>2, OwingStays DEF IInv
    <3> QED  BY <1>4, <1>6, <2>1, <3>1, DebtsFewer DEF IInv
  <2>3. {} \in SUBSET Records
    OBVIOUS
  <2> QED  BY <1>1, <1>2, <1>3, <1>4, <1>6, <2>1, <2>2, <2>3, GoesOn
<1>7. CASE r \in maps /\ Refuse(w, r) /\ UNCHANGED <<maps, faults>>
  <2>1. /\ Grows /\ maps' \subseteq Records /\ refused' \subseteq Records
        /\ faults' \in 0 .. MaxFaults /\ r \in refused' /\ GoOn(w, {r})
    BY <1>2, <1>4, <1>7 DEF Refuse, Grows
  <2>2. Debts'
    BY <1>2, <1>5, <1>7 DEF Debts
  <2>3. {r} \in SUBSET Records
    OBVIOUS
  <2> QED  BY <1>1, <1>2, <1>3, <1>4, <2>1, <2>2, <2>3, GoesOn
<1>8. CASE /\ faults < MaxFaults /\ faults' = faults + 1 /\ Refuse(w, r) /\ UNCHANGED maps
  <2>1. /\ Grows /\ maps' \subseteq Records /\ refused' \subseteq Records
        /\ faults' \in 0 .. MaxFaults /\ r \in refused' /\ GoOn(w, {r})
    BY <1>2, <1>4, <1>8, FaultsAssumption DEF Refuse, Grows
  <2>2. ASSUME NEW s \in State, run' = [run EXCEPT ![w] = s]
        PROVE  Debts'
    <3>1. PICK x : x = <<Record(w), 1>>
      OBVIOUS
    <3>2. Owing' \subseteq Owing \cup {x}
      BY <1>2, <1>8, <2>2, <3>1, OwingStays DEF IInv
    <3> QED  BY <1>8, <2>1, <3>2, DebtsMore DEF IInv
  <2>3. {r} \in SUBSET Records
    OBVIOUS
  <2> QED  BY <1>1, <1>2, <1>3, <1>4, <2>1, <2>2, <2>3, GoesOn
<1> QED  BY <1>3, <1>6, <1>7, <1>8 DEF MapRecord

LEMMA SaveStep ==
  ASSUME IInv, NEW w \in Runs, Save(w)
  PROVE  IInv'
<1>1. /\ Working(w) /\ run[w] # Idle /\ job # NoJob /\ job \in Job /\ Short(job.cursor)
      /\ run[w].pc = "save"
  BY AtWork DEF Save
<1>2. /\ UNCHANGED <<maps, stored, refused, request, overlapped, crashed, faults>>
      /\ maps' \subseteq Records /\ refused' \subseteq Records /\ stored' \in [Records -> Nat]
      /\ overlapped' \in BOOLEAN /\ crashed' \in BOOLEAN /\ faults' \in 0 .. MaxFaults
      /\ faults \in Nat /\ Grows
  BY DEF Save, data, hist, IInv, Base, TypeOK, Grows
<1>3. PICK old \in Within : old = run[w] /\ RunCovered(old) /\ Place(old) /\ old.pc = "save"
  BY <1>1, AtPlace DEF IInv, Base, Coverage, Stages
<1>4. /\ old.type \in Types /\ old.page \in DOMAIN Pages[old.type] /\ Short(old.cursor)
      /\ old.cursor \in [Types -> Nat] /\ old.errors \in SUBSET Records /\ old.page \in Nat
  BY <1>3 DEF Place, Within
<1>5. PICK cursor, errors : cursor = Advanced(w) /\ errors = old.errors
  OBVIOUS
<1>6. /\ cursor \in [Types -> Nat] /\ Short(cursor)
      /\ \A i \in Types : cursor[i] = old.cursor[i] \/ (i = old.type /\ cursor[i] = old.page)
  <2>1. CASE old.page = Len(Pages[old.type])
    BY <1>3, <1>4, <1>5, <2>1 DEF Advanced, IsLast
  <2>2. CASE old.page # Len(Pages[old.type])
    <3>1. cursor = [old.cursor EXCEPT ![old.type] = old.page]
      BY <1>3, <1>5, <2>2 DEF Advanced, IsLast
    <3>2. old.page < Len(Pages[old.type])
      BY <1>4, <2>2, PagesTyped
    <3> QED  BY <1>4, <3>1, <3>2 DEF Short
  <2> QED  BY <2>1, <2>2
<1>7. /\ job' = [job EXCEPT !.cursor = cursor, !.errors = errors]
      /\ run' = [run EXCEPT ![w] = [old EXCEPT !.pc = "batch", !.cursor = cursor]]
  BY <1>3, <1>5 DEF Save
<1>8. /\ job' \in Job /\ job'.cursor = cursor /\ job'.errors = errors
      /\ job'.status = job.status
  BY <1>1, <1>4, <1>5, <1>6, <1>7 DEF Job
<1>9. PICK s : s = [old EXCEPT !.pc = "batch", !.cursor = cursor]
  OBVIOUS
<1>10. Like(old, s, "batch", old.page, old.at, cursor, old.errors)
  BY <1>6, <1>9, UpdatedCursor DEF Stages
<1>11. s \in Within /\ s \in State /\ s \notin Between
  BY <1>10, RunFields DEF Like
<1>12. Place(s)
  BY <1>3, <1>4, <1>6, <1>10, <1>11 DEF Place, Like
<1>13. /\ \A i \in Types : i < old.type => Finished(i, errors)'
       /\ Behind(old.cursor, errors)'
       /\ \A p \in DOMAIN Pages[old.type] : p < old.page => Covers(old.type, p, errors)'
       /\ Covers(old.type, old.page, errors)'
  BY <1>2, <1>3, <1>5, Stays DEF RunCovered
<1>14. Behind(cursor, errors)'
  <2> SUFFICES ASSUME NEW i \in Types, NEW p \in DOMAIN Pages[i], p <= cursor[i]
               PROVE  Covers(i, p, errors)'
    BY DEF Behind
  <2>1. CASE cursor[i] = old.cursor[i]
    BY <1>13, <2>1 DEF Behind
  <2>2. CASE i = old.type /\ cursor[i] = old.page
    <3>1. p < old.page \/ p = old.page
      BY <1>4, <2>2, PagesTyped
    <3> QED  BY <1>13, <2>2, <3>1
  <2> QED  BY <1>6, <2>1, <2>2
<1>15. RunCovered(s)'
  BY <1>5, <1>8, <1>10, <1>11, <1>13, <1>14 DEF RunCovered, Like
<1>16. JobCovered'
  <2>1. ASSUME job.status = "completed", NEW i \in Types
        PROVE  Finished(i, errors)'
    <3>1. PICK e : e = job.errors
      OBVIOUS
    <3>2. Finished(i, e)
      BY <1>1, <2>1, <3>1 DEF IInv, Coverage, JobCovered
    <3>3. overlapped' \/ e \subseteq errors
      BY <1>2, <1>3, <1>5, <3>1 DEF RunCovered
    <3> QED  BY <1>2, <3>2, <3>3, Stays
  <2>2. Behind(job.cursor, job.errors)'
    BY <1>8, <1>14
  <2>3. (job.status = "completed" => \A i \in Types : Finished(i, job.errors))'
    BY <1>8, <2>1
  <2> QED  BY <2>2, <2>3 DEF JobCovered
<1>17. Debts'
  <2>1. Owing' \subseteq Owing
    BY <1>1, <1>2, <1>7, <1>9, <1>11, OwingStays DEF IInv
  <2> QED  BY <1>2, <2>1, DebtsFewer DEF IInv
<1>18. /\ Short(job'.cursor) /\ run' = [run EXCEPT ![w] = s] /\ s.pc = "batch"
  BY <1>6, <1>7, <1>8, <1>9, <1>10 DEF Like
<1> QED  BY <1>1, <1>2, <1>8, <1>11, <1>12, <1>15, <1>16, <1>17, <1>18, RunMoves

LEMMA CheckBatchStep ==
  ASSUME IInv, NEW w \in Runs, CheckBatch(w)
  PROVE  IInv'
<1>1. Working(w) /\ run[w].pc # "map" /\ UNCHANGED <<job, data, request, hist>>
  BY AtWork DEF CheckBatch
<1>2. PICK old \in Within : old = run[w] /\ RunCovered(old) /\ Place(old) /\ old.pc = "batch"
  BY AtPlace DEF IInv, Base, Coverage, Stages, CheckBatch
<1>3. /\ old.type \in Types /\ old.page \in DOMAIN Pages[old.type] /\ Short(old.cursor)
      /\ old.page \in Nat
  BY <1>2 DEF Place, Within
<1>4. CASE job.status \in Stopped
  <2>1. run' = [run EXCEPT ![w] = Idle] /\ Idle \in Outside /\ Idle.pc = "idle"
    BY <1>4 DEF CheckBatch, Idle, Outside
  <2> QED  BY <1>1, <2>1, OutsideRun, ReadsOnly
<1>5. CASE job.status \notin Stopped /\ old.page = Len(Pages[old.type])
  <2>1. PICK type : type = old.type + 1
    OBVIOUS
  <2>2. run' = [run EXCEPT ![w] = [pc |-> "check", type |-> type]]
    BY <1>2, <1>5, <2>1 DEF CheckBatch, IsLast
  <2>3. PICK s : s = [pc |-> "check", type |-> type]
    OBVIOUS
  <2>4. type \in 1 .. Len(Pages) + 1
    BY <1>3, <2>1, PagesTyped
  <2>5. s \in Between /\ s \in State /\ s \notin Within /\ s.pc = "check" /\ s.type = type
    BY <2>3, <2>4, BetweenRun
  <2>6. Place(s)
    BY <2>5 DEF Place
  <2>7. ASSUME NEW i \in Types, i < type
        PROVE  Finished(i, old.errors)
    <3>1. CASE i < old.type
      BY <1>2, <3>1 DEF RunCovered
    <3>2. CASE i = old.type
      <4>1. \A p \in DOMAIN Pages[i] : p < old.page \/ p = old.page
        BY <1>3, <1>5, <3>2, PagesTyped
      <4> QED  BY <1>2, <3>2, <4>1 DEF RunCovered, Finished
    <3>3. i < old.type \/ i = old.type
      BY <1>3, <2>1, <2>7, PagesTyped
    <3> QED  BY <3>1, <3>2, <3>3
  <2>8. overlapped \/ old.errors = job.errors
    BY <1>2 DEF RunCovered
  <2>9. \A i \in Types : i < type => Finished(i, job.errors)
    BY <2>7, <2>8 DEF Finished, Covers, Accounted
  <2>10. RunCovered(s)
    BY <2>5, <2>9 DEF RunCovered
  <2> QED  BY <1>1, <2>2, <2>3, <2>5, <2>6, <2>10, ReadsOnly
<1>6. CASE job.status \notin Stopped /\ old.page # Len(Pages[old.type])
  <2>1. PICK page : page = old.page + 1
    OBVIOUS
  <2>2. run' = [run EXCEPT ![w] = [old EXCEPT !.pc = "extract", !.page = page, !.at = 1]]
    BY <1>2, <1>6, <2>1 DEF CheckBatch, IsLast
  <2>3. PICK s : s = [old EXCEPT !.pc = "extract", !.page = page, !.at = 1]
    OBVIOUS
  <2>4. Like(old, s, "extract", page, 1, old.cursor, old.errors)
    <3>1. page \in Nat /\ 1 \in Nat /\ "extract" \in Stages
      BY <1>3, <2>1 DEF Stages
    <3> QED  BY <2>3, <3>1, UpdatedPage
  <2>5. s \in Within /\ s \in State /\ s \notin Between /\ s.pc = "extract"
    BY <2>4, RunFields DEF Like
  <2>6. page \in DOMAIN Pages[old.type]
    BY <1>3, <1>6, <2>1, PagesTyped
  <2>7. Place(s)
    BY <1>3, <2>4, <2>5, <2>6 DEF Place, Like
  <2>8. \A p \in DOMAIN Pages[old.type] : p < page => p < old.page \/ p = old.page
    BY <1>3, <2>1, PagesTyped
  <2>9. RunCovered(s)
    BY <1>2, <2>4, <2>5, <2>8 DEF RunCovered, Like
  <2> QED  BY <1>1, <2>2, <2>3, <2>5, <2>7, <2>9, ReadsOnly
<1> QED  BY <1>4, <1>5, <1>6

\* Both ends of a run: it writes the status alone.
LEMMA EndStep ==
  ASSUME IInv, NEW w \in Runs, Complete(w) \/ Fail(w)
  PROVE  IInv'
<1>1. /\ Working(w) /\ run[w] # Idle /\ job # NoJob /\ job \in Job /\ Short(job.cursor)
      /\ run[w].pc \in {"complete", "fail"}
  BY AtWork DEF Complete, Fail
<1>2. /\ UNCHANGED <<maps, stored, refused, request, overlapped, crashed, faults>>
      /\ maps' \subseteq Records /\ refused' \subseteq Records /\ stored' \in [Records -> Nat]
      /\ overlapped' \in BOOLEAN /\ crashed' \in BOOLEAN /\ faults' \in 0 .. MaxFaults
      /\ faults \in Nat /\ Grows /\ run' = [run EXCEPT ![w] = Idle]
  BY DEF Complete, Fail, data, hist, IInv, Base, TypeOK, Grows
<1>3. /\ job' \in Job /\ job'.cursor = job.cursor /\ job'.errors = job.errors
      /\ job'.status = IF run[w].pc = "complete" THEN "completed" ELSE "failed"
  BY <1>1, StatusNames DEF Complete, Fail, Job
<1>4. /\ Idle \in State /\ Place(Idle) /\ RunCovered(Idle)' /\ Idle.pc = "idle"
  <2>1. Idle \in Outside /\ Idle.pc = "idle"
    BY DEF Idle, Outside
  <2> QED  BY <2>1, OutsideRun, OutsideRunNext
<1>5. JobCovered'
  <2>1. CASE run[w].pc = "fail"
    <3>1. job'.status # "completed"
      BY <1>3, <2>1
    <3> QED  BY <1>1, <1>2, <1>3, <3>1, JobStays DEF IInv, Base, Coverage
  <2>2. CASE run[w].pc = "complete"
    <3>1. PICK old \in State : old = run[w] /\ RunCovered(old) /\ Place(old)
      BY AtPlace DEF IInv, Base, Coverage
    <3>2. old \in Between /\ old.type = Len(Pages) + 1
      BY <2>2, <3>1, RunFields, PagesTyped DEF Place
    <3>3. PICK e, c : e = job.errors /\ c = job.cursor
      OBVIOUS
    <3>4. \A i \in Types : Finished(i, e)
      BY <3>1, <3>2, <3>3, PagesTyped DEF RunCovered
    <3>5. Behind(c, e)
      BY <1>1, <3>3 DEF IInv, Coverage, JobCovered
    <3>6. Behind(c, e)' /\ \A i \in Types : Finished(i, e)'
      BY <1>2, <3>4, <3>5, Stays
    <3>7. job'.errors = e /\ job'.cursor = c
      BY <1>3, <3>3
    <3> QED  BY <3>6, <3>7 DEF JobCovered
  <2> QED  BY <1>1, <2>1, <2>2
<1>6. Debts'
  <2>1. Owing' \subseteq Owing
    BY <1>1, <1>2, <1>4, OwingStays DEF IInv
  <2> QED  BY <1>2, <2>1, DebtsFewer DEF IInv
<1>7. Short(job'.cursor)
  BY <1>1, <1>3
<1> QED  BY <1>1, <1>2, <1>3, <1>4, <1>5, <1>6, <1>7, RunMoves

\* Both sudden ends: an exception, and the death of the process.
LEMMA BreakStep ==
  ASSUME IInv, NEW w \in Runs, Throw(w) \/ Crash(w)
  PROVE  IInv'
<1>1. /\ run[w] # Idle /\ UNCHANGED <<job, data, request, overlapped>>
      /\ faults < MaxFaults /\ faults' = faults + 1
  BY DEF Throw, Crash, Working, Idle
<1>2. PICK s \in Outside : run' = [run EXCEPT ![w] = s] /\ (s.pc \in {"idle", "load"} \/ Working(w))
  <2>1. Idle \in Outside /\ Queued \in Outside /\ [pc |-> "fail"] \in Outside
    BY DEF Idle, Queued, Outside
  <2> QED  BY <2>1 DEF Throw, Crash, Idle, Queued
<1>3. s \in State /\ Place(s) /\ RunCovered(s) /\ s.pc \notin {"persist", "map"}
  BY OutsideRun DEF Outside
<1>4. /\ overlapped' \in BOOLEAN /\ crashed' \in BOOLEAN /\ faults' \in 0 .. MaxFaults
      /\ overlapped => overlapped'
  <2>1. overlapped \in BOOLEAN /\ crashed \in BOOLEAN /\ faults \in 0 .. MaxFaults
    BY DEF IInv, Base, TypeOK
  <2>2. faults' \in 0 .. MaxFaults
    BY <1>1, <2>1, FaultsAssumption
  <2>3. crashed' \in BOOLEAN
    BY <2>1 DEF Throw, Crash
  <2> QED  BY <1>1, <2>1, <2>2, <2>3
<1> QED  BY <1>1, <1>2, <1>3, <1>4, RunReads

-----------------------------------------------------------------------------
(* The steps of a handler *)

LEMMA HandlerMoves ==
  ASSUME IInv, NEW q \in Requests, NEW h \in Handler, request' = [request EXCEPT ![q] = h],
         \/ run' = run
         \/ \E w \in Runs : run[w] = Idle /\ run' = [run EXCEPT ![w] = Queued],
         job # NoJob, job' \in Job, job'.cursor = job.cursor, job'.errors = job.errors,
         job'.status = job.status \/ job'.status # "completed",
         UNCHANGED <<maps, stored, refused, overlapped>>,
         crashed' \in BOOLEAN, faults' \in 0 .. MaxFaults, faults <= faults'
  PROVE  IInv'
<1>1. /\ run' \in [Runs -> State]
      /\ \A v \in Runs : run'[v] = run[v] \/ (run[v] = Idle /\ run'[v] = Queued)
  <2>1. Queued \in State /\ run \in [Runs -> State]
    BY DEF Queued, State, Outside, IInv, Base, TypeOK
  <2> QED  BY <2>1
<1>2. Idle \in Outside /\ Queued \in Outside /\ Idle.pc = "idle" /\ Queued.pc = "load"
  BY DEF Idle, Queued, Outside
<1>3. \A v \in Runs : Working(v)' <=> Working(v)
  BY <1>1, <1>2 DEF Working
<1>4. \A v \in Runs : run'[v].pc \notin {"idle", "load"} => run'[v] = run[v]
  BY <1>1, <1>2
<1>5. \A v \in Runs : run[v].pc \notin {"idle", "load"} => run'[v] = run[v]
  BY <1>1, <1>2
<1>6. Grows
  BY DEF Grows
<1>7. Base'
  <2>1. request' \in [Requests -> Handler]
    BY DEF IInv, Base, TypeOK
  <2>2. \A v \in Runs : Place(run[v])'
    <3> SUFFICES ASSUME NEW v \in Runs PROVE Place(run[v])'
      OBVIOUS
    <3>1. CASE run'[v] = run[v]
      BY <3>1 DEF IInv, Base, TypeOK, Place, Short
    <3>2. CASE run'[v] = Queued
      <4>1. run'[v] \notin Between /\ run'[v] \notin Within
        BY <1>2, <3>2 DEF Between, Within
      <4> QED  BY <4>1 DEF Place
    <3> QED  BY <1>1, <3>1, <3>2
  <2>3. Short(job'.cursor)
    BY DEF IInv, Base, TypeOK
  <2>4. TypeOK'
    BY <1>1, <2>1, <2>2, <2>3 DEF IInv, Base, TypeOK, State, Short
  <2>5. Nobody'
    BY NoJobApart DEF Nobody
  <2>6. Serial'
    BY <1>3 DEF IInv, Base, Serial
  <2> QED  BY <2>4, <2>5, <2>6 DEF Base
<1>8. Coverage'
  <2>1. JobCovered'
    BY <1>6, JobStays DEF IInv, Base, Coverage
  <2>2. ASSUME NEW v \in Runs
        PROVE  RunCovered(run[v])'
    <3>1. PICK t \in State : t = run'[v]
      BY <1>1
    <3>2. CASE run'[v] = run[v]
      BY <1>6, <3>1, <3>2, RunStays DEF IInv, Coverage
    <3>3. CASE run'[v] = Queued
      BY <1>2, <3>1, <3>3, OutsideRunNext
    <3> QED  BY <1>1, <3>2, <3>3
  <2> QED  BY <2>1, <2>2 DEF Coverage
<1>9. \A v \in Runs : run'[v].pc \in {"persist", "map"} =>
                        run[v].pc = run'[v].pc /\ Record(v)' = Record(v)
  BY <1>4 DEF Record, Page
<1>10. Unmapped'
  BY <1>9 DEF IInv, Unmapped
<1>11. \A v \in Runs : run[v].pc = "map" => run'[v].pc = "map" /\ Record(v)' = Record(v)
  BY <1>5 DEF Record, Page
<1>12. Owing' \subseteq Owing
  <2>1. \A r \in Records, k \in Nat : Owed(r, k)' => Owed(r, k)
    BY <1>11 DEF Owed
  <2> QED  BY <2>1 DEF Owing
<1>13. Debts'
  BY <1>6, <1>12, DebtsFewer DEF IInv
<1> QED  BY <1>7, <1>8, <1>10, <1>13 DEF IInv

LEMMA StartStep ==
  ASSUME IInv, NEW q \in Requests, Start(q)
  PROVE  IInv'
<1>1. /\ job = NoJob /\ request' = [request EXCEPT ![q] = [pc |-> "dispatch"]]
      /\ UNCHANGED <<maps, stored, refused, run, overlapped, crashed, faults>>
  BY DEF Start, data, hist
<1>2. PICK cursor : cursor = [i \in Types |-> 0]
  OBVIOUS
<1>3. job' = [status |-> "mapping", credentials |-> TRUE, cursor |-> cursor, errors |-> {}]
  BY <1>2 DEF Start
<1>4. cursor \in [Types -> Nat] /\ Short(cursor)
  BY <1>2, PagesTyped DEF Short
<1>5. job' \in Job /\ job'.status = "mapping" /\ job'.cursor = cursor /\ job'.errors = {}
  BY <1>3, <1>4, StatusNames DEF Job
<1>6. \A w \in Runs : run'[w] = Idle /\ run[w] = Idle
  BY <1>1 DEF IInv, Base, Nobody
<1>7. Idle \in Outside /\ Idle.pc = "idle"
  BY DEF Idle, Outside
<1>8. TypeOK'
  <2>1. [pc |-> "dispatch"] \in Handler
    BY DEF Handler
  <2>2. request' \in [Requests -> Handler]
    BY <1>1, <2>1 DEF IInv, Base, TypeOK
  <2>3. \A w \in Runs : Place(run[w])'
    BY <1>1 DEF IInv, Base, TypeOK, Place, Short
  <2>4. (job # NoJob => Short(job.cursor))' /\ (job \in Job \cup {NoJob})'
    BY <1>4, <1>5 DEF Short
  <2> QED  BY <1>1, <2>2, <2>3, <2>4 DEF IInv, Base, TypeOK
<1>9. Nobody' /\ Serial'
  BY <1>1, <1>5, NoJobApart DEF IInv, Base, Nobody, Serial, Working
<1>10. JobCovered'
  <2>1. \A i \in Types : \A p \in DOMAIN Pages[i] : ~(p <= cursor[i])
    BY <1>2, PagesTyped
  <2>2. Behind(job.cursor, job.errors)'
    BY <1>5, <2>1 DEF Behind
  <2> QED  BY <1>5, <2>2 DEF JobCovered
<1>11. Coverage'
  <2>1. ASSUME NEW w \in Runs PROVE RunCovered(run[w])'
    <3>1. run'[w] \notin Between /\ run'[w] \notin Within
      BY <1>6, <1>7 DEF Between, Within
    <3> QED  BY <3>1 DEF RunCovered
  <2> QED  BY <1>10, <2>1 DEF Coverage
<1>12. Unmapped'
  BY <1>6, <1>7 DEF Unmapped
<1>13. Debts'
  <2>1. \A r \in Records, k \in Nat : Owed(r, k)' => Owed(r, k)
    BY <1>1, <1>6, <1>7 DEF Owed
  <2>2. Owing' \subseteq Owing
    BY <2>1 DEF Owing
  <2>3. Grows /\ faults' = faults /\ faults \in Nat
    BY <1>1 DEF Grows, IInv, Base, TypeOK
  <2> QED  BY <2>2, <2>3, DebtsFewer DEF IInv
<1> QED  BY <1>8, <1>9, <1>11, <1>12, <1>13 DEF IInv, Base

LEMMA AskStep ==
  ASSUME IInv, NEW q \in Requests, Pause(q) \/ Resume(q) \/ Cancel(q)
  PROVE  IInv'
<1>1. /\ job # NoJob /\ job \in Job /\ faults \in 0 .. MaxFaults /\ faults <= faults
      /\ crashed \in BOOLEAN
  <2>1. job # NoJob
    BY DEF Pause, Resume, Cancel
  <2>2. job \in Job
    BY <2>1, JobFields DEF IInv, Base
  <2>3. faults \in 0 .. MaxFaults /\ crashed \in BOOLEAN
    BY DEF IInv, Base, TypeOK
  <2>4. faults <= faults
    BY <2>3
  <2> QED  BY <2>1, <2>2, <2>3, <2>4
<1>2. UNCHANGED <<job, maps, stored, refused, run, overlapped, crashed, faults>>
  BY DEF Pause, Resume, Cancel, Ask, data, hist
<1>3. PICK h \in Handler : request' = [request EXCEPT ![q] = h]
  <2>1. \A status \in {"mapping", "paused", "failed"}, keep, dispatch \in BOOLEAN :
          Writing(status, keep, dispatch) \in Handler
    BY DEF Writing, Handler
  <2>2. CASE Pause(q)
    BY <2>1, <2>2 DEF Pause, Ask
  <2>3. CASE Resume(q)
    <3>1. (IF job.status = "failed" THEN "mapping" ELSE job.status) \in {"mapping", "paused"}
      BY <2>3 DEF Resume, Stopped
    <3> QED  BY <2>1, <2>3, <3>1 DEF Resume, Ask
  <2>4. CASE Cancel(q)
    BY <2>1, <2>4 DEF Cancel, Ask
  <2> QED  BY <2>2, <2>3, <2>4
<1> QED  BY <1>1, <1>2, <1>3, HandlerMoves

LEMMA WriteStep ==
  ASSUME IInv, NEW q \in Requests, Write(q)
  PROVE  IInv'
<1>1. PICK old \in Handler : old = request[q] /\ old.pc = "write"
  BY DEF Write, IInv, Base, TypeOK
<1>2. /\ old.status \in {"mapping", "paused", "failed"} /\ old.keep \in BOOLEAN
      /\ old.dispatch \in BOOLEAN
  BY <1>1 DEF Handler
<1>3. job # NoJob /\ job \in Job /\ job.credentials \in BOOLEAN
  <2>1. request[q] \notin {Ready, Done}
    BY <1>1 DEF Ready, Done
  <2>2. job # NoJob
    BY <2>1 DEF IInv, Base, Nobody
  <2> QED  BY <2>2, JobFields DEF IInv, Base
<1>4. PICK kept \in BOOLEAN : job' = [job EXCEPT !.status = old.status, !.credentials = kept]
  BY <1>1, <1>2, <1>3 DEF Write
<1>5. /\ job' \in Job /\ job'.cursor = job.cursor /\ job'.errors = job.errors
      /\ job'.status = old.status
  BY <1>2, <1>3, <1>4, StatusNames DEF Job
<1>6. PICK h \in Handler : request' = [request EXCEPT ![q] = h]
  <2>1. [pc |-> "dispatch"] \in Handler /\ Done \in Handler
    BY DEF Handler, Done
  <2> QED  BY <2>1 DEF Write
<1>7. /\ UNCHANGED <<maps, stored, refused, run, overlapped, crashed, faults>>
      /\ crashed' \in BOOLEAN /\ faults' \in 0 .. MaxFaults /\ faults <= faults'
  BY DEF Write, data, hist, IInv, Base, TypeOK
<1> QED  BY <1>2, <1>3, <1>5, <1>6, <1>7, HandlerMoves

LEMMA RestStep ==
  ASSUME IInv, NEW q \in Requests, Dispatch(q) \/ Drop(q)
  PROVE  IInv'
<1>1. Done \in Handler /\ request' = [request EXCEPT ![q] = Done]
  BY DEF Handler, Done, Dispatch, Drop
<1>2. job # NoJob /\ job \in Job
  <2>1. request[q] \notin {Ready, Done}
    BY DEF Ready, Done, Dispatch, Drop
  <2>2. job # NoJob
    BY <2>1 DEF IInv, Base, Nobody
  <2> QED  BY <2>2, JobFields DEF IInv, Base
<1>3. UNCHANGED <<job, maps, stored, refused, overlapped>>
  BY DEF Dispatch, Drop, data, hist
<1>4. faults \in 0 .. MaxFaults /\ crashed \in BOOLEAN /\ faults \in Nat /\ MaxFaults \in Nat
  BY FaultsAssumption DEF IInv, Base, TypeOK
<1>5. crashed' \in BOOLEAN /\ faults' \in 0 .. MaxFaults /\ faults <= faults'
  <2>1. crashed' \in BOOLEAN
    BY <1>4 DEF Dispatch, Drop, hist
  <2>2. faults' = faults \/ (faults < MaxFaults /\ faults' = faults + 1)
    BY DEF Dispatch, Drop, hist
  <2> QED  BY <1>4, <2>1, <2>2
<1>6. \/ run' = run
      \/ \E w \in Runs : run[w] = Idle /\ run' = [run EXCEPT ![w] = Queued]
  BY DEF Dispatch, Drop, data
<1> QED  BY <1>1, <1>2, <1>3, <1>5, <1>6, HandlerMoves

-----------------------------------------------------------------------------
(* The theorems *)

LEMMA InitHolds == Init => IInv
<1> SUFFICES ASSUME Init PROVE IInv
  OBVIOUS
<1>1. /\ job = NoJob /\ maps = {} /\ refused = {} /\ stored = [r \in Records |-> 0]
      /\ run = [w \in Runs |-> Idle] /\ request = [q \in Requests |-> Ready]
      /\ overlapped = FALSE /\ crashed = FALSE /\ faults = 0
  BY DEF Init
<1>2. Idle \in Outside /\ Ready \in Handler /\ Idle.pc = "idle"
  BY DEF Idle, Outside, Ready, Handler
<1>3. \A w \in Runs : run[w] = Idle /\ Place(run[w]) /\ RunCovered(run[w])
  BY <1>1, <1>2, OutsideRun
<1>4. TypeOK
  <2>1. run \in [Runs -> Outside \cup Between \cup Within] /\ request \in [Requests -> Handler]
    BY <1>1, <1>2
  <2>2. stored \in [Records -> Nat] /\ faults \in 0 .. MaxFaults
    BY <1>1, FaultsAssumption
  <2> QED  BY <1>1, <1>3, <2>1, <2>2 DEF TypeOK
<1>5. Nobody /\ Serial
  BY <1>1, <1>2 DEF Nobody, Serial, Working
<1>6. Coverage
  BY <1>1, <1>3 DEF Coverage, JobCovered
<1>7. Unmapped
  BY <1>2, <1>3 DEF Unmapped
<1>8. Owing = {}
  <2>1. \A r \in Records, k \in Nat : ~Owed(r, k)
    BY <1>1 DEF Owed
  <2> QED  BY <2>1 DEF Owing
<1>9. Debts
  <2>1. IsFiniteSet(Owing) /\ Cardinality(Owing) = 0
    BY <1>8, FS_EmptySet
  <2> QED  BY <1>1, <2>1 DEF Debts
<1> QED  BY <1>4, <1>5, <1>6, <1>7, <1>9 DEF IInv, Base

LEMMA NextKeeps == IInv /\ [Next]_vars => IInv'
<1> SUFFICES ASSUME IInv, [Next]_vars PROVE IInv'
  OBVIOUS
<1>1. CASE UNCHANGED vars
  <2>1. /\ UNCHANGED <<job, maps, stored, run, request, refused, overlapped, crashed, faults>>
    BY <1>1 DEF vars
  <2>2. Base'
    BY <2>1 DEF IInv, Base, TypeOK, Nobody, Serial, Working, Place, Short
  <2>3. Coverage'
    <3>1. Grows /\ JobCovered'
      BY <2>1, JobStays DEF Grows, IInv, Base, Coverage
    <3>2. ASSUME NEW w \in Runs PROVE RunCovered(run[w])'
      <4>1. PICK s \in State : s = run[w]
        BY AtPlace DEF IInv, Base
      <4> QED  BY <2>1, <3>1, <4>1, RunStays DEF IInv, Coverage
    <3> QED  BY <3>1, <3>2 DEF Coverage
  <2>4. Unmapped'
    BY <2>1 DEF IInv, Unmapped, Record, Page
  <2>5. Debts'
    <3>1. Owing' \subseteq Owing
      BY <2>1 DEF Owing, Owed, Record, Page
    <3>2. Grows /\ faults' = faults /\ faults \in Nat
      BY <2>1 DEF Grows, IInv, Base, TypeOK
    <3> QED  BY <3>1, <3>2, DebtsFewer DEF IInv
  <2> QED  BY <2>2, <2>3, <2>4, <2>5 DEF IInv
<1>2. ASSUME NEW w \in Runs, RunStep(w) \/ Throw(w) \/ Crash(w)
      PROVE  IInv'
  BY <1>2, LoadStep, BeginStep, CheckStep, OpenStep, ExtractStep, ResolveStep, PersistStep,
     MapRecordStep, SaveStep, CheckBatchStep, EndStep, BreakStep DEF RunStep
<1>3. ASSUME NEW q \in Requests,
             Start(q) \/ Pause(q) \/ Resume(q) \/ Cancel(q) \/ Handle(q) \/ Drop(q)
      PROVE  IInv'
  BY <1>3, StartStep, AskStep, WriteStep, RestStep DEF Handle
<1> QED  BY <1>1, <1>2, <1>3 DEF Next

LEMMA Invariance == Spec => []IInv
BY InitHolds, NextKeeps, PTL DEF Spec

\* Rows, runs and handlers are well formed: whatever cursors a run starts from, it is at
\* a page and a record of the source (ImportJobService.importEntityType).
THEOREM TypeInvariant == Spec => []TypeOK
<1>1. IInv => TypeOK
  BY DEF IInv, Base
<1> QED  BY <1>1, Invariance, PTL

\* A completed import has every record of the source mapped or refused, and every crash
\* or failed statement costs at most one repeated record while runs do not overlap
\* (ImportJobService.run).
THEOREM AllImportedAndOnce == Spec => []RecordsImported
<1>1. ASSUME IInv
      PROVE  ImportedOncePerFault
  <2> SUFFICES ASSUME ~overlapped PROVE Cardinality(Surplus) <= faults
    BY DEF ImportedOncePerFault
  <2>1. IsFiniteSet(Owing) /\ Cardinality(Owing) <= faults
    BY <1>1 DEF IInv, Debts
  <2>2. Surplus \subseteq Owing
    <3> SUFFICES ASSUME NEW p \in Surplus PROVE p \in Owing
      OBVIOUS
    <3>1. PICK r \in Records : p \in {r} \X (2 .. stored[r])
      BY DEF Surplus
    <3>2. PICK k \in 2 .. stored[r] : p = <<r, k>>
      BY <3>1
    <3>3. k \in Nat /\ Owed(r, k)
      BY <1>1, <3>2 DEF Owed, IInv, Base, TypeOK
    <3> QED  BY <3>2, <3>3 DEF Owing
  <2>3. IsFiniteSet(Surplus) /\ Cardinality(Surplus) <= Cardinality(Owing)
    BY <2>1, <2>2, FS_Subset
  <2>4. Cardinality(Surplus) \in Nat /\ Cardinality(Owing) \in Nat /\ faults \in Nat
    BY <1>1, <2>1, <2>3, FS_CardinalityType DEF IInv, Base, TypeOK
  <2> QED  BY <2>1, <2>3, <2>4
<1>2. ASSUME IInv
      PROVE  CompletedLostNothing
  <2> SUFFICES ASSUME job # NoJob, job.status = "completed", NEW i \in Types,
                      NEW p \in DOMAIN Pages[i], NEW k \in DOMAIN Pages[i][p]
               PROVE  Accounted(Pages[i][p][k], job.errors)
    BY DEF CompletedLostNothing, Accounted
  <2>1. Finished(i, job.errors)
    BY <1>2 DEF IInv, Coverage, JobCovered
  <2> QED  BY <2>1 DEF Finished, Covers
<1>3. IInv => RecordsImported
  BY <1>1, <1>2 DEF RecordsImported
<1> QED  BY <1>3, Invariance, PTL

\* A pause or a cancellation is undone only by who had the job in hand: a request, a run
\* that had read it before, or one past its last check.
THEOREM StopUndoneInHand == Spec => StopUndoneOnlyInHand
<1> DEFINE ByRun == \E w \in Runs : run[w].pc \in {"begin", "complete"} /\ run'[w] # run[w]
           ByRequest == \E q \in Requests : request[q].pc = "write" /\ request'[q] # request[q]
           Undone == (job # NoJob /\ job.status \in Stopped /\ job'.status \notin Stopped)
                       => ByRun \/ ByRequest
<1>1. ASSUME TypeOK, [Next]_vars
      PROVE  Undone
  <2> SUFFICES ASSUME job # NoJob, job.status \in Stopped, job'.status \notin Stopped
               PROVE  ByRun \/ ByRequest
    OBVIOUS
  <2>1. job \in Job /\ "failed" \in Stopped /\ job' # job
    BY <1>1, JobFields DEF Stopped
  <2>2. ASSUME NEW w \in Runs, Begin(w) \/ Complete(w)
        PROVE  ByRun
    <3>1. PICK s : run' = [run EXCEPT ![w] = s] /\ s.pc \in {"check", "idle"}
      <4>1. Idle.pc = "idle" /\ [pc |-> "check", type |-> 1].pc = "check"
        BY DEF Idle
      <4>2. CASE Begin(w)
        <5>1. run' = [run EXCEPT ![w] = [pc |-> "check", type |-> 1]]
          BY <4>2 DEF Begin
        <5> QED  BY <4>1, <5>1
      <4>3. CASE Complete(w)
        <5>1. run' = [run EXCEPT ![w] = Idle]
          BY <4>3 DEF Complete
        <5> QED  BY <4>1, <5>1
      <4> QED  BY <2>2, <4>2, <4>3
    <3>2. run'[w] = s
      BY <1>1, <3>1 DEF TypeOK
    <3>3. run[w].pc \in {"begin", "complete"}
      BY <2>2 DEF Begin, Complete
    <3>4. s # run[w]
      BY <3>1, <3>3
    <3> QED  BY <3>2, <3>3, <3>4
  <2>3. ASSUME NEW q \in Requests, Write(q)
        PROVE  ByRequest
    <3>1. PICK h : request' = [request EXCEPT ![q] = h] /\ h.pc \in {"dispatch", "done"}
      <4>1. PICK h : h = IF request[q].dispatch THEN [pc |-> "dispatch"] ELSE Done
        OBVIOUS
      <4>2. request' = [request EXCEPT ![q] = h]
        BY <2>3, <4>1 DEF Write
      <4>3. h.pc \in {"dispatch", "done"}
        BY <4>1 DEF Done
      <4> QED  BY <4>2, <4>3
    <3>2. request'[q] = h /\ request[q].pc = "write"
      BY <1>1, <2>3, <3>1 DEF TypeOK, Write
    <3>3. h # request[q]
      BY <3>1, <3>2
    <3> QED  BY <3>2, <3>3
  <2>4. ASSUME NEW w \in Runs, Save(w) \/ Fail(w)
        PROVE  FALSE
    <3>1. CASE Save(w)
      <4>1. job'.status = job.status
        BY <2>1, <3>1 DEF Save, Job
      <4> QED  BY <4>1
    <3>2. CASE Fail(w)
      <4>1. job'.status = "failed"
        BY <2>1, <3>2 DEF Fail, Job
      <4> QED  BY <2>1, <4>1
    <3> QED  BY <2>4, <3>1, <3>2
  <2>5. \A w \in Runs : /\ Load(w) => job' = job
                        /\ Check(w) => job' = job
                        /\ Open(w) => job' = job
                        /\ Extract(w) => job' = job
                        /\ Resolve(w) => job' = job
                        /\ Persist(w) => job' = job
                        /\ MapRecord(w) => job' = job
                        /\ CheckBatch(w) => job' = job
                        /\ Throw(w) => job' = job
                        /\ Crash(w) => job' = job
    BY DEF Load, Check, Open, Extract, Resolve, Persist, MapRecord, CheckBatch, Throw, Crash
  <2>6. \A q \in Requests : /\ ~Start(q)
                            /\ Pause(q) => job' = job
                            /\ Resume(q) => job' = job
                            /\ Cancel(q) => job' = job
                            /\ Dispatch(q) => job' = job
                            /\ Drop(q) => job' = job
    BY DEF Start, Pause, Resume, Cancel, Ask, Dispatch, Drop
  <2>7. CASE UNCHANGED vars
    BY <2>1, <2>7 DEF vars
  <2>8. ASSUME NEW w \in Runs, RunStep(w) \/ Throw(w) \/ Crash(w)
        PROVE  ByRun
    BY <2>1, <2>2, <2>4, <2>5, <2>8 DEF RunStep
  <2>9. ASSUME NEW q \in Requests,
               Start(q) \/ Pause(q) \/ Resume(q) \/ Cancel(q) \/ Handle(q) \/ Drop(q)
        PROVE  ByRequest
    BY <2>1, <2>3, <2>6, <2>9 DEF Handle
  <2> HIDE DEF ByRun, ByRequest
  <2> QED  BY <1>1, <2>7, <2>8, <2>9 DEF Next
<1>2. TypeOK /\ [Next]_vars =>
        [(job # NoJob /\ job.status \in Stopped /\ job'.status \notin Stopped) =>
           \/ \E w \in Runs : run[w].pc \in {"begin", "complete"} /\ run'[w] # run[w]
           \/ \E q \in Requests : request[q].pc = "write" /\ request'[q] # request[q]]_vars
  BY <1>1
<1> QED  BY <1>2, TypeInvariant, PTL DEF Spec, StopUndoneOnlyInHand
================================================================================
