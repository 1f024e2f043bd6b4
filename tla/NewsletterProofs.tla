---------------------------- MODULE NewsletterProofs ----------------------------
(***************************************************************************)
(* Proofs about Newsletter for any number of processes, requests, contacts *)
(* and deliveries, any batch size and rate, and any number of faults.      *)
(***************************************************************************)
EXTENDS Newsletter, FiniteSetTheorems, TLAPS

Mailings == {"send", "delivered", "refused"}
Working == {"claim"} \cup Mailings
Reporting == {"bounced", "complained", "load", "save"}
Others == {"idle", "done", "plan", "insert", "find", "finalize", "finish", "pause", "halt"}

Holds(b, d) == \E i \in DOMAIN b : b[i] = d

Once(b) == \A i, k \in DOMAIN b : b[i] = b[k] => i = k

\* Where an actor may be with a batch.
Place(a, pc, b) ==
  /\ pc \in Working \cup Reporting \cup Others
  /\ pc \in Working \cup Reporting => b # <<>>
  /\ a \in Processes => pc \notin Reporting
  /\ a \in Requests => pc \notin Working

\* What an actor holds, when there are n deliveries and it has sent s this minute: each
\* delivery of a batch is in it once and exists, and a batch to be claimed fits the rate.
JobOK(a, j, n, s) ==
  /\ j \in [pc : Working \cup Reporting \cup Others, batch : Seq(1..n),
            attempts : 0..MaxAttempts, list : SUBSET Contacts]
  /\ Once(j.batch) /\ Place(a, j.pc, j.batch)
  /\ j.pc = "claim" => s + Len(j.batch) <= RateLimit

Spent(a) == IF a \in Processes THEN sent[a] ELSE 0

Tables ==
  /\ letter \in {"draft", "scheduled", "sending", "sent", "paused"}
  /\ rows \in Seq(Row) /\ Len(rows) <= MaxRows
  /\ optedOut \subseteq Contacts /\ suppressed \subseteq Contacts
  /\ sent \in [Processes -> 0..RateLimit]
  /\ faults \in 0..MaxFaults

Base ==
  /\ Tables
  /\ job = [a \in Actors |-> job[a]]
  /\ \A a \in Actors : JobOK(a, job[a], Len(rows), Spent(a))

-----------------------------------------------------------------------------
(* Lemmas about numbers, rows and batches. *)

LEMMA Limits ==
  /\ BatchSize \in Nat /\ RateLimit \in Nat /\ MaxAttempts \in Nat
  /\ MaxRows \in Nat /\ MaxFaults \in Nat
BY LimitsAssumption

LEMMA SmallerIs ==
  ASSUME NEW m \in Int, NEW n \in Int
  PROVE  Smaller(m, n) \in {m, n} /\ Smaller(m, n) <= m /\ Smaller(m, n) <= n
BY DEF Smaller

LEMMA ManyProcesses == Cardinality(Processes) \in Nat /\ Cardinality(Processes) >= 1
<1>1. Cardinality(Processes) \in Nat /\ Cardinality(Processes) # 0
  BY ActorsAssumption, FS_CardinalityType, FS_EmptySet
<1> QED BY <1>1

LEMMA OneMoreIs ==
  ASSUME NEW n \in Int
  PROVE  /\ OneMore(n) \in Int
         /\ \A m \in Int : m <= n /\ m + 1 <= Cardinality(Processes) => m + 1 <= OneMore(n)
BY ManyProcesses, SmallerIs DEF OneMore

LEMMA RowFields ==
  ASSUME NEW r \in Row
  PROVE  /\ r.contact \in Contacts /\ r.status \in Statuses /\ r.attempts \in 0..MaxAttempts
         /\ r.claim \in {"none", "fresh", "stale"} /\ r.wait \in BOOLEAN
         /\ r.mailed \in BOOLEAN /\ r.owed \in Int
BY DEF Row

\* One row of a sequence of rows is replaced.
LEMMA RowReplaced ==
  ASSUME NEW rs \in Seq(Row), NEW d \in DOMAIN rs, NEW r \in Row
  PROVE  LET new == [rs EXCEPT ![d] = r]
         IN  /\ new \in Seq(Row) /\ Len(new) = Len(rs) /\ DOMAIN new = DOMAIN rs
             /\ new[d] = r /\ \A e \in DOMAIN rs : e # d => new[e] = rs[e]
<1>1. rs \in [1..Len(rs) -> Row] /\ DOMAIN rs = 1..Len(rs) /\ Len(rs) \in Nat  OBVIOUS
<1>2. [rs EXCEPT ![d] = r] \in [1..Len(rs) -> Row]  BY <1>1
<1> QED BY <1>1, <1>2

\* Every row of a sequence of rows is replaced.
LEMMA RowsReplaced ==
  ASSUME NEW rs \in Seq(Row), NEW new, DOMAIN new = DOMAIN rs, new = [d \in DOMAIN rs |-> new[d]],
         \A d \in DOMAIN rs : new[d] \in Row
  PROVE  new \in Seq(Row) /\ Len(new) = Len(rs)
<1>1. DOMAIN rs = 1..Len(rs) /\ Len(rs) \in Nat  OBVIOUS
<1>2. new \in [1..Len(rs) -> Row]  BY <1>1
<1> QED BY <1>1, <1>2

\* The rest of a batch: all of it but its first delivery.
LEMMA TailOfBatch ==
  ASSUME NEW n \in Nat, NEW b \in Seq(1..n), b # <<>>, Once(b)
  PROVE  /\ Head(b) \in 1..n /\ Holds(b, Head(b))
         /\ Tail(b) \in Seq(1..n) /\ Once(Tail(b))
         /\ \A d : Holds(Tail(b), d) <=> Holds(b, d) /\ d # Head(b)
<1>1. /\ Len(b) \in Nat \ {0} /\ DOMAIN b = 1..Len(b) /\ Head(b) = b[1]
      /\ Tail(b) \in Seq(1..n) /\ Len(Tail(b)) = Len(b) - 1
      /\ DOMAIN Tail(b) = 1..(Len(b) - 1)
      /\ \A i \in 1..(Len(b) - 1) : Tail(b)[i] = b[i + 1]
  OBVIOUS
<1>2. Head(b) \in 1..n /\ Holds(b, Head(b))  BY <1>1 DEF Holds
<1>3. ASSUME NEW i \in DOMAIN Tail(b), NEW k \in DOMAIN Tail(b), Tail(b)[i] = Tail(b)[k]
      PROVE  i = k
  <2>1. i + 1 \in DOMAIN b /\ k + 1 \in DOMAIN b /\ b[i + 1] = b[k + 1]  BY <1>1, <1>3
  <2> QED BY <2>1, <1>1 DEF Once
<1>4. ASSUME NEW d, Holds(Tail(b), d)
      PROVE  Holds(b, d) /\ d # Head(b)
  <2>1. PICK i \in 1..(Len(b) - 1) : Tail(b)[i] = d  BY <1>1, <1>4 DEF Holds
  <2>2. i + 1 \in DOMAIN b /\ b[i + 1] = d /\ i + 1 # 1 /\ 1 \in DOMAIN b  BY <2>1, <1>1
  <2> QED BY <2>2, <1>1 DEF Holds, Once
<1>5. ASSUME NEW d, Holds(b, d), d # Head(b)
      PROVE  Holds(Tail(b), d)
  <2>1. PICK i \in 1..Len(b) : b[i] = d  BY <1>1, <1>5 DEF Holds
  <2>2. i # 1  BY <2>1, <1>1, <1>5
  <2>3. i - 1 \in 1..(Len(b) - 1) /\ Tail(b)[i - 1] = d  BY <2>1, <2>2, <1>1
  <2> QED BY <2>3, <1>1 DEF Holds
<1>6. Once(Tail(b))  BY <1>3 DEF Once
<1> QED BY <1>1, <1>2, <1>4, <1>5, <1>6

LEMMA Wider ==
  ASSUME NEW m \in Nat, NEW n \in Nat, m <= n, NEW b \in Seq(1..m)
  PROVE  b \in Seq(1..n)
<1>1. 1..m \subseteq 1..n  OBVIOUS
<1>2. b \in [1..Len(b) -> 1..m] /\ Len(b) \in Nat  OBVIOUS
<1>3. b \in [1..Len(b) -> 1..n]  BY <1>1, <1>2
<1> QED BY <1>2, <1>3

\* More deliveries, or less sent this minute, leave what an actor holds as good as it was.
LEMMA JobKeeps ==
  ASSUME NEW a, NEW j, NEW m \in Nat, NEW n \in Nat, m <= n, NEW s \in Int, NEW t \in Int, t <= s,
         JobOK(a, j, m, s)
  PROVE  JobOK(a, j, n, t)
<1>1. j.batch \in Seq(1..n) /\ Len(j.batch) \in Nat  BY Wider DEF JobOK
<1>2. j \in [pc : Working \cup Reporting \cup Others, batch : Seq(1..n),
             attempts : 0..MaxAttempts, list : SUBSET Contacts]
  BY <1>1 DEF JobOK
<1>3. j.pc = "claim" => t + Len(j.batch) <= RateLimit  BY <1>1, Limits DEF JobOK
<1> QED BY <1>2, <1>3 DEF JobOK

-----------------------------------------------------------------------------
(* What a step of one actor does to what the actors hold. *)

LEMMA BaseTypes ==
  ASSUME Base
  PROVE  /\ TypeOK
         /\ Len(rows) \in Nat /\ DOMAIN rows = 1..Len(rows)
         /\ \A d \in DOMAIN rows : rows[d] \in Row
         /\ \A a \in Actors : Spent(a) \in Nat
         /\ \A p \in Processes : p \in Actors /\ Spent(p) = sent[p] /\ p \notin Requests
         /\ \A r \in Requests : r \in Actors /\ Spent(r) = 0 /\ r \notin Processes
<1>1. /\ Len(rows) \in Nat /\ DOMAIN rows = 1..Len(rows) /\ Len(rows) <= MaxRows
      /\ \A d \in DOMAIN rows : rows[d] \in Row
  BY DEF Base, Tables
<1>2. \A p \in Processes : p \in Actors /\ Spent(p) = sent[p] /\ sent[p] \in Nat /\ p \notin Requests
  BY ActorsAssumption, Limits DEF Base, Tables, Spent, Actors
<1>3. \A r \in Requests : r \in Actors /\ Spent(r) = 0 /\ r \notin Processes
  BY ActorsAssumption DEF Spent, Actors
<1>4. ASSUME NEW a \in Actors PROVE job[a] \in Job
  <2>1. JobOK(a, job[a], Len(rows), Spent(a))  BY DEF Base
  <2>2. job[a].batch \in Seq(1..MaxRows)  BY <1>1, <2>1, Wider, Limits DEF JobOK
  <2> QED BY <2>1, <2>2 DEF JobOK, Job, Working, Mailings, Reporting, Others
<1>5. job \in [Actors -> Job]  BY <1>4 DEF Base
<1>6. TypeOK  BY <1>5 DEF Base, Tables, TypeOK
<1> QED BY <1>1, <1>2, <1>3, <1>6 DEF Actors

\* Only what actor a holds changes.
Only(a) == /\ job' = [b \in Actors |-> job'[b]]
           /\ \A b \in Actors \ {a} : job'[b] = job[b]

\* A step of actor a keeps Base if it keeps the tables and leaves what a holds in order.
LEMMA ActorKeeps ==
  ASSUME Base, Tables', Len(rows) <= Len(rows)', NEW a \in Actors, Only(a),
         JobOK(a, job'[a], Len(rows)', Spent(a)'), \A b \in Actors \ {a} : Spent(b)' <= Spent(b)
  PROVE  Base'
<1>1. Len(rows) \in Nat /\ Len(rows)' \in Nat /\ \A b \in Actors : Spent(b) \in Int /\ Spent(b)' \in Int
  BY Limits DEF Base, Tables, Spent
<1>2. ASSUME NEW b \in Actors, b # a
      PROVE  JobOK(b, job'[b], Len(rows)', Spent(b)')
  <2>1. JobOK(b, job[b], Len(rows), Spent(b)) /\ job'[b] = job[b]  BY <1>2 DEF Base, Only
  <2>2. Spent(b)' <= Spent(b)  BY <1>2
  <2>3. PICK j : j = job[b]  OBVIOUS
  <2>4. PICK m, n : m = Len(rows) /\ n = Len(rows)'  OBVIOUS
  <2>5. PICK u, t : u = Spent(b) /\ t = Spent(b)'  OBVIOUS
  <2>6. JobOK(b, j, n, t)  BY <2>1, <2>2, <2>3, <2>4, <2>5, <1>1, JobKeeps
  <2> QED BY <2>1, <2>3, <2>4, <2>5, <2>6
<1>3. \A b \in Actors : JobOK(b, job'[b], Len(rows)', Spent(b)')  BY <1>2
<1> QED BY <1>3 DEF Base, Only

LEMMA GotoIs ==
  ASSUME Base, NEW a \in Actors, NEW pc, Goto(a, pc)
  PROVE  /\ Only(a) /\ job'[a].pc = pc /\ job'[a].batch = job[a].batch
         /\ job'[a] = [pc |-> pc, batch |-> job[a].batch, attempts |-> job[a].attempts, list |-> job[a].list]
<1>1. JobOK(a, job[a], Len(rows), Spent(a)) /\ job = [b \in Actors |-> job[b]]  BY DEF Base
<1>2. job' = [job EXCEPT ![a] = [job[a] EXCEPT !.pc = pc]]  BY DEF Goto
<1>3. [job[a] EXCEPT !.pc = pc] =
        [pc |-> pc, batch |-> job[a].batch, attempts |-> job[a].attempts, list |-> job[a].list]
  BY <1>1 DEF JobOK
<1> QED BY <1>1, <1>2, <1>3 DEF Only

\* A batch is in order wherever an actor goes that may hold one.
LEMMA GotoOK ==
  ASSUME Base, NEW a \in Actors, NEW pc \in Working \cup Reporting \cup Others, Goto(a, pc), pc # "claim",
         Place(a, pc, job[a].batch), NEW s
  PROVE  JobOK(a, job'[a], Len(rows), s)
<1>1. JobOK(a, job[a], Len(rows), Spent(a))  BY DEF Base
<1>2. job'[a] = [pc |-> pc, batch |-> job[a].batch, attempts |-> job[a].attempts, list |-> job[a].list]
  BY GotoIs
<1> QED BY <1>1, <1>2 DEF JobOK

LEMMA JobMade ==
  ASSUME NEW a, NEW pc, pc # "claim", NEW n \in Nat,
         NEW b \in Seq(1..n), Once(b), Place(a, pc, b),
         NEW tried \in 0..MaxAttempts, NEW list \in SUBSET Contacts, NEW s
  PROVE  JobOK(a, [pc |-> pc, batch |-> b, attempts |-> tried, list |-> list], n, s)
<1> DEFINE j == [pc |-> pc, batch |-> b, attempts |-> tried, list |-> list]
<1>1. j \in [pc : Working \cup Reporting \cup Others, batch : Seq(1..n),
             attempts : 0..MaxAttempts, list : SUBSET Contacts]
  BY DEF Place
<1>2. j.pc = pc /\ j.batch = b  OBVIOUS
<1> HIDE DEF j
<1>3. JobOK(a, j, n, s)  BY <1>1, <1>2 DEF JobOK
<1> QED BY <1>3 DEF j

LEMMA LeaveIs ==
  ASSUME Base, NEW a \in Actors, Leave(a)
  PROVE  /\ Only(a) /\ job'[a].pc \in {"idle", "done"} /\ job'[a].batch = <<>>
         /\ a \in Processes => job'[a].pc = "idle"
         /\ \A n \in Nat : \A s : JobOK(a, job'[a], n, s)
<1> DEFINE Left(pc) == [pc |-> pc, batch |-> <<>>, attempts |-> 0, list |-> {}]
<1>1. job = [b \in Actors |-> job[b]]  BY DEF Base
<1>2. PICK pc \in {"idle", "done"} : job'[a] = Left(pc) /\ (a \in Processes => pc = "idle")
  BY <1>1 DEF Leave, Idle
<1>3. Only(a)  BY <1>1 DEF Leave, Only
<1>4. Only(a) /\ job'[a] = Left(pc)  BY <1>2, <1>3
<1>5. \A n \in Nat : <<>> \in Seq(1..n)  OBVIOUS
<1>6. ASSUME NEW n \in Nat, NEW s
      PROVE  JobOK(a, job'[a], n, s)
  <2>1. pc # "claim" /\ Place(a, pc, <<>>) /\ 0 \in 0..MaxAttempts /\ {} \in SUBSET Contacts
    BY Limits DEF Place, Others, Working, Mailings, Reporting
  <2>2. Once(<<>>) /\ <<>> \in Seq(1..n)  BY <1>5 DEF Once
  <2>3. JobOK(a, [pc |-> pc, batch |-> <<>>, attempts |-> 0, list |-> {}], n, s)
    BY <2>1, <2>2, JobMade
  <2> QED BY <1>4, <2>3
<1>7. job'[a].pc = pc /\ job'[a].batch = <<>>  BY <1>4
<1> QED BY <1>2, <1>3, <1>6, <1>7

LEMMA ProceedIs ==
  ASSUME Base, NEW p \in Processes, job[p].pc \in Mailings, Proceed(p)
  PROVE  /\ Only(p) /\ job'[p].pc \in {"finalize", "send"}
         /\ \A d : Holds(job'[p].batch, d) <=> Holds(job[p].batch, d) /\ d # Head(job[p].batch)
         /\ Head(job[p].batch) \in DOMAIN rows /\ Holds(job[p].batch, Head(job[p].batch))
         /\ \A s : JobOK(p, job'[p], Len(rows), s)
<1>1. p \in Actors /\ p \notin Requests /\ Len(rows) \in Nat /\ DOMAIN rows = 1..Len(rows)  BY BaseTypes
<1>2. JobOK(p, job[p], Len(rows), Spent(p)) /\ job[p].batch # <<>>
  <2>1. JobOK(p, job[p], Len(rows), Spent(p))  BY <1>1 DEF Base
  <2> QED BY <2>1 DEF JobOK, Place, Working
<1>3. job[p].batch \in Seq(1..Len(rows)) /\ Once(job[p].batch)  BY <1>2 DEF JobOK
<1>4. PICK b, rest, n : b = job[p].batch /\ rest = Tail(b) /\ n = Len(rows)  OBVIOUS
<1>5. /\ Head(b) \in 1..n /\ Holds(b, Head(b)) /\ rest \in Seq(1..n) /\ Once(rest)
      /\ \A d : Holds(rest, d) <=> Holds(b, d) /\ d # Head(b)
  BY <1>1, <1>2, <1>3, <1>4, TailOfBatch
<1> DEFINE On(pc) == [pc |-> pc, batch |-> rest, attempts |-> 0, list |-> {}]
<1>6. job = [a \in Actors |-> job[a]]  BY DEF Base
<1>7. PICK pc \in {"finalize", "send"} : job'[p] = On(pc) /\ (pc = "send" => rest # <<>>)
  BY <1>1, <1>4, <1>6 DEF Proceed, Idle
<1>8. Only(p) /\ job'[p] = On(pc)  BY <1>6, <1>7 DEF Proceed, Only
<1>9. ASSUME NEW s PROVE JobOK(p, job'[p], Len(rows), s)
  <2>1. pc # "claim" /\ Place(p, pc, rest) /\ 0 \in 0..MaxAttempts /\ {} \in SUBSET Contacts
    BY <1>1, <1>7, Limits DEF Place, Others, Working, Mailings, Reporting
  <2>2. n \in Nat  BY <1>1, <1>4
  <2>3. JobOK(p, [pc |-> pc, batch |-> rest, attempts |-> 0, list |-> {}], n, s)
    BY <1>5, <2>1, <2>2, JobMade
  <2> QED BY <1>4, <1>8, <2>3
<1>10. job'[p].pc = pc /\ job'[p].batch = rest  BY <1>8
<1>11. Head(b) \in DOMAIN rows  BY <1>1, <1>4, <1>5
<1> QED BY <1>4, <1>5, <1>7, <1>8, <1>9, <1>10, <1>11

-----------------------------------------------------------------------------
(* Base is inductive. *)

LEMMA OtherPlace ==
  ASSUME NEW a, NEW pc \in Others, NEW b
  PROVE  Place(a, pc, b) /\ pc # "claim"
BY DEF Place, Others, Working, Mailings, Reporting

Quiet == /\ letter' \in {"draft", "scheduled", "sending", "sent", "paused"}
         /\ faults' \in 0..MaxFaults
         /\ UNCHANGED <<rows, sent>>
         /\ optedOut' \subseteq Contacts /\ suppressed' \subseteq Contacts

LEMMA QuietKeeps ==
  ASSUME Base, Quiet, NEW a \in Actors, Only(a), JobOK(a, job'[a], Len(rows), Spent(a))
  PROVE  Base'
<1>1. Tables'  BY DEF Base, Tables, Quiet
<1>2. Len(rows)' = Len(rows) /\ Len(rows) \in Nat /\ Spent(a)' = Spent(a)
  BY BaseTypes DEF Quiet, Spent
<1>3. \A b \in Actors \ {a} : Spent(b)' <= Spent(b)
  <2>1. \A b \in Actors : Spent(b)' = Spent(b) /\ Spent(b) \in Nat  BY BaseTypes DEF Quiet, Spent
  <2> QED BY <2>1
<1>4. JobOK(a, job'[a], Len(rows)', Spent(a)')  BY <1>2
<1>5. Len(rows) <= Len(rows)'  BY <1>2
<1> QED BY <1>1, <1>3, <1>4, <1>5, ActorKeeps

LEMMA GotoKeeps ==
  ASSUME Base, Quiet, NEW a \in Actors, NEW pc, pc # "claim", Goto(a, pc), Place(a, pc, job[a].batch)
  PROVE  Base'
<1>1. Only(a)  BY GotoIs
<1>2. pc \in Working \cup Reporting \cup Others  BY DEF Place
<1>3. JobOK(a, job'[a], Len(rows), Spent(a))  BY <1>2, GotoOK
<1> QED BY <1>1, <1>3, QuietKeeps

LEMMA LeaveKeeps ==
  ASSUME Base, Quiet, NEW a \in Actors, Leave(a)
  PROVE  Base'
<1>1. Only(a)  BY LeaveIs
<1>2. JobOK(a, job'[a], Len(rows), Spent(a))  BY LeaveIs, BaseTypes
<1> QED BY <1>1, <1>2, QuietKeeps

LEMMA OtherKeeps ==
  ASSUME Base, Quiet, NEW a \in Actors, Leave(a) \/ \E pc \in Others : Goto(a, pc)
  PROVE  Base'
BY GotoKeeps, LeaveKeeps, OtherPlace

\* The tables that most steps leave alone.
LEMMA Tabled ==
  ASSUME Base
  PROVE  /\ letter \in {"draft", "scheduled", "sending", "sent", "paused"} /\ faults \in 0..MaxFaults
         /\ optedOut \subseteq Contacts /\ suppressed \subseteq Contacts
BY DEF Base, Tables

\* The steps that neither touch a delivery nor take one in hand.
Planning(a) ==
  \/ \E s \in {"draft", "scheduled", "sending"} : AdminSave(a, s)
  \/ StartTick(a) \/ PlanStart(a) \/ Finalize(a) \/ Finish(a) \/ CheckPause(a) \/ Halt(a) \/ Crash(a)

LEMMA PlanningIs ==
  ASSUME Base, NEW a \in Actors, Planning(a)
  PROVE  Quiet /\ (Leave(a) \/ \E pc \in Others : Goto(a, pc))
<1>1. faults' \in 0..MaxFaults
  <2>1. CASE Crash(a)  BY <2>1, Tabled, Limits DEF Crash
  <2>2. CASE ~Crash(a)
    BY <2>2, Tabled DEF Planning, AdminSave, StartTick, PlanStart, Finalize, Finish, CheckPause, Halt
  <2> QED BY <2>1, <2>2
<1>2. Quiet
  BY <1>1, Tabled DEF Quiet, Planning, AdminSave, StartTick, PlanStart, Finalize, Finish, CheckPause, Halt, Crash
<1>3. Leave(a) \/ \E pc \in Others : Goto(a, pc)
  BY DEF Planning, AdminSave, StartTick, PlanStart, Finalize, Finish, CheckPause, Halt, Crash, Others
<1> QED BY <1>2, <1>3

LEMMA PlanningBase ==
  ASSUME Base, NEW a \in Actors, Planning(a)
  PROVE  Base'
BY PlanningIs, OtherKeeps

\* The statements of a report and an unsubscription that write no delivery.
LEMMA SuppressBase ==
  ASSUME Base, NEW r \in Requests,
         LoadSuppressed(r) \/ SaveSuppressed(r) \/ \E d \in DOMAIN rows : Unsubscribe(r, d)
  PROVE  Base'
<1>1. r \in Actors /\ r \notin Processes /\ JobOK(r, job[r], Len(rows), Spent(r))  BY BaseTypes DEF Base
<1>2. /\ job[r].batch \in Seq(1..Len(rows)) /\ job[r].list \subseteq Contacts /\ Once(job[r].batch)
      /\ job[r].attempts \in 0..MaxAttempts /\ Len(rows) \in Nat /\ DOMAIN rows = 1..Len(rows)
  BY <1>1, BaseTypes DEF JobOK
<1>3. CASE LoadSuppressed(r)
  <2>1. Quiet  BY <1>3, Tabled DEF Quiet, LoadSuppressed
  <2>2. CASE Leave(r)  BY <2>1, <2>2, <1>1, LeaveKeeps
  <2>3. CASE job' = [job EXCEPT ![r].pc = "save", ![r].list = suppressed]
    <3>1. job[r].batch # <<>>  BY <1>1, <1>3 DEF JobOK, Place, LoadSuppressed, Reporting
    <3>2. /\ Only(r)
          /\ job'[r] = [pc |-> "save", batch |-> job[r].batch, attempts |-> job[r].attempts, list |-> suppressed]
      BY <1>1, <2>3 DEF Base, Only, JobOK
    <3>3. PICK b, tried, n, list : b = job[r].batch /\ tried = job[r].attempts /\ n = Len(rows) /\ list = suppressed
      OBVIOUS
    <3>4. Place(r, "save", b)  BY <1>1, <3>1, <3>3 DEF Place, Reporting, Working, Mailings
    <3>5. \A s : JobOK(r, [pc |-> "save", batch |-> b, attempts |-> tried, list |-> list], n, s)
      BY <1>2, <3>3, <3>4, JobMade, Tabled
    <3>6. JobOK(r, job'[r], Len(rows), Spent(r))  BY <3>2, <3>3, <3>5
    <3> QED BY <1>1, <2>1, <3>2, <3>6, QuietKeeps
  <2> QED BY <1>3, <2>2, <2>3 DEF LoadSuppressed
<1>4. CASE SaveSuppressed(r)
  <2>1. job[r].batch # <<>>  BY <1>1, <1>4 DEF JobOK, Place, SaveSuppressed, Reporting
  <2>2. Head(job[r].batch) \in DOMAIN rows  BY <1>2, <2>1
  <2>3. rows[Head(job[r].batch)].contact \in Contacts  BY <2>2, BaseTypes, RowFields
  <2>4. Quiet  BY <1>2, <1>4, <2>3, Tabled DEF Quiet, SaveSuppressed
  <2> QED BY <1>1, <1>4, <2>4, LeaveKeeps DEF SaveSuppressed
<1>5. ASSUME NEW d \in DOMAIN rows, Unsubscribe(r, d)
      PROVE  Base'
  <2>1. rows[d].contact \in Contacts  BY BaseTypes, RowFields
  <2>2. Quiet  BY <1>5, <2>1, Tabled DEF Quiet, Unsubscribe
  <2> QED BY <1>1, <1>5, <2>2, LeaveKeeps DEF Unsubscribe
<1> QED BY <1>3, <1>4, <1>5

-----------------------------------------------------------------------------
(* The steps that write one delivery: which, and what becomes of it. *)

\* Row d becomes r.
Written(d, r) == rows' = [rows EXCEPT ![d] = r]

LEMMA WrittenIs ==
  ASSUME Base, NEW d \in DOMAIN rows, NEW r \in Row, Written(d, r)
  PROVE  /\ rows' \in Seq(Row) /\ Len(rows)' = Len(rows) /\ DOMAIN rows' = DOMAIN rows
         /\ rows'[d] = r /\ \A e \in DOMAIN rows : e # d => rows'[e] = rows[e]
<1>1. PICK rs : rs = rows  OBVIOUS
<1>2. rs \in Seq(Row) /\ d \in DOMAIN rs  BY <1>1 DEF Base, Tables
<1>3. rows' = [rs EXCEPT ![d] = r]  BY <1>1 DEF Written
<1> QED BY <1>1, <1>2, <1>3, RowReplaced

LEMMA HeadIs ==
  ASSUME Base, NEW a \in Actors, job[a].pc \in Working \cup Reporting
  PROVE  /\ job[a].batch # <<>> /\ Head(job[a].batch) \in DOMAIN rows
         /\ Holds(job[a].batch, Head(job[a].batch)) /\ rows[Head(job[a].batch)] \in Row
<1>1. JobOK(a, job[a], Len(rows), Spent(a))  BY DEF Base
<1>2. job[a].batch \in Seq(1..Len(rows)) /\ job[a].batch # <<>> /\ Once(job[a].batch)
  BY <1>1 DEF JobOK, Place
<1>3. PICK b, n : b = job[a].batch /\ n = Len(rows)  OBVIOUS
<1>4. n \in Nat /\ DOMAIN rows = 1..n  BY <1>3, BaseTypes
<1>5. Head(b) \in 1..n /\ Holds(b, Head(b))  BY <1>2, <1>3, <1>4, TailOfBatch
<1> QED BY <1>2, <1>3, <1>4, <1>5, BaseTypes

\* A mail goes out, or is refused: what the process goes on with.
LEMMA SendIs ==
  ASSUME Base, NEW p \in Processes, Send(p)
  PROVE  /\ Only(p) /\ job'[p].batch = job[p].batch /\ job'[p].pc \in {"delivered", "refused"}
         /\ JobOK(p, job'[p], Len(rows), Spent(p))
         /\ \/ /\ job'[p].pc = "delivered"
               /\ rows' = [rows EXCEPT ![Head(job[p].batch)].mailed = TRUE, ![Head(job[p].batch)].owed = @ - 1]
            \/ job'[p].pc = "refused" /\ UNCHANGED rows
<1>1. p \in Actors /\ p \notin Requests /\ job = [a \in Actors |-> job[a]] /\ Len(rows) \in Nat
  BY BaseTypes DEF Base
<1>2. JobOK(p, job[p], Len(rows), Spent(p))  BY <1>1 DEF Base
<1>3. PICK d, n : d = Head(job[p].batch) /\ n = Smaller(rows[d].attempts + 1, MaxAttempts)  OBVIOUS
<1>4. rows[d] \in Row  BY <1>1, <1>3, HeadIs DEF Send, Working, Mailings
<1>5. n \in 0..MaxAttempts  BY <1>3, <1>4, RowFields, SmallerIs, Limits
<1>6. job[p].batch # <<>>  BY <1>1, HeadIs DEF Send, Working, Mailings
<1>7. PICK pc \in {"delivered", "refused"} :
        /\ job' = [job EXCEPT ![p].pc = pc, ![p].attempts = n]
        /\ \/ /\ pc = "delivered"
              /\ rows' = [rows EXCEPT ![d].mailed = TRUE, ![d].owed = @ - 1]
           \/ pc = "refused" /\ UNCHANGED rows
  BY <1>3 DEF Send
<1>8. /\ Only(p)
      /\ job'[p] = [pc |-> pc, batch |-> job[p].batch, attempts |-> n, list |-> job[p].list]
  BY <1>1, <1>2, <1>7 DEF Only, JobOK
<1>9. PICK b, m, list, s : b = job[p].batch /\ m = Len(rows) /\ list = job[p].list /\ s = Spent(p)  OBVIOUS
<1>10. b \in Seq(1..m) /\ Once(b) /\ list \in SUBSET Contacts  BY <1>2, <1>9 DEF JobOK
<1>11. Place(p, pc, b) /\ pc # "claim"
  BY <1>1, <1>6, <1>7, <1>9 DEF Place, Working, Mailings, Reporting
<1>12. JobOK(p, [pc |-> pc, batch |-> b, attempts |-> n, list |-> list], m, s)
  BY <1>1, <1>5, <1>9, <1>10, <1>11, JobMade
<1>13. job'[p].pc = pc /\ job'[p].batch = job[p].batch  BY <1>8
<1>14. JobOK(p, job'[p], Len(rows), Spent(p))  BY <1>8, <1>9, <1>12
<1>15. \/ /\ pc = "delivered"
          /\ rows' = [rows EXCEPT ![Head(job[p].batch)].mailed = TRUE, ![Head(job[p].batch)].owed = @ - 1]
       \/ pc = "refused" /\ UNCHANGED rows
  BY <1>3, <1>7
<1> QED BY <1>8, <1>13, <1>14, <1>15

LEMMA MailIs ==
  ASSUME Base, NEW p \in Processes, Send(p), job'[p].pc = "delivered"
  PROVE  \E r \in Row : /\ Written(Head(job[p].batch), r) /\ r.mailed = TRUE
                        /\ r.owed = rows[Head(job[p].batch)].owed - 1
                        /\ r.status = rows[Head(job[p].batch)].status
<1>1. p \in Actors  BY BaseTypes
<1>2. PICK d : d = Head(job[p].batch)  OBVIOUS
<1>3. rows[d] \in Row  BY <1>1, <1>2, HeadIs DEF Send, Working, Mailings
<1>4. PICK o : o = rows[d].owed - 1  OBVIOUS
<1>5. rows' = [rows EXCEPT ![d] = [rows[d] EXCEPT !.mailed = TRUE, !.owed = o]]
  BY <1>2, <1>4, SendIs
<1>6. PICK r : r = [rows[d] EXCEPT !.mailed = TRUE, !.owed = o]  OBVIOUS
<1>7. o \in Int  BY <1>3, <1>4, RowFields
<1>8. r \in Row /\ r.mailed = TRUE /\ r.owed = o /\ r.status = rows[d].status
  BY <1>3, <1>6, <1>7 DEF Row
<1> QED BY <1>2, <1>4, <1>5, <1>6, <1>8 DEF Written

LEMMA SentIs ==
  ASSUME Base, NEW p \in Processes, MarkSent(p)
  PROVE  \E r \in Row : /\ Written(Head(job[p].batch), r) /\ r.status = "sent"
                        /\ r.owed = rows[Head(job[p].batch)].owed
                        /\ r.mailed = rows[Head(job[p].batch)].mailed
<1>1. PICK d : d = Head(job[p].batch)  OBVIOUS
<1>2. rows[d] \in Row /\ d \in DOMAIN rows  BY <1>1, HeadIs, BaseTypes DEF MarkSent, Working, Mailings
<1>3. rows' = [rows EXCEPT ![d] = [rows[d] EXCEPT !.status = "sent", !.claim = "none", !.wait = FALSE]]
  BY <1>1 DEF MarkSent
<1>4. PICK r : r = [rows[d] EXCEPT !.status = "sent", !.claim = "none", !.wait = FALSE]  OBVIOUS
<1>5. r \in Row /\ r.status = "sent" /\ r.owed = rows[d].owed /\ r.mailed = rows[d].mailed
  BY <1>2, <1>4 DEF Row, Statuses
<1> QED BY <1>1, <1>3, <1>4, <1>5 DEF Written

LEMMA FailRecordIs ==
  ASSUME Base, NEW p \in Processes, FailRecord(p)
  PROVE  \E r \in Row : /\ Written(Head(job[p].batch), r)
                        /\ r.owed = OneMore(rows[Head(job[p].batch)].owed)
                        /\ r.status = rows[Head(job[p].batch)].status
                        /\ r.mailed = rows[Head(job[p].batch)].mailed
<1>1. PICK d : d = Head(job[p].batch)  OBVIOUS
<1>2. rows[d] \in Row /\ d \in DOMAIN rows  BY <1>1, HeadIs, BaseTypes DEF FailRecord, Working, Mailings
<1>3. PICK o : o = OneMore(rows[d].owed)  OBVIOUS
<1>4. o \in Int  BY <1>2, <1>3, RowFields, OneMoreIs
<1>5. rows' = [rows EXCEPT ![d] = [rows[d] EXCEPT !.owed = o]]  BY <1>1, <1>3 DEF FailRecord
<1>6. PICK r : r = [rows[d] EXCEPT !.owed = o]  OBVIOUS
<1>7. r \in Row /\ r.owed = o /\ r.status = rows[d].status /\ r.mailed = rows[d].mailed
  BY <1>2, <1>4, <1>6 DEF Row
<1> QED BY <1>1, <1>3, <1>5, <1>6, <1>7 DEF Written

LEMMA RetriedIs ==
  ASSUME NEW row \in Row, NEW n \in 0..MaxAttempts
  PROVE  /\ Retried(row, n) \in Row /\ Retried(row, n).status \in {"failed", "pending"}
         /\ Retried(row, n).owed = row.owed /\ Retried(row, n).mailed = row.mailed
<1>1. CASE n >= MaxAttempts  BY <1>1 DEF Retried, Row, Statuses
<1>2. CASE ~(n >= MaxAttempts)  BY <1>2 DEF Retried, Row, Statuses
<1> QED BY <1>1, <1>2

LEMMA RefusedIs ==
  ASSUME Base, NEW p \in Processes, MarkRefused(p)
  PROVE  \E r \in Row : /\ Written(Head(job[p].batch), r) /\ r.status \in {"failed", "pending"}
                        /\ r.owed = rows[Head(job[p].batch)].owed
                        /\ r.mailed = rows[Head(job[p].batch)].mailed
<1>1. PICK d, n : d = Head(job[p].batch) /\ n = job[p].attempts  OBVIOUS
<1>2. rows[d] \in Row /\ d \in DOMAIN rows  BY <1>1, HeadIs, BaseTypes DEF MarkRefused, Working, Mailings
<1>3. n \in 0..MaxAttempts
  <2>1. p \in Actors  BY BaseTypes
  <2>2. JobOK(p, job[p], Len(rows), Spent(p))  BY <2>1 DEF Base
  <2> QED BY <1>1, <2>2 DEF JobOK
<1>4. PICK row : row = rows[d]  OBVIOUS
<1>5. PICK r : r = Retried(row, n)  OBVIOUS
<1>6. rows' = [rows EXCEPT ![d] = r]  BY <1>1, <1>4, <1>5 DEF MarkRefused
<1>7. r \in Row /\ r.status \in {"failed", "pending"} /\ r.owed = row.owed /\ r.mailed = row.mailed
  BY <1>2, <1>3, <1>4, <1>5, RetriedIs
<1> QED BY <1>1, <1>4, <1>6, <1>7 DEF Written

LEMMA WriteReportIs ==
  ASSUME Base, NEW q \in Requests, WriteReport(q)
  PROVE  \E r \in Row : /\ Written(Head(job[q].batch), r) /\ r.status \in {"bounced", "complained"}
                        /\ r.owed = rows[Head(job[q].batch)].owed
                        /\ r.mailed = rows[Head(job[q].batch)].mailed
<1>1. PICK d, pc : d = Head(job[q].batch) /\ pc = job[q].pc  OBVIOUS
<1>2. pc \in {"bounced", "complained"}  BY <1>1, ReportsAssumption DEF WriteReport
<1>3. rows[d] \in Row /\ d \in DOMAIN rows  BY <1>1, <1>2, HeadIs, BaseTypes DEF Reporting
<1>4. rows' = [rows EXCEPT ![d] = [rows[d] EXCEPT !.status = pc]]  BY <1>1 DEF WriteReport
<1>5. PICK r : r = [rows[d] EXCEPT !.status = pc]  OBVIOUS
<1>6. r \in Row /\ r.status = pc /\ r.owed = rows[d].owed /\ r.mailed = rows[d].mailed
  BY <1>2, <1>3, <1>5 DEF Row, Statuses
<1> QED BY <1>1, <1>2, <1>4, <1>5, <1>6 DEF Written

LEMMA TimePassesIs ==
  ASSUME Base, NEW d \in DOMAIN rows, Expire(d) \/ Due(d)
  PROVE  \E r \in Row : /\ Written(d, r) /\ r.status = rows[d].status
                        /\ r.owed = rows[d].owed /\ r.mailed = rows[d].mailed
<1>1. rows[d] \in Row  BY BaseTypes
<1>2. PICK r, q : r = [rows[d] EXCEPT !.claim = "stale"] /\ q = [rows[d] EXCEPT !.wait = FALSE]  OBVIOUS
<1>3. /\ r \in Row /\ r.status = rows[d].status /\ r.owed = rows[d].owed /\ r.mailed = rows[d].mailed
      /\ q \in Row /\ q.status = rows[d].status /\ q.owed = rows[d].owed /\ q.mailed = rows[d].mailed
  BY <1>1, <1>2 DEF Row
<1>4. CASE Expire(d)  BY <1>2, <1>3, <1>4 DEF Expire, Written
<1>5. CASE Due(d)  BY <1>2, <1>3, <1>5 DEF Due, Written
<1> QED BY <1>4, <1>5

-----------------------------------------------------------------------------
(* Base after the steps that write deliveries. *)

\* A step that writes deliveries, of an actor that keeps what it holds in order.
LEMMA WriteKeeps ==
  ASSUME Base, rows' \in Seq(Row), Len(rows)' = Len(rows), UNCHANGED <<letter, optedOut, suppressed, sent>>,
         faults' \in 0..MaxFaults, NEW a \in Actors, Only(a), JobOK(a, job'[a], Len(rows), Spent(a))
  PROVE  Base'
<1>1. Tables'  BY DEF Base, Tables
<1>2. Len(rows) \in Nat /\ \A b \in Actors : Spent(b)' = Spent(b) /\ Spent(b) \in Nat
  BY BaseTypes DEF Spent
<1>3. \A b \in Actors \ {a} : Spent(b)' <= Spent(b)  BY <1>2
<1>4. JobOK(a, job'[a], Len(rows)', Spent(a)')  BY <1>2
<1>5. Len(rows) <= Len(rows)'  BY <1>2
<1> QED BY <1>1, <1>3, <1>4, <1>5, ActorKeeps

LEMMA SendBase ==
  ASSUME Base, NEW p \in Processes, Send(p)
  PROVE  Base'
<1>1. p \in Actors /\ UNCHANGED <<letter, optedOut, suppressed, sent>> /\ faults' \in 0..MaxFaults
  BY BaseTypes, Tabled DEF Send
<1>2. Only(p) /\ JobOK(p, job'[p], Len(rows), Spent(p))  BY SendIs
<1>3. rows' \in Seq(Row) /\ Len(rows)' = Len(rows)
  <2>1. CASE job'[p].pc = "delivered"
    <3>1. PICK r \in Row : Written(Head(job[p].batch), r)  BY <2>1, MailIs
    <3>2. Head(job[p].batch) \in DOMAIN rows  BY <1>1, HeadIs DEF Send, Working, Mailings
    <3> QED BY <3>1, <3>2, WrittenIs
  <2>2. CASE UNCHANGED rows  BY <2>2 DEF Base, Tables
  <2> QED BY <2>1, <2>2, SendIs
<1> QED BY <1>1, <1>2, <1>3, WriteKeeps

LEMMA MarkSentBase ==
  ASSUME Base, NEW p \in Processes, MarkSent(p)
  PROVE  Base'
<1>1. p \in Actors /\ UNCHANGED <<letter, optedOut, suppressed, sent>> /\ faults' \in 0..MaxFaults
  BY BaseTypes, Tabled DEF MarkSent
<1>2. Only(p) /\ JobOK(p, job'[p], Len(rows), Spent(p)) /\ Head(job[p].batch) \in DOMAIN rows
  BY ProceedIs DEF MarkSent, Mailings
<1>3. PICK r \in Row : Written(Head(job[p].batch), r)  BY SentIs
<1>4. rows' \in Seq(Row) /\ Len(rows)' = Len(rows)  BY <1>2, <1>3, WrittenIs
<1> QED BY <1>1, <1>2, <1>4, WriteKeeps

LEMMA MarkRefusedBase ==
  ASSUME Base, NEW p \in Processes, MarkRefused(p)
  PROVE  Base'
<1>1. p \in Actors /\ UNCHANGED <<letter, optedOut, suppressed, sent>> /\ faults' \in 0..MaxFaults
  BY BaseTypes, Tabled DEF MarkRefused
<1>2. Only(p) /\ JobOK(p, job'[p], Len(rows), Spent(p)) /\ Head(job[p].batch) \in DOMAIN rows
  BY ProceedIs DEF MarkRefused, Mailings
<1>3. PICK r \in Row : Written(Head(job[p].batch), r)  BY RefusedIs
<1>4. rows' \in Seq(Row) /\ Len(rows)' = Len(rows)  BY <1>2, <1>3, WrittenIs
<1> QED BY <1>1, <1>2, <1>4, WriteKeeps

\* An actor that stays at its batch, further on.
LEMMA FurtherOK ==
  ASSUME Base, NEW a \in Actors, job[a].pc \in Working \cup Reporting, NEW pc \in Working \cup Reporting,
         Goto(a, pc), pc # "claim", a \in Processes => pc \in Working, a \in Requests => pc \in Reporting
  PROVE  Only(a) /\ \A s : JobOK(a, job'[a], Len(rows), s)
<1>1. job[a].batch # <<>>  BY HeadIs
<1>2. Place(a, pc, job[a].batch)  BY <1>1 DEF Place, Working, Mailings, Reporting
<1> QED BY <1>2, GotoIs, GotoOK

LEMMA FailRecordBase ==
  ASSUME Base, NEW p \in Processes, FailRecord(p)
  PROVE  Base'
<1>1. p \in Actors /\ p \notin Requests /\ UNCHANGED <<letter, optedOut, suppressed, sent>>
  BY BaseTypes DEF FailRecord
<1>2. faults' \in 0..MaxFaults  BY Tabled, Limits DEF FailRecord
<1>3. Only(p) /\ JobOK(p, job'[p], Len(rows), Spent(p)) /\ Head(job[p].batch) \in DOMAIN rows
  BY <1>1, FurtherOK, HeadIs DEF FailRecord, Working, Mailings
<1>4. PICK r \in Row : Written(Head(job[p].batch), r)  BY FailRecordIs
<1>5. rows' \in Seq(Row) /\ Len(rows)' = Len(rows)  BY <1>3, <1>4, WrittenIs
<1> QED BY <1>1, <1>2, <1>3, <1>5, WriteKeeps

LEMMA WriteReportBase ==
  ASSUME Base, NEW q \in Requests, WriteReport(q)
  PROVE  Base'
<1>1. q \in Actors /\ q \notin Processes /\ UNCHANGED <<letter, optedOut, suppressed, sent>> /\ faults' \in 0..MaxFaults
  BY BaseTypes, Tabled DEF WriteReport
<1>2. job[q].pc \in Reporting  BY ReportsAssumption DEF WriteReport, Reporting
<1>3. Only(q) /\ JobOK(q, job'[q], Len(rows), Spent(q)) /\ Head(job[q].batch) \in DOMAIN rows
  BY <1>1, <1>2, FurtherOK, HeadIs DEF WriteReport, Reporting
<1>4. PICK r \in Row : Written(Head(job[q].batch), r)  BY WriteReportIs
<1>5. rows' \in Seq(Row) /\ Len(rows)' = Len(rows)  BY <1>3, <1>4, WrittenIs
<1> QED BY <1>1, <1>3, <1>5, WriteKeeps

\* A step that leaves all that actors hold alone.
LEMMA IdleKeeps ==
  ASSUME Base, Tables', Len(rows)' = Len(rows), UNCHANGED job, \A a \in Actors : Spent(a)' <= Spent(a)
  PROVE  Base'
<1>1. CASE Actors = {}  BY <1>1 DEF Base
<1>2. CASE Actors # {}
  <2>1. PICK a \in Actors : TRUE  BY <1>2
  <2>2. Only(a) /\ JobOK(a, job[a], Len(rows), Spent(a)) /\ Len(rows) \in Nat /\ Spent(a) \in Nat
    BY BaseTypes DEF Only, Base
  <2>3. Spent(a)' \in Int /\ Spent(a)' <= Spent(a)  BY Limits DEF Tables, Spent
  <2>4. PICK j, n, s, t : j = job[a] /\ n = Len(rows) /\ s = Spent(a) /\ t = Spent(a)'  OBVIOUS
  <2>5. JobOK(a, j, n, t)  BY <2>2, <2>3, <2>4, JobKeeps
  <2>6. JobOK(a, job'[a], Len(rows)', Spent(a)')  BY <2>4, <2>5
  <2>7. Len(rows) <= Len(rows)' /\ \A b \in Actors \ {a} : Spent(b)' <= Spent(b)  BY <2>2
  <2> QED BY <2>2, <2>6, <2>7, ActorKeeps
<1> QED BY <1>1, <1>2

LEMMA TimePassesBase ==
  ASSUME Base, NEW d \in DOMAIN rows, Expire(d) \/ Due(d)
  PROVE  Base'
<1>1. UNCHANGED <<letter, optedOut, suppressed, sent, job>>  BY DEF Expire, Due
<1>2. faults' \in 0..MaxFaults  BY Tabled, Limits DEF Expire, Due
<1>3. PICK r \in Row : Written(d, r)  BY TimePassesIs
<1>4. rows' \in Seq(Row) /\ Len(rows)' = Len(rows)  BY <1>3, WrittenIs
<1>5. Tables'  BY <1>1, <1>2, <1>4 DEF Base, Tables
<1>6. \A a \in Actors : Spent(a)' <= Spent(a)
  <2>1. \A a \in Actors : Spent(a)' = Spent(a) /\ Spent(a) \in Nat  BY <1>1, BaseTypes DEF Spent
  <2> QED BY <2>1
<1> QED BY <1>1, <1>4, <1>5, <1>6, IdleKeeps

LEMMA NewMinuteBase ==
  ASSUME Base, NEW p \in Processes, NewMinute(p)
  PROVE  Base'
<1>1. UNCHANGED <<letter, rows, optedOut, suppressed, job, faults>>  BY DEF NewMinute
<1>2. sent' \in [Processes -> 0..RateLimit] /\ \A q \in Processes : sent'[q] <= sent[q]
  BY Limits DEF NewMinute, Base, Tables
<1>3. Tables' /\ Len(rows)' = Len(rows)  BY <1>1, <1>2 DEF Base, Tables
<1>4. \A a \in Actors : Spent(a)' <= Spent(a)  BY <1>2 DEF Spent
<1> QED BY <1>1, <1>3, <1>4, IdleKeeps

LEMMA ReportBase ==
  ASSUME Base, NEW q \in Requests, NEW d \in DOMAIN rows, NEW status \in Reports, Report(q, d, status)
  PROVE  Base' /\ Quiet /\ UNCHANGED rows /\ Only(q)
<1>1. q \in Actors /\ q \notin Processes /\ Len(rows) \in Nat /\ DOMAIN rows = 1..Len(rows)  BY BaseTypes
<1>2. Quiet  BY Tabled DEF Quiet, Report
<1>3. CASE Leave(q)  BY <1>1, <1>2, <1>3, LeaveKeeps, LeaveIs DEF Quiet
<1>4. CASE job' = [job EXCEPT ![q].pc = status, ![q].batch = <<d>>]
  <2>1. JobOK(q, job[q], Len(rows), Spent(q)) /\ job = [a \in Actors |-> job[a]]  BY <1>1 DEF Base
  <2>2. /\ Only(q)
        /\ job'[q] = [pc |-> status, batch |-> <<d>>, attempts |-> job[q].attempts, list |-> job[q].list]
    BY <1>1, <1>4, <2>1 DEF Only, JobOK
  <2>3. PICK b, tried, n, list : b = <<d>> /\ tried = job[q].attempts /\ n = Len(rows) /\ list = job[q].list
    OBVIOUS
  <2>4. b \in Seq(1..n) /\ Once(b) /\ b # <<>>  BY <1>1, <2>3 DEF Once
  <2>5. Place(q, status, b) /\ status # "claim"
    BY <1>1, <2>4, ReportsAssumption DEF Place, Working, Mailings, Reporting
  <2>6. tried \in 0..MaxAttempts /\ list \in SUBSET Contacts /\ n \in Nat  BY <1>1, <2>1, <2>3 DEF JobOK
  <2>7. \A s : JobOK(q, [pc |-> status, batch |-> b, attempts |-> tried, list |-> list], n, s)
    BY <2>4, <2>5, <2>6, JobMade
  <2>8. JobOK(q, job'[q], Len(rows), Spent(q))  BY <2>2, <2>3, <2>7
  <2> QED BY <1>1, <1>2, <2>2, <2>8, QuietKeeps DEF Quiet
<1> QED BY <1>3, <1>4 DEF Report

LEMMA NewRowIs ==
  ASSUME NEW c \in Contacts
  PROVE  /\ NewRow(c) \in Row /\ NewRow(c).owed = 1 /\ NewRow(c).status = "pending"
         /\ NewRow(c).mailed = FALSE
BY Limits DEF NewRow, Row, Statuses

\* What planning adds: rows of which nothing has been mailed.
LEMMA InsertIs ==
  ASSUME Base, NEW a \in Actors, Insert(a)
  PROVE  /\ Leave(a) \/ Goto(a, "find")
         /\ rows' \in Seq(Row) /\ Len(rows) <= Len(rows)' /\ Len(rows)' <= MaxRows
         /\ \A d \in DOMAIN rows : rows'[d] = rows[d]
         /\ \A d \in DOMAIN rows' : d \notin DOMAIN rows =>
              rows'[d].owed = 1 /\ rows'[d].status = "pending" /\ rows'[d].mailed = FALSE
<1> DEFINE S == Contacts \ (optedOut \cup suppressed)
           Added(order) == [i \in DOMAIN order |-> NewRow(order[i])]
<1>1. rows \in Seq(Row) /\ Len(rows) \in Nat /\ DOMAIN rows = 1..Len(rows) /\ Len(rows) <= MaxRows
  BY BaseTypes DEF Base, Tables
<1>2. Cardinality(S) \in Nat  BY ContactsAssumption, FS_Subset, FS_CardinalityType
<1>3. PICK order \in SetToSeqs(S) :
        IF Len(rows) + Len(order) <= MaxRows
          THEN /\ rows' = rows \o Added(order)
               /\ IF a \in Processes THEN Goto(a, "find") ELSE Leave(a)
          ELSE UNCHANGED rows /\ Leave(a)
  BY DEF Insert
<1>4. CASE Len(rows) + Len(order) <= MaxRows
  <2>1. PICK k \in Nat : k = Cardinality(S)  BY <1>2
  <2>2. order \in [1..k -> S]  BY <2>1 DEF SetToSeqs
  <2>3. Len(order) = k /\ DOMAIN order = 1..k  BY <2>1, <2>2
  <2>4. \A i \in 1..k : NewRow(order[i]) \in Row /\ NewRow(order[i]).owed = 1
                          /\ NewRow(order[i]).status = "pending" /\ NewRow(order[i]).mailed = FALSE
    BY <2>2, NewRowIs
  <2>5. PICK f : f = Added(order)  OBVIOUS
  <2>6. f \in [1..k -> Row] /\ \A i \in 1..k : f[i] = NewRow(order[i])  BY <2>3, <2>4, <2>5
  <2>7. f \in Seq(Row) /\ Len(f) = k  BY <2>6
  <2>8. rows' = rows \o f  BY <1>3, <1>4, <2>5
  <2>9. /\ rows' \in Seq(Row) /\ Len(rows)' = Len(rows) + k /\ DOMAIN rows' = 1..(Len(rows) + k)
        /\ \A d \in 1..Len(rows) : rows'[d] = rows[d]
        /\ \A d \in (Len(rows) + 1)..(Len(rows) + k) : rows'[d] = f[d - Len(rows)]
    BY <1>1, <2>7, <2>8
  <2>10. ASSUME NEW d \in DOMAIN rows', d \notin DOMAIN rows
         PROVE  rows'[d].owed = 1 /\ rows'[d].status = "pending" /\ rows'[d].mailed = FALSE
    <3>1. d \in (Len(rows) + 1)..(Len(rows) + k) /\ d - Len(rows) \in 1..k  BY <1>1, <2>9, <2>10
    <3>2. rows'[d] = NewRow(order[d - Len(rows)])  BY <2>6, <2>9, <3>1
    <3> QED BY <2>4, <3>1, <3>2
  <2>11. Leave(a) \/ Goto(a, "find")  BY <1>3, <1>4
  <2>12. Len(rows) <= Len(rows)' /\ Len(rows)' <= MaxRows  BY <1>1, <1>4, <2>3, <2>9
  <2>13. \A d \in DOMAIN rows : rows'[d] = rows[d]  BY <1>1, <2>9
  <2> QED BY <2>9, <2>10, <2>11, <2>12, <2>13
<1>5. CASE ~(Len(rows) + Len(order) <= MaxRows)
  <2>1. rows' = rows /\ Leave(a)  BY <1>3, <1>5
  <2> QED BY <1>1, <2>1
<1> QED BY <1>4, <1>5

LEMMA InsertBase ==
  ASSUME Base, NEW a \in Actors, Insert(a)
  PROVE  Base'
<1>1. UNCHANGED <<letter, optedOut, suppressed, sent, faults>>  BY DEF Insert
<1>2. Tables'  BY <1>1, InsertIs DEF Base, Tables
<1>3. /\ Len(rows) \in Nat /\ Len(rows)' \in Nat /\ Len(rows) <= Len(rows)'
      /\ \A b \in Actors : Spent(b)' = Spent(b) /\ Spent(b) \in Nat
  <2>1. rows' \in Seq(Row) /\ Len(rows) <= Len(rows)'  BY InsertIs
  <2>3. Len(rows)' \in Nat  BY <2>1
  <2>2. \A b \in Actors : Spent(b)' = Spent(b)  BY <1>1 DEF Spent
  <2> QED BY <2>1, <2>2, <2>3, BaseTypes
<1>4. \A b \in Actors \ {a} : Spent(b)' <= Spent(b)  BY <1>3
<1>5. CASE Leave(a)
  <2>1. Only(a) /\ JobOK(a, job'[a], Len(rows)', Spent(a)')  BY <1>3, <1>5, LeaveIs
  <2> QED BY <1>2, <1>3, <1>4, <2>1, ActorKeeps
<1>6. CASE Goto(a, "find")
  <2>1. Only(a)  BY <1>6, GotoIs
  <2>2. Place(a, "find", job[a].batch) /\ "find" \in Working \cup Reporting \cup Others
    BY OtherPlace DEF Others
  <2>3. JobOK(a, job'[a], Len(rows), Spent(a))  BY <1>6, <2>2, GotoOK
  <2>4. PICK j, m, n, s, t : j = job'[a] /\ m = Len(rows) /\ n = Len(rows)' /\ s = Spent(a) /\ t = Spent(a)'
    OBVIOUS
  <2>5. JobOK(a, j, n, t)  BY <1>3, <2>3, <2>4, JobKeeps
  <2>6. JobOK(a, job'[a], Len(rows)', Spent(a)')  BY <2>4, <2>5
  <2> QED BY <1>2, <1>3, <1>4, <2>1, <2>6, ActorKeeps
<1> QED BY <1>5, <1>6, InsertIs

-----------------------------------------------------------------------------
(* Finding a batch and claiming it. *)

LEMMA HeldHolds ==
  ASSUME NEW d
  PROVE  Held(d) <=> \E p \in Processes : Holds(job[p].batch, d)
BY DEF Held, Holds

\* What taking back stale claims does to a delivery.
LEMMA ReclaimedIs ==
  ASSUME Base, NEW d \in DOMAIN rows
  PROVE  /\ Reclaimed[d] \in Row /\ Reclaimed[d].mailed = rows[d].mailed
         /\ \/ Reclaimed[d] = rows[d]
            \/ /\ rows[d].status = "queued" /\ Reclaimed[d].status = "pending"
               /\ \/ Reclaimed[d].owed = OneMore(rows[d].owed)
                  \/ ~rows[d].mailed /\ ~Held(d) /\ Reclaimed[d].owed = rows[d].owed
<1>1. rows[d] \in Row  BY BaseTypes
<1>2. CASE ~Reclaimable(rows[d])  BY <1>1, <1>2 DEF Reclaimed
<1>3. CASE Reclaimable(rows[d])
  <2>1. PICK o : o = IF rows[d].mailed \/ Held(d) THEN OneMore(rows[d].owed) ELSE rows[d].owed  OBVIOUS
  <2>2. o \in Int  BY <1>1, <2>1, RowFields, OneMoreIs
  <2>3. Reclaimed[d] = [rows[d] EXCEPT !.status = "pending", !.claim = "none", !.owed = o]
    BY <1>3, <2>1 DEF Reclaimed
  <2>4. PICK r : r = [rows[d] EXCEPT !.status = "pending", !.claim = "none", !.owed = o]  OBVIOUS
  <2>5. r \in Row /\ r.mailed = rows[d].mailed /\ r.status = "pending" /\ r.owed = o
    BY <1>1, <2>2, <2>4 DEF Row, Statuses
  <2>6. rows[d].status = "queued"  BY <1>3 DEF Reclaimable
  <2>7. o = OneMore(rows[d].owed) \/ (~rows[d].mailed /\ ~Held(d) /\ o = rows[d].owed)  BY <2>1
  <2> QED BY <2>3, <2>4, <2>5, <2>6, <2>7
<1> QED BY <1>2, <1>3

LEMMA FirstOfIs ==
  ASSUME NEW n \in Nat, NEW ids \in SUBSET (1..n), NEW k \in Nat, NEW batch \in FirstOf(ids, k)
  PROVE  batch \in Seq(1..n) /\ Len(batch) = k /\ Once(batch)
<1>1. batch \in [1..k -> ids] /\ \A i, j \in 1..k : i < j => batch[i] < batch[j]  BY DEF FirstOf
<1>2. batch \in Seq(1..n) /\ Len(batch) = k /\ DOMAIN batch = 1..k
  <2>1. ids \subseteq 1..n  OBVIOUS
  <2>2. batch \in [1..k -> 1..n]  BY <1>1, <2>1
  <2> QED BY <2>2
<1>3. ASSUME NEW i \in 1..k, NEW j \in 1..k, batch[i] = batch[j]
      PROVE  i = j
  <2>1. batch[i] \in Nat /\ batch[j] \in Nat  BY <1>2
  <2>2. ~(i < j) /\ ~(j < i)  BY <1>1, <1>3, <2>1
  <2> QED BY <2>2
<1> QED BY <1>2, <1>3 DEF Once

LEMMA FindIs ==
  ASSUME Base, NEW p \in Processes, Find(p)
  PROVE  /\ Only(p) /\ JobOK(p, job'[p], Len(rows), Spent(p)) /\ job'[p].pc \in {"claim", "finalize"}
         /\ rows' = Reclaimed /\ rows' \in Seq(Row) /\ Len(rows)' = Len(rows) /\ DOMAIN rows' = DOMAIN rows
<1>1. /\ p \in Actors /\ p \notin Requests /\ Len(rows) \in Nat /\ DOMAIN rows = 1..Len(rows)
      /\ Spent(p) = sent[p] /\ job = [a \in Actors |-> job[a]] /\ sent[p] \in 0..RateLimit
  BY BaseTypes DEF Base, Tables
<1>2. rows' = Reclaimed /\ DOMAIN Reclaimed = DOMAIN rows  BY DEF Find, Reclaimed
<1>3. rows' \in Seq(Row) /\ Len(rows)' = Len(rows)
  <2>1. PICK rs, new : rs = rows /\ new = Reclaimed  OBVIOUS
  <2>2. rs \in Seq(Row) /\ DOMAIN new = DOMAIN rs  BY <1>2, <2>1 DEF Base, Tables
  <2>3. new = [d \in DOMAIN rs |-> new[d]]  BY <2>1 DEF Reclaimed
  <2>4. \A d \in DOMAIN rs : new[d] \in Row  BY <2>1, ReclaimedIs
  <2>5. new \in Seq(Row) /\ Len(new) = Len(rs)  BY <2>2, <2>3, <2>4, RowsReplaced
  <2> QED BY <1>2, <2>1, <2>5
<1> DEFINE Size(due) == Smaller(Cardinality(due), Smaller(BatchSize, Allowance(p)))
           Takes(batch) == job' = [job EXCEPT ![p].pc = IF batch = <<>> THEN "finalize" ELSE "claim",
                                              ![p].batch = batch]
<1>4. PICK due \in SUBSET (DOMAIN rows) : \E batch \in FirstOf(due, Size(due)) : Takes(batch)
  BY DEF Find
<1>5. Allowance(p) \in Nat /\ sent[p] + Allowance(p) <= RateLimit  BY <1>1, Limits DEF Allowance
<1>6. PICK k : k = Size(due)  OBVIOUS
<1>7. k \in Nat /\ k <= Allowance(p)
  <2>1. IsFiniteSet(due)
    <3>1. PICK n : n = Len(rows)  OBVIOUS
    <3>2. n \in Int /\ due \subseteq 1..n /\ 1 \in Int  BY <1>1, <3>1
    <3>3. IsFiniteSet(1..n)  BY <3>2, FS_Interval
    <3> QED BY <3>2, <3>3, FS_Subset
  <2>2. Cardinality(due) \in Nat  BY <2>1, FS_CardinalityType
  <2>3. Smaller(BatchSize, Allowance(p)) \in Nat /\ Smaller(BatchSize, Allowance(p)) <= Allowance(p)
    BY <1>5, Limits, SmallerIs
  <2> QED BY <1>5, <1>6, <2>2, <2>3, SmallerIs
<1>8. PICK n, s : n = Len(rows) /\ s = Spent(p)  OBVIOUS
<1> PICK batch \in FirstOf(due, k) : Takes(batch)  BY <1>4, <1>6
<1>9. batch \in Seq(1..n) /\ Len(batch) = k /\ Once(batch)  BY <1>1, <1>4, <1>7, <1>8, FirstOfIs
<1>10. PICK pc : pc = IF batch = <<>> THEN "finalize" ELSE "claim"  OBVIOUS
<1>11. pc \in {"finalize", "claim"} /\ (pc = "claim" => batch # <<>>)  BY <1>10
<1>12. JobOK(p, job[p], n, s)  BY <1>1, <1>8 DEF Base
<1>13. /\ Only(p)
       /\ job'[p] = [pc |-> pc, batch |-> batch, attempts |-> job[p].attempts, list |-> job[p].list]
  BY <1>1, <1>4, <1>10, <1>12 DEF Only, JobOK
<1>14. PICK tried, list : tried = job[p].attempts /\ list = job[p].list  OBVIOUS
<1>15. tried \in 0..MaxAttempts /\ list \in SUBSET Contacts  BY <1>12, <1>14 DEF JobOK
<1>16. Place(p, pc, batch)  BY <1>1, <1>11 DEF Place, Working, Mailings, Reporting, Others
<1>17. s + Len(batch) <= RateLimit  BY <1>1, <1>5, <1>7, <1>8, <1>9, Limits
<1>18. JobOK(p, [pc |-> pc, batch |-> batch, attempts |-> tried, list |-> list], n, s)
  <2>1. PICK j : j = [pc |-> pc, batch |-> batch, attempts |-> tried, list |-> list]  OBVIOUS
  <2>2. j.pc = pc /\ j.batch = batch  BY <2>1
  <2>3. j \in [pc : Working \cup Reporting \cup Others, batch : Seq(1..n),
               attempts : 0..MaxAttempts, list : SUBSET Contacts]
    BY <1>9, <1>15, <1>16, <2>1 DEF Place
  <2>4. JobOK(p, j, n, s)  BY <1>9, <1>16, <1>17, <2>2, <2>3 DEF JobOK
  <2> QED BY <2>1, <2>4
<1>19. JobOK(p, job'[p], Len(rows), Spent(p)) /\ job'[p].pc \in {"claim", "finalize"}
  BY <1>8, <1>11, <1>13, <1>14, <1>18
<1> QED BY <1>2, <1>3, <1>13, <1>19

LEMMA FindBase ==
  ASSUME Base, NEW p \in Processes, Find(p)
  PROVE  Base'
<1>1. p \in Actors /\ UNCHANGED <<letter, optedOut, suppressed, sent>> /\ faults' \in 0..MaxFaults
  BY BaseTypes, Tabled DEF Find
<1> QED BY <1>1, FindIs, WriteKeeps

LEMMA ClaimIs ==
  ASSUME Base, NEW p \in Processes, Claim(p)
  PROVE  /\ rows' \in Seq(Row) /\ Len(rows)' = Len(rows) /\ DOMAIN rows' = DOMAIN rows
         /\ \A d \in DOMAIN rows :
              /\ rows'[d].mailed = rows[d].mailed
              /\ ~Holds(job[p].batch, d) => rows'[d] = rows[d]
              /\ Holds(job[p].batch, d) =>
                   /\ rows'[d].status = "queued"
                   /\ \/ rows[d].status = "pending" /\ rows'[d].owed = rows[d].owed
                      \/ rows'[d].owed = OneMore(rows[d].owed)
<1> DEFINE Taken(d) == [rows[d] EXCEPT !.status = "queued", !.claim = "fresh",
                                       !.owed = IF rows[d].status = "pending" THEN @ ELSE OneMore(@)]
           New == [d \in DOMAIN rows |-> IF Holds(job[p].batch, d) THEN Taken(d) ELSE rows[d]]
<1>1. rows' = New  BY DEF Claim, Holds
<1>2. ASSUME NEW d \in DOMAIN rows
      PROVE  /\ rows[d] \in Row /\ Taken(d) \in Row /\ Taken(d).mailed = rows[d].mailed
             /\ Taken(d).status = "queued"
             /\ \/ rows[d].status = "pending" /\ Taken(d).owed = rows[d].owed
                \/ Taken(d).owed = OneMore(rows[d].owed)
  <2>1. rows[d] \in Row  BY BaseTypes
  <2>2. PICK o : o = IF rows[d].status = "pending" THEN rows[d].owed ELSE OneMore(rows[d].owed)  OBVIOUS
  <2>3. o \in Int  BY <2>1, <2>2, RowFields, OneMoreIs
  <2>4. Taken(d) = [rows[d] EXCEPT !.status = "queued", !.claim = "fresh", !.owed = o]  BY <2>2
  <2>5. PICK r : r = [rows[d] EXCEPT !.status = "queued", !.claim = "fresh", !.owed = o]  OBVIOUS
  <2>6. r \in Row /\ r.mailed = rows[d].mailed /\ r.status = "queued" /\ r.owed = o
    BY <2>1, <2>3, <2>5 DEF Row, Statuses
  <2>7. (rows[d].status = "pending" /\ o = rows[d].owed) \/ o = OneMore(rows[d].owed)  BY <2>2
  <2> HIDE DEF Taken
  <2> QED BY <2>1, <2>4, <2>5, <2>6, <2>7
<1> HIDE DEF Taken
<1>3. \A d \in DOMAIN rows : New[d] \in Row /\ New[d] = IF Holds(job[p].batch, d) THEN Taken(d) ELSE rows[d]
  BY <1>2
<1>4. rows' \in Seq(Row) /\ Len(rows)' = Len(rows) /\ DOMAIN rows' = DOMAIN rows
  <2>1. PICK rs, new : rs = rows /\ new = New  OBVIOUS
  <2>2. rs \in Seq(Row) /\ DOMAIN new = DOMAIN rs /\ new = [d \in DOMAIN rs |-> new[d]]
    BY <2>1 DEF Base, Tables
  <2>3. \A d \in DOMAIN rs : new[d] \in Row  BY <1>3, <2>1
  <2>4. new \in Seq(Row) /\ Len(new) = Len(rs)  BY <2>2, <2>3, RowsReplaced
  <2> QED BY <1>1, <2>1, <2>2, <2>4
<1>5. ASSUME NEW d \in DOMAIN rows
      PROVE  /\ rows'[d].mailed = rows[d].mailed
             /\ ~Holds(job[p].batch, d) => rows'[d] = rows[d]
             /\ Holds(job[p].batch, d) =>
                  /\ rows'[d].status = "queued"
                  /\ \/ rows[d].status = "pending" /\ rows'[d].owed = rows[d].owed
                     \/ rows'[d].owed = OneMore(rows[d].owed)
  BY <1>1, <1>2, <1>3
<1> QED BY <1>4, <1>5

LEMMA ClaimBase ==
  ASSUME Base, NEW p \in Processes, Claim(p)
  PROVE  Base'
<1>1. /\ p \in Actors /\ p \notin Requests /\ UNCHANGED <<letter, optedOut, suppressed, faults>>
      /\ Spent(p) = sent[p] /\ Len(rows) \in Nat
  BY BaseTypes DEF Claim
<1>2. JobOK(p, job[p], Len(rows), Spent(p)) /\ job[p].pc = "claim"  BY <1>1 DEF Base, Claim
<1>3. sent[p] + Len(job[p].batch) <= RateLimit /\ Len(job[p].batch) \in Nat  BY <1>1, <1>2 DEF JobOK
<1>4. sent \in [Processes -> 0..RateLimit] /\ sent' = [sent EXCEPT ![p] = sent[p] + Len(job[p].batch)]
  BY DEF Base, Tables, Claim
<1>5. sent' \in [Processes -> 0..RateLimit] /\ \A q \in Processes \ {p} : sent'[q] = sent[q]
  BY <1>3, <1>4, Limits
<1>6. Tables'  BY <1>1, <1>5, ClaimIs DEF Base, Tables
<1>7. \A b \in Actors \ {p} : Spent(b)' <= Spent(b)
  <2>1. \A b \in Actors \ {p} : Spent(b)' = Spent(b) /\ Spent(b) \in Nat  BY <1>5, BaseTypes DEF Spent
  <2> QED BY <2>1
<1>8. Only(p) /\ \A s : JobOK(p, job'[p], Len(rows), s)
  BY <1>1, <1>2, FurtherOK DEF Claim, Working, Mailings
<1>9. JobOK(p, job'[p], Len(rows)', Spent(p)') /\ Len(rows) <= Len(rows)'
  <2>1. Len(rows)' = Len(rows)  BY ClaimIs
  <2> QED BY <1>1, <1>8, <2>1
<1> QED BY <1>1, <1>6, <1>7, <1>8, <1>9, ActorKeeps

-----------------------------------------------------------------------------
(* Type correctness. *)

LEMMA InitBase == Init => Base
<1> SUFFICES ASSUME Init PROVE Base  OBVIOUS
<1>1. Tables
  <2>1. rows = <<>> /\ <<>> \in Seq(Row) /\ Len(<<>>) = 0  BY DEF Init
  <2> QED BY <2>1, Limits DEF Init, Tables
<1>2. ASSUME NEW a \in Actors
      PROVE  JobOK(a, job[a], Len(rows), Spent(a))
  <2>1. job[a] = [pc |-> "idle", batch |-> <<>>, attempts |-> 0, list |-> {}] /\ Len(rows) = 0
    BY DEF Init, Idle
  <2>2. Place(a, "idle", <<>>) /\ "idle" # "claim"  BY OtherPlace DEF Others
  <2>3. <<>> \in Seq(1..0) /\ Once(<<>>) /\ 0 \in 0..MaxAttempts /\ {} \in SUBSET Contacts  BY Limits DEF Once
  <2>4. \A s : JobOK(a, [pc |-> "idle", batch |-> <<>>, attempts |-> 0, list |-> {}], 0, s)
    BY <2>2, <2>3, JobMade
  <2> QED BY <2>1, <2>4
<1>3. job = [a \in Actors |-> job[a]]  BY DEF Init
<1> QED BY <1>1, <1>2, <1>3 DEF Base

LEMMA StutterBase ==
  ASSUME Base, UNCHANGED vars
  PROVE  Base'
<1>1. Tables' /\ Len(rows)' = Len(rows) /\ UNCHANGED job  BY DEF Base, Tables, vars
<1>2. \A a \in Actors : Spent(a)' <= Spent(a)
  <2>1. \A a \in Actors : Spent(a)' = Spent(a) /\ Spent(a) \in Nat  BY BaseTypes DEF Spent, vars
  <2> QED BY <2>1
<1> QED BY <1>1, <1>2, IdleKeeps

LEMMA NextBase ==
  ASSUME Base, [Next]_vars
  PROVE  Base'
<1>1. ASSUME NEW p \in Processes, Tick(p) \/ FailRecord(p) \/ Crash(p) \/ NewMinute(p)
      PROVE  Base'
  <2>1. p \in Actors  BY BaseTypes
  <2>2. CASE Planning(p)  BY <2>1, <2>2, PlanningBase
  <2>3. CASE Insert(p)  BY <2>1, <2>3, InsertBase
  <2>4. CASE Find(p)  BY <2>4, FindBase
  <2>5. CASE Claim(p)  BY <2>5, ClaimBase
  <2>6. CASE Send(p)  BY <2>6, SendBase
  <2>7. CASE MarkSent(p)  BY <2>7, MarkSentBase
  <2>8. CASE MarkRefused(p)  BY <2>8, MarkRefusedBase
  <2>9. CASE FailRecord(p)  BY <2>9, FailRecordBase
  <2>10. CASE NewMinute(p)  BY <2>10, NewMinuteBase
  <2> QED BY <1>1, <2>2, <2>3, <2>4, <2>5, <2>6, <2>7, <2>8, <2>9, <2>10 DEF Tick, Planning
<1>2. ASSUME NEW r \in Requests, Request(r)
      PROVE  Base'
  <2>1. r \in Actors  BY BaseTypes
  <2>2. CASE Planning(r)  BY <2>1, <2>2, PlanningBase
  <2>3. CASE Insert(r)  BY <2>1, <2>3, InsertBase
  <2>4. CASE WriteReport(r)  BY <2>4, WriteReportBase
  <2>5. CASE LoadSuppressed(r) \/ SaveSuppressed(r) \/ \E d \in DOMAIN rows : Unsubscribe(r, d)
    BY <2>5, SuppressBase
  <2>6. CASE \E d \in DOMAIN rows, s \in Reports : Report(r, d, s)  BY <2>6, ReportBase
  <2> QED BY <1>2, <2>2, <2>3, <2>4, <2>5, <2>6 DEF Request, Planning
<1>3. ASSUME NEW d \in DOMAIN rows, Expire(d) \/ Due(d)
      PROVE  Base'
  BY <1>3, TimePassesBase
<1>4. CASE UNCHANGED vars  BY <1>4, StutterBase
<1> QED BY <1>1, <1>2, <1>3, <1>4 DEF Next

THEOREM BaseHolds == Spec => []Base
<1>1. Base /\ [Next]_vars => Base'  BY NextBase
<1> QED BY <1>1, InitBase, PTL DEF Spec

\* The newsletter, its deliveries, the lists of addresses not to be mailed and what every
\* process and request has in hand keep their types, and no process exceeds its rate limit.
THEOREM TypeInvariant == Spec => []TypeOK
<1>1. Base => TypeOK  BY BaseTypes
<1> QED BY <1>1, BaseHolds, PTL
-----------------------------------------------------------------------------
(* Mails and what is owed: the processes that may mail a delivery before they look at *)
(* it again are no more than the mails it is owed.                                      *)

Mailing(p, d) ==
  /\ job[p].pc \in Mailings /\ Holds(job[p].batch, d)
  /\ job[p].pc = "delivered" => Head(job[p].batch) # d
Past(p, d) == job[p].pc \in Mailings /\ Holds(job[p].batch, d)

Mailers(d) == {p \in Processes : Mailing(p, d)}
Pasts(d) == {p \in Processes : Past(p, d)}

\* The credit of a delivery with mailers m, and the processes t past claiming it.
InCredit(m, t, row) ==
  /\ Cardinality(m) <= row.owed
  /\ row.status = "pending" => Cardinality(m) + 1 <= row.owed /\ t # Processes
  /\ row.mailed = FALSE => row.owed >= 1

Credit == \A d \in DOMAIN rows : InCredit(Mailers(d), Pasts(d), rows[d])

LEMMA MailersArePast ==
  ASSUME NEW d
  PROVE  Mailers(d) \subseteq Pasts(d) /\ Pasts(d) \subseteq Processes
BY DEF Mailers, Pasts, Mailing, Past

LEMMA SomeProcesses ==
  ASSUME NEW m \in SUBSET Processes
  PROVE  /\ IsFiniteSet(m) /\ Cardinality(m) \in Nat /\ Cardinality(m) <= Cardinality(Processes)
         /\ m # Processes => Cardinality(m) + 1 <= Cardinality(Processes)
<1>1. IsFiniteSet(m) /\ Cardinality(m) <= Cardinality(Processes)
      /\ (Cardinality(m) = Cardinality(Processes) => m = Processes)
  BY ActorsAssumption, FS_Subset
<1>2. Cardinality(m) \in Nat  BY <1>1, FS_CardinalityType
<1> QED BY <1>1, <1>2, ManyProcesses

LEMMA OneProcessMore ==
  ASSUME NEW m \in SUBSET Processes, NEW k \in SUBSET Processes, NEW p, k \subseteq m \cup {p}
  PROVE  Cardinality(k) <= Cardinality(m) + 1
<1>1. IsFiniteSet(m) /\ Cardinality(m) \in Nat /\ Cardinality(k) \in Nat  BY SomeProcesses
<1>2. IsFiniteSet(m \cup {p}) /\ Cardinality(m \cup {p}) <= Cardinality(m) + 1
      /\ Cardinality(m \cup {p}) \in Nat
  BY <1>1, FS_AddElement, FS_CardinalityType
<1>3. Cardinality(k) <= Cardinality(m \cup {p})  BY <1>2, FS_Subset
<1> QED BY <1>1, <1>2, <1>3

LEMMA OneProcessLess ==
  ASSUME NEW m \in SUBSET Processes, NEW p \in m, NEW k, k \subseteq m \ {p}
  PROVE  Cardinality(k) + 1 <= Cardinality(m)
<1>1. IsFiniteSet(m) /\ Cardinality(m) \in Nat /\ Cardinality(k) \in Nat  BY SomeProcesses
<1>2. IsFiniteSet(m \ {p}) /\ Cardinality(m \ {p}) = Cardinality(m) - 1  BY <1>1, FS_RemoveElement
<1>3. Cardinality(k) <= Cardinality(m \ {p})  BY <1>2, FS_Subset
<1> QED BY <1>1, <1>2, <1>3

LEMMA FewerProcesses ==
  ASSUME NEW m \in SUBSET Processes, NEW k, k \subseteq m
  PROVE  Cardinality(k) <= Cardinality(m)
BY SomeProcesses, FS_Subset

\* The ways a delivery's mailers and row may change.

\* No one starts to mail it.
Kept(m, t, row, k, u, new) ==
  /\ k \subseteq m /\ new.owed = row.owed /\ new.mailed = row.mailed
  /\ new.status = "pending" => row.status = "pending" /\ u \subseteq t

\* p mails it.
Mailed(p, m, t, row, k, u, new) ==
  /\ p \in m /\ k \subseteq m \ {p} /\ u \subseteq t
  /\ new.owed = row.owed - 1 /\ new.mailed = TRUE /\ new.status = row.status

\* p may mail it once more.
Granted(p, m, t, row, k, u, new) ==
  /\ k \subseteq m \cup {p} /\ new.owed = OneMore(row.owed) /\ new.mailed = row.mailed
  /\ new.status = "pending" => u # Processes /\ (row.status = "pending" \/ k \subseteq m)

\* p claims it while it is pending.
Claimed(p, m, t, row, k, u, new) ==
  /\ k \subseteq m \cup {p} /\ new.owed = row.owed /\ new.mailed = row.mailed
  /\ row.status = "pending" /\ new.status # "pending"

\* p gives it up.
Returned(p, m, t, row, k, u, new) ==
  /\ p \in m /\ k \subseteq m \ {p} /\ u # Processes
  /\ new.owed = row.owed /\ new.mailed = row.mailed

\* It is taken back unmailed from a process that is gone.
Abandoned(m, t, row, k, u, new) ==
  /\ k = {} /\ u # Processes
  /\ row.mailed = FALSE /\ new.mailed = FALSE /\ new.owed = row.owed

Change(m, t, row, k, u, new) ==
  \/ Kept(m, t, row, k, u, new) \/ Abandoned(m, t, row, k, u, new)
  \/ \E p \in Processes : \/ Mailed(p, m, t, row, k, u, new) \/ Granted(p, m, t, row, k, u, new)
                          \/ Claimed(p, m, t, row, k, u, new) \/ Returned(p, m, t, row, k, u, new)

LEMMA CreditKept ==
  ASSUME NEW m, NEW t \in SUBSET Processes, m \subseteq t, NEW row \in Row, InCredit(m, t, row),
         NEW k, NEW u \in SUBSET Processes, k \subseteq u, NEW new \in Row, Change(m, t, row, k, u, new)
  PROVE  InCredit(k, u, new)
<1>1. /\ m \in SUBSET Processes /\ k \in SUBSET Processes
      /\ Cardinality(m) \in Nat /\ Cardinality(k) \in Nat /\ row.owed \in Int /\ new.owed \in Int
      /\ row.mailed \in BOOLEAN /\ new.mailed \in BOOLEAN
  BY SomeProcesses, RowFields
<1>2. CASE Kept(m, t, row, k, u, new)
  <2>1. Cardinality(k) <= Cardinality(m)  BY <1>1, <1>2, FewerProcesses DEF Kept
  <2>2. u \subseteq t /\ t # Processes => u # Processes  OBVIOUS
  <2> QED BY <1>1, <1>2, <2>1, <2>2 DEF Kept, InCredit
<1>3. CASE Abandoned(m, t, row, k, u, new)
  <2>1. Cardinality(k) = 0  BY <1>3, FS_EmptySet DEF Abandoned
  <2> QED BY <1>1, <1>3, <2>1 DEF Abandoned, InCredit
<1>4. ASSUME NEW p \in Processes, Mailed(p, m, t, row, k, u, new)
      PROVE  InCredit(k, u, new)
  <2>1. Cardinality(k) + 1 <= Cardinality(m)  BY <1>1, <1>4, OneProcessLess DEF Mailed
  <2>2. u \subseteq t /\ t # Processes => u # Processes  OBVIOUS
  <2> QED BY <1>1, <1>4, <2>1, <2>2 DEF Mailed, InCredit
<1>5. ASSUME NEW p \in Processes, Granted(p, m, t, row, k, u, new)
      PROVE  InCredit(k, u, new)
  <2>1. Cardinality(k) <= Cardinality(m) + 1  BY <1>1, <1>5, OneProcessMore DEF Granted
  <2>2. Cardinality(k) <= Cardinality(Processes)  BY <1>1, SomeProcesses
  <2>3. u # Processes => Cardinality(k) + 1 <= Cardinality(Processes)
    <3>1. u # Processes => k # Processes  OBVIOUS
    <3> QED BY <1>1, <3>1, SomeProcesses
  <2>4. k \subseteq m => Cardinality(k) <= Cardinality(m)  BY <1>1, FewerProcesses
  <2>5. /\ new.owed = OneMore(row.owed)
        /\ \A n \in Int : n <= row.owed /\ n + 1 <= Cardinality(Processes) => n + 1 <= OneMore(row.owed)
    BY <1>1, <1>5, OneMoreIs DEF Granted
  <2>6. Cardinality(k) <= new.owed
    <3>1. Cardinality(k) - 1 \in Int /\ Cardinality(k) - 1 <= row.owed  BY <1>1, <2>1 DEF InCredit
    <3>2. (Cardinality(k) - 1) + 1 <= Cardinality(Processes)  BY <1>1, <2>2, ManyProcesses
    <3>3. (Cardinality(k) - 1) + 1 <= OneMore(row.owed)  BY <2>5, <3>1, <3>2
    <3> QED BY <1>1, <2>5, <3>3
  <2>7. ASSUME new.status = "pending" PROVE Cardinality(k) + 1 <= new.owed /\ u # Processes
    <3>1. u # Processes /\ (row.status = "pending" \/ k \subseteq m)  BY <1>5, <2>7 DEF Granted
    <3>2. Cardinality(k) <= row.owed  BY <1>1, <2>1, <2>4, <3>1 DEF InCredit
    <3> QED BY <1>1, <2>3, <2>5, <3>1, <3>2
  <2>8. ASSUME new.mailed = FALSE PROVE new.owed >= 1
    <3>1. 0 \in Int /\ 0 <= row.owed  BY <1>1, <1>5, <2>8 DEF Granted, InCredit
    <3>2. 0 + 1 <= OneMore(row.owed)  BY <2>5, <3>1, ManyProcesses
    <3> QED BY <1>1, <2>5, <3>2
  <2> QED BY <2>6, <2>7, <2>8 DEF InCredit
<1>6. ASSUME NEW p \in Processes, Claimed(p, m, t, row, k, u, new)
      PROVE  InCredit(k, u, new)
  <2>1. Cardinality(k) <= Cardinality(m) + 1  BY <1>1, <1>6, OneProcessMore DEF Claimed
  <2> QED BY <1>1, <1>6, <2>1 DEF Claimed, InCredit
<1>7. ASSUME NEW p \in Processes, Returned(p, m, t, row, k, u, new)
      PROVE  InCredit(k, u, new)
  <2>1. Cardinality(k) + 1 <= Cardinality(m)  BY <1>1, <1>7, OneProcessLess DEF Returned
  <2> QED BY <1>1, <1>7, <2>1 DEF Returned, InCredit
<1> QED BY <1>2, <1>3, <1>4, <1>5, <1>6, <1>7 DEF Change

LEMMA OnlyMailers ==
  ASSUME NEW a \in Actors, Only(a), NEW d
  PROVE  /\ Mailers(d)' \subseteq Mailers(d) \cup {a} /\ Pasts(d)' \subseteq Pasts(d) \cup {a}
         /\ (a \in Processes => ~Mailing(a, d)') => Mailers(d)' \subseteq Mailers(d) \ {a}
         /\ (a \in Processes => ~Past(a, d)') => Pasts(d)' \subseteq Pasts(d) \ {a}
<1>1. ASSUME NEW q \in Processes, q # a
      PROVE  (Mailing(q, d)' <=> Mailing(q, d)) /\ (Past(q, d)' <=> Past(q, d))
  <2>1. job'[q] = job[q]  BY <1>1 DEF Only, Actors
  <2> QED BY <2>1 DEF Mailing, Past
<1>2. Mailers(d)' = {q \in Processes : Mailing(q, d)'} /\ Pasts(d)' = {q \in Processes : Past(q, d)'}
  BY DEF Mailers, Pasts
<1> QED BY <1>1, <1>2 DEF Mailers, Pasts

\* The change of delivery d in a step.
Changes(d) == Change(Mailers(d), Pasts(d), rows[d], Mailers(d)', Pasts(d)', rows'[d])

LEMMA CreditStep ==
  ASSUME Base, Base', Credit, DOMAIN rows' = DOMAIN rows, \A d \in DOMAIN rows : Changes(d)
  PROVE  Credit'
<1>1. ASSUME NEW d \in DOMAIN rows
      PROVE  InCredit(Mailers(d)', Pasts(d)', rows'[d])
  <2>1. rows[d] \in Row /\ rows'[d] \in Row /\ InCredit(Mailers(d), Pasts(d), rows[d])
    BY BaseTypes DEF Credit, Base, Tables
  <2>2. /\ Mailers(d) \subseteq Pasts(d) /\ Pasts(d) \subseteq Processes
        /\ Mailers(d)' \subseteq Pasts(d)' /\ Pasts(d)' \subseteq Processes
    BY MailersArePast DEF Mailers, Pasts, Mailing, Past
  <2>3. PICK m, t, k, u, row, new :
          /\ m = Mailers(d) /\ t = Pasts(d) /\ k = Mailers(d)' /\ u = Pasts(d)'
          /\ row = rows[d] /\ new = rows'[d]
    OBVIOUS
  <2>4. Change(m, t, row, k, u, new)  BY <2>3 DEF Changes
  <2>5. InCredit(k, u, new)  BY <2>1, <2>2, <2>3, <2>4, CreditKept
  <2> QED BY <2>3, <2>5
<1> QED BY <1>1 DEF Credit

\* Nothing but the delivery's claim, wait or a final status changes, and the actor that
\* moves does not start to mail it.
LEMMA KeptIs ==
  ASSUME NEW a \in Actors, Only(a), NEW d \in DOMAIN rows,
         rows'[d].owed = rows[d].owed, rows'[d].mailed = rows[d].mailed,
         rows'[d].status = "pending" => rows[d].status = "pending",
         a \in Processes => (Mailing(a, d)' => Mailing(a, d)) /\ (Past(a, d)' => Past(a, d))
  PROVE  Changes(d)
<1>1. Mailers(d)' \subseteq Mailers(d)
  <2>1. CASE a \in Processes /\ Mailing(a, d)
    <3>1. a \in Mailers(d)  BY <2>1 DEF Mailers
    <3> QED BY <3>1, OnlyMailers
  <2>2. CASE ~(a \in Processes /\ Mailing(a, d))
    <3>1. a \in Processes => ~Mailing(a, d)'  BY <2>2
    <3> QED BY <3>1, OnlyMailers
  <2> QED BY <2>1, <2>2
<1>2. Pasts(d)' \subseteq Pasts(d)
  <2>1. CASE a \in Processes /\ Past(a, d)
    <3>1. a \in Pasts(d)  BY <2>1 DEF Pasts
    <3> QED BY <3>1, OnlyMailers
  <2>2. CASE ~(a \in Processes /\ Past(a, d))
    <3>1. a \in Processes => ~Past(a, d)'  BY <2>2
    <3> QED BY <3>1, OnlyMailers
  <2> QED BY <2>1, <2>2
<1>3. Kept(Mailers(d), Pasts(d), rows[d], Mailers(d)', Pasts(d)', rows'[d])  BY <1>1, <1>2 DEF Kept
<1> QED BY <1>3 DEF Changes, Change

\* A step that writes no delivery and leaves its actor not mailing.
LEMMA QuietCredit ==
  ASSUME Base, Base', Credit, UNCHANGED rows, NEW a \in Actors, Only(a),
         a \in Processes => job'[a].pc \notin Mailings
  PROVE  Credit'
<1>1. ASSUME NEW d \in DOMAIN rows PROVE Changes(d)
  <2>1. a \in Processes => ~Mailing(a, d)' /\ ~Past(a, d)'  BY DEF Mailing, Past
  <2> QED BY <2>1, KeptIs
<1> QED BY <1>1, CreditStep

LEMMA OthersNotMailing ==
  ASSUME NEW pc, pc \in Others \/ pc \in {"idle", "done", "find", "claim", "finalize"}
  PROVE  pc \notin Mailings
BY DEF Others, Mailings

LEMMA PlanningCredit ==
  ASSUME Base, Base', Credit, NEW a \in Actors, Planning(a)
  PROVE  Credit'
<1>1. Quiet /\ (Leave(a) \/ \E pc \in Others : Goto(a, pc))  BY PlanningIs
<1>2. Only(a) /\ job'[a].pc \notin Mailings
  <2>1. CASE Leave(a)  BY <2>1, LeaveIs, OthersNotMailing
  <2>2. ASSUME NEW pc \in Others, Goto(a, pc) PROVE Only(a) /\ job'[a].pc \notin Mailings
    <3>1. Only(a) /\ job'[a].pc = pc  BY <2>2, GotoIs
    <3> QED BY <3>1, OthersNotMailing
  <2> QED BY <1>1, <2>1, <2>2
<1> QED BY <1>1, <1>2, QuietCredit DEF Quiet

\* A request writes no delivery but when it writes a report.
LEMMA RequestOnly ==
  ASSUME Base, NEW r \in Requests,
         \/ LoadSuppressed(r) \/ SaveSuppressed(r)
         \/ \E d \in DOMAIN rows : Unsubscribe(r, d)
         \/ \E d \in DOMAIN rows, s \in Reports : Report(r, d, s)
  PROVE  UNCHANGED rows /\ Only(r)
<1>1. r \in Actors /\ UNCHANGED rows
  BY BaseTypes DEF LoadSuppressed, SaveSuppressed, Unsubscribe, Report
<1>2. Leave(r) => Only(r)  BY <1>1, LeaveIs
<1>3. CASE \E d \in DOMAIN rows, s \in Reports : Report(r, d, s)  BY <1>1, <1>3, ReportBase
<1>4. CASE SaveSuppressed(r) \/ \E d \in DOMAIN rows : Unsubscribe(r, d)
  BY <1>1, <1>2, <1>4 DEF SaveSuppressed, Unsubscribe
<1>5. CASE LoadSuppressed(r)
  <2>1. CASE job' = [job EXCEPT ![r].pc = "save", ![r].list = suppressed]
    <3>1. job = [b \in Actors |-> job[b]]  BY DEF Base
    <3> QED BY <1>1, <2>1, <3>1 DEF Only
  <2> QED BY <1>1, <1>2, <1>5, <2>1 DEF LoadSuppressed
<1> QED BY <1>1, <1>3, <1>4, <1>5

LEMMA RequestCredit ==
  ASSUME Base, Base', Credit, NEW r \in Requests,
         \/ LoadSuppressed(r) \/ SaveSuppressed(r)
         \/ \E d \in DOMAIN rows : Unsubscribe(r, d)
         \/ \E d \in DOMAIN rows, s \in Reports : Report(r, d, s)
  PROVE  Credit'
<1>1. r \in Actors /\ r \notin Processes  BY BaseTypes
<1> QED BY <1>1, RequestOnly, QuietCredit

\* A step that leaves all that actors hold alone, and of deliveries what counts here.
LEMMA StillCredit ==
  ASSUME Base, Base', Credit, DOMAIN rows' = DOMAIN rows, UNCHANGED job,
         \A d \in DOMAIN rows : /\ rows'[d].owed = rows[d].owed /\ rows'[d].mailed = rows[d].mailed
                                /\ rows'[d].status = rows[d].status
  PROVE  Credit'
<1>1. ASSUME NEW d \in DOMAIN rows PROVE Changes(d)
  <2>1. Mailers(d)' = Mailers(d) /\ Pasts(d)' = Pasts(d)  BY DEF Mailers, Pasts, Mailing, Past
  <2>2. Kept(Mailers(d), Pasts(d), rows[d], Mailers(d)', Pasts(d)', rows'[d])  BY <2>1 DEF Kept
  <2> QED BY <2>2 DEF Changes, Change
<1> QED BY <1>1, CreditStep

LEMMA TimeCredit ==
  ASSUME Base, Base', Credit,
         (\E d \in DOMAIN rows : Expire(d) \/ Due(d)) \/ (\E p \in Processes : NewMinute(p)) \/ UNCHANGED vars
  PROVE  Credit'
<1>1. ASSUME NEW d \in DOMAIN rows, Expire(d) \/ Due(d) PROVE Credit'
  <2>1. UNCHANGED job  BY <1>1 DEF Expire, Due
  <2>2. PICK r \in Row : /\ Written(d, r) /\ r.status = rows[d].status
                         /\ r.owed = rows[d].owed /\ r.mailed = rows[d].mailed
    BY <1>1, TimePassesIs
  <2>3. DOMAIN rows' = DOMAIN rows /\ rows'[d] = r /\ \A e \in DOMAIN rows : e # d => rows'[e] = rows[e]
    BY <2>2, WrittenIs
  <2> QED BY <2>1, <2>2, <2>3, StillCredit
<1>2. CASE (\E p \in Processes : NewMinute(p)) \/ UNCHANGED vars
  <2>1. UNCHANGED <<rows, job>>  BY <1>2 DEF NewMinute, vars
  <2> QED BY <2>1, StillCredit
<1> QED BY <1>1, <1>2

-----------------------------------------------------------------------------
(* The steps of a process with a batch. *)

LEMMA WriteCredit ==
  ASSUME Base, Base', Credit, NEW a \in Actors, Only(a), NEW d \in DOMAIN rows, NEW r \in Row,
         Written(d, r), Changes(d),
         \A e \in DOMAIN rows : e # d /\ a \in Processes =>
           (Mailing(a, e)' => Mailing(a, e)) /\ (Past(a, e)' => Past(a, e))
  PROVE  Credit'
<1>1. DOMAIN rows' = DOMAIN rows /\ \A e \in DOMAIN rows : e # d => rows'[e] = rows[e]  BY WrittenIs
<1>2. ASSUME NEW e \in DOMAIN rows PROVE Changes(e)
  <2>1. CASE e = d  BY <2>1
  <2>2. CASE e # d
    <3>1. /\ rows'[e].owed = rows[e].owed /\ rows'[e].mailed = rows[e].mailed
          /\ rows'[e].status = "pending" => rows[e].status = "pending"
      BY <1>1, <2>2
    <3>2. a \in Processes => (Mailing(a, e)' => Mailing(a, e)) /\ (Past(a, e)' => Past(a, e))
      BY <2>2
    <3> QED BY <3>1, <3>2, KeptIs
  <2> QED BY <2>1, <2>2
<1> QED BY <1>1, <1>2, CreditStep

LEMMA WriteReportCredit ==
  ASSUME Base, Base', Credit, NEW q \in Requests, WriteReport(q)
  PROVE  Credit'
<1>1. q \in Actors /\ q \notin Processes /\ job[q].pc \in Reporting
  BY BaseTypes, ReportsAssumption DEF WriteReport, Reporting
<1>2. Only(q) /\ Head(job[q].batch) \in DOMAIN rows  BY <1>1, HeadIs, GotoIs DEF WriteReport
<1>3. PICK d : d = Head(job[q].batch)  OBVIOUS
<1>4. PICK r \in Row : /\ Written(d, r) /\ r.status \in {"bounced", "complained"}
                       /\ r.owed = rows[d].owed /\ r.mailed = rows[d].mailed
  BY <1>3, WriteReportIs
<1>5. rows'[d] = r /\ d \in DOMAIN rows  BY <1>2, <1>3, <1>4, WrittenIs
<1>6. Changes(d)
  <2>1. rows'[d].status = "pending" => rows[d].status = "pending"  BY <1>4, <1>5
  <2> QED BY <1>1, <1>2, <1>4, <1>5, <2>1, KeptIs
<1> QED BY <1>1, <1>2, <1>4, <1>5, <1>6, WriteCredit

\* What p mails, and is past claiming, once it proceeds.
LEMMA ProceedMailers ==
  ASSUME Base, NEW p \in Processes, job[p].pc \in {"delivered", "refused"}, Proceed(p)
  PROVE  \A e : /\ Mailing(p, e)' => Mailing(p, e) /\ e # Head(job[p].batch)
                /\ Past(p, e)' => Past(p, e) /\ e # Head(job[p].batch)
<1>1. job[p].pc \in Mailings  BY DEF Mailings
<1>2. /\ job'[p].pc \in {"finalize", "send"}
      /\ \A e : Holds(job'[p].batch, e) <=> Holds(job[p].batch, e) /\ e # Head(job[p].batch)
  BY <1>1, ProceedIs
<1> QED BY <1>1, <1>2 DEF Mailing, Past, Mailings

LEMMA MarkSentCredit ==
  ASSUME Base, Base', Credit, NEW p \in Processes, MarkSent(p)
  PROVE  Credit'
<1>1. p \in Actors /\ job[p].pc \in Mailings /\ job[p].pc \in {"delivered", "refused"} /\ Proceed(p)
  BY BaseTypes DEF MarkSent, Mailings
<1>2. PICK d : d = Head(job[p].batch)  OBVIOUS
<1>3. Only(p) /\ d \in DOMAIN rows  BY <1>1, <1>2, ProceedIs
<1>4. PICK r \in Row : /\ Written(d, r) /\ r.status = "sent"
                       /\ r.owed = rows[d].owed /\ r.mailed = rows[d].mailed
  BY <1>2, SentIs
<1>5. rows'[d] = r  BY <1>3, <1>4, WrittenIs
<1>6. \A e : (Mailing(p, e)' => Mailing(p, e)) /\ (Past(p, e)' => Past(p, e))
  BY <1>1, ProceedMailers
<1>7. Changes(d)
  <2>1. rows'[d].status = "pending" => rows[d].status = "pending"  BY <1>4, <1>5
  <2> QED BY <1>1, <1>3, <1>4, <1>5, <1>6, <2>1, KeptIs
<1> QED BY <1>1, <1>3, <1>4, <1>6, <1>7, WriteCredit

LEMMA MarkRefusedCredit ==
  ASSUME Base, Base', Credit, NEW p \in Processes, MarkRefused(p)
  PROVE  Credit'
<1>1. /\ p \in Actors /\ job[p].pc \in Mailings /\ job[p].pc \in {"delivered", "refused"}
      /\ job[p].pc = "refused" /\ Proceed(p)
  BY BaseTypes DEF MarkRefused, Mailings
<1>2. PICK d : d = Head(job[p].batch)  OBVIOUS
<1>3. Only(p) /\ d \in DOMAIN rows /\ Holds(job[p].batch, d)  BY <1>1, <1>2, ProceedIs
<1>4. PICK r \in Row : Written(d, r) /\ r.owed = rows[d].owed /\ r.mailed = rows[d].mailed
  BY <1>2, RefusedIs
<1>5. rows'[d] = r  BY <1>3, <1>4, WrittenIs
<1>6. \A e : /\ Mailing(p, e)' => Mailing(p, e) /\ e # d
             /\ Past(p, e)' => Past(p, e) /\ e # d
  BY <1>1, <1>2, ProceedMailers
<1>7. Changes(d)
  <2>1. p \in Mailers(d)  BY <1>1, <1>3 DEF Mailers, Mailing
  <2>2. ~Mailing(p, d)' /\ ~Past(p, d)'  BY <1>6
  <2>3. Mailers(d)' \subseteq Mailers(d) \ {p}  BY <1>1, <1>3, <2>2, OnlyMailers
  <2>4. Pasts(d)' # Processes
    <3>1. Pasts(d)' \subseteq Pasts(d) \ {p}  BY <1>1, <1>3, <2>2, OnlyMailers
    <3> QED BY <3>1
  <2>5. Returned(p, Mailers(d), Pasts(d), rows[d], Mailers(d)', Pasts(d)', rows'[d])
    BY <1>4, <1>5, <2>1, <2>3, <2>4 DEF Returned
  <2> QED BY <2>5 DEF Changes, Change
<1>8. \A e : (Mailing(p, e)' => Mailing(p, e)) /\ (Past(p, e)' => Past(p, e))  BY <1>6
<1> QED BY <1>1, <1>3, <1>4, <1>7, <1>8, WriteCredit

LEMMA SendCredit ==
  ASSUME Base, Base', Credit, NEW p \in Processes, Send(p)
  PROVE  Credit'
<1>1. p \in Actors /\ job[p].pc = "send" /\ job[p].pc \in Working \cup Reporting
  BY BaseTypes DEF Send, Working, Mailings
<1>2. /\ Only(p) /\ job'[p].batch = job[p].batch
      /\ \/ job'[p].pc = "delivered"
         \/ job'[p].pc = "refused" /\ UNCHANGED rows
  BY SendIs
<1>3. PICK d : d = Head(job[p].batch)  OBVIOUS
<1>4. d \in DOMAIN rows /\ Holds(job[p].batch, d)  BY <1>1, <1>3, HeadIs
<1>5. \A e : (Mailing(p, e)' => Mailing(p, e)) /\ (Past(p, e)' => Past(p, e))
  <2>1. job[p].pc \in Mailings /\ job[p].pc # "delivered"  BY <1>1 DEF Mailings
  <2> QED BY <1>2, <2>1 DEF Mailing, Past
<1>6. CASE job'[p].pc = "delivered"
  <2>1. PICK r \in Row : /\ Written(d, r) /\ r.mailed = TRUE /\ r.owed = rows[d].owed - 1
                         /\ r.status = rows[d].status
    BY <1>3, <1>6, MailIs
  <2>2. rows'[d] = r  BY <1>4, <2>1, WrittenIs
  <2>3. p \in Mailers(d)
    <3>1. Mailing(p, d)  BY <1>1, <1>4 DEF Mailing, Mailings
    <3> QED BY <3>1 DEF Mailers
  <2>4. p \in Pasts(d)  BY <2>3, MailersArePast
  <2>5. ~Mailing(p, d)'  BY <1>2, <1>3, <1>6 DEF Mailing
  <2>6. Mailers(d)' \subseteq Mailers(d) \ {p}  BY <1>1, <1>2, <2>5, OnlyMailers
  <2>7. Pasts(d)' \subseteq Pasts(d)
    <3>1. Pasts(d)' \subseteq Pasts(d) \cup {p}  BY <1>1, <1>2, OnlyMailers
    <3> QED BY <2>4, <3>1
  <2>8. Mailed(p, Mailers(d), Pasts(d), rows[d], Mailers(d)', Pasts(d)', rows'[d])
    BY <2>1, <2>2, <2>3, <2>6, <2>7 DEF Mailed
  <2>9. Changes(d)  BY <2>8 DEF Changes, Change
  <2> QED BY <1>1, <1>2, <1>4, <1>5, <2>1, <2>9, WriteCredit
<1>7. CASE UNCHANGED rows
  <2>1. \A e \in DOMAIN rows : Changes(e)  BY <1>1, <1>2, <1>5, <1>7, KeptIs
  <2> QED BY <1>7, <2>1, CreditStep
<1> QED BY <1>2, <1>6, <1>7

LEMMA FailRecordCredit ==
  ASSUME Base, Base', Credit, NEW p \in Processes, FailRecord(p)
  PROVE  Credit'
<1>1. /\ p \in Actors /\ job[p].pc = "delivered" /\ job[p].pc \in Working \cup Reporting
      /\ job[p].pc \in Mailings /\ Goto(p, "refused")
  BY BaseTypes DEF FailRecord, Working, Mailings
<1>2. Only(p) /\ job'[p].pc = "refused" /\ job'[p].batch = job[p].batch  BY <1>1, GotoIs
<1>3. PICK d : d = Head(job[p].batch)  OBVIOUS
<1>4. d \in DOMAIN rows /\ Holds(job[p].batch, d)  BY <1>1, <1>3, HeadIs
<1>5. PICK r \in Row : /\ Written(d, r) /\ r.owed = OneMore(rows[d].owed)
                       /\ r.status = rows[d].status /\ r.mailed = rows[d].mailed
  BY <1>3, FailRecordIs
<1>6. rows'[d] = r  BY <1>4, <1>5, WrittenIs
<1>7. Changes(d)
  <2>1. p \in Pasts(d)  BY <1>1, <1>4 DEF Pasts, Past
  <2>2. Pasts(d)' \subseteq Pasts(d) /\ Mailers(d)' \subseteq Mailers(d) \cup {p}
    BY <1>1, <1>2, <2>1, OnlyMailers
  <2>3. Pasts(d) \subseteq Processes  BY MailersArePast
  <2>4. rows'[d].status = "pending" => rows[d].status = "pending" /\ Pasts(d) # Processes
    BY <1>4, <1>5, <1>6 DEF Credit, InCredit
  <2>5. rows'[d].status = "pending" => rows[d].status = "pending" /\ Pasts(d)' # Processes
    BY <2>2, <2>3, <2>4
  <2>6. Granted(p, Mailers(d), Pasts(d), rows[d], Mailers(d)', Pasts(d)', rows'[d])
    BY <1>5, <1>6, <2>2, <2>5 DEF Granted
  <2> QED BY <2>6 DEF Changes, Change
<1>8. \A e \in DOMAIN rows : e # d => (Mailing(p, e)' => Mailing(p, e)) /\ (Past(p, e)' => Past(p, e))
  BY <1>1, <1>2, <1>3 DEF Mailing, Past
<1> QED BY <1>1, <1>2, <1>4, <1>5, <1>7, <1>8, WriteCredit

-----------------------------------------------------------------------------
(* Finding a batch, claiming it, and planning. *)

LEMMA FindCredit ==
  ASSUME Base, Base', Credit, NEW p \in Processes, Find(p)
  PROVE  Credit'
<1>1. /\ p \in Actors /\ Only(p) /\ job'[p].pc \in {"claim", "finalize"}
      /\ rows' = Reclaimed /\ DOMAIN rows' = DOMAIN rows
  BY BaseTypes, FindIs
<1>2. ASSUME NEW d \in DOMAIN rows PROVE Changes(d)
  <2>1. ~Mailing(p, d)' /\ ~Past(p, d)'  BY <1>1, OthersNotMailing DEF Mailing, Past
  <2>2. Mailers(d)' \subseteq Mailers(d) \ {p} /\ Pasts(d)' \subseteq Pasts(d) \ {p}
    BY <1>1, <2>1, OnlyMailers
  <2>3. /\ Mailers(d)' \subseteq Mailers(d) /\ Pasts(d)' \subseteq Pasts(d)
        /\ Pasts(d)' # Processes
    BY <2>2
  <2>4. /\ rows'[d].mailed = rows[d].mailed /\ rows[d].mailed \in BOOLEAN
        /\ \/ rows'[d] = rows[d]
           \/ /\ rows[d].status = "queued" /\ rows'[d].status = "pending"
              /\ \/ rows'[d].owed = OneMore(rows[d].owed)
                 \/ ~rows[d].mailed /\ ~Held(d) /\ rows'[d].owed = rows[d].owed
    BY <1>1, ReclaimedIs, BaseTypes, RowFields
  <2>5. CASE rows'[d] = rows[d]
    <3>1. Kept(Mailers(d), Pasts(d), rows[d], Mailers(d)', Pasts(d)', rows'[d])
      BY <2>3, <2>5 DEF Kept
    <3> QED BY <3>1 DEF Changes, Change
  <2>6. CASE rows'[d].owed = OneMore(rows[d].owed)
    <3>1. Granted(p, Mailers(d), Pasts(d), rows[d], Mailers(d)', Pasts(d)', rows'[d])
      BY <2>3, <2>4, <2>6 DEF Granted
    <3> QED BY <3>1 DEF Changes, Change
  <2>7. CASE ~rows[d].mailed /\ ~Held(d) /\ rows'[d].owed = rows[d].owed
    <3>1. Mailers(d) = {}  BY <2>7, HeldHolds DEF Mailers, Mailing
    <3>2. Abandoned(Mailers(d), Pasts(d), rows[d], Mailers(d)', Pasts(d)', rows'[d])
      BY <2>3, <2>4, <2>7, <3>1 DEF Abandoned
    <3> QED BY <3>2 DEF Changes, Change
  <2> QED BY <2>4, <2>5, <2>6, <2>7
<1> QED BY <1>1, <1>2, CreditStep

LEMMA ClaimCredit ==
  ASSUME Base, Base', Credit, NEW p \in Processes, Claim(p)
  PROVE  Credit'
<1>1. p \in Actors /\ Goto(p, "send") /\ DOMAIN rows' = DOMAIN rows
  BY BaseTypes, ClaimIs DEF Claim
<1>2. Only(p) /\ job'[p].batch = job[p].batch  BY <1>1, GotoIs
<1>3. ASSUME NEW d \in DOMAIN rows PROVE Changes(d)
  <2>1. CASE ~Holds(job[p].batch, d)
    <3>1. rows'[d] = rows[d]  BY <2>1, ClaimIs
    <3>2. ~Mailing(p, d)' /\ ~Past(p, d)'  BY <1>2, <2>1 DEF Mailing, Past
    <3> QED BY <1>1, <1>2, <3>1, <3>2, KeptIs
  <2>2. CASE Holds(job[p].batch, d)
    <3>1. /\ rows'[d].mailed = rows[d].mailed /\ rows'[d].status = "queued"
          /\ \/ rows[d].status = "pending" /\ rows'[d].owed = rows[d].owed
             \/ rows'[d].owed = OneMore(rows[d].owed)
      BY <2>2, ClaimIs
    <3>2. Mailers(d)' \subseteq Mailers(d) \cup {p}  BY <1>1, <1>2, OnlyMailers
    <3>3. \/ Claimed(p, Mailers(d), Pasts(d), rows[d], Mailers(d)', Pasts(d)', rows'[d])
          \/ Granted(p, Mailers(d), Pasts(d), rows[d], Mailers(d)', Pasts(d)', rows'[d])
      BY <3>1, <3>2 DEF Claimed, Granted
    <3> QED BY <3>3 DEF Changes, Change
  <2> QED BY <2>1, <2>2
<1> QED BY <1>1, <1>3, CreditStep

LEMMA InsertCredit ==
  ASSUME Base, Base', Credit, NEW a \in Actors, Insert(a)
  PROVE  Credit'
<1>1. Only(a) /\ job'[a].pc \notin Mailings
  <2>1. CASE Leave(a)  BY <2>1, LeaveIs, OthersNotMailing
  <2>2. CASE Goto(a, "find")  BY <2>2, GotoIs, OthersNotMailing
  <2> QED BY <2>1, <2>2, InsertIs
<1>2. \A d : ~Mailing(a, d)' /\ ~Past(a, d)'  BY <1>1 DEF Mailing, Past
<1>3. ASSUME NEW d \in DOMAIN rows', d \in DOMAIN rows
      PROVE  InCredit(Mailers(d)', Pasts(d)', rows'[d])
  <2>1. rows'[d] = rows[d]  BY <1>3, InsertIs
  <2>2. Changes(d)  BY <1>1, <1>2, <1>3, <2>1, KeptIs
  <2>3. rows[d] \in Row /\ rows'[d] \in Row /\ InCredit(Mailers(d), Pasts(d), rows[d])
    BY <1>3, <2>1, BaseTypes DEF Credit
  <2>4. /\ Mailers(d) \subseteq Pasts(d) /\ Pasts(d) \subseteq Processes
        /\ Mailers(d)' \subseteq Pasts(d)' /\ Pasts(d)' \subseteq Processes
    BY MailersArePast DEF Mailers, Pasts, Mailing, Past
  <2>5. PICK m, t, k, u, row, new :
          /\ m = Mailers(d) /\ t = Pasts(d) /\ k = Mailers(d)' /\ u = Pasts(d)'
          /\ row = rows[d] /\ new = rows'[d]
    OBVIOUS
  <2>6. Change(m, t, row, k, u, new)  BY <2>2, <2>5 DEF Changes
  <2>7. InCredit(k, u, new)  BY <2>3, <2>4, <2>5, <2>6, CreditKept
  <2> QED BY <2>5, <2>7
<1>4. ASSUME NEW d \in DOMAIN rows', d \notin DOMAIN rows
      PROVE  InCredit(Mailers(d)', Pasts(d)', rows'[d])
  <2>1. rows'[d].owed = 1 /\ rows'[d].status = "pending" /\ rows'[d].mailed = FALSE
    BY <1>4, InsertIs
  <2>2. ASSUME NEW q \in Processes PROVE ~Holds(job[q].batch, d)
    <3>1. q \in Actors /\ DOMAIN rows = 1..Len(rows)  BY BaseTypes
    <3>2. JobOK(q, job[q], Len(rows), Spent(q))  BY <3>1 DEF Base
    <3>3. job[q].batch \in Seq(1..Len(rows))  BY <3>2 DEF JobOK
    <3>4. PICK b, n : b = job[q].batch /\ n = Len(rows)  OBVIOUS
    <3>5. b \in Seq(1..n) /\ d \notin 1..n /\ n \in Nat  BY BaseTypes, <1>4, <3>1, <3>3, <3>4
    <3>6. b \in [1..Len(b) -> 1..n] /\ Len(b) \in Nat  BY <3>5
    <3>7. \A i \in DOMAIN b : b[i] \in 1..n  BY <3>6
    <3> QED BY <3>4, <3>5, <3>7 DEF Holds
  <2>3. Pasts(d) = {}  BY <2>2 DEF Pasts, Past
  <2>4. Pasts(d)' = {}  BY <1>1, <1>2, <2>3, OnlyMailers
  <2>5. Mailers(d)' = {}
    <3>1. Mailers(d)' \subseteq Pasts(d)'  BY MailersArePast DEF Mailers, Pasts, Mailing, Past
    <3> QED BY <2>4, <3>1
  <2> QED BY <2>1, <2>4, <2>5, FS_EmptySet, ActorsAssumption DEF InCredit
<1> QED BY <1>3, <1>4 DEF Credit

LEMMA NextCredit ==
  ASSUME Base, Base', Credit, [Next]_vars
  PROVE  Credit'
<1>1. ASSUME NEW p \in Processes, Tick(p) \/ FailRecord(p) \/ Crash(p) \/ NewMinute(p)
      PROVE  Credit'
  <2>1. p \in Actors  BY BaseTypes
  <2>2. CASE Planning(p)  BY <2>1, <2>2, PlanningCredit
  <2>3. CASE Insert(p)  BY <2>1, <2>3, InsertCredit
  <2>4. CASE Find(p)  BY <2>4, FindCredit
  <2>5. CASE Claim(p)  BY <2>5, ClaimCredit
  <2>6. CASE Send(p)  BY <2>6, SendCredit
  <2>7. CASE MarkSent(p)  BY <2>7, MarkSentCredit
  <2>8. CASE MarkRefused(p)  BY <2>8, MarkRefusedCredit
  <2>9. CASE FailRecord(p)  BY <2>9, FailRecordCredit
  <2>10. CASE NewMinute(p)  BY <2>10, TimeCredit
  <2> QED BY <1>1, <2>2, <2>3, <2>4, <2>5, <2>6, <2>7, <2>8, <2>9, <2>10 DEF Tick, Planning
<1>2. ASSUME NEW r \in Requests, Request(r)
      PROVE  Credit'
  <2>1. r \in Actors  BY BaseTypes
  <2>2. CASE Planning(r)  BY <2>1, <2>2, PlanningCredit
  <2>3. CASE Insert(r)  BY <2>1, <2>3, InsertCredit
  <2>4. CASE WriteReport(r)  BY <2>4, WriteReportCredit
  <2>5. CASE \/ LoadSuppressed(r) \/ SaveSuppressed(r)
             \/ \E d \in DOMAIN rows : Unsubscribe(r, d)
             \/ \E d \in DOMAIN rows, s \in Reports : Report(r, d, s)
    BY <2>5, RequestCredit
  <2> QED BY <1>2, <2>2, <2>3, <2>4, <2>5 DEF Request, Planning
<1>3. CASE (\E d \in DOMAIN rows : Expire(d) \/ Due(d)) \/ UNCHANGED vars  BY <1>3, TimeCredit
<1> QED BY <1>1, <1>2, <1>3 DEF Next

LEMMA InitCredit == Init => Credit
<1>1. Init => DOMAIN rows = {}  BY DEF Init
<1> QED BY <1>1 DEF Credit

\* However many processes dispatch at once, however their mails fail and their claims run
\* out, no delivery is mailed more often than once for itself and once for each event that
\* makes the dispatcher mail it again: a claim of what is no longer pending, a reclaim of
\* what was mailed or is in hand, a mail whose record failed (dispatchBatch, dispatchOne).
THEOREM NoMailUnowed == Spec => []MailedOnlyWhenOwed
<1>1. Init => Base /\ Credit  BY InitBase, InitCredit
<1>2. Base /\ Credit /\ [Next]_vars => (Base /\ Credit)'  BY NextBase, NextCredit
<1>3. Base /\ Credit => MailedOnlyWhenOwed
  <2> SUFFICES ASSUME Base, Credit, NEW d \in DOMAIN rows PROVE rows[d].owed >= 0
    BY DEF MailedOnlyWhenOwed
  <2>1. Mailers(d) \in SUBSET Processes  BY MailersArePast
  <2>2. Cardinality(Mailers(d)) \in Nat  BY <2>1, SomeProcesses
  <2>3. rows[d].owed \in Int /\ Cardinality(Mailers(d)) <= rows[d].owed
    BY BaseTypes, RowFields DEF Credit, InCredit
  <2> QED BY <2>2, <2>3
<1> QED BY <1>1, <1>2, <1>3, PTL DEF Spec

-----------------------------------------------------------------------------
(* What becomes of a report. *)

Reported(d) == rows[d].status \in {"bounced", "complained"}
Undone(d) == rows'[d].status \in {"pending", "queued", "sent"}

\* A process that writes the status of a delivery has it in hand.
LEMMA HeadHeld ==
  ASSUME Base, NEW p \in Processes, job[p].pc \in Working
  PROVE  Held(Head(job[p].batch)) /\ Head(job[p].batch) \in DOMAIN rows
<1>1. p \in Actors  BY BaseTypes
<1> QED BY <1>1, HeadIs, HeldHolds

\* Writing one delivery undoes at most its own report.
LEMMA WrittenUndoes ==
  ASSUME Base, NEW d \in DOMAIN rows, NEW r \in Row, Written(d, r), NEW e \in DOMAIN rows,
         Reported(e), Undone(e)
  PROVE  e = d /\ r.status \in {"pending", "queued", "sent"}
BY WrittenIs DEF Reported, Undone

LEMMA TickUndoes ==
  ASSUME Base, NEW p \in Processes, Tick(p) \/ FailRecord(p) \/ Crash(p) \/ NewMinute(p),
         NEW e \in DOMAIN rows, Reported(e), Undone(e)
  PROVE  Held(e)
<1>1. p \in Actors  BY BaseTypes
<1>2. rows'[e] # rows[e]  BY DEF Reported, Undone
<1>3. CASE Planning(p)  BY <1>1, <1>2, <1>3, PlanningIs DEF Quiet
<1>4. CASE Insert(p)  BY <1>1, <1>2, <1>4, InsertIs
<1>5. CASE Find(p)
  <2>1. rows'[e] = Reclaimed[e]  BY <1>5, FindIs
  <2> QED BY <1>2, <2>1, ReclaimedIs DEF Reported
<1>6. CASE Claim(p)
  <2>1. Holds(job[p].batch, e)  BY <1>2, <1>6, ClaimIs
  <2> QED BY <2>1, HeldHolds
<1>7. CASE Send(p)
  <2>1. CASE job'[p].pc = "delivered"
    <3>1. job[p].pc \in Working  BY <1>7 DEF Send, Working, Mailings
    <3>2. PICK r \in Row : Written(Head(job[p].batch), r)  BY <1>7, <2>1, MailIs
    <3> QED BY <3>1, <3>2, HeadHeld, WrittenUndoes
  <2>2. CASE UNCHANGED rows  BY <1>2, <2>2
  <2> QED BY <1>7, <2>1, <2>2, SendIs
<1>8. CASE MarkSent(p)
  <2>1. job[p].pc \in Working  BY <1>8 DEF MarkSent, Working, Mailings
  <2>2. PICK r \in Row : Written(Head(job[p].batch), r)  BY <1>8, SentIs
  <2> QED BY <2>1, <2>2, HeadHeld, WrittenUndoes
<1>9. CASE MarkRefused(p)
  <2>1. job[p].pc \in Working  BY <1>9 DEF MarkRefused, Working, Mailings
  <2>2. PICK r \in Row : Written(Head(job[p].batch), r)  BY <1>9, RefusedIs
  <2> QED BY <2>1, <2>2, HeadHeld, WrittenUndoes
<1>10. CASE FailRecord(p)
  <2>1. job[p].pc \in Working  BY <1>10 DEF FailRecord, Working, Mailings
  <2>2. PICK r \in Row : Written(Head(job[p].batch), r)  BY <1>10, FailRecordIs
  <2> QED BY <2>1, <2>2, HeadHeld, WrittenUndoes
<1>11. CASE NewMinute(p)  BY <1>2, <1>11 DEF NewMinute
<1> QED BY <1>3, <1>4, <1>5, <1>6, <1>7, <1>8, <1>9, <1>10, <1>11 DEF Tick, Planning

LEMMA NextUndoes ==
  ASSUME Base, [Next]_vars, NEW e \in DOMAIN rows, Reported(e), Undone(e)
  PROVE  Held(e)
<1>1. rows'[e] # rows[e]  BY DEF Reported, Undone
<1>2. CASE \E p \in Processes : Tick(p) \/ FailRecord(p) \/ Crash(p) \/ NewMinute(p)
  BY <1>2, TickUndoes
<1>3. ASSUME NEW r \in Requests, Request(r) PROVE FALSE
  <2>1. r \in Actors  BY BaseTypes
  <2>2. CASE Planning(r)  BY <1>1, <2>1, <2>2, PlanningIs DEF Quiet
  <2>3. CASE Insert(r)  BY <1>1, <2>1, <2>3, InsertIs
  <2>4. CASE WriteReport(r)
    <3>1. job[r].pc \in Reporting  BY <2>4, ReportsAssumption DEF WriteReport, Reporting
    <3>2. Head(job[r].batch) \in DOMAIN rows  BY <2>1, <3>1, HeadIs
    <3>3. PICK row \in Row : Written(Head(job[r].batch), row) /\ row.status \in {"bounced", "complained"}
      BY <2>4, WriteReportIs
    <3> QED BY <3>2, <3>3, WrittenUndoes
  <2>5. CASE \/ LoadSuppressed(r) \/ SaveSuppressed(r)
             \/ \E d \in DOMAIN rows : Unsubscribe(r, d)
             \/ \E d \in DOMAIN rows, s \in Reports : Report(r, d, s)
    BY <1>1, <2>5, RequestOnly
  <2> QED BY <1>3, <2>2, <2>3, <2>4, <2>5 DEF Request, Planning
<1>4. ASSUME NEW d \in DOMAIN rows, Expire(d) \/ Due(d) PROVE FALSE
  <2>1. PICK r \in Row : Written(d, r) /\ r.status = rows[d].status  BY <1>4, TimePassesIs
  <2>2. e = d /\ r.status \in {"pending", "queued", "sent"}  BY <2>1, WrittenUndoes
  <2> QED BY <2>1, <2>2 DEF Reported
<1>5. CASE UNCHANGED vars  BY <1>1, <1>5 DEF vars
<1> QED BY <1>2, <1>3, <1>4, <1>5 DEF Next

\* A bounce or a complaint is overwritten only under a process that holds the delivery:
\* neither a reclaim nor another request, nor time, puts the address back to be mailed.
THEOREM ReportsStay == Spec => ReportUndoneOnlyInHand
<1>1. Base /\ [Next]_vars =>
        [\A d \in DOMAIN rows :
           rows[d].status \in {"bounced", "complained"} /\ rows'[d].status \in {"pending", "queued", "sent"}
             => Held(d)]_vars
  BY NextUndoes DEF Reported, Undone
<1> QED BY <1>1, BaseHolds, PTL DEF Spec, ReportUndoneOnlyInHand
================================================================================
