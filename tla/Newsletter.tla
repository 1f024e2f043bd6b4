------------------------------- MODULE Newsletter -------------------------------
(***************************************************************************)
(* One newsletter: planned into deliveries by the minute tick or by an     *)
(* admin, mailed in batches by the dispatcher of every host process, and   *)
(* reported on by the mail provider while all this goes on.                *)
(***************************************************************************)
EXTENDS Integers, Sequences, FiniteSets, SequencesExt

CONSTANTS
  Processes,    \* host processes; each runs one tick at a time (newsletterTickRunning)
  Requests,     \* admin, provider and guest requests, each handled once
  Contacts,     \* the members of the target list
  BatchSize, RateLimit,   \* deliveries per tick and per minute of a process
  MaxAttempts,  \* mails tried before a delivery is failed
  Threshold, PauseAt,     \* auto-pause: so many bounces in the first Threshold deliveries
  Reports,      \* what the provider reports: "bounced", "complained"
  MaxRows, MaxFaults   \* bounds on rows, and on faults and slow ticks

ASSUME ActorsAssumption ==
  IsFiniteSet(Processes) /\ Processes # {} /\ Processes \cap Requests = {}
ASSUME ContactsAssumption == IsFiniteSet(Contacts)
ASSUME ReportsAssumption == Reports \subseteq {"bounced", "complained"}
ASSUME LimitsAssumption ==
  {BatchSize, RateLimit, MaxAttempts, Threshold, PauseAt, MaxRows, MaxFaults} \subseteq Nat

VARIABLES
  letter,       \* the newsletter's status
  rows,         \* the deliveries, by id
  optedOut, suppressed,   \* contacts not to be mailed
  sent,         \* sentThisMinute of each process
  job,          \* what each process and request is doing
  faults        \* counter behind MaxFaults

vars == <<letter, rows, optedOut, suppressed, sent, job, faults>>

Statuses == {"pending", "queued", "sent", "bounced", "complained", "failed"}

\* mailed and owed are history: whether a mail went out, and how many still may, one
\* for the delivery and one for each event that makes the dispatcher mail it again.
Row == [contact : Contacts, status : Statuses, attempts : 0..MaxAttempts,
        claim : {"none", "fresh", "stale"}, wait : BOOLEAN,
        mailed : BOOLEAN, owed : Int]

NewRow(c) == [contact |-> c, status |-> "pending", attempts |-> 0, claim |-> "none",
              wait |-> FALSE, mailed |-> FALSE, owed |-> 1]

Smaller(m, n) == IF m < n THEN m ELSE n
Over(row) == row.status \notin {"pending", "queued"}

Idle == [pc |-> "idle", batch |-> <<>>, attempts |-> 0, list |-> {}]
Job == [pc : {"idle", "done", "plan", "insert", "find", "claim", "send",
               "delivered", "refused", "finalize", "finish", "pause", "halt",
               "bounced", "complained", "load", "save"},
         batch : Seq(1..MaxRows), attempts : 0..MaxAttempts, list : SUBSET Contacts]

Actors == Processes \cup Requests
Goto(a, pc) == job' = [job EXCEPT ![a].pc = pc]
Leave(a) == job' = [job EXCEPT ![a] = [Idle EXCEPT !.pc = IF a \in Processes THEN "idle" ELSE "done"]]
\* Ticks can owe a delivery one mail each.
OneMore(n) == Smaller(n + 1, Cardinality(Processes))
Held(d) == \E a \in Processes : \E i \in DOMAIN job[a].batch : job[a].batch[i] = d

-----------------------------------------------------------------------------
(* planning *)

\* The admin form sets a status whatever the newsletter's is; "sending" plans at once.
AdminSave(r, status) ==
  /\ job[r].pc = "idle"
  /\ letter' = status
  /\ IF status = "sending" THEN Goto(r, "plan") ELSE Leave(r)
  /\ UNCHANGED <<rows, optedOut, suppressed, sent, faults>>

\* The minute tick: plan the newsletter if it is due, then dispatch.
StartTick(p) ==
  /\ job[p].pc = "idle"
  /\ Goto(p, IF letter = "scheduled" THEN "plan" ELSE "find")
  /\ UNCHANGED <<letter, rows, optedOut, suppressed, sent, faults>>

PlanStart(a) ==
  /\ job[a].pc = "plan"
  /\ letter' = "sending"
  /\ Goto(a, "insert")
  /\ UNCHANGED <<rows, optedOut, suppressed, sent, faults>>

\* One pending delivery for each contact that may be mailed (up to 500 at once).
\* Past the bound MaxRows the insert fails, as any statement may.
Insert(a) ==
  /\ job[a].pc = "insert"
  /\ \E order \in SetToSeqs(Contacts \ (optedOut \cup suppressed)) :
       IF Len(rows) + Len(order) <= MaxRows
         THEN /\ rows' = rows \o [i \in DOMAIN order |-> NewRow(order[i])]
              /\ IF a \in Processes THEN Goto(a, "find") ELSE Leave(a)
         ELSE UNCHANGED rows /\ Leave(a)
  /\ UNCHANGED <<letter, optedOut, suppressed, sent, faults>>

-----------------------------------------------------------------------------
(* dispatchBatch *)

\* Mutant: stale claims are taken back whatever became of the delivery.
ReclaimableAnyhow(row) == row.claim = "stale"
Reclaimable(row) == row.status = "queued" /\ row.claim = "stale"

\* A delivery reclaimed after its mail went out, or under a tick that still holds it,
\* may be mailed once more.
Reclaimed ==
  [d \in DOMAIN rows |->
     IF Reclaimable(rows[d])
       THEN [rows[d] EXCEPT !.status = "pending", !.claim = "none",
                            !.owed = IF rows[d].mailed \/ Held(d) THEN OneMore(@) ELSE @]
       ELSE rows[d]]

\* Mutant: the allowance forgets what was sent this minute.
AllowanceFull(p) == RateLimit
Allowance(p) == IF sent[p] >= RateLimit THEN 0 ELSE RateLimit - sent[p]

\* The first n of a set of ids, in order.
FirstOf(ids, n) ==
  {batch \in [1..n -> ids] :
     /\ \A i, j \in 1..n : i < j => batch[i] < batch[j]
     /\ \A i \in 1..n, d \in ids : d < batch[i] => \E j \in 1..n : batch[j] = d}

\* Take back stale claims and find the first pending deliveries that are due.
Find(p) ==
  /\ job[p].pc = "find"
  /\ rows' = Reclaimed
  /\ LET due == {d \in DOMAIN rows : Reclaimed[d].status = "pending" /\ ~Reclaimed[d].wait}
         size == Smaller(Cardinality(due), Smaller(BatchSize, Allowance(p)))
     IN \E batch \in FirstOf(due, size) :
          job' = [job EXCEPT ![p].pc = IF batch = <<>> THEN "finalize" ELSE "claim",
                             ![p].batch = batch]
  /\ UNCHANGED <<letter, optedOut, suppressed, sent, faults>>

\* By id, whatever the deliveries are by now: one that is no longer pending is
\* mailed once more.
Claim(p) ==
  /\ job[p].pc = "claim"
  /\ rows' = [d \in DOMAIN rows |->
       IF \E i \in DOMAIN job[p].batch : job[p].batch[i] = d
         THEN [rows[d] EXCEPT !.status = "queued", !.claim = "fresh",
                              !.owed = IF rows[d].status = "pending" THEN @ ELSE OneMore(@)]
         ELSE rows[d]]
  /\ sent' = [sent EXCEPT ![p] = @ + Len(job[p].batch)]
  /\ Goto(p, "send")
  /\ UNCHANGED <<letter, optedOut, suppressed, faults>>

\* dispatchOne: read the delivery, render and mail it.
Send(p) ==
  /\ job[p].pc = "send"
  /\ LET d == Head(job[p].batch) IN
     \/ /\ rows' = [rows EXCEPT ![d].mailed = TRUE, ![d].owed = @ - 1]
        /\ job' = [job EXCEPT ![p].pc = "delivered", ![p].attempts = Smaller(rows[d].attempts + 1, MaxAttempts)]
     \/ /\ job' = [job EXCEPT ![p].pc = "refused", ![p].attempts = Smaller(rows[d].attempts + 1, MaxAttempts)]
        /\ UNCHANGED rows
  /\ UNCHANGED <<letter, optedOut, suppressed, sent, faults>>

\* On to the next delivery of the batch.
Proceed(p) ==
  LET rest == Tail(job[p].batch)
  IN job' = [job EXCEPT ![p] = [Idle EXCEPT !.pc = IF rest = <<>> THEN "finalize" ELSE "send",
                                            !.batch = rest]]

\* Mutant: the claim is released and the delivery left pending.
MarkSentPending(p) ==
  /\ job[p].pc = "delivered"
  /\ rows' = [rows EXCEPT ![Head(job[p].batch)] =
       [@ EXCEPT !.status = "pending", !.claim = "none", !.wait = FALSE]]
  /\ Proceed(p)
  /\ UNCHANGED <<letter, optedOut, suppressed, sent, faults>>

MarkSent(p) ==
  /\ job[p].pc = "delivered"
  /\ rows' = [rows EXCEPT ![Head(job[p].batch)] =
       [@ EXCEPT !.status = "sent", !.claim = "none", !.wait = FALSE]]
  /\ Proceed(p)
  /\ UNCHANGED <<letter, optedOut, suppressed, sent, faults>>

\* Recording the mail fails: the catch takes it for one that was not sent.
FailRecord(p) ==
  /\ job[p].pc = "delivered"
  /\ faults < MaxFaults /\ faults' = faults + 1
  /\ rows' = [rows EXCEPT ![Head(job[p].batch)].owed = OneMore(@)]
  /\ Goto(p, "refused")
  /\ UNCHANGED <<letter, optedOut, suppressed, sent>>

\* Mutant: a refused delivery waits for its next attempt as claimed as ever.
RetriedQueued(row, attempts) ==
  [row EXCEPT !.status = "queued", !.attempts = attempts, !.claim = "none", !.wait = TRUE]

Retried(row, attempts) ==
  IF attempts >= MaxAttempts
    THEN [row EXCEPT !.status = "failed", !.attempts = attempts, !.claim = "none", !.wait = FALSE]
    ELSE [row EXCEPT !.status = "pending", !.attempts = attempts, !.claim = "none", !.wait = TRUE]

MarkRefused(p) ==
  /\ job[p].pc = "refused"
  /\ rows' = [rows EXCEPT ![Head(job[p].batch)] = Retried(@, job[p].attempts)]
  /\ Proceed(p)
  /\ UNCHANGED <<letter, optedOut, suppressed, sent, faults>>

\* finalizeCompletedNewsletters: what is found finished is marked so later.
Finalize(p) ==
  /\ job[p].pc = "finalize"
  /\ Goto(p, IF letter = "sending" /\ \A d \in DOMAIN rows : Over(rows[d]) THEN "finish" ELSE "pause")
  /\ UNCHANGED <<letter, rows, optedOut, suppressed, sent, faults>>

Finish(p) ==
  /\ job[p].pc = "finish"
  /\ letter' = "sent"
  /\ Goto(p, "pause")
  /\ UNCHANGED <<rows, optedOut, suppressed, sent, faults>>

\* checkAutoPauseAcrossActiveNewsletters
ManyBounces ==
  LET over == SelectSeq(rows, Over)
      first == SubSeq(over, 1, Threshold)
  IN /\ Len(over) >= Threshold
     /\ Len(SelectSeq(first, LAMBDA row : row.status = "bounced")) >= PauseAt

CheckPause(p) ==
  /\ job[p].pc = "pause"
  /\ IF letter = "sending" /\ ManyBounces THEN Goto(p, "halt") ELSE Leave(p)
  /\ UNCHANGED <<letter, rows, optedOut, suppressed, sent, faults>>

Halt(p) ==
  /\ job[p].pc = "halt"
  /\ letter' = "paused"
  /\ Leave(p)
  /\ UNCHANGED <<rows, optedOut, suppressed, sent, faults>>

\* The process dies, or a statement outside dispatchOne's catch fails: the tick ends.
Crash(p) ==
  /\ job[p].pc # "idle"
  /\ faults < MaxFaults /\ faults' = faults + 1
  /\ Leave(p)
  /\ UNCHANGED <<letter, rows, optedOut, suppressed, sent>>

-----------------------------------------------------------------------------
(* the provider, the guest and the clock *)

\* A hard bounce or a complaint about a mail that went out.
Report(r, d, status) ==
  /\ job[r].pc = "idle" /\ rows[d].mailed
  /\ IF rows[d].status = status THEN Leave(r)
     ELSE job' = [job EXCEPT ![r].pc = status, ![r].batch = <<d>>]
  /\ UNCHANGED <<letter, rows, optedOut, suppressed, sent, faults>>

WriteReport(r) ==
  /\ job[r].pc \in Reports
  /\ rows' = [rows EXCEPT ![Head(job[r].batch)].status = job[r].pc]
  /\ Goto(r, "load")
  /\ UNCHANGED <<letter, optedOut, suppressed, sent, faults>>

\* BounceSuppressionStore.mark: the list is read, and written back longer.
LoadSuppressed(r) ==
  /\ job[r].pc = "load"
  /\ IF rows[Head(job[r].batch)].contact \in suppressed THEN Leave(r)
     ELSE job' = [job EXCEPT ![r].pc = "save", ![r].list = suppressed]
  /\ UNCHANGED <<letter, rows, optedOut, suppressed, sent, faults>>

SaveSuppressed(r) ==
  /\ job[r].pc = "save"
  /\ suppressed' = job[r].list \cup {rows[Head(job[r].batch)].contact}
  /\ Leave(r)
  /\ UNCHANGED <<letter, rows, optedOut, sent, faults>>

Unsubscribe(r, d) ==
  /\ job[r].pc = "idle" /\ rows[d].mailed
  /\ optedOut' = optedOut \cup {rows[d].contact}
  /\ Leave(r)
  /\ UNCHANGED <<letter, rows, suppressed, sent, faults>>

\* claimTimeoutMinutes pass over a claim: an abandoned one, or one of a slow tick.
Expire(d) ==
  /\ rows[d].claim = "fresh"
  /\ \/ ~Held(d) /\ UNCHANGED faults
     \/ Held(d) /\ faults < MaxFaults /\ faults' = faults + 1
  /\ rows' = [rows EXCEPT ![d].claim = "stale"]
  /\ UNCHANGED <<letter, optedOut, suppressed, sent, job>>

\* The backoff of a delivery ends.
Due(d) ==
  /\ rows[d].wait
  /\ rows' = [rows EXCEPT ![d].wait = FALSE]
  /\ UNCHANGED <<letter, optedOut, suppressed, sent, job, faults>>

NewMinute(p) ==
  /\ sent[p] > 0
  /\ sent' = [sent EXCEPT ![p] = 0]
  /\ UNCHANGED <<letter, rows, optedOut, suppressed, job, faults>>

-----------------------------------------------------------------------------
Init ==
  /\ letter \in {"draft", "scheduled"}
  /\ rows = <<>> /\ optedOut = {} /\ suppressed = {}
  /\ sent = [p \in Processes |-> 0]
  /\ job = [a \in Actors |-> Idle]
  /\ faults = 0

Tick(p) ==
  \/ StartTick(p) \/ PlanStart(p) \/ Insert(p) \/ Find(p) \/ Claim(p)
  \/ Send(p) \/ MarkSent(p) \/ MarkRefused(p)
  \/ Finalize(p) \/ Finish(p) \/ CheckPause(p) \/ Halt(p)

Request(r) ==
  \/ \E s \in {"draft", "scheduled", "sending"} : AdminSave(r, s)
  \/ PlanStart(r) \/ Insert(r)
  \/ WriteReport(r) \/ LoadSuppressed(r) \/ SaveSuppressed(r)
  \/ \E d \in DOMAIN rows, s \in Reports : Report(r, d, s)
  \/ \E d \in DOMAIN rows : Unsubscribe(r, d)

Next ==
  \/ \E p \in Processes : Tick(p) \/ FailRecord(p) \/ Crash(p) \/ NewMinute(p)
  \/ \E r \in Requests : Request(r)
  \/ \E d \in DOMAIN rows : Expire(d) \/ Due(d)

Spec == Init /\ [][Next]_vars

\* Cron starts a tick every minute and every tick's statements return; time passes.
FairSpec ==
  /\ Spec
  /\ \A p \in Processes : WF_vars(Tick(p)) /\ WF_vars(NewMinute(p))
  /\ \A d \in 1..MaxRows : /\ WF_vars(d \in DOMAIN rows /\ Expire(d))
                           /\ WF_vars(d \in DOMAIN rows /\ Due(d))

-----------------------------------------------------------------------------
TypeOK ==
  /\ letter \in {"draft", "scheduled", "sending", "sent", "paused"}
  /\ rows \in Seq(Row) /\ Len(rows) <= MaxRows
  /\ optedOut \subseteq Contacts /\ suppressed \subseteq Contacts
  /\ sent \in [Processes -> 0..RateLimit]
  /\ job \in [Actors -> Job]
  /\ faults \in 0..MaxFaults

\* dispatchBatch claims by id what it found some statements ago, reclaims what it takes
\* for abandoned and resends what it failed to record.  Those are all the ways a
\* delivery is mailed more than once: one mail more for each such event.
MailedOnlyWhenOwed == \A d \in DOMAIN rows : rows[d].owed >= 0

\* A bounce or complaint (recordBounce, recordComplaint) is overwritten only by a tick
\* that has the delivery in hand: nothing later finds it and mails the address again.
ReportUndoneOnlyInHand ==
  [][\A d \in DOMAIN rows :
       rows[d].status \in {"bounced", "complained"} /\ rows'[d].status \in {"pending", "queued", "sent"}
         => Held(d)]_vars

\* However mail fails, claims expire and processes die, no delivery is left pending
\* or queued for good, and none waits for the rate limit of a minute long gone.
EveryDeliverySettles ==
  \A d \in 1..MaxRows :
    (d \in DOMAIN rows /\ ~Over(rows[d])) ~> (d \in DOMAIN rows /\ Over(rows[d]))
================================================================================
