------------------------------ MODULE DataRetention ------------------------------
(***************************************************************************)
(* The daily purge: what the data retention periods say has expired is     *)
(* deleted, tickets with every row that points at them, while agents close *)
(* and reopen tickets.  One step is one statement or one transaction.      *)
(***************************************************************************)
EXTENDS Naturals, FiniteSets, FiniteSetsExt

CONSTANTS
  Tickets,      \* ticket ids, numbers
  Rows,         \* attachments, audit logs and guest verification codes
  KindOf,       \* which of the three a row is
  Period,       \* days per kind of data, 0 for the setting `never`
  Batch,        \* tickets deleted in one transaction
  Purgers,      \* processes running the purge, numbers
  MaxTime,      \* bound on the clock
  MaxChanges,   \* bound on what agents do
  MaxFaults     \* bound on failed transactions and processes that die

Never == MaxTime + 1
NoTicket == 0

TicketsAssumption == Tickets \subseteq Nat \ {NoTicket}
BatchAssumption == Batch \in Nat \ {0}

VARIABLES
  ticket,    \* id |-> [open, closedAt, mergedInto], for the rows there are
  row,       \* id |-> [at, ticket], for the attachments, logs and codes there are
  now,
  purger,    \* per process: where its purge is, as of when, and the batch in hand
  closings,  \* history: per ticket, when it was last closed
  raced,     \* history: tickets reopened while a batch with them was in hand
  changes, faults

tables  == <<ticket, row>>
history == <<closings, raced>>
vars    == <<ticket, row, now, purger, closings, raced, changes, faults>>

Idle == [at |-> "idle", asOf |-> 0, batch |-> {}]

-----------------------------------------------------------------------------
(* Agents. TicketService.update sets the closing time once and never takes it back. *)

Change(t) ==
  /\ changes < MaxChanges /\ t \in DOMAIN ticket
  /\ changes' = changes + 1
  /\ UNCHANGED <<row, now, purger, faults>>

Close(t) ==
  /\ Change(t) /\ ticket[t].open
  /\ ticket' = [ticket EXCEPT ![t].open = FALSE,
                              ![t].closedAt = IF @ = Never THEN now ELSE @]
  /\ closings' = [closings EXCEPT ![t] = now]
  /\ UNCHANGED raced

Reopen(t) ==
  /\ Change(t) /\ ~ticket[t].open
  /\ ticket' = [ticket EXCEPT ![t].open = TRUE]
  /\ raced' = IF \E p \in Purgers : t \in purger[p].batch THEN raced \cup {t} ELSE raced
  /\ UNCHANGED closings

-----------------------------------------------------------------------------
(* DataRetentionService.purgeExpired. *)

\* A period's cutoff; the data before it has expired.
Expired(kind, at, asOf) == Period[kind] > 0 /\ at + Period[kind] < asOf

\* Mutant: the status is not looked at.
StampedIds(asOf) ==
  {t \in DOMAIN ticket : ticket[t].closedAt # Never /\ Expired("ticket", ticket[t].closedAt, asOf)}

\* Mutant: merged tickets are left alone.
UnmergedIds(asOf) ==
  {t \in StampedIds(asOf) : ~ticket[t].open /\ ticket[t].mergedInto = NoTicket}

expiredTicketIds(asOf) ==
  {t \in DOMAIN ticket : /\ ~ticket[t].open
                         /\ ticket[t].closedAt # Never
                         /\ Expired("ticket", ticket[t].closedAt, asOf)}

\* The least of them, in id order.
FirstOf(ids) == {t \in ids : Cardinality({s \in ids : s < t}) < Batch}

Start(p) ==
  /\ purger[p].at = "idle" /\ \A q \in Purgers : q < p => purger[q].at # "idle"
  /\ purger' = [purger EXCEPT ![p] =
       [at |-> IF expiredTicketIds(now) = {} THEN "rest" ELSE "find", asOf |-> now, batch |-> {}]]
  /\ UNCHANGED <<tables, now, history, changes, faults>>

Find(p) ==
  /\ purger[p].at = "find"
  /\ LET ids == expiredTicketIds(purger[p].asOf)
     IN purger' = [purger EXCEPT ![p].at = IF ids = {} THEN "rest" ELSE "delete",
                                 ![p].batch = FirstOf(ids)]
  /\ UNCHANGED <<tables, now, history, changes, faults>>

Without(f, gone) == [x \in DOMAIN f \ gone |-> f[x]]

\* Mutant: what was merged into a ticket keeps pointing at it.
deleteTicketsOnly(p) ==
  /\ purger[p].at = "delete"
  /\ LET ids == purger[p].batch
     IN /\ ticket' = Without(ticket, ids)
        /\ row' = Without(row, {r \in DOMAIN row : row[r].ticket \in ids})
  /\ purger' = [purger EXCEPT ![p].at = "find", ![p].batch = {}]
  /\ UNCHANGED <<now, history, changes, faults>>

\* The batch, every row that points at it, and the links of tickets merged into it: one
\* transaction, which does not look at the tickets again.
deleteTickets(p) ==
  /\ purger[p].at = "delete"
  /\ LET ids == purger[p].batch
         kept == Without(ticket, ids)
     IN /\ ticket' = [t \in DOMAIN kept |->
             [kept[t] EXCEPT !.mergedInto = IF @ \in ids THEN NoTicket ELSE @]]
        /\ row' = Without(row, {r \in DOMAIN row : row[r].ticket \in ids})
  /\ purger' = [purger EXCEPT ![p].at = "find", ![p].batch = {}]
  /\ UNCHANGED <<now, history, changes, faults>>

\* The code's own end is its expiry; the others expire by their age.
RowExpired(r, asOf) ==
  IF KindOf[r] = "code" THEN row[r].at <= asOf ELSE Expired(KindOf[r], row[r].at, asOf)

\* Attachments, audit logs and guest codes past their periods: three statements.
PurgeRows(p) ==
  /\ purger[p].at = "rest"
  /\ row' = Without(row, {r \in DOMAIN row : RowExpired(r, purger[p].asOf)})
  /\ purger' = [purger EXCEPT ![p] = Idle]
  /\ UNCHANGED <<ticket, now, history, changes, faults>>

\* The transaction is refused, or the process dies: this purge is over.
PurgeFails(p) ==
  /\ purger[p].at # "idle" /\ faults < MaxFaults
  /\ purger' = [purger EXCEPT ![p] = Idle]
  /\ faults' = faults + 1
  /\ UNCHANGED <<tables, now, history, changes>>

-----------------------------------------------------------------------------
Tick ==
  /\ now < MaxTime
  /\ now' = now + 1
  /\ UNCHANGED <<tables, purger, history, changes, faults>>

-----------------------------------------------------------------------------
Init ==
  /\ \E into \in [Tickets -> Tickets \cup {NoTicket}] :
       /\ \A t \in Tickets : into[t] < t
       /\ ticket = [t \in Tickets |-> [open |-> TRUE, closedAt |-> Never,
                                       mergedInto |-> into[t]]]
  /\ \E of \in [Rows -> Tickets] :
       row = [r \in Rows |-> [at |-> 1, ticket |-> IF KindOf[r] = "attachment" THEN of[r]
                                                   ELSE NoTicket]]
  /\ now = 0
  /\ purger = [p \in Purgers |-> Idle]
  /\ closings = [t \in Tickets |-> Never] /\ raced = {}
  /\ changes = 0 /\ faults = 0

StepOf(p) == Start(p) \/ Find(p) \/ deleteTickets(p) \/ PurgeRows(p)

Next ==
  \/ Tick
  \/ \E t \in Tickets : Close(t) \/ Reopen(t)
  \/ \E p \in Purgers : StepOf(p) \/ PurgeFails(p)

Spec == Init /\ [][Next]_vars

\* Time passes and the scheduler's jobs come round; agents need do nothing.
Purges == \E p \in Purgers : StepOf(p)
Fairness == WF_vars(Tick) /\ WF_vars(Purges)

FairSpec == Spec /\ Fairness

-----------------------------------------------------------------------------
Times == 0..MaxTime \cup {Never}

\* Every row and process has one of its states.
TypeOK ==
  /\ DOMAIN ticket \subseteq Tickets /\ DOMAIN row \subseteq Rows
  /\ \A t \in DOMAIN ticket :
       ticket[t] \in [open : BOOLEAN, closedAt : Times, mergedInto : Tickets \cup {NoTicket}]
  /\ \A p \in Purgers : purger[p].at \in {"idle", "find", "delete", "rest"}
                        /\ purger[p].batch \subseteq Tickets

\* The purge takes no ticket in use: one it deletes is closed, its closing time past the
\* whole period, unless it was reopened between the purge's look and its delete.
DeletesExpired ==
  \A t \in DOMAIN ticket \ DOMAIN ticket' :
    /\ ticket[t].closedAt + Period["ticket"] < now
    /\ ticket[t].open => t \in raced

\* "every row that points at it": after a purge nothing refers to a ticket that is gone.
NothingDangles ==
  /\ \A r \in DOMAIN row : row[r].ticket \in DOMAIN ticket \cup {NoTicket}
  /\ \A t \in DOMAIN ticket : ticket[t].mergedInto \in DOMAIN ticket \cup {NoTicket}

\* A closed ticket past its period is deleted, unless it is reopened or the clock stops
\* first; a purge that fails is followed by another.
Overdue(t) == t \in DOMAIN ticket /\ ~ticket[t].open /\ ticket[t].closedAt + Period["ticket"] < now
================================================================================
