---------------------------- MODULE EscalationProofs ----------------------------
(***************************************************************************)
(* Proofs about EscalationSweep for any number of rules, tickets and       *)
(* sweepers, any rule an admin may save, and any number of edits, crashes  *)
(* and failed statements.                                                  *)
(***************************************************************************)
EXTENDS EscalationSweep, FiniteSetTheorems, WellFoundedInduction, NaturalsInduction, TLAPS

Busy(s) == sweep[s] # Idle
Gone == {r \in Rules : rule[r] = Removed}

Shape == sweep = [s \in Sweepers |-> sweep[s]] /\ faults \in Nat

\* What a sweep is to delete, it names once for each ticket.
NamedOnce ==
  \A s \in Sweepers : sweep[s].pc = "rearm" =>
    \A p, q \in sweep[s].stale : p[1] = q[1] => p = q

\* Rows are written for pairs whose actions were all run.
Recorded ==
  /\ FiredMeansActed
  /\ \A s \in Sweepers : sweep[s].pc \in {"insert", "refresh"} =>
       <<sweep[s].rule, sweep[s].ticket>> \in acted

\* Until two sweeps have overlapped there is one at most.
Serial == \A s, q \in Sweepers : Busy(s) /\ Busy(q) => s = q

\* What the rule did to the ticket last is not what its row says.
Unrecorded(r, t) == lastAct[r][t] # 0 /\ log[r][t].firedAt # lastAct[r][t]

\* A sweep is to record the pair, or may yet act on it.
Hand(sw, r, t) == sw.pc \in OnTicket /\ sw.rule = r /\ sw.ticket = t
May(sw, r, t) ==
  /\ sw # Idle /\ r \in DOMAIN sw.left
  /\ sw.rule = r /\ sw.pc \notin {"candidates", "due"} => t \in sw.todo

\* The pairs a repetition may come from: those a fault left unrecorded, and those of a
\* rule removed under the sweep that runs it.
Owed(r, t) ==
  IF rule[r] = Removed THEN \E s \in Sweepers : May(sweep[s], r, t)
  ELSE Unrecorded(r, t) /\ \A s \in Sweepers : ~Hand(sweep[s], r, t)
Debts == {p \in Rules \X Tickets : Owed(p[1], p[2])}

\* Each repetition, made or still to come, has its fault or its removed rule.
Repeats == again + Cardinality(Debts) <= faults + Cardinality(Gone \X Tickets)

\* What a sweep has read is still so, as far as it matters.
Kept(sw) ==
  /\ sw.pc = "due" => \A t \in Tickets \ sw.matching : lastAct[sw.rule][t] = 0
  /\ sw.pc = "rearm" => \A p \in sw.stale : lastAct[sw.rule][p[1]] = 0
  /\ sw.pc \notin {"candidates", "due"} =>
       \A t \in sw.todo :
         Overdue(sw, t) \/ Unrecorded(sw.rule, t) \/ rule[sw.rule] = Removed
  /\ sw.pc \in OnTicket => lastAct[sw.rule][sw.ticket] = sw.at
  /\ sw.pc = "refresh" => log[sw.rule][sw.ticket] # NoRow \/ rule[sw.rule] = Removed
Careful == \A s \in Sweepers : Busy(s) => Kept(sweep[s])

\* A sweep that is about to announce has an entry nobody has announced.
Entering(sw, t) ==
  /\ sw.pc \in {"escalate", "announce"} /\ sw.ticket = t
  /\ sw.pc = "escalate" => ticket[t].status = "escalated"
Announced ==
  \A t \in Tickets :
    /\ escalations[t] <= entered[t]
    /\ \A s \in Sweepers : Entering(sweep[s], t) => escalations[t] < entered[t]

Base == TypeOK /\ Shape /\ NamedOnce /\ Recorded

IInv ==
  /\ Base
  /\ ~overlapped => Serial /\ Careful /\ Repeats /\ Announced

-----------------------------------------------------------------------------
(* Where a sweep goes on *)

LEMMA LeastRule ==
  ASSUME NEW S \in SUBSET Nat, S # {}
  PROVE  (CHOOSE i \in S : \A j \in S : i <= j) \in S
<1>1. PICK m \in S : \A k \in S : <<k, m>> \notin OpToRel(<, Nat)
  BY WFMin, NatLessThanWellFounded, Zenon
<1>2. \A k \in S : ~(k < m)
  BY <1>1, Zenon DEF OpToRel
<1>3. \A k \in S : m <= k
  BY <1>2
<1> QED  BY <1>3

\* What every place of a sweep past Idle has.
Core(sw) ==
  /\ sw.at \in 1 .. MaxTime
  /\ DOMAIN sw.left \subseteq Rules
  /\ sw.left \in [DOMAIN sw.left -> Bodies]

\* Done with the rule in hand.
PastRule(sw, w) ==
  \/ w = Idle
  \/ /\ Stage(w) /\ w.pc = "candidates" /\ w.at = sw.at
     /\ DOMAIN w.left \subseteq DOMAIN sw.left \ {sw.rule}

\* On, or still, with the rule in hand.
SameRule(sw, w) ==
  /\ w.at = sw.at /\ w.left = sw.left /\ w.rule = sw.rule

\* ... and with a ticket of it.
SameTicket(sw, w) ==
  /\ Stage(w) /\ SameRule(sw, w)
  /\ w.todo = sw.todo /\ w.pc \in OnTicket /\ w.ticket = sw.ticket

LEMMA NextRuleShape ==
  ASSUME NEW sw, Core(sw)
  PROVE  LET w == NextRule(sw) IN
         \/ w = Idle
         \/ /\ Stage(w) /\ w.pc = "candidates" /\ w.at = sw.at /\ w.left = sw.left
<1> DEFINE w == NextRule(sw)
           S == DOMAIN sw.left
           least == CHOOSE i \in S : \A j \in S : i <= j
<1>1. CASE S = {}
  BY <1>1 DEF NextRule
<1>2. CASE S # {}
  <2>1. S \in SUBSET Nat
    BY RulesAssumption DEF Core
  <2>2. least \in S
    BY <1>2, <2>1, LeastRule
  <2>3. w = [pc |-> "candidates", at |-> sw.at, left |-> sw.left, rule |-> least]
    BY <1>2, Zenon DEF NextRule
  <2> HIDE DEF least, w
  <2> QED  BY <2>2, <2>3 DEF Stage, Core, OnTicket, InAction, w
<1> QED  BY <1>1, <1>2

LEMMA StageCore ==
  ASSUME NEW sw, Stage(sw)
  PROVE  Core(sw) /\ sw.rule \in DOMAIN sw.left /\ sw # Idle /\ sw.pc # "idle"
BY DEF Stage, Core, Idle, OnTicket, InAction

LEMMA SkipRuleShape ==
  ASSUME NEW sw, Core(sw)
  PROVE  PastRule(sw, SkipRule(sw))
<1> DEFINE rest == [at |-> sw.at, left |-> [r \in DOMAIN sw.left \ {sw.rule} |-> sw.left[r]]]
<1>1. rest.at = sw.at /\ DOMAIN rest.left = DOMAIN sw.left \ {sw.rule}
  OBVIOUS
<1>2. rest.left \in [DOMAIN rest.left -> Bodies]
  BY DEF Core
<1>3. SkipRule(sw) = NextRule(rest)
  BY DEF SkipRule
<1> HIDE DEF rest
<1>4. Core(rest)
  BY <1>1, <1>2 DEF Core
<1> QED  BY <1>1, <1>3, <1>4, NextRuleShape DEF PastRule

LEMMA NextTicketShape ==
  ASSUME NEW sw, Core(sw), sw.rule \in DOMAIN sw.left, NEW todo \in SUBSET Tickets
  PROVE  LET w == NextTicket(sw, todo) IN
         \/ PastRule(sw, w)
         \/ /\ Stage(w) /\ w.pc = "ticket" /\ w.todo = todo /\ SameRule(sw, w)
<1>1. CASE todo = {}
  BY <1>1, SkipRuleShape DEF NextTicket
<1>2. CASE todo # {}
  <2>1. NextTicket(sw, todo) =
          [pc |-> "ticket", at |-> sw.at, left |-> sw.left, rule |-> sw.rule, todo |-> todo]
    BY <1>2 DEF NextTicket
  <2> QED  BY <2>1 DEF Stage, Core, OnTicket, InAction, SameRule
<1> QED  BY <1>1, <1>2

LEMMA ActingShape ==
  ASSUME NEW sw, Core(sw), sw.rule \in DOMAIN sw.left, sw.todo \in SUBSET Tickets,
         NEW t \in Tickets \ sw.todo, NEW pc \in OnTicket, NEW left \in Seq(Action),
         pc \in InAction => left # <<>>, NEW said
  PROVE  LET w == Acting(sw, t, pc, left, said) IN
         /\ Stage(w) /\ SameRule(sw, w) /\ w.todo = sw.todo /\ w.ticket = t
         /\ w.pc = pc /\ w.announced = said
<1> DEFINE w == Acting(sw, t, pc, left, said)
<1>1. /\ w.pc = pc /\ w.at = sw.at /\ w.left = sw.left /\ w.rule = sw.rule /\ w.todo = sw.todo
      /\ w.ticket = t /\ w.actions = left /\ w.announced = said
  BY DEF Acting
<1> HIDE DEF w
<1>2. Stage(w)
  BY <1>1 DEF Stage, Core, OnTicket, InAction
<1> QED  BY <1>1, <1>2 DEF SameRule, w

LEMMA NextActionShape ==
  ASSUME NEW sw, Core(sw), sw.rule \in DOMAIN sw.left, sw.todo \in SUBSET Tickets,
         NEW t \in Tickets \ sw.todo, NEW left \in Seq(Action), NEW said
  PROVE  LET w == NextAction(sw, t, left, said) IN
         /\ Stage(w) /\ SameRule(sw, w) /\ w.todo = sw.todo /\ w.ticket = t
         /\ w.pc \in {"act", "announceLegacy", "record"}
<1>1. \A pc \in {"act", "announceLegacy", "record"} :
        pc \in OnTicket /\ (pc \in InAction => pc = "act")
  BY DEF OnTicket, InAction
<1>2. CASE left # <<>>
  <2>1. NextAction(sw, t, left, said) = Acting(sw, t, "act", left, said)
    BY <1>2 DEF NextAction
  <2> QED  BY <1>1, <1>2, <2>1, ActingShape
<1>3. CASE left = <<>>
  <2>1. \/ NextAction(sw, t, left, said) = Acting(sw, t, "announceLegacy", left, TRUE)
        \/ NextAction(sw, t, left, said) = Acting(sw, t, "record", left, said)
    BY <1>3 DEF NextAction
  <2>2. \A pc \in {"announceLegacy", "record"} : pc \in OnTicket /\ pc \notin InAction
    BY DEF OnTicket, InAction
  <2>3. CASE NextAction(sw, t, left, said) = Acting(sw, t, "announceLegacy", left, TRUE)
    <3>1. PICK told : told = TRUE
      OBVIOUS
    <3>2. NextAction(sw, t, left, said) = Acting(sw, t, "announceLegacy", left, told)
      BY <2>3, <3>1
    <3> QED  BY <2>2, <3>2, ActingShape
  <2>4. CASE NextAction(sw, t, left, said) = Acting(sw, t, "record", left, said)
    BY <2>2, <2>4, ActingShape
  <2> QED  BY <2>1, <2>3, <2>4
<1> QED  BY <1>2, <1>3

LEMMA OnTicketShape ==
  ASSUME NEW sw, Stage(sw), sw.pc \in OnTicket
  PROVE  /\ Core(sw) /\ sw.rule \in DOMAIN sw.left /\ sw.rule \in Rules
         /\ sw.todo \in SUBSET Tickets /\ sw.ticket \in Tickets \ sw.todo
         /\ sw.ticket \in Tickets /\ sw.actions \in Seq(Action)
         /\ sw.pc \in InAction => sw.actions # <<>>
BY DEF Stage, Core, OnTicket, InAction

\* The next action, or the record, of the same ticket.
LEMMA MoveShape ==
  ASSUME NEW sw, Stage(sw), sw.pc \in InAction, NEW said
  PROVE  LET w == Move(sw, said) IN
         SameTicket(sw, w) /\ w.pc \in {"act", "announceLegacy", "record"}
<1>1. sw.pc \in OnTicket
  BY DEF OnTicket
<1>2. sw.actions \in Seq(Action) /\ sw.actions # <<>>
  BY <1>1, OnTicketShape
<1>3. Tail(sw.actions) \in Seq(Action)
  BY <1>2
<1>4. Move(sw, said) = NextAction(sw, sw.ticket, Tail(sw.actions), said)
  BY DEF Move
<1>5. \A pc \in {"act", "announceLegacy", "record"} : pc \in OnTicket
  BY DEF OnTicket, InAction
<1>6. LET w == NextAction(sw, sw.ticket, Tail(sw.actions), said) IN
      /\ Stage(w) /\ SameRule(sw, w) /\ w.todo = sw.todo /\ w.ticket = sw.ticket
      /\ w.pc \in {"act", "announceLegacy", "record"}
  BY <1>1, <1>3, OnTicketShape, NextActionShape
<1> QED  BY <1>4, <1>5, <1>6 DEF SameTicket

LEMMA StayShape ==
  ASSUME NEW sw, Stage(sw), sw.pc \in OnTicket, NEW pc \in OnTicket, NEW said,
         pc \in InAction => sw.pc \in InAction
  PROVE  LET w == Stay(sw, pc, said) IN SameTicket(sw, w) /\ w.pc = pc
<1>1. Stay(sw, pc, said) = Acting(sw, sw.ticket, pc, sw.actions, said)
  BY DEF Stay
<1> HIDE DEF Stay
<1> QED  BY <1>1, OnTicketShape, ActingShape DEF SameTicket

-----------------------------------------------------------------------------
(* Types, names and records, whether sweeps overlap or not *)

RowType == {NoRow} \cup [id : Nat \ {0}, firedAt : 1 .. MaxTime]

LEMMA SweepShape ==
  ASSUME Base, NEW s \in Sweepers, sweep[s].pc # "idle"
  PROVE  /\ Stage(sweep[s]) /\ Core(sweep[s]) /\ Busy(s)
         /\ sweep[s].rule \in DOMAIN sweep[s].left /\ sweep[s].rule \in Rules
<1>1. Busy(s)
  BY DEF Busy, Idle
<1>2. Stage(sweep[s])
  BY <1>1 DEF Base, TypeOK, Busy
<1> QED  BY <1>1, <1>2, StageCore DEF Core

LEMMA BusyShape ==
  ASSUME Base, NEW s \in Sweepers, Busy(s)
  PROVE  Stage(sweep[s]) /\ sweep[s].pc # "idle"
<1>1. Stage(sweep[s])
  BY DEF Base, TypeOK, Busy
<1> QED  BY <1>1, StageCore

LEMMA Sent ==
  ASSUME Shape, NEW s \in Sweepers, NEW w, Goto(s, w)
  PROVE  /\ sweep' = [q \in Sweepers |-> sweep'[q]]
         /\ sweep'[s] = w
         /\ \A q \in Sweepers \ {s} : sweep'[q] = sweep[q]
<1>1. sweep' = [sweep EXCEPT ![s] = w] /\ DOMAIN sweep = Sweepers
  BY DEF Shape, Goto
<1> QED  BY <1>1

\* A step of one sweep that keeps the fire log and the histories in order.
LEMMA BaseStep ==
  ASSUME Base, NEW s \in Sweepers, NEW w, Goto(s, w), w = Idle \/ Stage(w),
         w.pc = "rearm" => \A p, q \in w.stale : p[1] = q[1] => p = q,
         w.pc \in {"insert", "refresh"} => <<w.rule, w.ticket>> \in acted',
         rule' \in [Rules -> Bodies \cup {NoRule, Removed}],
         ticket' \in [Tickets -> Ticket],
         log' \in [Rules -> [Tickets -> RowType]],
         now' \in 1 .. MaxTime,
         deleting' \subseteq {r \in Rules : rule'[r] = Removed},
         lastAct' \in [Rules -> [Tickets -> Nat]] /\ again' \in Nat,
         acted \subseteq acted', acted' \subseteq Rules \X Tickets,
         \A r \in Rules, t \in Tickets : log'[r][t] # NoRow => <<r, t>> \in acted',
         overlapped' \in BOOLEAN,
         entered' \in [Tickets -> Nat], escalations' \in [Tickets -> Nat],
         faults' \in Nat
  PROVE  Base'
<1>1. /\ sweep' = [q \in Sweepers |-> sweep'[q]]
      /\ sweep'[s] = w
      /\ \A q \in Sweepers \ {s} : sweep'[q] = sweep[q]
  BY Sent DEF Base
<1>2. \A q \in Sweepers : sweep'[q] # Idle => Stage(sweep'[q])
  BY <1>1 DEF Base, TypeOK
<1>3. TypeOK'
  BY <1>2 DEF TypeOK, RowType
<1>4. Shape'
  BY <1>1 DEF Shape
<1>5. NamedOnce'
  BY <1>1 DEF Base, NamedOnce
<1>6. Recorded'
  BY <1>1 DEF Base, Recorded, FiredMeansActed
<1> QED  BY <1>3, <1>4, <1>5, <1>6 DEF Base

\* The same for a step that changes no table and no history.
LEMMA BaseGoto ==
  ASSUME Base, NEW s \in Sweepers, NEW w, Goto(s, w), w = Idle \/ Stage(w),
         w.pc # "rearm",
         w.pc \in {"insert", "refresh"} => <<w.rule, w.ticket>> \in acted,
         UNCHANGED <<tables, deleting, lastAct, again, acted, entered, escalations>>,
         overlapped' \in BOOLEAN, faults' \in Nat
  PROVE  Base'
<1>0. UNCHANGED <<rule, ticket, log, now, deleting, lastAct, again, acted, entered,
                  escalations>>
  BY DEF tables
<1>1. /\ rule' \in [Rules -> Bodies \cup {NoRule, Removed}]
      /\ ticket' \in [Tickets -> Ticket]
      /\ log' \in [Rules -> [Tickets -> RowType]]
      /\ now' \in 1 .. MaxTime
      /\ deleting' \subseteq {r \in Rules : rule'[r] = Removed}
  BY <1>0 DEF Base, TypeOK, RowType
<1>3. \A r \in Rules, t \in Tickets : log'[r][t] # NoRow => <<r, t>> \in acted'
  BY <1>0 DEF Base, Recorded, FiredMeansActed
<1>2. /\ lastAct' \in [Rules -> [Tickets -> Nat]] /\ again' \in Nat
      /\ acted' = acted /\ acted' \subseteq Rules \X Tickets
      /\ entered' \in [Tickets -> Nat] /\ escalations' \in [Tickets -> Nat]
  BY <1>0 DEF Base, TypeOK
<1> QED  BY <1>1, <1>2, <1>3, BaseStep

LEMMA ActiveRules ==
  ASSUME TypeOK, NEW r \in Rules, rule[r].active
  PROVE  rule[r] \in Bodies /\ rule[r] # Removed
BY DEF TypeOK, NoRule, Removed

LEMMA StartShape ==
  ASSUME Base, NEW s \in Sweepers, Start(s)
  PROVE  \E w : /\ Goto(s, w)
                /\ \/ w = Idle
                   \/ /\ Stage(w) /\ w.pc = "candidates"
                      /\ \A r \in DOMAIN w.left : rule[r] # Removed
<1> DEFINE active == {r \in Rules : rule[r].active}
           sw == [at |-> now, left |-> [r \in active |-> rule[r]]]
<1>1. Goto(s, NextRule(sw))
  BY DEF Start
<1>2. sw.at = now /\ DOMAIN sw.left = active
  OBVIOUS
<1>3. sw.left \in [DOMAIN sw.left -> Bodies]
  BY ActiveRules DEF Base
<1>4. \A r \in active : rule[r] # Removed
  BY ActiveRules DEF Base
<1> HIDE DEF sw
<1>5. Core(sw)
  BY <1>2, <1>3 DEF Core, Base, TypeOK
<1>6. PICK w : w = NextRule(sw)
  OBVIOUS
<1>7. w = Idle \/ (Stage(w) /\ w.pc = "candidates" /\ w.left = sw.left)
  BY <1>5, <1>6, NextRuleShape
<1>8. \A r \in DOMAIN sw.left : rule[r] # Removed
  BY <1>2, <1>4
<1> HIDE DEF active
<1> QED  BY <1>1, <1>6, <1>7, <1>8

LEMMA StartBase ==
  ASSUME Base, NEW s \in Sweepers, Start(s)
  PROVE  Base'
<1>1. PICK w : Goto(s, w) /\ (w = Idle \/ (Stage(w) /\ w.pc = "candidates"))
  BY StartShape
<1>2. w.pc \notin {"rearm", "insert", "refresh"}
  BY <1>1 DEF Idle
<1>3. overlapped' \in BOOLEAN /\ faults' \in Nat
  BY DEF Start, Base, TypeOK, Shape
<1> QED  BY <1>1, <1>2, <1>3, BaseGoto DEF Start

LEMMA CandidatesShape ==
  ASSUME Base, NEW s \in Sweepers, Candidates(s)
  PROVE  \E w : /\ Goto(s, w)
                /\ Stage(w) /\ w.pc = "due" /\ SameRule(sweep[s], w)
                /\ lastAct' = [lastAct EXCEPT ![w.rule] =
                     [t \in Tickets |-> IF t \in w.matching THEN lastAct[w.rule][t] ELSE 0]]
<1>1. Stage(sweep[s]) /\ Core(sweep[s]) /\ sweep[s].rule \in DOMAIN sweep[s].left
  BY SweepShape DEF Candidates
<1>2. PICK m \in SUBSET Tickets :
        /\ Goto(s, [pc |-> "due", at |-> sweep[s].at, left |-> sweep[s].left,
                    rule |-> sweep[s].rule, matching |-> m])
        /\ lastAct' = [lastAct EXCEPT ![sweep[s].rule] =
             [t \in Tickets |-> IF t \in m THEN lastAct[sweep[s].rule][t] ELSE 0]]
  BY DEF Candidates
<1>3. PICK w : w = [pc |-> "due", at |-> sweep[s].at, left |-> sweep[s].left,
                    rule |-> sweep[s].rule, matching |-> m]
  OBVIOUS
<1>4. Stage(w) /\ w.pc = "due" /\ SameRule(sweep[s], w)
  BY <1>1, <1>3 DEF Core, Stage, SameRule, OnTicket, InAction
<1>5. w.rule = sweep[s].rule /\ w.matching = m /\ Goto(s, w)
  BY <1>2, <1>3
<1>6. lastAct' = [lastAct EXCEPT ![w.rule] =
        [t \in Tickets |-> IF t \in w.matching THEN lastAct[w.rule][t] ELSE 0]]
  BY <1>2, <1>5
<1> QED  BY <1>4, <1>5, <1>6

LEMMA CandidatesBase ==
  ASSUME Base, NEW s \in Sweepers, Candidates(s)
  PROVE  Base'
<1>1. PICK w : /\ Goto(s, w)
               /\ Stage(w) /\ w.pc = "due" /\ SameRule(sweep[s], w)
               /\ lastAct' = [lastAct EXCEPT ![w.rule] =
                    [t \in Tickets |-> IF t \in w.matching THEN lastAct[w.rule][t] ELSE 0]]
  BY CandidatesShape
<1>2. w.rule \in Rules
  BY <1>1, StageCore DEF Core
<1>3. lastAct' \in [Rules -> [Tickets -> Nat]]
  BY <1>1, <1>2 DEF Base, TypeOK
<1>4. UNCHANGED <<rule, ticket, log, now, deleting, again, acted, entered, escalations,
                  overlapped, faults>>
  BY DEF Candidates, tables
<1>5. /\ rule \in [Rules -> Bodies \cup {NoRule, Removed}]
      /\ ticket \in [Tickets -> Ticket]
      /\ log \in [Rules -> [Tickets -> RowType]]
      /\ now \in 1 .. MaxTime
      /\ deleting \subseteq {r \in Rules : rule[r] = Removed}
      /\ again \in Nat /\ acted \subseteq Rules \X Tickets
      /\ overlapped \in BOOLEAN /\ faults \in Nat
      /\ entered \in [Tickets -> Nat] /\ escalations \in [Tickets -> Nat]
      /\ \A r \in Rules, t \in Tickets : log[r][t] # NoRow => <<r, t>> \in acted
  BY DEF Base, TypeOK, Shape, Recorded, FiredMeansActed, RowType
<1>6. w.pc \notin {"rearm", "insert", "refresh"}
  BY <1>1
<1> QED  BY <1>1, <1>3, <1>4, <1>5, <1>6, BaseStep

LEMMA DueShape ==
  ASSUME Base, NEW s \in Sweepers, Due(s)
  PROVE  \E w : /\ Goto(s, w)
                /\ \/ PastRule(sweep[s], w)
                   \/ /\ Stage(w) /\ SameRule(sweep[s], w) /\ w.pc \in {"ticket", "rearm"}
                      /\ \A t \in w.todo :
                           t \in Tickets /\ IsDue(log[w.rule][t], w.left[w.rule], w.at)
                      /\ w.pc = "rearm" =>
                           /\ \A p, q \in w.stale : p[1] = q[1] => p = q
                           /\ \A p \in w.stale : p[1] \in Tickets \ sweep[s].matching
<1> DEFINE sw == sweep[s]
           rows == log[sw.rule]
           stale == {t \in Tickets \ sw.matching : rows[t] # NoRow}
           todo == {t \in sw.matching : IsDue(rows[t], sw.left[sw.rule], sw.at)}
           named == {<<t, rows[t].id>> : t \in stale}
           re == [pc |-> "rearm", at |-> sw.at, left |-> sw.left, rule |-> sw.rule,
                  todo |-> todo, stale |-> named]
<1>1. /\ Stage(sw) /\ Core(sw) /\ sw.rule \in DOMAIN sw.left /\ sw.rule \in Rules
      /\ sw.pc = "due"
  BY SweepShape DEF Due
<1>2. sw.matching \subseteq Tickets /\ todo \in SUBSET Tickets
  BY <1>1 DEF Stage
<1>3. Goto(s, IF stale = {} THEN NextTicket(sw, todo) ELSE re)
  BY DEF Due
<1>4. CASE stale = {}
  <2>1. PICK w : w = NextTicket(sw, todo) /\ Goto(s, w)
    BY <1>3, <1>4
  <2>2. \/ PastRule(sw, w)
        \/ /\ Stage(w) /\ w.pc = "ticket" /\ w.todo = todo /\ SameRule(sw, w)
    BY <1>1, <1>2, <2>1, NextTicketShape
  <2>3. CASE PastRule(sw, w)
    BY <2>1, <2>3
  <2>4. CASE Stage(w) /\ w.pc = "ticket" /\ w.todo = todo /\ SameRule(sw, w)
    <3>1. \A t \in w.todo :
            t \in Tickets /\ IsDue(log[w.rule][t], w.left[w.rule], w.at)
      BY <1>2, <2>4 DEF SameRule
    <3> QED  BY <2>1, <2>4, <3>1
  <2> QED  BY <2>2, <2>3, <2>4
<1>5. CASE stale # {}
  <2>1. PICK w : w = re /\ Goto(s, w)
    BY <1>3, <1>5
  <2>2. /\ w.pc = "rearm" /\ w.at = sw.at /\ w.left = sw.left /\ w.rule = sw.rule
        /\ w.todo = todo /\ w.stale = named
    BY <2>1
  <2>3. \A t \in Tickets : rows[t] \in RowType
    BY <1>1 DEF Base, TypeOK, RowType
  <2>4. named \subseteq Tickets \X (Nat \ {0})
    BY <2>3 DEF RowType
  <2>5. /\ \A p, q \in named : p[1] = q[1] => p = q
        /\ \A p \in named : p[1] \in Tickets \ sw.matching
    OBVIOUS
  <2>6. \A t \in w.todo : t \in Tickets /\ IsDue(log[w.rule][t], w.left[w.rule], w.at)
    BY <1>2, <2>2
  <2> HIDE DEF named, todo, re
  <2>7. Stage(w) /\ SameRule(sw, w)
    BY <1>1, <1>2, <2>2, <2>4 DEF Stage, Core, SameRule, OnTicket, InAction
  <2> QED  BY <2>1, <2>2, <2>5, <2>6, <2>7
<1> QED  BY <1>4, <1>5

LEMMA DueBase ==
  ASSUME Base, NEW s \in Sweepers, Due(s)
  PROVE  Base'
<1>1. PICK w : /\ Goto(s, w)
               /\ \/ w = Idle
                  \/ (Stage(w) /\ w.pc \in {"candidates", "ticket", "rearm"})
               /\ w.pc = "rearm" => \A p, q \in w.stale : p[1] = q[1] => p = q
  <2>1. PICK w : /\ Goto(s, w)
                 /\ \/ PastRule(sweep[s], w)
                    \/ /\ Stage(w) /\ w.pc \in {"ticket", "rearm"}
                       /\ w.pc = "rearm" => \A p, q \in w.stale : p[1] = q[1] => p = q
    BY DueShape
  <2> QED  BY <2>1 DEF PastRule, Idle
<1>2. w.pc \notin {"insert", "refresh"}
  BY <1>1 DEF Idle
<1>3. UNCHANGED <<rule, ticket, log, now, deleting, lastAct, again, acted, entered, escalations,
                  overlapped, faults>>
  BY DEF Due, tables, hist
<1>5. /\ rule \in [Rules -> Bodies \cup {NoRule, Removed}]
      /\ ticket \in [Tickets -> Ticket]
      /\ log \in [Rules -> [Tickets -> RowType]]
      /\ now \in 1 .. MaxTime
      /\ deleting \subseteq {r \in Rules : rule[r] = Removed}
      /\ lastAct \in [Rules -> [Tickets -> Nat]]
      /\ again \in Nat /\ acted \subseteq Rules \X Tickets
      /\ overlapped \in BOOLEAN /\ faults \in Nat
      /\ entered \in [Tickets -> Nat] /\ escalations \in [Tickets -> Nat]
      /\ \A r \in Rules, t \in Tickets : log[r][t] # NoRow => <<r, t>> \in acted
  BY DEF Base, TypeOK, Shape, Recorded, FiredMeansActed, RowType
<1> QED  BY <1>1, <1>2, <1>3, <1>5, BaseStep

\* What a step that has the table of executions written must leave.
LEMMA BaseLog ==
  ASSUME Base, NEW s \in Sweepers, NEW w, Goto(s, w), w = Idle \/ Stage(w),
         w.pc \notin {"rearm", "insert", "refresh"},
         log' \in [Rules -> [Tickets -> RowType]],
         \A r \in Rules, t \in Tickets : log'[r][t] # NoRow => <<r, t>> \in acted,
         UNCHANGED <<rule, ticket, now, deleting, hist, faults>>
  PROVE  Base'
<1>1. UNCHANGED <<rule, ticket, now, deleting, lastAct, again, acted, entered, escalations,
                  overlapped, faults>>
  BY DEF hist
<1>2. /\ rule \in [Rules -> Bodies \cup {NoRule, Removed}]
      /\ ticket \in [Tickets -> Ticket]
      /\ now \in 1 .. MaxTime
      /\ deleting \subseteq {r \in Rules : rule[r] = Removed}
      /\ lastAct \in [Rules -> [Tickets -> Nat]]
      /\ again \in Nat /\ acted \subseteq Rules \X Tickets
      /\ overlapped \in BOOLEAN /\ faults \in Nat
      /\ entered \in [Tickets -> Nat] /\ escalations \in [Tickets -> Nat]
  BY DEF Base, TypeOK, Shape
<1> QED  BY <1>1, <1>2, BaseStep

\* On to the next ticket: where that is.
LEMMA LeaveShape ==
  ASSUME Base, NEW s \in Sweepers, sweep[s].pc \in {"rearm", "ticket"} \cup OnTicket,
         NEW w, w = NextTicket(sweep[s], sweep[s].todo)
  PROVE  /\ \/ PastRule(sweep[s], w)
            \/ /\ Stage(w) /\ w.pc = "ticket" /\ w.todo = sweep[s].todo
               /\ SameRule(sweep[s], w)
         /\ (w = Idle \/ Stage(w))
         /\ w.pc \in {"idle", "candidates", "ticket"}
<1>1. sweep[s].pc \notin {"idle", "candidates", "due"}
  BY DEF OnTicket, InAction
<1>2. /\ Stage(sweep[s]) /\ Core(sweep[s]) /\ sweep[s].rule \in DOMAIN sweep[s].left
      /\ sweep[s].todo \in SUBSET Tickets
  BY <1>1, SweepShape DEF Stage
<1>3. \/ PastRule(sweep[s], w)
      \/ /\ Stage(w) /\ w.pc = "ticket" /\ w.todo = sweep[s].todo
         /\ SameRule(sweep[s], w)
  BY <1>2, NextTicketShape
<1> QED  BY <1>3 DEF PastRule, Idle

LEMMA RearmBase ==
  ASSUME Base, NEW s \in Sweepers, Rearm(s)
  PROVE  Base'
<1>1. PICK w : w = NextTicket(sweep[s], sweep[s].todo) /\ Goto(s, w)
  BY DEF Rearm
<1>2. /\ (w = Idle \/ Stage(w))
      /\ w.pc \in {"idle", "candidates", "ticket"}
  BY <1>1, LeaveShape DEF Rearm
<1>3. PICK r \in Rules : r = sweep[s].rule
  BY SweepShape DEF Rearm
<1>4. log' = [log EXCEPT ![r] =
        [t \in Tickets |-> IF <<t, log[r][t].id>> \in sweep[s].stale THEN NoRow ELSE log[r][t]]]
  BY <1>3 DEF Rearm
<1>5. log' \in [Rules -> [Tickets -> RowType]]
  BY <1>4 DEF Base, TypeOK, RowType
<1>6. \A q \in Rules, t \in Tickets : log'[q][t] # NoRow => log[q][t] # NoRow
  BY <1>4 DEF Base, TypeOK
<1>7. \A q \in Rules, t \in Tickets : log'[q][t] # NoRow => <<q, t>> \in acted
  BY <1>6 DEF Base, Recorded, FiredMeansActed
<1> QED  BY <1>1, <1>2, <1>5, <1>7, BaseLog DEF Rearm

LEMMA BeginShape ==
  ASSUME Base, NEW s \in Sweepers, NEW t \in Tickets, Begin(s, t)
  PROVE  /\ Stage(sweep[s]) /\ t \in sweep[s].todo
         /\ \E w : /\ Goto(s, w) /\ Stage(w) /\ SameRule(sweep[s], w)
                   /\ w.todo = sweep[s].todo \ {t} /\ w.ticket = t
                   /\ w.pc \in {"act", "announceLegacy", "record"}
<1> DEFINE sw == sweep[s]
           body == sw.left[sw.rule]
           taken == Taken(sw, t)
<1>1. /\ Stage(sw) /\ Core(sw) /\ sw.rule \in DOMAIN sw.left
      /\ sw.pc = "ticket" /\ t \in sw.todo
  BY SweepShape DEF Begin, Acts
<1>2. sw.todo \in SUBSET Tickets
  BY <1>1 DEF Stage
<1>3. /\ taken.at = sw.at /\ taken.left = sw.left /\ taken.rule = sw.rule
      /\ taken.todo = sw.todo \ {t}
  BY DEF Taken
<1>4. body \in Bodies
  BY <1>1 DEF Core
<1>5. body.actions \in Seq(Action)
  BY <1>4, BodiesAssumption DEF Body
<1>6. Goto(s, NextAction(taken, t, body.actions, FALSE))
  BY DEF Begin, Acts
<1> HIDE DEF taken, body
<1>7. Core(taken) /\ taken.rule \in DOMAIN taken.left
  BY <1>1, <1>3 DEF Core
<1>8. taken.todo \in SUBSET Tickets /\ t \in Tickets \ taken.todo
  BY <1>2, <1>3
<1>9. PICK w, sv, left, said : /\ w = NextAction(sv, t, left, said) /\ Goto(s, w)
                               /\ sv = taken /\ left = body.actions
  BY <1>6
<1>10. /\ Stage(w) /\ SameRule(sv, w) /\ w.todo = sv.todo /\ w.ticket = t
       /\ w.pc \in {"act", "announceLegacy", "record"}
  <2>1. Core(sv) /\ sv.rule \in DOMAIN sv.left /\ sv.todo \in SUBSET Tickets
    BY <1>7, <1>8, <1>9
  <2>2. t \in Tickets \ sv.todo /\ left \in Seq(Action)
    BY <1>5, <1>8, <1>9
  <2> QED  BY <1>9, <2>1, <2>2, NextActionShape
<1>11. SameRule(sw, w)
  BY <1>3, <1>9, <1>10 DEF SameRule
<1> QED  BY <1>1, <1>3, <1>9, <1>10, <1>11

LEMMA BeginBase ==
  ASSUME Base, NEW s \in Sweepers, NEW t \in Tickets, Begin(s, t)
  PROVE  Base'
<1>1. PICK w : Goto(s, w) /\ Stage(w) /\ w.pc \in {"act", "announceLegacy", "record"}
  BY BeginShape
<1>2. PICK r \in Rules : r = sweep[s].rule
  BY SweepShape DEF Begin, Acts
<1>3. sweep[s].at \in Nat
  <2>1. sweep[s].at \in 1 .. MaxTime
    BY BeginShape DEF Stage
  <2> QED  BY <2>1, BoundsAssumption
<1>4. lastAct' \in [Rules -> [Tickets -> Nat]]
  BY <1>2, <1>3 DEF Begin, Acts, Base, TypeOK
<1>5. again' \in Nat
  BY DEF Begin, Acts, Base, TypeOK
<1>6. UNCHANGED <<rule, ticket, log, now, deleting, acted, entered, escalations,
                  overlapped, faults>>
  BY DEF Begin, tables
<1>7. /\ rule \in [Rules -> Bodies \cup {NoRule, Removed}]
      /\ ticket \in [Tickets -> Ticket]
      /\ log \in [Rules -> [Tickets -> RowType]]
      /\ now \in 1 .. MaxTime
      /\ deleting \subseteq {q \in Rules : rule[q] = Removed}
      /\ acted \subseteq Rules \X Tickets
      /\ overlapped \in BOOLEAN /\ faults \in Nat
      /\ entered \in [Tickets -> Nat] /\ escalations \in [Tickets -> Nat]
      /\ \A q \in Rules, u \in Tickets : log[q][u] # NoRow => <<q, u>> \in acted
  BY DEF Base, TypeOK, Shape, Recorded, FiredMeansActed, RowType
<1> QED  BY <1>1, <1>4, <1>5, <1>6, <1>7, BaseStep

\* The statements of one action, and of the announcement and the record after them.
LEMMA EscalateShape ==
  ASSUME Base, NEW s \in Sweepers, Escalate(s)
  PROVE  \E w : /\ Goto(s, w) /\ SameTicket(sweep[s], w)
                /\ \/ w.pc \in {"act", "announceLegacy", "record"}
                   \/ w.pc = "escalate" /\ ticket[w.ticket].status # "escalated"
<1>1. Stage(sweep[s]) /\ sweep[s].pc \in InAction /\ sweep[s].pc \in OnTicket
  BY SweepShape DEF Escalate, InAction, OnTicket
<1>2. PICK w : /\ Goto(s, w)
               /\ \/ w = Move(sweep[s], TRUE)
                  \/ /\ w = Stay(sweep[s], "escalate", TRUE)
                     /\ ticket[sweep[s].ticket].status # "escalated"
  BY DEF Escalate
<1>3. "escalate" \in OnTicket
  BY DEF OnTicket, InAction
<1>4. CASE w = Move(sweep[s], TRUE)
  BY <1>1, <1>2, <1>4, MoveShape
<1>5. CASE w = Stay(sweep[s], "escalate", TRUE) /\ ticket[sweep[s].ticket].status # "escalated"
  <2>1. SameTicket(sweep[s], w) /\ w.pc = "escalate"
    BY <1>1, <1>3, <1>5, StayShape
  <2> QED  BY <1>2, <1>5, <2>1 DEF SameTicket
<1> QED  BY <1>2, <1>4, <1>5

LEMMA WriteEscalatedShape ==
  ASSUME Base, NEW s \in Sweepers, WriteEscalated(s)
  PROVE  \E w : Goto(s, w) /\ SameTicket(sweep[s], w) /\ w.pc = "announce"
<1>1. Stage(sweep[s]) /\ sweep[s].pc \in InAction /\ sweep[s].pc \in OnTicket
  BY SweepShape DEF WriteEscalated, InAction, OnTicket
<1>2. "announce" \in OnTicket
  BY DEF OnTicket, InAction
<1>3. PICK w : Goto(s, w) /\ w = Stay(sweep[s], "announce", TRUE)
  BY DEF WriteEscalated
<1> QED  BY <1>1, <1>2, <1>3, StayShape

LEMMA AnnounceShape ==
  ASSUME Base, NEW s \in Sweepers, Announce(s)
  PROVE  \E w : /\ Goto(s, w) /\ SameTicket(sweep[s], w)
                /\ w.pc \in {"act", "announceLegacy", "record"}
<1>1. /\ Stage(sweep[s]) /\ sweep[s].pc \in OnTicket
      /\ (sweep[s].pc = "announce" => sweep[s].pc \in InAction)
  BY SweepShape DEF Announce, InAction, OnTicket
<1>2. PICK w : /\ Goto(s, w)
               /\ \/ sweep[s].pc = "announce" /\ w = Move(sweep[s], TRUE)
                  \/ w = Stay(sweep[s], "record", TRUE)
  BY DEF Announce
<1>3. "record" \in OnTicket /\ "record" \notin InAction
  BY DEF OnTicket, InAction
<1>4. CASE sweep[s].pc = "announce" /\ w = Move(sweep[s], TRUE)
  BY <1>1, <1>2, <1>4, MoveShape
<1>5. CASE w = Stay(sweep[s], "record", TRUE)
  <2>1. SameTicket(sweep[s], w) /\ w.pc = "record"
    BY <1>1, <1>3, <1>5, StayShape
  <2> QED  BY <1>2, <2>1
<1> QED  BY <1>2, <1>4, <1>5

LEMMA ApplyShape ==
  ASSUME Base, NEW s \in Sweepers, Apply(s)
  PROVE  \E w : /\ Goto(s, w) /\ SameTicket(sweep[s], w)
                /\ w.pc \in {"act", "announceLegacy", "record"}
<1>1. Stage(sweep[s]) /\ sweep[s].pc \in InAction
  BY SweepShape DEF Apply, InAction
<1>2. PICK w : Goto(s, w) /\ w = Move(sweep[s], sweep[s].announced)
  BY DEF Apply
<1> QED  BY <1>1, <1>2, MoveShape

LEMMA RecordShape ==
  ASSUME Base, NEW s \in Sweepers, Record(s)
  PROVE  \E w : /\ Goto(s, w) /\ SameTicket(sweep[s], w)
                /\ \/ w.pc = "insert"
                   \/ w.pc = "refresh" /\ log[w.rule][w.ticket] # NoRow
<1>1. Stage(sweep[s]) /\ sweep[s].pc \in OnTicket
  BY SweepShape DEF Record, OnTicket
<1> DEFINE old == log[sweep[s].rule][sweep[s].ticket]
<1>2. PICK pc \in {"insert", "refresh"} :
        (pc = "refresh" => old # NoRow) /\ Goto(s, Stay(sweep[s], pc, sweep[s].announced))
  BY DEF Record
<1>3. pc \in OnTicket /\ pc \notin InAction
  BY DEF OnTicket, InAction
<1>4. PICK w : w = Stay(sweep[s], pc, sweep[s].announced) /\ Goto(s, w)
  BY <1>2
<1>5. SameTicket(sweep[s], w) /\ w.pc = pc
  BY <1>1, <1>3, <1>4, StayShape
<1>6. w.rule = sweep[s].rule /\ w.ticket = sweep[s].ticket
  BY <1>5 DEF SameTicket, SameRule
<1> QED  BY <1>2, <1>4, <1>5, <1>6

LEMMA ConflictShape ==
  ASSUME Base, NEW s \in Sweepers, sweep[s].pc = "insert",
         Goto(s, Stay(sweep[s], "refresh", sweep[s].announced))
  PROVE  \E w : Goto(s, w) /\ SameTicket(sweep[s], w) /\ w.pc = "refresh"
<1>1. Stage(sweep[s]) /\ sweep[s].pc \in OnTicket
  BY SweepShape DEF OnTicket
<1>2. "refresh" \in OnTicket /\ "refresh" \notin InAction
  BY DEF OnTicket, InAction
<1>3. PICK w : w = Stay(sweep[s], "refresh", sweep[s].announced) /\ Goto(s, w)
  OBVIOUS
<1> QED  BY <1>1, <1>2, <1>3, StayShape

LEMMA NewStatus ==
  ASSUME NEW tk \in Ticket
  PROVE  /\ \A v \in Statuses : [tk EXCEPT !.status = v] \in Ticket
         /\ \A v \in Priorities : [tk EXCEPT !.priority = v] \in Ticket
         /\ \A v \in BOOLEAN : [tk EXCEPT !.assigned = v] \in Ticket
         /\ [tk EXCEPT !.merged = TRUE] \in Ticket
BY DEF Ticket

LEMMA WriteType ==
  ASSUME Base, NEW t \in Tickets, NEW tk \in Ticket, Write(t, tk)
  PROVE  ticket' \in [Tickets -> Ticket] /\ entered' \in [Tickets -> Nat]
BY DEF Base, TypeOK, Write

\* The steps on a ticket: what they write has its types, and a pair is recorded
\* before its row is written.
LEMMA OnTicketBase ==
  ASSUME Base, NEW s \in Sweepers, NEW w, Goto(s, w), SameTicket(sweep[s], w),
         w.pc \in {"insert", "refresh"} => <<sweep[s].rule, sweep[s].ticket>> \in acted',
         ticket' \in [Tickets -> Ticket],
         acted \subseteq acted', acted' \subseteq Rules \X Tickets,
         entered' \in [Tickets -> Nat], escalations' \in [Tickets -> Nat],
         UNCHANGED <<rule, log, now, deleting, lastAct, again, overlapped>>, faults' \in Nat
  PROVE  Base'
<1>1. /\ Stage(w) /\ w.rule = sweep[s].rule /\ w.ticket = sweep[s].ticket
      /\ w.pc # "rearm"
  BY DEF SameTicket, SameRule, OnTicket, InAction
<1>2. /\ rule \in [Rules -> Bodies \cup {NoRule, Removed}]
      /\ log \in [Rules -> [Tickets -> RowType]]
      /\ now \in 1 .. MaxTime
      /\ deleting \subseteq {r \in Rules : rule[r] = Removed}
      /\ lastAct \in [Rules -> [Tickets -> Nat]]
      /\ again \in Nat /\ overlapped \in BOOLEAN
  BY DEF Base, TypeOK, RowType
<1>3. \A r \in Rules, t \in Tickets : log'[r][t] # NoRow => <<r, t>> \in acted'
  BY DEF Base, Recorded, FiredMeansActed
<1> QED  BY <1>1, <1>2, <1>3, BaseStep

LEMMA ActingBase ==
  ASSUME Base, NEW s \in Sweepers,
         Escalate(s) \/ WriteEscalated(s) \/ Announce(s) \/ Apply(s) \/ Record(s)
  PROVE  Base'
<1>0. /\ ticket \in [Tickets -> Ticket] /\ acted \subseteq Rules \X Tickets
      /\ entered \in [Tickets -> Nat] /\ escalations \in [Tickets -> Nat] /\ faults \in Nat
  BY DEF Base, TypeOK, Shape
<1>1. PICK r \in Rules, t \in Tickets : r = sweep[s].rule /\ t = sweep[s].ticket
  <2>1. sweep[s].pc \in OnTicket /\ sweep[s].pc # "idle"
    BY DEF Escalate, WriteEscalated, Announce, Apply, Record, OnTicket, InAction
  <2> QED  BY <2>1, SweepShape, OnTicketShape
<1>2. CASE Escalate(s)
  <2>1. PICK w : /\ Goto(s, w) /\ SameTicket(sweep[s], w)
                 /\ w.pc \in {"act", "announceLegacy", "record", "escalate"}
    BY <1>2, EscalateShape
  <2>2. UNCHANGED <<rule, ticket, log, now, deleting, lastAct, again, acted, entered,
                    escalations, overlapped, faults>>
    BY <1>2 DEF Escalate, tables, hist
  <2> QED  BY <1>0, <2>1, <2>2, OnTicketBase
<1>3. CASE WriteEscalated(s)
  <2>1. PICK w : Goto(s, w) /\ SameTicket(sweep[s], w) /\ w.pc = "announce"
    BY <1>3, WriteEscalatedShape
  <2>2. Write(t, [ticket[t] EXCEPT !.status = "escalated"])
    BY <1>1, <1>3 DEF WriteEscalated
  <2>3. [ticket[t] EXCEPT !.status = "escalated"] \in Ticket
    BY <1>0, NewStatus DEF Statuses
  <2>4. ticket' \in [Tickets -> Ticket] /\ entered' \in [Tickets -> Nat]
    BY <2>2, <2>3, WriteType
  <2>5. UNCHANGED <<rule, log, now, deleting, lastAct, again, acted, escalations, overlapped,
                    faults>>
    BY <1>3 DEF WriteEscalated
  <2> QED  BY <1>0, <2>1, <2>4, <2>5, OnTicketBase
<1>4. CASE Announce(s)
  <2>1. PICK w : /\ Goto(s, w) /\ SameTicket(sweep[s], w)
                 /\ w.pc \in {"act", "announceLegacy", "record"}
    BY <1>4, AnnounceShape
  <2>2. escalations' \in [Tickets -> Nat]
    <3>1. \/ escalations' = [escalations EXCEPT ![t] = escalations[t] + 1]
          \/ escalations' = escalations
      BY <1>1, <1>4 DEF Announce
    <3> QED  BY <1>0, <3>1
  <2>3. UNCHANGED <<rule, ticket, log, now, deleting, lastAct, again, acted, entered, overlapped,
                    faults>>
    BY <1>4 DEF Announce, tables
  <2> QED  BY <1>0, <2>1, <2>2, <2>3, OnTicketBase
<1>5. CASE Apply(s)
  <2>1. PICK w : /\ Goto(s, w) /\ SameTicket(sweep[s], w)
                 /\ w.pc \in {"act", "announceLegacy", "record"}
    BY <1>5, ApplyShape
  <2>2. ticket' \in [Tickets -> Ticket]
    <3>1. sweep[s].actions \in Seq(Action) /\ sweep[s].actions # <<>>
      BY <1>5, SweepShape DEF Apply, Stage, InAction, OnTicket
    <3>2. Head(sweep[s].actions) \in Action
      BY <3>1
    <3>3. \A a \in Action : a.type = "change_priority" => a.value \in Priorities
      BY DEF Action
    <3>4. PICK tk \in Ticket : ticket' = [ticket EXCEPT ![t] = tk]
      BY <1>0, <1>1, <1>5, <3>2, <3>3, NewStatus DEF Apply
    <3> QED  BY <1>0, <3>4
  <2>3. UNCHANGED <<rule, log, now, deleting, lastAct, again, acted, entered, escalations,
                    overlapped, faults>>
    BY <1>5 DEF Apply, hist
  <2> QED  BY <1>0, <2>1, <2>2, <2>3, OnTicketBase
<1>6. CASE Record(s)
  <2>1. PICK w : Goto(s, w) /\ SameTicket(sweep[s], w)
    BY <1>6, RecordShape
  <2>2. acted' = acted \cup {<<r, t>>}
    BY <1>1, <1>6 DEF Record
  <2>3. acted' \subseteq Rules \X Tickets
    BY <1>0, <2>2
  <2>4. UNCHANGED <<rule, ticket, log, now, deleting, lastAct, again, entered, escalations,
                    overlapped, faults>>
    BY <1>6 DEF Record, tables
  <2> QED  BY <1>0, <1>1, <2>1, <2>2, <2>3, <2>4, OnTicketBase
<1> QED  BY <1>2, <1>3, <1>4, <1>5, <1>6

\* There is an id no sweep holds: each holds one at most for the ticket.
LEMMA FreshIdType ==
  ASSUME Base, NEW r \in Rules, NEW t \in Tickets
  PROVE  FreshId(r, t) \in Nat \ {0}
<1> DEFINE n == Cardinality(Sweepers) + 1
           held == [i \in 1 .. n |-> CHOOSE q \in Sweepers :
                      /\ sweep[q].pc = "rearm" /\ sweep[q].rule = r
                      /\ <<t, i>> \in sweep[q].stale]
<1>1. Cardinality(Sweepers) \in Nat
  BY SweepersAssumption, FS_CardinalityType
<1>2. \E i \in 1 .. n : ~IdHeld(r, t, i)
  <2> SUFFICES ASSUME \A i \in 1 .. n : IdHeld(r, t, i) PROVE FALSE
    OBVIOUS
  <2>1. \A i \in 1 .. n : /\ held[i] \in Sweepers
                          /\ sweep[held[i]].pc = "rearm"
                          /\ <<t, i>> \in sweep[held[i]].stale
    BY DEF IdHeld
  <2>2. held \in [1 .. n -> Sweepers]
    BY <2>1
  <2>3. IsFiniteSet(1 .. n) /\ Cardinality(1 .. n) = n
    <3>1. n \in Int /\ 1 \in Int /\ ~(1 > n) /\ n - 1 + 1 = n
      BY <1>1
    <3> HIDE DEF n
    <3> QED  BY <3>1, FS_Interval
  <2>4. Cardinality(Sweepers) < Cardinality(1 .. n)
    BY <1>1, <2>3
  <2> HIDE DEF held, n
  <2>5. PICK x \in 1 .. n, y \in 1 .. n : x # y /\ held[x] = held[y]
    BY <2>2, <2>3, <2>4, SweepersAssumption, FS_PigeonHole
  <2>6. <<t, x>> = <<t, y>>
    BY <2>1, <2>5 DEF Base, NamedOnce
  <2> QED  BY <2>5, <2>6
<1>3. FreshId(r, t) = CHOOSE i \in 1 .. n : ~IdHeld(r, t, i)
  BY DEF FreshId
<1>4. FreshId(r, t) \in 1 .. n
  <2> HIDE DEF n
  <2> QED  BY <1>2, <1>3
<1> QED  BY <1>1, <1>4

LEMMA FiredType ==
  ASSUME Base, NEW r \in Rules, NEW t \in Tickets, NEW id \in Nat \ {0}, NEW at \in 1 .. MaxTime,
         Fired(r, t, id, at)
  PROVE  /\ log' \in [Rules -> [Tickets -> RowType]]
         /\ log'[r][t] = [id |-> id, firedAt |-> at]
         /\ \A q \in Rules, u \in Tickets : <<q, u>> # <<r, t>> => log'[q][u] = log[q][u]
<1>1. log \in [Rules -> [Tickets -> RowType]]
  BY DEF Base, TypeOK, RowType
<1>2. PICK v \in RowType : v = [id |-> id, firedAt |-> at]
  BY DEF RowType
<1>3. log' = [log EXCEPT ![r] = [log[r] EXCEPT ![t] = v]]
  BY <1>2 DEF Fired
<1>4. log[r] \in [Tickets -> RowType]
  BY <1>1
<1>5. PICK f \in [Tickets -> RowType] : f = [log[r] EXCEPT ![t] = v]
  BY <1>4
<1>6. log' = [log EXCEPT ![r] = f]
  BY <1>3, <1>5
<1>7. f[t] = v /\ \A u \in Tickets : u # t => f[u] = log[r][u]
  BY <1>4, <1>5
<1> QED  BY <1>1, <1>2, <1>6, <1>7

\* The sweep at the end of a ticket: its pair and time have their types.
LEMMA PairShape ==
  ASSUME Base, NEW s \in Sweepers, sweep[s].pc \in OnTicket
  PROVE  /\ sweep[s].rule \in Rules /\ sweep[s].ticket \in Tickets \ sweep[s].todo
         /\ sweep[s].at \in 1 .. MaxTime /\ sweep[s].at \in Nat \ {0}
<1>1. Stage(sweep[s])
  BY SweepShape DEF OnTicket, InAction
<1>2. sweep[s].rule \in Rules /\ sweep[s].ticket \in Tickets \ sweep[s].todo
  BY <1>1, OnTicketShape
<1>3. sweep[s].at \in 1 .. MaxTime
  BY <1>1 DEF Stage
<1> QED  BY <1>2, <1>3, BoundsAssumption

LEMMA InsertBase ==
  ASSUME Base, NEW s \in Sweepers, Insert(s)
  PROVE  Base'
<1> DEFINE sw == sweep[s]
<1>1. PICK r \in Rules, t \in Tickets : r = sw.rule /\ t = sw.ticket
  BY PairShape DEF Insert, OnTicket
<1>2. sw.at \in 1 .. MaxTime /\ <<r, t>> \in acted
  BY <1>1, PairShape DEF Insert, OnTicket, Base, Recorded
<1>3. CASE Fired(r, t, FreshId(r, t), sw.at) /\ Goto(s, NextTicket(sw, sw.todo))
  <2>1. PICK w : w = NextTicket(sw, sw.todo) /\ Goto(s, w)
    BY <1>3
  <2>2. (w = Idle \/ Stage(w)) /\ w.pc \in {"idle", "candidates", "ticket"}
    BY <2>1, LeaveShape DEF Insert, OnTicket
  <2>3. PICK id \in Nat \ {0} : id = FreshId(r, t)
    BY FreshIdType
  <2>4. Fired(r, t, id, sw.at)
    BY <1>3, <2>3
  <2>5. /\ log' \in [Rules -> [Tickets -> RowType]]
        /\ \A q \in Rules, u \in Tickets : <<q, u>> # <<r, t>> => log'[q][u] = log[q][u]
    BY <1>2, <2>4, FiredType
  <2>6. \A q \in Rules, u \in Tickets : log'[q][u] # NoRow => <<q, u>> \in acted
    BY <1>2, <2>5 DEF Base, Recorded, FiredMeansActed
  <2> QED  BY <2>1, <2>2, <2>5, <2>6, BaseLog DEF Insert
<1>4. CASE Goto(s, Stay(sw, "refresh", sw.announced)) /\ UNCHANGED log
  <2>1. PICK w : Goto(s, w) /\ SameTicket(sw, w) /\ w.pc = "refresh"
    BY <1>4, ConflictShape DEF Insert
  <2>2. UNCHANGED <<rule, ticket, log, now, deleting, lastAct, again, acted, entered,
                    escalations, overlapped, faults>>
    BY <1>4 DEF Insert, hist
  <2>3. /\ ticket \in [Tickets -> Ticket] /\ acted \subseteq Rules \X Tickets
        /\ entered \in [Tickets -> Nat] /\ escalations \in [Tickets -> Nat] /\ faults \in Nat
    BY DEF Base, TypeOK, Shape
  <2> QED  BY <1>1, <1>2, <2>1, <2>2, <2>3, OnTicketBase
<1> QED  BY <1>1, <1>3, <1>4 DEF Insert

LEMMA RefreshShape ==
  ASSUME Base, NEW s \in Sweepers, NEW r \in Rules, NEW t \in Tickets,
         r = sweep[s].rule, t = sweep[s].ticket, Refresh(s), log[r][t] # NoRow
  PROVE  \E id \in Nat \ {0} : Fired(r, t, id, sweep[s].at)
<1>1. log[r][t] \in RowType
  BY DEF Base, TypeOK, RowType
<1>2. log[r][t].id \in Nat \ {0}
  BY <1>1 DEF RowType
<1> QED  BY <1>2 DEF Refresh

LEMMA RefreshBase ==
  ASSUME Base, NEW s \in Sweepers, Refresh(s)
  PROVE  Base'
<1> DEFINE sw == sweep[s]
<1>1. PICK r \in Rules, t \in Tickets : r = sw.rule /\ t = sw.ticket
  BY PairShape DEF Refresh, OnTicket
<1>2. sw.at \in 1 .. MaxTime /\ <<r, t>> \in acted
  BY <1>1, PairShape DEF Refresh, OnTicket, Base, Recorded
<1>3. PICK w : w = NextTicket(sw, sw.todo) /\ Goto(s, w)
  BY DEF Refresh
<1>4. (w = Idle \/ Stage(w)) /\ w.pc \in {"idle", "candidates", "ticket"}
  BY <1>3, LeaveShape DEF Refresh, OnTicket
<1>5. /\ log' \in [Rules -> [Tickets -> RowType]]
      /\ \A q \in Rules, u \in Tickets : <<q, u>> # <<r, t>> => log'[q][u] = log[q][u]
  <2>1. CASE log[r][t] = NoRow
    <3>1. log' = log
      BY <1>1, <2>1 DEF Refresh
    <3> QED  BY <3>1 DEF Base, TypeOK, RowType
  <2>2. CASE log[r][t] # NoRow
    BY <1>1, <1>2, <2>2, RefreshShape, FiredType
  <2> QED  BY <2>1, <2>2
<1>6. \A q \in Rules, u \in Tickets : log'[q][u] # NoRow => <<q, u>> \in acted
  BY <1>2, <1>5 DEF Base, Recorded, FiredMeansActed
<1> QED  BY <1>3, <1>4, <1>5, <1>6, BaseLog DEF Refresh

\* A failed statement: the rule is left, the action, or the ticket.
LEMMA FailShape ==
  ASSUME Base, NEW s \in Sweepers, Fail(s)
  PROVE  /\ Stage(sweep[s])
         /\ \E w : /\ Goto(s, w)
                   /\ \/ PastRule(sweep[s], w)
                      \/ /\ sweep[s].pc \in OnTicket /\ SameTicket(sweep[s], w)
                         /\ w.pc \in {"act", "announceLegacy", "record"}
                      \/ /\ sweep[s].pc \in OnTicket
                         /\ Stage(w) /\ w.pc = "ticket" /\ w.todo = sweep[s].todo
                         /\ SameRule(sweep[s], w)
<1> DEFINE sw == sweep[s]
<1>1. Stage(sw) /\ Core(sw) /\ sw.pc # "ticket"
  BY SweepShape DEF Fail
<1>2. PICK w : w = AfterError(sw) /\ Goto(s, w)
  BY DEF Fail
<1>3. CASE sw.pc \in {"candidates", "due", "rearm"}
  <2>1. w = SkipRule(sw)
    BY <1>2, <1>3 DEF AfterError, InAction
  <2> QED  BY <1>1, <1>2, <2>1, SkipRuleShape
<1>4. CASE sw.pc \in InAction
  <2>1. PICK said : w = Move(sw, said)
    BY <1>2, <1>4 DEF AfterError, InAction
  <2>2. sw.pc \in OnTicket
    BY <1>4 DEF OnTicket
  <2> QED  BY <1>1, <1>2, <1>4, <2>1, <2>2, MoveShape
<1>5. CASE sw.pc \notin {"candidates", "due", "rearm"} \cup InAction
  <2>1. sw.pc \in OnTicket
    BY <1>1, <1>5 DEF Stage
  <2>2. w = NextTicket(sw, sw.todo)
    BY <1>2, <1>5 DEF AfterError
  <2> QED  BY <1>1, <1>2, <2>1, <2>2, LeaveShape
<1> QED  BY <1>3, <1>4, <1>5

LEMMA FaultBase ==
  ASSUME Base, NEW s \in Sweepers, Fail(s) \/ Crash(s)
  PROVE  Base'
<1>1. /\ UNCHANGED <<tables, deleting, lastAct, again, acted, entered, escalations>>
      /\ overlapped' \in BOOLEAN /\ faults' \in Nat
  BY DEF Fail, Crash, hist, Base, TypeOK, Shape
<1>2. CASE Fail(s)
  <2>1. PICK w : Goto(s, w) /\ (w = Idle \/ (Stage(w) /\ w.pc \in {"candidates", "act",
                                             "announceLegacy", "record", "ticket"}))
    BY <1>2, FailShape DEF PastRule, SameTicket
  <2>2. w.pc \notin {"rearm", "insert", "refresh"}
    BY <2>1 DEF Idle
  <2> QED  BY <1>1, <2>1, <2>2, BaseGoto
<1>3. CASE Crash(s)
  <2>1. PICK w : w = Idle /\ Goto(s, w)
    BY <1>3 DEF Crash
  <2>2. w.pc \notin {"rearm", "insert", "refresh"}
    BY <2>1 DEF Idle
  <2> QED  BY <1>1, <2>1, <2>2, BaseGoto
<1> QED  BY <1>2, <1>3

-----------------------------------------------------------------------------
(* Admins, agents, time: the sweeps stand still *)

LEMMA BaseStill ==
  ASSUME Base, UNCHANGED <<sweep, acted, lastAct, again, escalations, overlapped, faults>>,
         rule' \in [Rules -> Bodies \cup {NoRule, Removed}],
         ticket' \in [Tickets -> Ticket], entered' \in [Tickets -> Nat],
         log' \in [Rules -> [Tickets -> RowType]],
         \A r \in Rules, t \in Tickets : log'[r][t] # NoRow => log[r][t] # NoRow,
         now' \in 1 .. MaxTime,
         deleting' \subseteq {r \in Rules : rule'[r] = Removed}
  PROVE  Base'
<1>1. TypeOK'
  BY DEF Base, TypeOK, RowType
<1>2. Shape' /\ NamedOnce'
  BY DEF Base, Shape, NamedOnce
<1>3. Recorded'
  BY DEF Base, Recorded, FiredMeansActed
<1> QED  BY <1>1, <1>2, <1>3 DEF Base

LEMMA NotRemoved ==
  ASSUME NEW b \in Bodies
  PROVE  b # Removed
<1>1. b \in Body
  BY BodiesAssumption
<1>2. "was" \notin DOMAIN b /\ "was" \in DOMAIN Removed
  BY <1>1 DEF Body, Removed
<1> QED  BY <1>2

\* What admins do to the rules table.
LEMMA AdminShape ==
  ASSUME Base, NEW r \in Rules
  PROVE  /\ SaveRule(r) => \E b \in Bodies : rule' = [rule EXCEPT ![r] = b] /\ rule[r] # Removed
         /\ RemoveRule(r) => rule' = [rule EXCEPT ![r] = Removed] /\ rule[r] # Removed
         /\ Forget(r) => rule[r] = Removed
BY DEF SaveRule, RemoveRule, Forget, Base, TypeOK

LEMMA AdminBase ==
  ASSUME Base, NEW r \in Rules, SaveRule(r) \/ RemoveRule(r) \/ Forget(r)
  PROVE  Base'
<1>0. /\ rule \in [Rules -> Bodies \cup {NoRule, Removed}]
      /\ ticket \in [Tickets -> Ticket] /\ entered \in [Tickets -> Nat]
      /\ log \in [Rules -> [Tickets -> RowType]]
      /\ now \in 1 .. MaxTime
      /\ deleting \subseteq {q \in Rules : rule[q] = Removed}
  BY DEF Base, TypeOK, RowType
<1>1. UNCHANGED <<sweep, acted, lastAct, again, escalations, overlapped, faults, ticket, entered,
                  now>>
  BY DEF SaveRule, RemoveRule, Forget, hist
<1>2. CASE SaveRule(r)
  <2>1. PICK b \in Bodies : rule' = [rule EXCEPT ![r] = b] /\ rule[r] # Removed
    BY <1>2, AdminShape
  <2>2. UNCHANGED <<log, deleting>>
    BY <1>2 DEF SaveRule
  <2>3. deleting' \subseteq {q \in Rules : rule'[q] = Removed}
    BY <1>0, <2>1, <2>2
  <2> QED  BY <1>0, <1>1, <2>1, <2>2, <2>3, BaseStill
<1>3. CASE RemoveRule(r)
  <2>1. /\ rule' = [rule EXCEPT ![r] = Removed] /\ log' = log
        /\ deleting' = deleting \cup {r}
    BY <1>3 DEF RemoveRule
  <2>2. deleting' \subseteq {q \in Rules : rule'[q] = Removed}
    BY <1>0, <2>1
  <2>3. rule' \in [Rules -> Bodies \cup {NoRule, Removed}]
    BY <1>0, <2>1
  <2> QED  BY <1>0, <1>1, <2>1, <2>2, <2>3, BaseStill
<1>4. CASE Forget(r)
  <2>1. /\ rule' = rule /\ deleting' = deleting \ {r}
        /\ log' = [log EXCEPT ![r] = [t \in Tickets |-> NoRow]]
    BY <1>4 DEF Forget
  <2>2. /\ log' \in [Rules -> [Tickets -> RowType]]
        /\ \A q \in Rules, t \in Tickets : log'[q][t] # NoRow => log[q][t] # NoRow
    BY <1>0, <2>1 DEF RowType
  <2> QED  BY <1>0, <1>1, <2>1, <2>2, BaseStill
<1> QED  BY <1>2, <1>3, <1>4

LEMMA EditShape ==
  ASSUME Base, NEW t \in Tickets, Edit(t)
  PROVE  \E tk \in Ticket : Write(t, tk)
<1>1. ticket[t] \in Ticket
  BY DEF Base, TypeOK
<1>2. TRUE \in BOOLEAN
  OBVIOUS
<1> QED  BY <1>1, <1>2, NewStatus DEF Edit

LEMMA EditBase ==
  ASSUME Base, NEW t \in Tickets, Edit(t)
  PROVE  Base'
<1>0. /\ rule \in [Rules -> Bodies \cup {NoRule, Removed}]
      /\ log \in [Rules -> [Tickets -> RowType]]
      /\ now \in 1 .. MaxTime
      /\ deleting \subseteq {q \in Rules : rule[q] = Removed}
  BY DEF Base, TypeOK, RowType
<1>1. ticket' \in [Tickets -> Ticket] /\ entered' \in [Tickets -> Nat]
  BY EditShape, WriteType
<1>2. UNCHANGED <<sweep, acted, lastAct, again, escalations, overlapped, faults, rule, log, now,
                  deleting>>
  BY DEF Edit
<1> QED  BY <1>0, <1>1, <1>2, BaseStill

LEMMA StillBase ==
  ASSUME Base, Tick \/ UNCHANGED vars
  PROVE  Base'
<1>0. /\ rule \in [Rules -> Bodies \cup {NoRule, Removed}]
      /\ ticket \in [Tickets -> Ticket] /\ entered \in [Tickets -> Nat]
      /\ log \in [Rules -> [Tickets -> RowType]]
      /\ now \in 1 .. MaxTime
      /\ deleting \subseteq {q \in Rules : rule[q] = Removed}
  BY DEF Base, TypeOK, RowType
<1>1. now' \in 1 .. MaxTime
  BY <1>0, BoundsAssumption DEF Tick, vars
<1>2. UNCHANGED <<sweep, acted, lastAct, again, escalations, overlapped, faults, rule, log, ticket,
                  entered, deleting>>
  BY DEF Tick, vars, hist
<1> QED  BY <1>0, <1>1, <1>2, BaseStill

LEMMA InitBase == Init => Base
<1> SUFFICES ASSUME Init PROVE Base
  OBVIOUS
<1>1. \A s \in Sweepers : sweep[s] = Idle /\ Idle.pc = "idle"
  BY DEF Init, Idle
<1>2. TypeOK
  <2>1. NewTicket \in Ticket
    BY DEF NewTicket, Ticket, Statuses, Priorities
  <2>2. now \in 1 .. MaxTime
    BY BoundsAssumption DEF Init
  <2> QED  BY <1>1, <2>1, <2>2 DEF Init, TypeOK
<1>3. Shape
  BY DEF Init, Shape
<1>4. NamedOnce
  BY <1>1 DEF NamedOnce
<1>5. Recorded
  BY <1>1 DEF Init, Recorded, FiredMeansActed
<1> QED  BY <1>2, <1>3, <1>4, <1>5 DEF Base

LEMMA StepBase == Base /\ [Next]_vars => Base'
<1> SUFFICES ASSUME Base, [Next]_vars PROVE Base'
  OBVIOUS
<1>1. ASSUME NEW s \in Sweepers, SweepStep(s) PROVE Base'
  BY ONLY <1>1, Base, StartBase, CandidatesBase, DueBase, RearmBase, BeginBase, ActingBase,
          InsertBase, RefreshBase DEF SweepStep
<1> QED
  BY <1>1, FaultBase, AdminBase, EditBase, StillBase DEF Next

\* The tables, the sweeps and the histories keep their types.
THEOREM TypeInvariant == Spec => []TypeOK
<1>1. Base => TypeOK
  BY DEF Base
<1> QED  BY <1>1, InitBase, StepBase, PTL DEF Spec

\* processEscalations, for any number of sweeps, overlapping or not, crashes and failed
\* statements: an execution row is never there before its rule acted on the ticket.
THEOREM NeverSwallowed == Spec => []FiredMeansActed
<1>1. Base => FiredMeansActed
  BY DEF Base, Recorded
<1> QED  BY <1>1, InitBase, StepBase, PTL DEF Spec

-----------------------------------------------------------------------------
(* One sweep at a time: counting the repetitions *)

LEMMA Finite ==
  /\ IsFiniteSet(Debts) /\ Cardinality(Debts) \in Nat
  /\ IsFiniteSet(Debts') /\ Cardinality(Debts') \in Nat
  /\ IsFiniteSet(Gone \X Tickets) /\ Cardinality(Gone \X Tickets) \in Nat
  /\ \A r \in Rules : IsFiniteSet({r} \X Tickets) /\ Cardinality({r} \X Tickets) \in Nat
<1>1. IsFiniteSet(Rules \X Tickets)
  BY RulesAssumption, TicketsAssumption, FS_Product
<1>2. /\ Debts \in SUBSET (Rules \X Tickets) /\ Debts' \in SUBSET (Rules \X Tickets)
      /\ Gone \X Tickets \in SUBSET (Rules \X Tickets)
      /\ \A r \in Rules : {r} \X Tickets \in SUBSET (Rules \X Tickets)
  BY DEF Debts, Gone
<1> QED  BY <1>1, <1>2, FS_Subset, FS_CardinalityType

LEMMA RepeatsLess ==
  ASSUME Base, Repeats, Debts' \subseteq Debts, again' = again, UNCHANGED rule,
         faults' \in Nat, faults <= faults'
  PROVE  Repeats'
<1>1. Cardinality(Debts') <= Cardinality(Debts)
  <2>1. Debts' \in SUBSET Debts
    OBVIOUS
  <2> QED  BY <2>1, Finite, FS_Subset
<1>2. Gone' = Gone
  BY DEF Gone
<1>3. again \in Nat /\ faults \in Nat
  BY DEF Base, TypeOK, Shape
<1> QED  BY <1>1, <1>2, <1>3, Finite DEF Repeats

LEMMA RepeatsFault ==
  ASSUME Base, Repeats, NEW p, Debts' \subseteq Debts \cup {p}, again' = again, UNCHANGED rule,
         faults' = faults + 1
  PROVE  Repeats'
<1>1. Cardinality(Debts') <= Cardinality(Debts) + 1
  <2>1. Debts' \in SUBSET (Debts \cup {p})
    OBVIOUS
  <2>2. /\ IsFiniteSet(Debts \cup {p}) /\ Cardinality(Debts \cup {p}) \in Nat
        /\ Cardinality(Debts \cup {p}) <= Cardinality(Debts) + 1
    <3>1. /\ IsFiniteSet(Debts) /\ Cardinality(Debts) \in Nat
      BY Finite
    <3>2. /\ IsFiniteSet(Debts \cup {p})
          /\ Cardinality(Debts \cup {p}) =
               IF p \in Debts THEN Cardinality(Debts) ELSE Cardinality(Debts) + 1
      BY <3>1, FS_AddElement
    <3> QED  BY <3>1, <3>2
  <2>3. Cardinality(Debts') <= Cardinality(Debts \cup {p})
    BY <2>1, <2>2, FS_Subset
  <2> QED  BY <2>2, <2>3, Finite
<1>2. Gone' = Gone
  BY DEF Gone
<1>3. again \in Nat /\ faults \in Nat
  BY DEF Base, TypeOK, Shape
<1> QED  BY <1>1, <1>2, <1>3, Finite DEF Repeats

LEMMA RepeatsPaid ==
  ASSUME Base, Repeats, NEW p \in Debts, Debts' \subseteq Debts \ {p}, again' = again + 1,
         UNCHANGED <<rule, faults>>
  PROVE  Repeats'
<1>1. Cardinality(Debts') <= Cardinality(Debts) - 1
  <2>1. Debts' \in SUBSET (Debts \ {p})
    OBVIOUS
  <2>2. /\ IsFiniteSet(Debts \ {p})
        /\ Cardinality(Debts \ {p}) = Cardinality(Debts) - 1
    BY Finite, FS_RemoveElement
  <2> QED  BY <2>1, <2>2, FS_Subset
<1>2. Gone' = Gone
  BY DEF Gone
<1>3. again \in Nat /\ faults \in Nat
  BY DEF Base, TypeOK, Shape
<1> QED  BY <1>1, <1>2, <1>3, Finite DEF Repeats

LEMMA RepeatsRemoved ==
  ASSUME Base, Repeats, NEW r \in Rules, r \notin Gone, Gone' = Gone \cup {r},
         Debts' \subseteq Debts \cup ({r} \X Tickets), UNCHANGED <<again, faults>>
  PROVE  Repeats'
<1> DEFINE old == Gone \X Tickets
           new == {r} \X Tickets
<1>1. Cardinality(Gone' \X Tickets) = Cardinality(old) + Cardinality(new)
  <2>1. Gone' \X Tickets = old \cup new /\ old \cap new = {}
    OBVIOUS
  <2>2. /\ IsFiniteSet(old) /\ IsFiniteSet(new)
        /\ Cardinality(old) \in Nat /\ Cardinality(new) \in Nat
    BY Finite
  <2> HIDE DEF old, new
  <2>3. Cardinality(old \cup new) = Cardinality(old) + Cardinality(new) - Cardinality(old \cap new)
    BY <2>2, FS_Union
  <2>4. Cardinality(old \cap new) = 0
    BY <2>1, FS_EmptySet
  <2>5. Cardinality(Gone' \X Tickets) = Cardinality(old \cup new)
    BY <2>1, Zenon
  <2> QED  BY <2>2, <2>3, <2>4, <2>5
<1>2. Cardinality(Debts') <= Cardinality(Debts) + Cardinality(new)
  <2>1. /\ IsFiniteSet(Debts) /\ IsFiniteSet(new)
        /\ Cardinality(Debts) \in Nat /\ Cardinality(new) \in Nat
    BY Finite
  <2>2. Debts' \in SUBSET (Debts \cup new)
    OBVIOUS
  <2> HIDE DEF new
  <2>3. /\ IsFiniteSet(Debts \cup new)
        /\ Cardinality(Debts \cup new)
             = Cardinality(Debts) + Cardinality(new) - Cardinality(Debts \cap new)
    BY <2>1, FS_Union
  <2>4. Cardinality(Debts \cap new) \in Nat
    BY <2>1, FS_Intersection, FS_CardinalityType
  <2>5. Cardinality(Debts') <= Cardinality(Debts \cup new)
    BY <2>2, <2>3, FS_Subset
  <2> QED  BY <2>1, <2>3, <2>4, <2>5, Finite
<1>3. /\ again \in Nat /\ faults \in Nat
      /\ Cardinality(Debts) \in Nat /\ Cardinality(Debts') \in Nat
      /\ Cardinality(old) \in Nat /\ Cardinality(new) \in Nat
  BY Finite DEF Base, TypeOK, Shape
<1>4. again + Cardinality(Debts) <= faults + Cardinality(old)
  BY DEF Repeats
<1>5. again' + Cardinality(Debts') <= faults' + Cardinality(Gone' \X Tickets)
  <2> HIDE DEF old, new
  <2> QED  BY <1>1, <1>2, <1>3, <1>4
<1> QED  BY <1>5 DEF Repeats

-----------------------------------------------------------------------------
(* One sweep at a time: the step of that sweep *)

\* No sweep but s is under way.
Alone(s) == \A q \in Sweepers \ {s} : sweep[q] = Idle

Orderly == Serial /\ Careful /\ Repeats /\ Announced

LEMMA AloneNow ==
  ASSUME Serial, NEW s \in Sweepers, Busy(s)
  PROVE  Alone(s)
BY DEF Serial, Busy, Alone

LEMMA AloneNext ==
  ASSUME Base, NEW s \in Sweepers, NEW w, Goto(s, w), Alone(s)
  PROVE  sweep'[s] = w /\ Alone(s)' /\ Serial'
<1>1. sweep'[s] = w /\ \A q \in Sweepers \ {s} : sweep'[q] = sweep[q]
  BY Sent DEF Base
<1> QED  BY <1>1 DEF Serial, Busy, Alone

LEMMA IdleHas ==
  \A r, t : ~Hand(Idle, r, t) /\ ~May(Idle, r, t) /\ ~Entering(Idle, t)
BY DEF Hand, May, Idle, OnTicket, InAction, Entering

LEMMA OwedAlone ==
  ASSUME NEW s \in Sweepers, Alone(s), NEW r, NEW t
  PROVE  Owed(r, t) <=> IF rule[r] = Removed THEN May(sweep[s], r, t)
                        ELSE Unrecorded(r, t) /\ ~Hand(sweep[s], r, t)
<1>1. \A q \in Sweepers : q # s => ~Hand(sweep[q], r, t) /\ ~May(sweep[q], r, t)
  BY IdleHas DEF Alone
<1> QED  BY <1>1 DEF Owed

LEMMA OwedNext ==
  ASSUME Base, NEW s \in Sweepers, NEW w, Goto(s, w), Alone(s), NEW r, NEW t
  PROVE  Owed(r, t)' <=> IF rule'[r] = Removed THEN May(w, r, t)
                         ELSE Unrecorded(r, t)' /\ ~Hand(w, r, t)
<1>1. sweep'[s] = w /\ \A q \in Sweepers : q # s => sweep'[q] = Idle
  BY AloneNext DEF Alone
<1>2. \A q \in Sweepers : q # s => ~Hand(sweep'[q], r, t) /\ ~May(sweep'[q], r, t)
  BY <1>1, IdleHas
<1> QED  BY <1>1, <1>2 DEF Owed

\* A step that gives no pair a reason to be acted on again.
LEMMA Calm ==
  ASSUME Base, Repeats, NEW s \in Sweepers, NEW w, Goto(s, w), Alone(s),
         \A r \in Rules, t \in Tickets :
           /\ rule[r] = Removed /\ May(w, r, t) => May(sweep[s], r, t)
           /\ rule[r] # Removed /\ Unrecorded(r, t)' =>
                Unrecorded(r, t) /\ (Hand(sweep[s], r, t) => Hand(w, r, t)),
         again' = again, UNCHANGED rule, faults' \in Nat, faults <= faults'
  PROVE  Repeats'
<1>1. \A r \in Rules, t \in Tickets : Owed(r, t)' => Owed(r, t)
  BY OwedAlone, OwedNext
<1>2. Debts' \subseteq Debts
  BY <1>1 DEF Debts
<1> QED  BY <1>2, RepeatsLess

LEMMA CarefulNext ==
  ASSUME Base, NEW s \in Sweepers, NEW w, Goto(s, w), Alone(s), w # Idle => Kept(w)'
  PROVE  Careful'
<1>1. sweep'[s] = w /\ \A q \in Sweepers : q # s => sweep'[q] = Idle
  BY AloneNext DEF Alone
<1> SUFFICES ASSUME NEW q \in Sweepers, Busy(q)' PROVE Kept(sweep[q])'
  BY DEF Careful
<1>2. q = s
  BY <1>1 DEF Busy
<1>3. w # Idle
  BY <1>1, <1>2 DEF Busy
<1> QED  BY <1>1, <1>2, <1>3 DEF Kept, Overdue, Unrecorded

LEMMA AnnouncedNext ==
  ASSUME Base, NEW s \in Sweepers, NEW w, Goto(s, w), Alone(s),
         \A t \in Tickets : /\ escalations'[t] <= entered'[t]
                            /\ Entering(w, t)' => escalations'[t] < entered'[t]
  PROVE  Announced'
<1>1. sweep'[s] = w /\ \A q \in Sweepers : q # s => sweep'[q] = Idle
  BY AloneNext DEF Alone
<1>2. ASSUME NEW t \in Tickets, NEW q \in Sweepers, Entering(sweep[q], t)'
      PROVE  escalations'[t] < entered'[t]
  <2>1. q = s
    BY <1>1, <1>2 DEF Entering, Idle
  <2>2. Entering(w, t)'
    BY <1>1, <1>2, <2>1 DEF Entering
  <2> QED  BY <2>2
<1> QED  BY <1>2 DEF Announced

\* A step that is nowhere near an announcement.
LEMMA AnnouncedQuiet ==
  ASSUME Base, Announced, NEW s \in Sweepers, NEW w, Goto(s, w), Alone(s),
         UNCHANGED <<escalations, entered>>, w.pc \notin {"escalate", "announce"}
  PROVE  Announced'
<1>1. \A t \in Tickets : /\ escalations'[t] <= entered'[t]
                         /\ Entering(w, t)' => escalations'[t] < entered'[t]
  BY DEF Announced, Entering
<1> QED  BY <1>1, AnnouncedNext

\* Past the rule there is less to do, and nothing was read yet.
LEMMA PastRuleLess ==
  ASSUME NEW sw, Stage(sw), NEW w, PastRule(sw, w)
  PROVE  /\ w = Idle \/ w.pc = "candidates"
         /\ w.pc \in {"idle", "candidates"}
         /\ \A r, t : ~Hand(w, r, t) /\ (May(w, r, t) => May(sw, r, t))
BY StageCore DEF PastRule, Hand, May, OnTicket, InAction, Idle

LEMMA KeptCandidates ==
  ASSUME NEW w, w.pc = "candidates"
  PROVE  Kept(w)'
BY DEF Kept, OnTicket, InAction

\* What is so of a ticket still to be taken stays so.
LEMMA TodoKept ==
  ASSUME NEW sw, NEW w, SameRule(sw, w), NEW u \in Tickets,
         lastAct'[w.rule][u] = lastAct[w.rule][u],
         NEW r, r = w.rule, Unrecorded(r, u) => Unrecorded(r, u)',
         rule[w.rule] = Removed => rule'[w.rule] = Removed,
         Overdue(sw, u) \/ Unrecorded(sw.rule, u) \/ rule[sw.rule] = Removed
  PROVE  Overdue(w, u)' \/ Unrecorded(r, u)' \/ rule'[w.rule] = Removed
BY DEF SameRule, Overdue

LEMMA StartOrderly ==
  ASSUME Base, Orderly, NEW s \in Sweepers, Start(s), ~overlapped'
  PROVE  Orderly'
<1>1. PICK w : /\ Goto(s, w)
               /\ \/ w = Idle
                  \/ /\ Stage(w) /\ w.pc = "candidates"
                     /\ \A r \in DOMAIN w.left : rule[r] # Removed
  BY StartShape
<1>2. \A q \in Sweepers : sweep[q] = Idle
  BY DEF Start
<1>3. Alone(s) /\ sweep[s] = Idle
  BY <1>2 DEF Alone
<1>4. w.pc \in {"idle", "candidates"} /\ (w # Idle => w.pc = "candidates")
  BY <1>1 DEF Idle
<1>5. UNCHANGED <<rule, log, lastAct, again, entered, escalations, faults>>
  BY DEF Start, tables
<1>6. ASSUME NEW r \in Rules, NEW t \in Tickets
      PROVE  /\ rule[r] = Removed => ~May(w, r, t)
             /\ Unrecorded(r, t)' => Unrecorded(r, t)
             /\ ~Hand(sweep[s], r, t)
  BY <1>1, <1>3, <1>5, IdleHas DEF May, Unrecorded
<1>7. faults \in Nat /\ faults <= faults
  BY DEF Base, Shape
<1>8. Repeats'
  BY <1>1, <1>3, <1>5, <1>6, <1>7, Calm DEF Orderly
<1>9. Careful'
  BY <1>1, <1>3, <1>4, KeptCandidates, CarefulNext
<1>10. Announced'
  BY <1>1, <1>3, <1>4, <1>5, AnnouncedQuiet DEF Orderly
<1> QED  BY <1>1, <1>3, <1>8, <1>9, <1>10, AloneNext DEF Orderly

\* What an orderly sweep in hand is known to be.
LEMMA InHand ==
  ASSUME Base, Orderly, NEW s \in Sweepers, sweep[s].pc # "idle"
  PROVE  /\ Alone(s) /\ Stage(sweep[s]) /\ Kept(sweep[s]) /\ sweep[s].rule \in Rules
         /\ Repeats /\ Announced /\ faults \in Nat /\ faults <= faults
<1>1. Busy(s) /\ Stage(sweep[s]) /\ sweep[s].rule \in Rules
  BY SweepShape
<1>2. faults \in Nat
  BY DEF Base, Shape
<1> QED  BY <1>1, <1>2, AloneNow DEF Orderly, Careful

LEMMA CandidatesOrderly ==
  ASSUME Base, Orderly, NEW s \in Sweepers, Candidates(s)
  PROVE  Orderly'
<1>1. PICK w : /\ Goto(s, w)
               /\ Stage(w) /\ w.pc = "due" /\ SameRule(sweep[s], w)
               /\ lastAct' = [lastAct EXCEPT ![w.rule] =
                    [t \in Tickets |-> IF t \in w.matching THEN lastAct[w.rule][t] ELSE 0]]
  BY CandidatesShape
<1>2. /\ Alone(s) /\ Stage(sweep[s]) /\ Kept(sweep[s]) /\ sweep[s].rule \in Rules
      /\ Repeats /\ Announced /\ faults \in Nat /\ faults <= faults
      /\ sweep[s].pc = "candidates"
  BY InHand DEF Candidates
<1>3. UNCHANGED <<rule, log, again, entered, escalations, faults>>
  BY DEF Candidates, tables
<1>4. w.rule \in Rules /\ w.rule = sweep[s].rule /\ w.left = sweep[s].left
  BY <1>1, <1>2 DEF SameRule
<1>5. \A r \in Rules, t \in Tickets :
        lastAct'[r][t] = IF r = w.rule /\ t \notin w.matching THEN 0 ELSE lastAct[r][t]
  BY <1>1, <1>4 DEF Base, TypeOK
<1>6. ASSUME NEW r \in Rules, NEW t \in Tickets
      PROVE  /\ May(w, r, t) => May(sweep[s], r, t)
             /\ Unrecorded(r, t)' => Unrecorded(r, t)
             /\ ~Hand(sweep[s], r, t)
  <2>1. May(w, r, t) => May(sweep[s], r, t)
    BY <1>1, <1>2, <1>4, StageCore DEF May
  <2>2. Unrecorded(r, t)' => Unrecorded(r, t)
    BY <1>3, <1>5 DEF Unrecorded
  <2>3. ~Hand(sweep[s], r, t)
    BY <1>2 DEF Hand, OnTicket, InAction
  <2> QED  BY <2>1, <2>2, <2>3
<1>7. Repeats'
  BY <1>1, <1>2, <1>3, <1>6, Calm
<1>8. Kept(w)'
  BY <1>1, <1>4, <1>5 DEF Kept, OnTicket, InAction
<1>9. Careful'
  BY <1>1, <1>2, <1>8, CarefulNext
<1>10. Announced'
  BY <1>1, <1>2, <1>3, AnnouncedQuiet
<1> QED  BY <1>1, <1>2, <1>7, <1>9, <1>10, AloneNext DEF Orderly

LEMMA DueOrderly ==
  ASSUME Base, Orderly, NEW s \in Sweepers, Due(s)
  PROVE  Orderly'
<1>1. PICK w : /\ Goto(s, w)
               /\ \/ PastRule(sweep[s], w)
                  \/ /\ Stage(w) /\ SameRule(sweep[s], w) /\ w.pc \in {"ticket", "rearm"}
                     /\ \A t \in w.todo :
                          t \in Tickets /\ IsDue(log[w.rule][t], w.left[w.rule], w.at)
                     /\ w.pc = "rearm" =>
                          /\ \A p, q \in w.stale : p[1] = q[1] => p = q
                          /\ \A p \in w.stale : p[1] \in Tickets \ sweep[s].matching
  BY DueShape
<1>2. /\ Alone(s) /\ Stage(sweep[s]) /\ Kept(sweep[s]) /\ sweep[s].rule \in Rules
      /\ Repeats /\ Announced /\ faults \in Nat /\ faults <= faults
      /\ sweep[s].pc = "due"
  BY InHand DEF Due
<1>3. UNCHANGED <<rule, log, lastAct, again, entered, escalations, faults>>
  BY DEF Due, tables, hist
<1>4. \A r, t : /\ ~Hand(sweep[s], r, t)
                /\ Unrecorded(r, t)' => Unrecorded(r, t)
  BY <1>2, <1>3 DEF Hand, OnTicket, InAction, Unrecorded
<1>5. CASE PastRule(sweep[s], w)
  <2>1. /\ w # Idle => w.pc = "candidates"
        /\ w.pc \notin {"escalate", "announce"}
        /\ \A r, t : May(w, r, t) => May(sweep[s], r, t)
    BY <1>2, <1>5, PastRuleLess
  <2>2. Repeats'
    BY <1>1, <1>2, <1>3, <1>4, <2>1, Calm
  <2>3. Careful'
    BY <1>1, <1>2, <2>1, KeptCandidates, CarefulNext
  <2>4. Announced'
    BY <1>1, <1>2, <1>3, <2>1, AnnouncedQuiet
  <2> QED  BY <1>1, <1>2, <2>2, <2>3, <2>4, AloneNext DEF Orderly
<1>6. CASE /\ Stage(w) /\ SameRule(sweep[s], w) /\ w.pc \in {"ticket", "rearm"}
           /\ \A t \in w.todo :
                t \in Tickets /\ IsDue(log[w.rule][t], w.left[w.rule], w.at)
           /\ w.pc = "rearm" => \A p \in w.stale : p[1] \in Tickets \ sweep[s].matching
  <2>1. w.rule = sweep[s].rule /\ w.left = sweep[s].left /\ w.rule \in Rules
    BY <1>2, <1>6 DEF SameRule
  <2>2. \A r, t : May(w, r, t) => May(sweep[s], r, t)
    BY <1>2, <2>1, StageCore DEF May
  <2>3. Repeats'
    BY <1>1, <1>2, <1>3, <1>4, <2>2, Calm
  <2>4. ASSUME NEW t \in w.todo
        PROVE  Overdue(w, t) \/ Unrecorded(w.rule, t)
    <3>1. IsDue(log[w.rule][t], w.left[w.rule], w.at) /\ t \in Tickets
      BY <1>6, <2>4
    <3>2. log[w.rule][t] = NoRow => log[w.rule][t].firedAt = 0
      BY DEF NoRow
    <3> QED  BY <3>1, <3>2 DEF IsDue, Overdue, Unrecorded
  <2>5. \A t \in w.todo : Overdue(w, t)' \/ Unrecorded(w.rule, t)'
    BY <1>3, <2>4 DEF Overdue, Unrecorded
  <2>6. w.pc = "rearm" => \A p \in w.stale : lastAct'[w.rule][p[1]] = 0
    BY <1>2, <1>3, <1>6, <2>1 DEF Kept
  <2>7. w.pc \notin OnTicket /\ w.pc # "due" /\ w.pc # "refresh"
    BY <1>6 DEF OnTicket, InAction
  <2>8. Kept(w)'
    BY <2>5, <2>6, <2>7 DEF Kept
  <2>9. Careful'
    BY <1>1, <1>2, <2>8, CarefulNext
  <2>10. Announced'
    BY <1>1, <1>2, <1>3, <1>6, AnnouncedQuiet
  <2> QED  BY <1>1, <1>2, <2>3, <2>9, <2>10, AloneNext DEF Orderly
<1> QED  BY <1>1, <1>5, <1>6

\* A sweep leaves a ticket, or the executions it has re-armed, for what is next: what
\* it knows of the tickets still to be taken must be as good as before.
LEMMA LeaveOrderly ==
  ASSUME Base, NEW s \in Sweepers, NEW w, Goto(s, w), Alone(s), Stage(sweep[s]),
         NEW r \in Rules, r = sweep[s].rule, Kept(sweep[s]), Repeats, Announced,
         sweep[s].pc \in {"rearm"} \cup OnTicket,
         \/ PastRule(sweep[s], w)
         \/ (Stage(w) /\ w.pc = "ticket" /\ w.todo = sweep[s].todo /\ SameRule(sweep[s], w)),
         \A t \in Tickets : Unrecorded(r, t) /\ t \in sweep[s].todo => Unrecorded(r, t)',
         UNCHANGED <<rule, lastAct, entered, escalations>>
  PROVE  /\ Serial' /\ Careful' /\ Announced'
         /\ \A q \in Rules, t \in Tickets : May(w, q, t) => May(sweep[s], q, t)
<1>0. sweep[s].pc \notin {"idle", "candidates", "due"}
  BY DEF OnTicket, InAction
<1>1. CASE PastRule(sweep[s], w)
  <2>1. /\ w # Idle => w.pc = "candidates"
        /\ w.pc \notin {"escalate", "announce"}
        /\ \A q, t : May(w, q, t) => May(sweep[s], q, t)
    BY <1>1, PastRuleLess
  <2>2. Careful'
    BY <2>1, KeptCandidates, CarefulNext
  <2>3. Announced'
    BY <2>1, AnnouncedQuiet
  <2> QED  BY <2>1, <2>2, <2>3, AloneNext
<1>2. CASE Stage(w) /\ w.pc = "ticket" /\ w.todo = sweep[s].todo /\ SameRule(sweep[s], w)
  <2>1. w.rule = r /\ w.rule = sweep[s].rule /\ w.left = sweep[s].left
    BY <1>2 DEF SameRule
  <2>2. \A q, t : May(w, q, t) => May(sweep[s], q, t)
    BY <1>0, <1>2, <2>1, StageCore DEF May
  <2>3. w.todo \subseteq Tickets
    BY <1>0, <1>2 DEF Stage
  <2>4. ASSUME NEW t \in w.todo
        PROVE  Overdue(w, t)' \/ Unrecorded(r, t)' \/ rule'[w.rule] = Removed
    <3>1. Overdue(sweep[s], t) \/ Unrecorded(sweep[s].rule, t) \/ rule[sweep[s].rule] = Removed
      BY <1>0, <1>2, <2>4 DEF Kept
    <3>2. /\ t \in Tickets /\ SameRule(sweep[s], w)
          /\ lastAct'[w.rule][t] = lastAct[w.rule][t]
          /\ (rule[w.rule] = Removed => rule'[w.rule] = Removed)
      BY <1>2, <2>3, <2>4
    <3>3. Unrecorded(r, t) => Unrecorded(r, t)'
      BY <1>2, <2>4, <3>2
    <3> QED  BY <2>1, <3>1, <3>2, <3>3, TodoKept
  <2>5. w.pc \notin OnTicket /\ w.pc \notin {"due", "rearm", "refresh"}
    BY <1>2 DEF OnTicket, InAction
  <2>6. Kept(w)'
    BY <2>1, <2>4, <2>5 DEF Kept
  <2>7. Careful'
    BY <2>6, CarefulNext
  <2>8. Announced'
    BY <1>2, AnnouncedQuiet
  <2> QED  BY <2>2, <2>7, <2>8, AloneNext
<1> QED  BY <1>1, <1>2

LEMMA RearmOrderly ==
  ASSUME Base, Orderly, NEW s \in Sweepers, Rearm(s)
  PROVE  Orderly'
<1>1. PICK w : w = NextTicket(sweep[s], sweep[s].todo) /\ Goto(s, w)
  BY DEF Rearm
<1>2. \/ PastRule(sweep[s], w)
      \/ (Stage(w) /\ w.pc = "ticket" /\ w.todo = sweep[s].todo /\ SameRule(sweep[s], w))
  BY <1>1, LeaveShape DEF Rearm
<1>3. /\ Alone(s) /\ Stage(sweep[s]) /\ Kept(sweep[s]) /\ sweep[s].rule \in Rules
      /\ Repeats /\ Announced /\ faults \in Nat /\ faults <= faults
      /\ sweep[s].pc = "rearm"
  BY InHand DEF Rearm
<1>4. UNCHANGED <<rule, lastAct, again, entered, escalations, faults>>
  BY DEF Rearm, hist
<1>5. PICK r \in Rules : r = sweep[s].rule
  BY <1>3
<1>6. log' = [log EXCEPT ![r] =
        [t \in Tickets |-> IF <<t, log[r][t].id>> \in sweep[s].stale THEN NoRow ELSE log[r][t]]]
  BY <1>5 DEF Rearm
<1>7. \A q \in Rules, t \in Tickets : (log'[q][t] = log[q][t]) \/ (lastAct[q][t] = 0)
  <2> SUFFICES ASSUME NEW q \in Rules, NEW t \in Tickets, log'[q][t] # log[q][t]
               PROVE  lastAct[q][t] = 0
    OBVIOUS
  <2>1. q = r /\ <<t, log[r][t].id>> \in sweep[s].stale
    BY <1>6 DEF Base, TypeOK
  <2> QED  BY <1>3, <1>5, <2>1 DEF Kept
<1>8. \A q \in Rules, t \in Tickets :
        /\ Unrecorded(q, t)' => Unrecorded(q, t)
        /\ Unrecorded(q, t) => Unrecorded(q, t)'
  BY <1>4, <1>7 DEF Unrecorded
<1>9. /\ Serial' /\ Careful' /\ Announced'
      /\ \A q \in Rules, t \in Tickets : May(w, q, t) => May(sweep[s], q, t)
  BY <1>1, <1>2, <1>3, <1>4, <1>5, <1>8, LeaveOrderly
<1>10. \A q, t : ~Hand(sweep[s], q, t)
  BY <1>3 DEF Hand, OnTicket, InAction
<1>11. Repeats'
  BY <1>1, <1>3, <1>4, <1>8, <1>9, <1>10, Calm
<1> QED  BY <1>9, <1>11 DEF Orderly

LEMMA BeginOrderly ==
  ASSUME Base, Orderly, NEW s \in Sweepers, NEW t \in Tickets, Begin(s, t)
  PROVE  Orderly'
<1>1. PICK w : /\ Goto(s, w) /\ Stage(w) /\ SameRule(sweep[s], w)
               /\ w.todo = sweep[s].todo \ {t} /\ w.ticket = t
               /\ w.pc \in {"act", "announceLegacy", "record"}
  BY BeginShape
<1>2. /\ Alone(s) /\ Stage(sweep[s]) /\ Kept(sweep[s]) /\ sweep[s].rule \in Rules
      /\ Repeats /\ Announced /\ faults \in Nat /\ faults <= faults
      /\ sweep[s].pc = "ticket" /\ t \in sweep[s].todo
  BY InHand DEF Begin, Acts
<1>3. PICK r \in Rules : r = sweep[s].rule
  BY <1>2
<1>4. w.rule = r /\ w.left = sweep[s].left /\ w.at = sweep[s].at
  BY <1>1, <1>3 DEF SameRule
<1>5. UNCHANGED <<rule, log, entered, escalations, faults>>
  BY DEF Begin, tables
<1>6. lastAct' = [lastAct EXCEPT ![r] = [lastAct[r] EXCEPT ![t] = sweep[s].at]]
  BY <1>3 DEF Begin, Acts
<1>7. /\ lastAct'[r][t] = sweep[s].at
      /\ \A q \in Rules, u \in Tickets : <<q, u>> # <<r, t>> => lastAct'[q][u] = lastAct[q][u]
  BY <1>6 DEF Base, TypeOK
<1>8. /\ Hand(w, r, t) /\ ~May(w, r, t)
      /\ \A q, u : ~Hand(sweep[s], q, u)
      /\ \A q, u : May(w, q, u) => May(sweep[s], q, u)
  <2>1. w.pc \in OnTicket /\ w.pc \notin {"candidates", "due"}
    BY <1>1 DEF OnTicket, InAction
  <2>2. sweep[s].pc \notin OnTicket /\ sweep[s].pc \notin {"candidates", "due"}
    BY <1>2 DEF OnTicket, InAction
  <2>3. Hand(w, r, t) /\ ~May(w, r, t)
    BY <1>1, <1>4, <2>1 DEF Hand, May
  <2>4. \A q, u : May(w, q, u) => May(sweep[s], q, u)
    BY <1>1, <1>2, <1>3, <1>4, <2>1, StageCore DEF May
  <2> QED  BY <2>2, <2>3, <2>4 DEF Hand
<1>9. ASSUME NEW q \in Rules, NEW u \in Tickets, Owed(q, u)'
      PROVE  Owed(q, u) /\ <<q, u>> # <<r, t>>
  <2>1. IF rule'[q] = Removed THEN May(w, q, u) ELSE Unrecorded(q, u)' /\ ~Hand(w, q, u)
    BY <1>1, <1>2, <1>9, OwedNext
  <2>2. <<q, u>> # <<r, t>>
    BY <1>8, <2>1
  <2>3. Unrecorded(q, u)' => Unrecorded(q, u)
    BY <1>5, <1>7, <2>2 DEF Unrecorded
  <2>4. IF rule[q] = Removed THEN May(sweep[s], q, u)
        ELSE Unrecorded(q, u) /\ ~Hand(sweep[s], q, u)
    BY <1>5, <1>8, <2>1, <2>3
  <2>5. Owed(q, u)
    BY <1>2, <2>4, OwedAlone
  <2> QED  BY <2>2, <2>5
<1>10. Debts' \subseteq Debts \ {<<r, t>>}
  BY <1>9 DEF Debts
<1>11. Repeats'
  <2>1. CASE Overdue(sweep[s], t)
    <3>1. again' = again
      BY <2>1 DEF Begin, Acts
    <3> QED  BY <1>2, <1>5, <1>10, <3>1, RepeatsLess
  <2>2. CASE ~Overdue(sweep[s], t)
    <3>1. again' = again + 1
      BY <2>2 DEF Begin, Acts
    <3>2. Unrecorded(r, t) \/ rule[r] = Removed
      BY <1>2, <1>3, <2>2 DEF Kept
    <3>3. May(sweep[s], r, t)
      BY <1>2, <1>3, StageCore DEF May
    <3>4. Owed(r, t)
      BY <1>2, <1>8, <3>2, <3>3, OwedAlone
    <3>5. <<r, t>> \in Debts
      BY <3>4 DEF Debts
    <3> QED  BY <1>2, <1>5, <1>10, <3>1, <3>5, RepeatsPaid
  <2> QED  BY <2>1, <2>2
<1>12. ASSUME NEW u \in w.todo
       PROVE  Overdue(w, u)' \/ Unrecorded(r, u)' \/ rule'[w.rule] = Removed
  <2>1. u \in sweep[s].todo /\ u # t /\ u \in Tickets
    BY <1>1, <1>2, <1>12 DEF Stage
  <2>2. Overdue(sweep[s], u) \/ Unrecorded(sweep[s].rule, u) \/ rule[sweep[s].rule] = Removed
    BY <1>2, <2>1 DEF Kept
  <2>3. lastAct'[w.rule][u] = lastAct[w.rule][u] /\ rule' = rule
    BY <1>4, <1>5, <1>7, <2>1
  <2>4. Unrecorded(r, u) => Unrecorded(r, u)'
    BY <1>4, <1>5, <2>3 DEF Unrecorded
  <2> QED  BY <1>1, <1>4, <2>1, <2>2, <2>3, <2>4, TodoKept
<1>13. Kept(w)'
  BY <1>1, <1>4, <1>7, <1>12 DEF Kept
<1>14. Careful'
  BY <1>1, <1>2, <1>13, CarefulNext
<1>15. Announced'
  BY <1>1, <1>2, <1>5, AnnouncedQuiet
<1> QED  BY <1>1, <1>2, <1>11, <1>14, <1>15, AloneNext DEF Orderly

\* The statements on one ticket leave the counting and what the sweep knows alone.
LEMMA OnTicketOrderly ==
  ASSUME Base, Orderly, NEW s \in Sweepers, sweep[s].pc \in OnTicket,
         NEW w, Goto(s, w), SameTicket(sweep[s], w),
         w.pc = "refresh" => log[w.rule][w.ticket] # NoRow \/ rule[w.rule] = Removed,
         UNCHANGED <<rule, log, lastAct, again>>, faults' \in Nat, faults <= faults'
  PROVE  Serial' /\ Careful' /\ Repeats'
<1>1. sweep[s].pc \notin {"idle", "candidates", "due", "rearm"}
  BY DEF OnTicket, InAction
<1>2. /\ Alone(s) /\ Stage(sweep[s]) /\ Kept(sweep[s]) /\ sweep[s].rule \in Rules
      /\ Repeats
  BY <1>1, InHand
<1>3. /\ Stage(w) /\ SameRule(sweep[s], w) /\ w.todo = sweep[s].todo
      /\ w.pc \in OnTicket /\ w.ticket = sweep[s].ticket
      /\ w.rule = sweep[s].rule /\ w.left = sweep[s].left /\ w.at = sweep[s].at
  BY DEF SameTicket, SameRule
<1>4. w.pc \notin {"idle", "candidates", "due", "rearm"}
  BY <1>3 DEF OnTicket, InAction
<1>5. \A r, t : /\ May(w, r, t) => May(sweep[s], r, t)
                /\ Unrecorded(r, t)' => Unrecorded(r, t)
                /\ Unrecorded(r, t) => Unrecorded(r, t)'
                /\ Hand(sweep[s], r, t) => Hand(w, r, t)
  BY <1>1, <1>2, <1>3, <1>4, StageCore DEF May, Hand, Unrecorded
<1>6. Repeats'
  BY <1>2, <1>5, Calm
<1>7. ASSUME NEW u \in w.todo
      PROVE  Overdue(w, u)' \/ Unrecorded(w.rule, u)' \/ rule'[w.rule] = Removed
  <2>1. u \in Tickets
    BY <1>3, <1>4, <1>7 DEF Stage
  <2>2. Overdue(sweep[s], u) \/ Unrecorded(sweep[s].rule, u) \/ rule[sweep[s].rule] = Removed
    BY <1>1, <1>2, <1>3, <1>7 DEF Kept
  <2>3. Unrecorded(w.rule, u) => Unrecorded(w.rule, u)'
    BY <1>5
  <2>4. lastAct'[w.rule][u] = lastAct[w.rule][u] /\ rule' = rule
    OBVIOUS
  <2> QED  BY <1>3, <2>1, <2>2, <2>3, <2>4, TodoKept
<1>8. lastAct'[w.rule][w.ticket] = w.at
  BY <1>2, <1>3 DEF Kept
<1>9. Kept(w)'
  BY <1>4, <1>7, <1>8 DEF Kept
<1>10. Careful'
  BY <1>2, <1>9, CarefulNext
<1> QED  BY <1>2, <1>6, <1>10, AloneNext

LEMMA EscalateOrderly ==
  ASSUME Base, Orderly, NEW s \in Sweepers, Escalate(s)
  PROVE  Orderly'
<1>1. PICK w : /\ Goto(s, w) /\ SameTicket(sweep[s], w)
               /\ \/ w.pc \in {"act", "announceLegacy", "record"}
                  \/ w.pc = "escalate" /\ ticket[w.ticket].status # "escalated"
  BY EscalateShape
<1>2. /\ sweep[s].pc \in OnTicket /\ Alone(s) /\ Announced
      /\ faults \in Nat /\ faults <= faults
  BY InHand DEF Escalate, OnTicket, InAction
<1>3. UNCHANGED <<rule, ticket, log, lastAct, again, entered, escalations, faults>>
  BY DEF Escalate, tables, hist
<1>4. Serial' /\ Careful' /\ Repeats'
  BY <1>1, <1>2, <1>3, OnTicketOrderly
<1>5. \A t \in Tickets : /\ escalations'[t] <= entered'[t]
                         /\ Entering(w, t)' => escalations'[t] < entered'[t]
  BY <1>1, <1>2, <1>3 DEF Announced, Entering
<1>6. Announced'
  BY <1>1, <1>2, <1>5, AnnouncedNext
<1> QED  BY <1>4, <1>6 DEF Orderly

LEMMA WriteEscalatedOrderly ==
  ASSUME Base, Orderly, NEW s \in Sweepers, WriteEscalated(s)
  PROVE  Orderly'
<1>1. PICK w : Goto(s, w) /\ SameTicket(sweep[s], w) /\ w.pc = "announce"
  BY WriteEscalatedShape
<1>2. /\ sweep[s].pc \in OnTicket /\ Alone(s) /\ Announced
      /\ faults \in Nat /\ faults <= faults
  BY InHand DEF WriteEscalated, OnTicket, InAction
<1>3. UNCHANGED <<rule, log, lastAct, again, escalations, faults>>
  BY DEF WriteEscalated
<1>4. Serial' /\ Careful' /\ Repeats'
  BY <1>1, <1>2, <1>3, OnTicketOrderly
<1>5. PICK t \in Tickets : t = sweep[s].ticket
  BY <1>2, PairShape
<1>6. Write(t, [ticket[t] EXCEPT !.status = "escalated"])
  BY <1>5 DEF WriteEscalated
<1>7. /\ escalations[t] \in Nat /\ entered[t] \in Nat /\ ticket[t] \in Ticket
      /\ entered \in [Tickets -> Nat]
  BY DEF Base, TypeOK
<1>8. [ticket[t] EXCEPT !.status = "escalated"].status = "escalated"
  BY <1>7 DEF Ticket
<1>9. /\ \A u \in Tickets : u # t => entered'[u] = entered[u]
      /\ entered'[t] = IF ticket[t].status # "escalated" THEN entered[t] + 1 ELSE entered[t]
  BY <1>6, <1>7, <1>8 DEF Write
<1>10. escalations[t] < entered'[t]
  <2>1. CASE ticket[t].status # "escalated"
    BY <1>2, <1>7, <1>9, <2>1 DEF Announced
  <2>2. CASE ticket[t].status = "escalated"
    <3>1. Entering(sweep[s], t)
      BY <1>5, <2>2 DEF Entering, WriteEscalated
    <3> QED  BY <1>2, <1>9, <2>2, <3>1 DEF Announced
  <2> QED  BY <2>1, <2>2
<1>11. \A u \in Tickets : escalations'[u] <= entered'[u]
  BY <1>2, <1>3, <1>7, <1>9, <1>10 DEF Announced, Base, TypeOK
<1>12. \A u \in Tickets : Entering(w, u)' => u = t
  BY <1>1, <1>5 DEF Entering, SameTicket
<1>13. Announced'
  BY <1>1, <1>2, <1>3, <1>10, <1>11, <1>12, AnnouncedNext
<1> QED  BY <1>4, <1>13 DEF Orderly

LEMMA AnnounceOrderly ==
  ASSUME Base, Orderly, NEW s \in Sweepers, Announce(s)
  PROVE  Orderly'
<1>1. PICK w : /\ Goto(s, w) /\ SameTicket(sweep[s], w)
               /\ w.pc \in {"act", "announceLegacy", "record"}
  BY AnnounceShape
<1>2. /\ sweep[s].pc \in OnTicket /\ Alone(s) /\ Announced
      /\ faults \in Nat /\ faults <= faults
  BY InHand DEF Announce, OnTicket, InAction
<1>3. UNCHANGED <<rule, ticket, log, lastAct, again, entered, faults>>
  BY DEF Announce, tables
<1>4. Serial' /\ Careful' /\ Repeats'
  BY <1>1, <1>2, <1>3, OnTicketOrderly
<1>5. PICK t \in Tickets : t = sweep[s].ticket
  BY <1>2, PairShape
<1>6. escalations \in [Tickets -> Nat] /\ entered \in [Tickets -> Nat]
  BY DEF Base, TypeOK
<1>7. \A u \in Tickets : escalations'[u] <= entered'[u]
  <2>1. CASE escalations' = escalations
    BY <1>2, <1>3, <2>1 DEF Announced
  <2>2. CASE /\ sweep[s].pc = "announce"
             /\ escalations' = [escalations EXCEPT ![t] = escalations[t] + 1]
    <3>1. Entering(sweep[s], t)
      BY <1>5, <2>2 DEF Entering
    <3>2. escalations[t] < entered[t]
      BY <1>2, <3>1 DEF Announced
    <3>3. escalations'[t] = escalations[t] + 1 /\ escalations'[t] <= entered[t]
      <4>1. escalations[t] \in Nat /\ entered[t] \in Nat
        BY <1>6
      <4> QED  BY <1>6, <2>2, <3>2, <4>1
    <3>4. \A u \in Tickets : u # t => escalations'[u] = escalations[u]
      BY <1>6, <2>2
    <3> QED  BY <1>2, <1>3, <3>3, <3>4 DEF Announced
  <2> QED  BY <1>5, <2>1, <2>2 DEF Announce
<1>8. \A u : ~Entering(w, u)'
  BY <1>1 DEF Entering
<1>9. Announced'
  BY <1>1, <1>2, <1>7, <1>8, AnnouncedNext
<1> QED  BY <1>4, <1>9 DEF Orderly

LEMMA ApplyOrderly ==
  ASSUME Base, Orderly, NEW s \in Sweepers, Apply(s)
  PROVE  Orderly'
<1>1. PICK w : /\ Goto(s, w) /\ SameTicket(sweep[s], w)
               /\ w.pc \in {"act", "announceLegacy", "record"}
  BY ApplyShape
<1>2. /\ sweep[s].pc \in OnTicket /\ Alone(s) /\ Announced
      /\ faults \in Nat /\ faults <= faults
  BY InHand DEF Apply, OnTicket, InAction
<1>3. UNCHANGED <<rule, log, lastAct, again, entered, escalations, faults>>
  BY DEF Apply, hist
<1>4. Serial' /\ Careful' /\ Repeats'
  BY <1>1, <1>2, <1>3, OnTicketOrderly
<1>5. Announced'
  BY <1>1, <1>2, <1>3, AnnouncedQuiet
<1> QED  BY <1>4, <1>5 DEF Orderly

LEMMA RecordOrderly ==
  ASSUME Base, Orderly, NEW s \in Sweepers, Record(s)
  PROVE  Orderly'
<1>1. PICK w : /\ Goto(s, w) /\ SameTicket(sweep[s], w)
               /\ \/ w.pc = "insert"
                  \/ w.pc = "refresh" /\ log[w.rule][w.ticket] # NoRow
  BY RecordShape
<1>2. /\ sweep[s].pc \in OnTicket /\ Alone(s) /\ Announced
      /\ faults \in Nat /\ faults <= faults
  BY InHand DEF Record, OnTicket, InAction
<1>3. UNCHANGED <<rule, log, lastAct, again, entered, escalations, faults>>
  BY DEF Record, tables
<1>4. Serial' /\ Careful' /\ Repeats'
  BY <1>1, <1>2, <1>3, OnTicketOrderly
<1>5. Announced'
  BY <1>1, <1>2, <1>3, AnnouncedQuiet
<1> QED  BY <1>4, <1>5 DEF Orderly

\* The pair in hand is recorded, or its rule is gone with its rows: no debt is left.
LEMMA RecordedOrderly ==
  ASSUME Base, Orderly, NEW s \in Sweepers, sweep[s].pc \in OnTicket,
         NEW r \in Rules, NEW t \in Tickets, r = sweep[s].rule, t = sweep[s].ticket,
         Goto(s, NextTicket(sweep[s], sweep[s].todo)),
         rule[r] = Removed \/ log'[r][t].firedAt = sweep[s].at,
         \A q \in Rules, u \in Tickets : <<q, u>> # <<r, t>> => log'[q][u] = log[q][u],
         UNCHANGED <<rule, lastAct, again, entered, escalations, faults>>
  PROVE  Orderly'
<1>1. PICK w : w = NextTicket(sweep[s], sweep[s].todo) /\ Goto(s, w)
  OBVIOUS
<1>2. \/ PastRule(sweep[s], w)
      \/ (Stage(w) /\ w.pc = "ticket" /\ w.todo = sweep[s].todo /\ SameRule(sweep[s], w))
  BY <1>1, LeaveShape
<1>3. /\ Alone(s) /\ Stage(sweep[s]) /\ Kept(sweep[s]) /\ sweep[s].rule \in Rules
      /\ Repeats /\ Announced /\ faults \in Nat /\ faults <= faults
  BY InHand DEF OnTicket, InAction
<1>4. t \notin sweep[s].todo
  BY PairShape
<1>5. \A u \in Tickets : Unrecorded(r, u) /\ u \in sweep[s].todo => Unrecorded(r, u)'
  BY <1>4 DEF Unrecorded
<1>6. /\ Serial' /\ Careful' /\ Announced'
      /\ \A q \in Rules, u \in Tickets : May(w, q, u) => May(sweep[s], q, u)
  BY <1>1, <1>2, <1>3, <1>5, LeaveOrderly
<1>7. ASSUME NEW q \in Rules, NEW u \in Tickets, rule[q] # Removed, Unrecorded(q, u)'
      PROVE  Unrecorded(q, u) /\ ~Hand(sweep[s], q, u)
  <2>1. lastAct[r][t] = sweep[s].at
    BY <1>3 DEF Kept
  <2>2. <<q, u>> # <<r, t>>
    BY <1>7, <2>1 DEF Unrecorded
  <2>3. Unrecorded(q, u)
    BY <1>7, <2>2 DEF Unrecorded
  <2> QED  BY <2>2, <2>3 DEF Hand
<1>8. Repeats'
  BY <1>1, <1>3, <1>6, <1>7, Calm
<1> QED  BY <1>6, <1>8 DEF Orderly

LEMMA InsertOrderly ==
  ASSUME Base, Orderly, NEW s \in Sweepers, Insert(s)
  PROVE  Orderly'
<1>1. PICK r \in Rules, t \in Tickets : r = sweep[s].rule /\ t = sweep[s].ticket
  BY PairShape DEF Insert, OnTicket
<1>2. /\ sweep[s].pc \in OnTicket /\ Alone(s) /\ Announced /\ sweep[s].at \in 1 .. MaxTime
      /\ faults \in Nat /\ faults <= faults
  BY InHand, PairShape DEF Insert, OnTicket, InAction
<1>3. UNCHANGED <<rule, lastAct, again, entered, escalations, faults>>
  BY DEF Insert, hist
<1>4. CASE /\ Fired(r, t, FreshId(r, t), sweep[s].at)
           /\ Goto(s, NextTicket(sweep[s], sweep[s].todo))
  <2>1. PICK id \in Nat \ {0}, at \in 1 .. MaxTime : id = FreshId(r, t) /\ at = sweep[s].at
    BY <1>2, FreshIdType
  <2>2. Fired(r, t, id, at)
    BY <1>4, <2>1
  <2>3. /\ log'[r][t] = [id |-> id, firedAt |-> at]
        /\ \A q \in Rules, u \in Tickets : <<q, u>> # <<r, t>> => log'[q][u] = log[q][u]
    BY <2>2, FiredType
  <2>4. log'[r][t].firedAt = sweep[s].at
    BY <2>1, <2>3
  <2> QED  BY <1>1, <1>2, <1>3, <1>4, <2>3, <2>4, RecordedOrderly
<1>5. CASE /\ log[r][t] # NoRow /\ UNCHANGED log
           /\ Goto(s, Stay(sweep[s], "refresh", sweep[s].announced))
  <2>1. PICK w : Goto(s, w) /\ SameTicket(sweep[s], w) /\ w.pc = "refresh"
    BY <1>5, ConflictShape DEF Insert
  <2>2. log[w.rule][w.ticket] # NoRow
    BY <1>1, <1>5, <2>1 DEF SameTicket, SameRule
  <2>3. Serial' /\ Careful' /\ Repeats'
    BY <1>2, <1>3, <1>5, <2>1, <2>2, OnTicketOrderly
  <2>4. Announced'
    BY <1>2, <1>3, <2>1, AnnouncedQuiet
  <2> QED  BY <2>3, <2>4 DEF Orderly
<1> QED  BY <1>1, <1>4, <1>5 DEF Insert

LEMMA RefreshOrderly ==
  ASSUME Base, Orderly, NEW s \in Sweepers, Refresh(s)
  PROVE  Orderly'
<1>1. PICK r \in Rules, t \in Tickets : r = sweep[s].rule /\ t = sweep[s].ticket
  BY PairShape DEF Refresh, OnTicket
<1>2. /\ sweep[s].pc \in OnTicket /\ Kept(sweep[s]) /\ sweep[s].at \in 1 .. MaxTime
      /\ Goto(s, NextTicket(sweep[s], sweep[s].todo))
  BY InHand, PairShape DEF Refresh, OnTicket, InAction
<1>3. UNCHANGED <<rule, lastAct, again, entered, escalations, faults>>
  BY DEF Refresh, hist
<1>4. CASE log[r][t] = NoRow
  <2>1. rule[r] = Removed
    BY <1>1, <1>2, <1>4 DEF Kept, Refresh
  <2>2. log' = log
    BY <1>1, <1>4 DEF Refresh
  <2> QED  BY <1>1, <1>2, <1>3, <2>1, <2>2, RecordedOrderly
<1>5. CASE log[r][t] # NoRow
  <2>1. PICK id \in Nat \ {0}, at \in 1 .. MaxTime : Fired(r, t, id, at) /\ at = sweep[s].at
    BY <1>1, <1>2, <1>5, RefreshShape
  <2>2. /\ log'[r][t] = [id |-> id, firedAt |-> at]
        /\ \A q \in Rules, u \in Tickets : <<q, u>> # <<r, t>> => log'[q][u] = log[q][u]
    BY <2>1, FiredType
  <2>3. log'[r][t].firedAt = sweep[s].at
    BY <2>1, <2>2
  <2> QED  BY <1>1, <1>2, <1>3, <2>2, <2>3, RecordedOrderly
<1> QED  BY <1>4, <1>5

-----------------------------------------------------------------------------
(* One sweep at a time: failures *)

\* What a fault can cost: the pair in hand, left without its record.
LEMMA FaultRepeats ==
  ASSUME Base, Repeats, NEW s \in Sweepers, NEW w, Goto(s, w), Alone(s),
         \A r, t : May(w, r, t) => May(sweep[s], r, t),
         UNCHANGED <<rule, log, lastAct, again>>, faults' = faults + 1
  PROVE  Repeats'
<1>1. PICK p : p = <<sweep[s].rule, sweep[s].ticket>>
  OBVIOUS
<1>2. ASSUME NEW r \in Rules, NEW t \in Tickets, Owed(r, t)', <<r, t>> # p
      PROVE  Owed(r, t)
  <2>1. IF rule'[r] = Removed THEN May(w, r, t) ELSE Unrecorded(r, t)' /\ ~Hand(w, r, t)
    BY <1>2, OwedNext
  <2>2. ~Hand(sweep[s], r, t)
    BY <1>1, <1>2 DEF Hand
  <2>3. Unrecorded(r, t)' => Unrecorded(r, t)
    BY DEF Unrecorded
  <2> QED  BY <2>1, <2>2, <2>3, OwedAlone
<1>3. Debts' \subseteq Debts \cup {p}
  BY <1>2 DEF Debts
<1> QED  BY <1>3, RepeatsFault

LEMMA FailOrderly ==
  ASSUME Base, Orderly, NEW s \in Sweepers, Fail(s)
  PROVE  Orderly'
<1>1. PICK w : /\ Goto(s, w)
               /\ \/ PastRule(sweep[s], w)
                  \/ /\ sweep[s].pc \in OnTicket /\ SameTicket(sweep[s], w)
                     /\ w.pc \in {"act", "announceLegacy", "record"}
                  \/ /\ sweep[s].pc \in OnTicket
                     /\ Stage(w) /\ w.pc = "ticket" /\ w.todo = sweep[s].todo
                     /\ SameRule(sweep[s], w)
  BY FailShape
<1>2. /\ Alone(s) /\ Stage(sweep[s]) /\ Kept(sweep[s]) /\ sweep[s].rule \in Rules
      /\ Repeats /\ Announced /\ faults \in Nat
  BY InHand DEF Fail
<1>3. /\ UNCHANGED <<rule, log, lastAct, again, entered, escalations>>
      /\ faults' = faults + 1 /\ faults' \in Nat /\ faults <= faults'
  BY <1>2 DEF Fail, tables, hist
<1>4. CASE PastRule(sweep[s], w)
  <2>1. /\ w # Idle => w.pc = "candidates"
        /\ w.pc \notin {"escalate", "announce"}
        /\ \A r, t : May(w, r, t) => May(sweep[s], r, t)
    BY <1>2, <1>4, PastRuleLess
  <2>2. Repeats'
    BY <1>1, <1>2, <1>3, <2>1, FaultRepeats
  <2>3. Careful'
    BY <1>1, <1>2, <2>1, KeptCandidates, CarefulNext
  <2>4. Announced'
    BY <1>1, <1>2, <1>3, <2>1, AnnouncedQuiet
  <2> QED  BY <1>1, <1>2, <2>2, <2>3, <2>4, AloneNext DEF Orderly
<1>5. CASE /\ sweep[s].pc \in OnTicket /\ SameTicket(sweep[s], w)
           /\ w.pc \in {"act", "announceLegacy", "record"}
  <2>1. Serial' /\ Careful' /\ Repeats'
    BY <1>1, <1>3, <1>5, OnTicketOrderly
  <2>2. Announced'
    BY <1>1, <1>2, <1>3, <1>5, AnnouncedQuiet
  <2> QED  BY <2>1, <2>2 DEF Orderly
<1>6. CASE /\ sweep[s].pc \in OnTicket
           /\ Stage(w) /\ w.pc = "ticket" /\ w.todo = sweep[s].todo /\ SameRule(sweep[s], w)
  <2>1. \A u \in Tickets : \A r : Unrecorded(r, u) => Unrecorded(r, u)'
    BY <1>3 DEF Unrecorded
  <2>2. Serial' /\ Careful' /\ Announced'
    BY <1>1, <1>2, <1>3, <1>6, <2>1, LeaveOrderly
  <2>3. \A r, t : May(w, r, t) => May(sweep[s], r, t)
    BY <1>2, <1>6, StageCore DEF May, SameRule, OnTicket, InAction
  <2>4. Repeats'
    BY <1>1, <1>2, <1>3, <2>3, FaultRepeats
  <2> QED  BY <2>2, <2>4 DEF Orderly
<1> QED  BY <1>1, <1>4, <1>5, <1>6

LEMMA CrashOrderly ==
  ASSUME Base, Orderly, NEW s \in Sweepers, Crash(s)
  PROVE  Orderly'
<1>1. PICK w : w = Idle /\ Goto(s, w)
  BY DEF Crash
<1>2. Alone(s) /\ Repeats /\ Announced
  BY AloneNow DEF Crash, Busy, Orderly
<1>3. UNCHANGED <<rule, log, lastAct, again, entered, escalations>> /\ faults' = faults + 1
  BY DEF Crash, tables, hist
<1>4. w.pc \notin {"escalate", "announce"} /\ \A r, t : ~May(w, r, t)
  BY <1>1, IdleHas DEF Idle
<1>5. Repeats'
  BY <1>1, <1>2, <1>3, <1>4, FaultRepeats
<1>6. Careful'
  BY <1>1, <1>2, CarefulNext
<1>7. Announced'
  BY <1>1, <1>2, <1>3, <1>4, AnnouncedQuiet
<1> QED  BY <1>1, <1>2, <1>5, <1>6, <1>7, AloneNext DEF Orderly

-----------------------------------------------------------------------------
(* One sweep at a time: admins, agents, time *)

\* While the sweeps stand still, what they have read stays as good as it was.
LEMMA CarefulStill ==
  ASSUME Base, Careful, UNCHANGED <<sweep, lastAct>>,
         \A r \in Rules : rule[r] = Removed => rule'[r] = Removed,
         \A r \in Rules : rule'[r] # Removed => log'[r] = log[r]
  PROVE  Careful'
<1> SUFFICES ASSUME NEW s \in Sweepers, Busy(s)' PROVE Kept(sweep[s])'
  BY DEF Careful
<1>1. Busy(s)
  BY DEF Busy
<1>2. PICK sw : sw = sweep[s]
  OBVIOUS
<1>3. Stage(sw) /\ sw.rule \in Rules /\ Kept(sw)
  BY <1>1, <1>2, BusyShape, SweepShape DEF Careful
<1>4. PICK r \in Rules : r = sw.rule
  BY <1>3
<1>5. ASSUME NEW t \in sw.todo, sw.pc \notin {"candidates", "due"}
      PROVE  Overdue(sw, t)' \/ Unrecorded(r, t)' \/ rule'[r] = Removed
  <2>1. Overdue(sw, t) \/ Unrecorded(sw.rule, t) \/ rule[sw.rule] = Removed
    BY <1>3, <1>5 DEF Kept
  <2>2. Overdue(sw, t) => Overdue(sw, t)'
    BY DEF Overdue
  <2>3. rule'[r] # Removed => (Unrecorded(r, t) => Unrecorded(r, t)')
    BY DEF Unrecorded
  <2> QED  BY <1>4, <2>1, <2>2, <2>3
<1>6. Kept(sw)'
  BY <1>3, <1>4, <1>5 DEF Kept
<1> QED  BY <1>2, <1>6 DEF Kept, Overdue, Unrecorded

LEMMA StillOrderly ==
  ASSUME Base, Orderly, UNCHANGED <<sweep, lastAct, again, faults, entered, escalations, ticket>>,
         \A r \in Rules : rule[r] = Removed <=> rule'[r] = Removed,
         \A r \in Rules : rule'[r] # Removed => log'[r] = log[r]
  PROVE  Orderly'
<1>1. Serial' /\ Announced'
  BY DEF Orderly, Serial, Busy, Announced, Entering
<1>2. Careful'
  BY CarefulStill DEF Orderly
<1>3. ASSUME NEW r \in Rules, NEW t \in Tickets PROVE Owed(r, t)' <=> Owed(r, t)
  BY DEF Owed, Unrecorded, Hand, May
<1>4. Debts' = Debts /\ Gone' = Gone
  BY <1>3 DEF Debts, Gone
<1>5. Repeats'
  <2>1. Cardinality(Debts') = Cardinality(Debts)
    BY <1>4, Zenon
  <2>2. Cardinality((Gone \X Tickets)') = Cardinality(Gone \X Tickets)
    BY <1>4
  <2> QED  BY <2>1, <2>2 DEF Orderly, Repeats
<1> QED  BY <1>1, <1>2, <1>5 DEF Orderly

LEMMA AdminOrderly ==
  ASSUME Base, Orderly, NEW r \in Rules, SaveRule(r) \/ RemoveRule(r) \/ Forget(r)
  PROVE  Orderly'
<1>0. rule \in [Rules -> Bodies \cup {NoRule, Removed}]
  BY DEF Base, TypeOK
<1>1. UNCHANGED <<sweep, lastAct, again, faults, entered, escalations, ticket>>
  BY DEF SaveRule, RemoveRule, Forget, hist
<1>2. CASE SaveRule(r)
  <2>1. PICK b \in Bodies : rule' = [rule EXCEPT ![r] = b] /\ rule[r] # Removed
    BY <1>2, AdminShape
  <2>2. \A q \in Rules : rule[q] = Removed <=> rule'[q] = Removed
    BY <1>0, <2>1, NotRemoved
  <2>3. log' = log
    BY <1>2 DEF SaveRule
  <2> QED  BY <1>1, <2>2, <2>3, StillOrderly
<1>3. CASE RemoveRule(r)
  <2>1. rule' = [rule EXCEPT ![r] = Removed] /\ rule[r] # Removed
    BY <1>3, AdminShape
  <2>2. log' = log
    BY <1>3 DEF RemoveRule
  <2>3. \A q \in Rules : rule'[q] = IF q = r THEN Removed ELSE rule[q]
    BY <1>0, <2>1
  <2>4. Serial' /\ Announced'
    BY <1>1 DEF Orderly, Serial, Busy, Announced, Entering
  <2>5. Careful'
    BY <1>1, <2>2, <2>3, CarefulStill DEF Orderly
  <2>6. ASSUME NEW q \in Rules, NEW t \in Tickets, q # r, Owed(q, t)'
        PROVE  Owed(q, t)
    BY <1>1, <2>2, <2>3, <2>6 DEF Owed, Unrecorded, Hand, May
  <2>7. Debts' \subseteq Debts \cup ({r} \X Tickets)
    BY <2>6 DEF Debts
  <2>8. r \notin Gone /\ Gone' = Gone \cup {r}
    BY <2>1, <2>3 DEF Gone
  <2>9. Repeats'
    BY <1>1, <2>7, <2>8, RepeatsRemoved DEF Orderly
  <2> QED  BY <2>4, <2>5, <2>9 DEF Orderly
<1>4. CASE Forget(r)
  <2>1. rule' = rule /\ rule[r] = Removed
    BY <1>4, AdminShape DEF Forget
  <2>2. \A q \in Rules : q # r => log'[q] = log[q]
    BY <1>4 DEF Forget, Base, TypeOK
  <2> QED  BY <1>1, <2>1, <2>2, StillOrderly
<1> QED  BY <1>2, <1>3, <1>4

LEMMA EditOrderly ==
  ASSUME Base, Orderly, NEW t \in Tickets, Edit(t)
  PROVE  Orderly'
<1>1. PICK tk \in Ticket : Write(t, tk)
  BY EditShape
<1>2. UNCHANGED <<sweep, lastAct, again, faults, escalations, rule, log>>
  BY DEF Edit
<1>3. /\ ticket \in [Tickets -> Ticket] /\ entered \in [Tickets -> Nat]
      /\ escalations \in [Tickets -> Nat]
  BY DEF Base, TypeOK
<1>4. /\ ticket'[t] = tk
      /\ entered'[t] = IF tk.status = "escalated" /\ ticket[t].status # "escalated"
                         THEN entered[t] + 1 ELSE entered[t]
      /\ \A u \in Tickets : u # t => ticket'[u] = ticket[u] /\ entered'[u] = entered[u]
  BY <1>1, <1>3 DEF Write
<1>5. Announced
  BY DEF Orderly
<1>6. \A u \in Tickets : entered[u] \in Nat /\ escalations[u] \in Nat
  BY <1>3
<1>7. \A u \in Tickets : entered[u] <= entered'[u] /\ escalations'[u] <= entered'[u]
  BY <1>2, <1>4, <1>5, <1>6 DEF Announced
<1>8. ASSUME NEW u \in Tickets, NEW s \in Sweepers, Entering(sweep[s], u)'
      PROVE  escalations'[u] < entered'[u]
  <2>1. CASE Entering(sweep[s], u)
    BY <1>2, <1>5, <1>6, <1>7, <2>1, <1>4 DEF Announced
  <2>2. CASE ~Entering(sweep[s], u)
    <3>1. ticket'[u].status = "escalated" /\ ticket[u].status # "escalated"
      BY <1>2, <1>8, <2>2 DEF Entering
    <3>2. u = t /\ entered'[u] = entered[u] + 1
      BY <1>4, <3>1
    <3> QED  BY <1>2, <1>5, <1>6, <3>2 DEF Announced
  <2> QED  BY <2>1, <2>2
<1>9. Announced'
  BY <1>7, <1>8 DEF Announced
<1>10. Serial' /\ Careful'
  BY <1>2, CarefulStill DEF Orderly, Serial, Busy
<1>11. Debts' \subseteq Debts
  BY <1>2 DEF Debts, Owed, Unrecorded, Hand, May
<1>12. Repeats'
  <2>1. faults' \in Nat /\ faults <= faults'
    BY <1>2 DEF Base, Shape
  <2> QED  BY <1>2, <1>11, <2>1, RepeatsLess DEF Orderly
<1> QED  BY <1>9, <1>10, <1>12 DEF Orderly

LEMMA TickOrderly ==
  ASSUME Base, Orderly, Tick \/ UNCHANGED vars
  PROVE  Orderly'
<1>1. UNCHANGED <<sweep, lastAct, again, faults, entered, escalations, ticket, rule, log>>
  BY DEF Tick, vars, hist
<1> QED  BY <1>1, StillOrderly

-----------------------------------------------------------------------------
(* The invariant *)

LEMMA InitOrderly == Init => Orderly
<1> SUFFICES ASSUME Init PROVE Orderly
  OBVIOUS
<1>1. \A s \in Sweepers : sweep[s] = Idle
  BY DEF Init
<1>2. Serial /\ Careful
  BY <1>1 DEF Serial, Careful, Busy
<1>3. \A r \in Rules : rule[r] # Removed
  BY NotRemoved DEF Init, NoRule, Removed
<1>4. Debts = {}
  BY <1>3 DEF Init, Debts, Owed, Unrecorded
<1>5. Cardinality(Debts) = 0
  BY <1>4, FS_EmptySet
<1>6. Repeats
  BY <1>5, Finite DEF Init, Repeats
<1>7. Announced
  BY <1>1, IdleHas DEF Init, Announced
<1> QED  BY <1>2, <1>6, <1>7 DEF Orderly

\* Only the start of a sweep can overlap another.
LEMMA OverlapKept ==
  ASSUME Base, [Next]_vars, ~overlapped'
  PROVE  ~overlapped
<1>1. ASSUME NEW s \in Sweepers, SweepStep(s) PROVE ~overlapped
  BY <1>1 DEF SweepStep, Start, Candidates, Due, Rearm, Begin, Escalate, WriteEscalated, Announce,
              Apply, Record, Insert, Refresh, hist
<1>2. ASSUME NEW s \in Sweepers, Fail(s) \/ Crash(s) PROVE ~overlapped
  BY <1>2 DEF Fail, Crash, hist
<1>3. ASSUME NEW r \in Rules, SaveRule(r) \/ RemoveRule(r) \/ Forget(r) PROVE ~overlapped
  BY <1>3 DEF SaveRule, RemoveRule, Forget, hist
<1>4. ASSUME NEW t \in Tickets, Edit(t) PROVE ~overlapped
  BY <1>4 DEF Edit
<1>5. Tick \/ UNCHANGED vars => ~overlapped
  BY DEF Tick, hist, vars
<1> QED  BY <1>1, <1>2, <1>3, <1>4, <1>5 DEF Next

LEMMA StepOrderly ==
  ASSUME Base, Orderly, [Next]_vars, ~overlapped'
  PROVE  Orderly'
<1>1. ASSUME NEW s \in Sweepers, SweepStep(s) PROVE Orderly'
  BY ONLY <1>1, Base, Orderly, ~overlapped', StartOrderly, CandidatesOrderly, DueOrderly,
          RearmOrderly, BeginOrderly, EscalateOrderly, WriteEscalatedOrderly, AnnounceOrderly,
          ApplyOrderly, RecordOrderly, InsertOrderly, RefreshOrderly DEF SweepStep
<1> QED
  BY <1>1, FailOrderly, CrashOrderly, AdminOrderly, EditOrderly, TickOrderly DEF Next

LEMMA IInvOrderly == IInv <=> Base /\ (~overlapped => Orderly)
BY DEF IInv, Orderly

LEMMA Invariant == Spec => []IInv
<1>1. Init => IInv
  BY InitBase, InitOrderly, IInvOrderly
<1>2. IInv /\ [Next]_vars => IInv'
  <2> SUFFICES ASSUME IInv, [Next]_vars PROVE IInv'
    OBVIOUS
  <2>1. Base /\ (~overlapped => Orderly)
    BY IInvOrderly
  <2>2. Base'
    BY <2>1, StepBase
  <2>3. ~overlapped' => Orderly'
    BY <2>1, OverlapKept, StepOrderly
  <2> QED  BY <2>2, <2>3 DEF IInv, Orderly
<1> QED  BY <1>1, <1>2, PTL DEF Spec

\* processEscalations, for any rules, tickets, sweeps, edits and faults: while sweeps do not
\* overlap, a repetition has its fault or its removed rule and an announcement its
\* entry; and a row is never there before its actions ran.
THEOREM ActsRight == Spec => []ActsLaw
<1>1. ASSUME IInv PROVE ActsLaw
  <2>1. FiredMeansActed
    BY <1>1 DEF IInv, Base, Recorded
  <2>2. AnnouncedOncePerEntry
    BY <1>1 DEF IInv, Announced, AnnouncedOncePerEntry
  <2>3. ASSUME ~overlapped
        PROVE  again <= faults + Cardinality(Gone \X Tickets)
    <3>1. Repeats /\ again \in Nat /\ faults \in Nat
      BY <1>1, <2>3 DEF IInv, Base, TypeOK, Shape
    <3> QED  BY <3>1, Finite DEF Repeats
  <2>4. ActsOncePerFault
    BY <2>3 DEF ActsOncePerFault, Gone
  <2> QED  BY <2>1, <2>2, <2>4 DEF ActsLaw
<1>2. IInv => ActsLaw
  BY <1>1
<1> QED  BY <1>2, Invariant, PTL

================================================================================
