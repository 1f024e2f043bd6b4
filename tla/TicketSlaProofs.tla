---------------------------- MODULE TicketSlaProofs ----------------------------
(* The type invariant of TicketSla, and the law of its conditional updates,   *)
(* for any number of tickets, processes and requests.                         *)
EXTENDS TicketSla, FiniteSetTheorems, TLAPS

\* What every actor holds names tickets that exist, and an idle sweep holds none.
Located ==
  /\ \A s \in Sweepers :
       /\ sweep[s].found \subseteq Existing
       /\ sweep[s].pass = "idle" => sweep[s].found = {} /\ sweep[s].owes = {}
  /\ \A w \in Wakers : wake[w] \subseteq Existing
  /\ \A r \in Requests : request[r].pc \notin {"ready", "done"}
                           => request[r].ticket \in Existing

Inductive == TypeOK /\ Located

LEMMA RowsDiffer == NoRow \notin Row
  BY DEF NoRow, Row, Open, Solved

\* Writing a row over an existing one keeps the table's type, and what exists.
LEMMA Overwrite ==
  ASSUME row \in [Tickets -> Row \cup {NoRow}],
         NEW t \in Existing, NEW r \in Row,
         row' = [row EXCEPT ![t] = r]
  PROVE  /\ row' \in [Tickets -> Row \cup {NoRow}]
         /\ Existing' = Existing
<1>1. t \in Tickets /\ row[t] # NoRow /\ r # NoRow
  BY RowsDiffer DEF Existing
<1>2. \A u \in Tickets : row'[u] = IF u = t THEN r ELSE row[u]
  BY <1>1
<1>3. row' \in [Tickets -> Row \cup {NoRow}]
  BY <1>1
<1>4. \A u \in Tickets : row'[u] # NoRow <=> row[u] # NoRow
  BY <1>1, <1>2
<1> QED BY <1>3, <1>4 DEF Existing

\* Counting one more event of one ticket.
LEMMA CountType ==
  ASSUME NEW c \in [Tickets -> [Flags -> Nat]], NEW t \in Tickets, NEW f \in Flags
  PROVE  Count(c, t, f) \in [Tickets -> [Flags -> Nat]]
<1>1. [c[t] EXCEPT ![f] = c[t][f] + 1] \in [Flags -> Nat]
  OBVIOUS
<1> QED BY <1>1 DEF Count

LEMMA KindOfType == \A f \in Flags : KindOf(f) \in Kinds
  BY DEF KindOf, Kinds, Flags

LEMMA NewRowType == \A due \in [Kinds -> Nat] : NewRow(due) \in Row
  BY DEF NewRow, Row, Never, Open, Kinds, Flags

LEMMA InitInductive == Init => Inductive
  BY DEF Init, Inductive, TypeOK, Located, Idle, Ready, Handler, Row, NoRow, Existing, Sweep

LEMMA NextQueryInductive ==
  ASSUME Inductive, NEW s \in Sweepers, NextQuery(s)
  PROVE  Inductive'
  BY DEF NextQuery, NextPass, Inductive, TypeOK, Located, Existing, Idle, Flags, db, hist, Sweep

LEMMA RaiseType == \A r \in Row, f \in Flags : Raise(r, f) \in Row
<1> SUFFICES ASSUME NEW r \in Row, NEW f \in Flags PROVE Raise(r, f) \in Row
  OBVIOUS
<1>1. [r.flag EXCEPT ![f] = TRUE] \in [Flags -> BOOLEAN]
  BY DEF Row
<1>2. \A fl \in [Flags -> BOOLEAN], b \in BOOLEAN :
        [r EXCEPT !.flag = fl, !.slaBreached = b] \in Row
  BY DEF Row
<1>3. r.slaBreached \in BOOLEAN
  BY DEF Row
<1>4. (IF f \in Breaches THEN TRUE ELSE r.slaBreached) \in BOOLEAN
  BY <1>3
<1> HIDE DEF Row
<1> QED BY <1>1, <1>2, <1>4 DEF Raise

LEMMA FlagInductive ==
  ASSUME Inductive, NEW s \in Sweepers, NEW t \in Tickets, Flag(s, t)
  PROVE  Inductive'
<1> DEFINE f == sweep[s].pass
<1>1. f \in Flags /\ t \in Existing /\ row[t] \in Row
  <2>1. t \in sweep[s].found
    BY DEF Flag
  <2> QED BY <2>1 DEF Inductive, TypeOK, Located, Existing, Sweep
<1>2. row' = row \/ row' = [row EXCEPT ![t] = Raise(row[t], f)]
  BY DEF Flag
<1>3. row' \in [Tickets -> Row \cup {NoRow}] /\ Existing' = Existing
  <2>1. row \in [Tickets -> Row \cup {NoRow}] /\ Raise(row[t], f) \in Row
    BY <1>1, RaiseType DEF Inductive, TypeOK
  <2>2. CASE row' = row
    BY <2>1, <2>2 DEF Existing
  <2>3. CASE row' = [row EXCEPT ![t] = Raise(row[t], f)]
    BY ONLY <1>1, <2>1, <2>3, Overwrite
  <2> QED BY <1>2, <2>2, <2>3
<1>4. claims' \in [Tickets -> [Flags -> Nat]]
  <2>1. claims' = claims \/ claims' = Count(claims, t, f)
    BY DEF Flag
  <2>2. claims \in [Tickets -> [Flags -> Nat]]
    BY DEF Inductive, TypeOK
  <2>3. t \in Tickets /\ f \in Flags
    BY <1>1 DEF Existing
  <2> HIDE DEF f
  <2> QED BY ONLY <2>1, <2>2, <2>3, CountType
<1>5. PICK x \in Sweep : /\ sweep' = [sweep EXCEPT ![s] = x]
                        /\ x.found \subseteq Existing /\ x.pass = f
  <2>1. sweep[s] \in Sweep /\ sweep[s].found \subseteq Existing
    BY DEF Inductive, TypeOK, Located
  <2>2. \/ sweep' = [sweep EXCEPT ![s] = [sweep[s] EXCEPT !.found = @ \ {t}, !.owes = {t}]]
        \/ sweep' = [sweep EXCEPT ![s] = [sweep[s] EXCEPT !.found = @ \ {t}]]
    BY DEF Flag
  <2>3. /\ [sweep[s] EXCEPT !.found = @ \ {t}, !.owes = {t}] \in Sweep
        /\ [sweep[s] EXCEPT !.found = @ \ {t}] \in Sweep
    BY <2>1 DEF Sweep
  <2> QED BY <2>1, <2>2, <2>3 DEF Sweep
<1>6. sweep' \in [Sweepers -> Sweep]
  BY <1>5 DEF Inductive, TypeOK
<1>7. \A y \in Sweepers : /\ sweep'[y].found \subseteq Existing
                          /\ sweep'[y].pass = "idle" =>
                               sweep'[y].found = {} /\ sweep'[y].owes = {}
  BY <1>1, <1>5 DEF Inductive, TypeOK, Located, Flags
<1> QED BY <1>3, <1>4, <1>6, <1>7 DEF Flag, Inductive, TypeOK, Located

LEMMA EmitInductive ==
  ASSUME Inductive, NEW s \in Sweepers, Emit(s)
  PROVE  Inductive'
<1>1. announced' \in [Tickets -> [Flags -> Nat]]
  <2>1. PICK t \in sweep[s].owes :
          announced' = Count(announced, t, sweep[s].pass)
    BY DEF Emit
  <2>2. t \in Tickets /\ sweep[s].pass \in Flags
    BY DEF Inductive, TypeOK, Located, Sweep
  <2> QED BY <2>1, <2>2, CountType DEF Inductive, TypeOK
<1>2. sweep[s] \in Sweep
  BY DEF Inductive, TypeOK
<1>3. [sweep[s] EXCEPT !.owes = {}] \in Sweep
  BY <1>2 DEF Sweep
<1>4. sweep' \in [Sweepers -> Sweep] /\ Located'
  BY <1>2, <1>3 DEF Emit, Inductive, TypeOK, Located, Existing, db, Sweep
<1> QED BY <1>1, <1>4 DEF Emit, Inductive, TypeOK, db

LEMMA CrashInductive ==
  ASSUME Inductive, NEW s \in Sweepers, CrashSweep(s) \/ FailSweep(s)
  PROVE  Inductive'
<1>1. CASE CrashSweep(s)
  BY <1>1 DEF CrashSweep, Inductive, TypeOK, Located, Existing, Idle, db, Sweep
<1>2. CASE FailSweep(s)
  <2> DEFINE x == IF sweep[s].pass \in Breaches
                    THEN [sweep[s] EXCEPT !.pass = "slaResolutionBreached", !.found = {}]
                    ELSE Idle
  <2>1. sweep[s] \in Sweep
    BY DEF Inductive, TypeOK
  <2>2. x \in Sweep /\ x.found = {} /\ (x.pass = "idle" => x.owes = {})
    BY <2>1 DEF Sweep, Idle, Flags
  <2>3. sweep' = [sweep EXCEPT ![s] = x]
    BY <1>2 DEF FailSweep
  <2>4. sweep' \in [Sweepers -> Sweep]
    BY <2>2, <2>3 DEF Inductive, TypeOK
  <2>5. Located'
    BY <1>2, <2>2, <2>3 DEF FailSweep, Inductive, TypeOK, Located, Existing, db
  <2> QED BY <1>2, <2>4, <2>5 DEF FailSweep, Inductive, TypeOK, db
<1> QED BY <1>1, <1>2

LEMMA WakeInductive ==
  ASSUME Inductive, NEW w \in Wakers, WakeStep(w)
  PROVE  Inductive'
<1>1. CASE FindSnoozed(w)
  BY <1>1 DEF FindSnoozed, Inductive, TypeOK, Located, Existing, db, hist
<1>2. CASE \E t \in Tickets : Unsnooze(w, t)
  <2> PICK t \in Tickets : Unsnooze(w, t)
    BY <1>2
  <2>1. t \in Existing /\ row[t] \in Row
    BY DEF Unsnooze, Inductive, TypeOK, Located, Existing
  <2>2. [row[t] EXCEPT !.snoozedUntil = Never] \in Row
    BY <2>1 DEF Row, Never
  <2>3. row' \in [Tickets -> Row \cup {NoRow}] /\ Existing' = Existing
    BY <2>1, <2>2, Overwrite DEF Unsnooze, Inductive, TypeOK
  <2> QED BY <2>3 DEF Unsnooze, Inductive, TypeOK, Located, hist
<1> QED BY <1>1, <1>2 DEF WakeStep

LEMMA TickInductive == Inductive /\ Tick => Inductive'
  BY DEF Tick, Inductive, TypeOK, Located, Existing, hist

-----------------------------------------------------------------------------
(* Requests. *)

LEMMA CreateInductive ==
  ASSUME Inductive, NEW r \in Requests, NEW t \in Tickets, Create(r, t)
  PROVE  Inductive'
<1>1. PICK due \in [Kinds -> Nat], tags \in BOOLEAN :
        /\ row' = [row EXCEPT ![t] = NewRow(due)]
        /\ request' = [request EXCEPT ![r] =
             IF tags THEN [pc |-> "saveTags", ticket |-> t, copy |-> row'[t],
                           write |-> [to |-> Keep, stamp |-> Never, snooze |-> Never]]
                     ELSE Done]
  <2>1. [k \in Kinds |-> Never] \in [Kinds -> Nat]
    BY DEF Never
  <2>2. [k \in Kinds |-> now + Minutes[k]] \in [Kinds -> Nat]
    BY MinutesAssumption DEF Inductive, TypeOK
  <2> QED BY <2>1, <2>2 DEF Create
<1>2. NewRow(due) \in Row /\ NewRow(due) # NoRow
  BY NewRowType, RowsDiffer
<1>3. row' \in [Tickets -> Row \cup {NoRow}] /\ row'[t] = NewRow(due)
  BY <1>1, <1>2 DEF Inductive, TypeOK
<1>4. Existing \subseteq Existing' /\ t \in Existing'
  BY <1>1, <1>2, <1>3 DEF Inductive, TypeOK, Existing
<1>5. request' \in [Requests -> Handler]
  BY <1>1, <1>2, <1>3 DEF Inductive, TypeOK, Handler, Done, Write, Keep, Never
<1>6. \A q \in Requests : request'[q].pc \notin {"ready", "done"}
                           => request'[q].ticket \in Existing'
  BY <1>1, <1>4 DEF Inductive, TypeOK, Located, Done
<1> QED BY <1>3, <1>4, <1>5, <1>6 DEF Create, Inductive, TypeOK, Located, hist

LEMMA ReadForUpdateInductive ==
  ASSUME Inductive, NEW r \in Requests, NEW t \in Tickets, ReadForUpdate(r, t)
  PROVE  Inductive'
<1>1. t \in Existing /\ row[t] \in Row /\ now \in Nat
  BY DEF ReadForUpdate, Inductive, TypeOK, Existing
<1>2. PICK pc \in {"saveTags", "write"}, w \in Write :
        request' = [request EXCEPT ![r] =
          [pc |-> pc, ticket |-> t, copy |-> row[t], write |-> w]]
  <2>1. PICK u \in Updates :
          \E until \in IF u.snooze THEN (now + 1) .. (MaxTime + 1) ELSE {Never} :
            LET closes == /\ u.status = Solved /\ row[t].status # Solved
                          /\ row[t].closedAt = Never
            IN request' = [request EXCEPT ![r] =
                 [pc |-> IF u.tags THEN "saveTags" ELSE "write",
                  ticket |-> t, copy |-> row[t],
                  write |-> [to |-> u.status,
                             stamp |-> IF closes THEN now ELSE Never,
                             snooze |-> until]]]
    BY DEF ReadForUpdate
  <2>2. u.status \in {Open, Solved, Keep}
    BY UpdatesAssumption
  <2>3. PICK until \in IF u.snooze THEN (now + 1) .. (MaxTime + 1) ELSE {Never} :
          LET closes == /\ u.status = Solved /\ row[t].status # Solved
                        /\ row[t].closedAt = Never
          IN request' = [request EXCEPT ![r] =
               [pc |-> IF u.tags THEN "saveTags" ELSE "write",
                ticket |-> t, copy |-> row[t],
                write |-> [to |-> u.status,
                           stamp |-> IF closes THEN now ELSE Never,
                           snooze |-> until]]]
    BY <2>1
  <2>4. until \in Nat
    BY <1>1, BoundsAssumption DEF Never
  <2> DEFINE stamp == IF /\ u.status = Solved /\ row[t].status # Solved
                         /\ row[t].closedAt = Never THEN now ELSE Never
             pc == IF u.tags THEN "saveTags" ELSE "write"
             w == [to |-> u.status, stamp |-> stamp, snooze |-> until]
  <2>5. stamp \in Nat /\ pc \in {"saveTags", "write"}
    BY <1>1 DEF Never
  <2>6. w \in Write
    BY <2>2, <2>4, <2>5 DEF Write
  <2>7. request' = [request EXCEPT ![r] =
          [pc |-> pc, ticket |-> t, copy |-> row[t], write |-> w]]
    BY <2>3
  <2> QED BY <2>5, <2>6, <2>7
<1>3. request' \in [Requests -> Handler]
  BY <1>1, <1>2 DEF Inductive, TypeOK, Handler
<1>4. \A q \in Requests : request'[q].pc \notin {"ready", "done"}
                           => request'[q].ticket \in Existing
  BY <1>1, <1>2 DEF Inductive, TypeOK, Located
<1> QED BY <1>3, <1>4 DEF ReadForUpdate, Inductive, TypeOK, Located, Existing, db, hist

LEMMA ReadForReplyInductive ==
  ASSUME Inductive, NEW r \in Requests, NEW t \in Tickets, ReadForReply(r, t)
  PROVE  Inductive'
<1>1. /\ request' = [request EXCEPT ![r] = [pc |-> "respond", ticket |-> t]]
         \/ request' = [request EXCEPT ![r] = Done]
      /\ t \in Existing
  BY DEF ReadForReply
<1>2. request' \in [Requests -> Handler]
  BY <1>1 DEF Inductive, TypeOK, Handler, Done
<1>3. \A q \in Requests : request'[q].pc \notin {"ready", "done"}
                           => request'[q].ticket \in Existing
  BY <1>1 DEF Inductive, TypeOK, Located, Done
<1> QED BY <1>2, <1>3 DEF ReadForReply, Inductive, TypeOK, Located, Existing, db, hist

\* A request that writes over one existing row and ends, or goes on with the copy
\* it holds, keeps everything.
LEMMA WriteInductive ==
  ASSUME Inductive, NEW r \in Requests, NEW t \in Existing, NEW x \in Row,
         row' = [row EXCEPT ![t] = x],
         \/ request' = [request EXCEPT ![r] = Done]
         \/ /\ request[r].pc = "saveTags"
            /\ request' = [request EXCEPT ![r] = [request[r] EXCEPT !.pc = "write"]],
         lost' \in [Tickets -> [Flags -> Nat]], stale' \subseteq Tickets,
         UNCHANGED <<now, sweep, wake, claims, announced, crashes>>
  PROVE  Inductive'
<1>1. row' \in [Tickets -> Row \cup {NoRow}] /\ Existing' = Existing
  BY Overwrite DEF Inductive, TypeOK
<1>2. CASE request' = [request EXCEPT ![r] = Done]
  <2>1. request' \in [Requests -> Handler]
    BY <1>2 DEF Inductive, TypeOK, Handler, Done
  <2>2. \A q \in Requests : request'[q].pc \notin {"ready", "done"}
                             => request'[q].ticket \in Existing
    BY <1>2 DEF Inductive, TypeOK, Located, Done
  <2> QED BY <1>1, <2>1, <2>2 DEF Inductive, TypeOK, Located
<1>3. CASE /\ request[r].pc = "saveTags"
           /\ request' = [request EXCEPT ![r] = [request[r] EXCEPT !.pc = "write"]]
  <2>1. request[r] \in Handler /\ request[r].ticket \in Existing
    BY <1>3 DEF Inductive, TypeOK, Located
  <2>2. [request[r] EXCEPT !.pc = "write"] \in Handler
    BY <1>3, <2>1 DEF Handler
  <2>3. [request[r] EXCEPT !.pc = "write"].ticket \in Existing
    BY <1>3, <2>1 DEF Handler
  <2>4. request' \in [Requests -> Handler]
    BY <1>3, <2>2 DEF Inductive, TypeOK
  <2>5. \A q \in Requests : request'[q].pc \notin {"ready", "done"}
                             => request'[q].ticket \in Existing
    BY <1>3, <2>3 DEF Inductive, TypeOK, Located
  <2> QED BY <1>1, <2>4, <2>5 DEF Inductive, TypeOK, Located
<1> QED BY <1>2, <1>3

LEMMA RequestInductive ==
  ASSUME Inductive, NEW r \in Requests, Arrive(r) \/ Continue(r)
  PROVE  Inductive'
<1>1. CASE \E t \in Tickets : Merge(r, t) \/ UnsnoozeNow(r, t)
  <2> PICK t \in Tickets : Merge(r, t) \/ UnsnoozeNow(r, t)
    BY <1>1
  <2>1. t \in Existing /\ row[t] \in Row
    BY DEF Merge, UnsnoozeNow, Inductive, TypeOK, Existing
  <2>2. PICK x \in Row : row' = [row EXCEPT ![t] = x]
    <3>1. [row[t] EXCEPT !.merged = TRUE] \in Row
          /\ [row[t] EXCEPT !.snoozedUntil = Never] \in Row
      BY <2>1 DEF Row, Never
    <3> QED BY <3>1 DEF Merge, UnsnoozeNow
  <2>3. /\ request' = [request EXCEPT ![r] = Done]
        /\ UNCHANGED <<now, sweep, wake, hist>>
    BY DEF Merge, UnsnoozeNow
  <2>4. lost' \in [Tickets -> [Flags -> Nat]] /\ stale' \subseteq Tickets
    BY <2>3 DEF Inductive, TypeOK, hist
  <2> QED BY <2>1, <2>2, <2>3, <2>4, WriteInductive DEF hist
<1>2. CASE SaveTags(r)
  <2> DEFINE t == request[r].ticket
             x == request[r].copy
  <2>1. request[r] \in Handler /\ t \in Existing /\ request[r].pc = "saveTags"
    BY <1>2 DEF SaveTags, Inductive, TypeOK, Located
  <2>2. x \in Row
    BY <2>1 DEF Handler
  <2>3. row' = [row EXCEPT ![t] = x]
    BY <1>2 DEF SaveTags
  <2>4. lost' \in [Tickets -> [Flags -> Nat]]
    <3>1. lost' = [lost EXCEPT ![t] = [f \in Flags |->
             lost[t][f] + (IF row[t].flag[f] /\ ~row'[t].flag[f] THEN 1 ELSE 0)]]
      BY <1>2 DEF SaveTags
    <3>2. t \in Tickets
      BY <2>1 DEF Existing
    <3>3. [f \in Flags |->
             lost[t][f] + (IF row[t].flag[f] /\ ~row'[t].flag[f] THEN 1 ELSE 0)]
            \in [Flags -> Nat]
      BY <3>2 DEF Inductive, TypeOK
    <3> QED BY <3>1, <3>2, <3>3 DEF Inductive, TypeOK
  <2>5. stale' \subseteq Tickets
    BY <1>2, <2>1 DEF SaveTags, Inductive, TypeOK, Existing
  <2>6. /\ request' = [request EXCEPT ![r] = [request[r] EXCEPT !.pc = "write"]]
        /\ UNCHANGED <<now, sweep, wake, claims, announced, crashes>>
    BY <1>2 DEF SaveTags
  <2> QED BY <2>1, <2>2, <2>3, <2>4, <2>5, <2>6, WriteInductive
<1>3. CASE WriteUpdate(r) \/ FirstResponse(r)
  <2> DEFINE t == request[r].ticket
  <2>1. request[r] \in Handler /\ t \in Existing /\ request[r].pc \in {"write", "respond"}
    BY <1>3 DEF WriteUpdate, FirstResponse, Inductive, TypeOK, Located
  <2>2. row[t] \in Row /\ now \in Nat
    BY <2>1 DEF Inductive, TypeOK, Existing
  <2>3. PICK x \in Row : row' = [row EXCEPT ![t] = x]
    <3>1. CASE WriteUpdate(r)
      <4> DEFINE w == request[r].write
      <4>1. w \in Write
        BY <3>1, <2>1 DEF WriteUpdate, Handler
      <4>2. [row[t].met EXCEPT !["resolution"] = w.stamp] \in [Kinds -> Nat]
        BY <4>1, <2>2 DEF Row, Write
      <4>3. Updated(row[t], w) \in Row
        BY <4>1, <4>2, <2>2 DEF Updated, Row, Write, Keep
      <4> QED BY <3>1, <4>3 DEF WriteUpdate
    <3>2. CASE FirstResponse(r)
      <4>1. [row[t].met EXCEPT !["first_response"] = now] \in [Kinds -> Nat]
        BY <2>2 DEF Row
      <4>2. Answered(row[t], now) \in Row
        BY <4>1, <2>2 DEF Answered, Row
      <4> QED BY <3>2, <4>2 DEF FirstResponse
    <3> QED BY <1>3, <3>1, <3>2
  <2>4. /\ request' = [request EXCEPT ![r] = Done]
        /\ UNCHANGED <<now, sweep, wake, hist>>
    BY <1>3 DEF WriteUpdate, FirstResponse
  <2>5. lost' \in [Tickets -> [Flags -> Nat]] /\ stale' \subseteq Tickets
    BY <2>4 DEF Inductive, TypeOK, hist
  <2> QED BY <2>1, <2>3, <2>4, <2>5, WriteInductive DEF hist
<1> QED BY <1>1, <1>2, <1>3, CreateInductive, ReadForUpdateInductive,
           ReadForReplyInductive DEF Arrive, Continue

LEMMA NextInductive == Inductive /\ [Next]_vars => Inductive'
<1> SUFFICES ASSUME Inductive, [Next]_vars PROVE Inductive'
  OBVIOUS
<1>1. CASE Tick
  BY <1>1, TickInductive
<1>2. ASSUME NEW s \in Sweepers, SweepStep(s) \/ CrashSweep(s) \/ FailSweep(s)
      PROVE  Inductive'
  BY <1>2, NextQueryInductive, EmitInductive, FlagInductive, CrashInductive DEF SweepStep
<1>3. ASSUME NEW w \in Wakers, WakeStep(w) PROVE Inductive'
  BY <1>3, WakeInductive
<1>4. ASSUME NEW r \in Requests, Arrive(r) \/ Continue(r) PROVE Inductive'
  BY <1>4, RequestInductive
<1>5. CASE UNCHANGED vars
  BY <1>5 DEF vars, Inductive, TypeOK, Located, Existing
<1> QED BY <1>1, <1>2, <1>3, <1>4, <1>5 DEF Next

\* The tickets table, the sweeps and the handlers keep their types in every
\* reachable state, and whatever they hold names a ticket that exists.
THEOREM TypeCorrect == Spec => []Inductive
<1>1. Init => Inductive
  BY InitInductive
<1>2. Inductive /\ [Next]_vars => Inductive'
  BY NextInductive
<1> QED BY <1>1, <1>2, PTL DEF Spec

THEOREM TypeInvariant == Spec => []TypeOK
<1>1. Inductive => TypeOK
  BY DEF Inductive
<1> QED BY <1>1, TypeCorrect, PTL

-----------------------------------------------------------------------------
(* The law of the conditional updates. *)

\* A step that clears no flag and counts nothing keeps the law.
LEMMA NoFlagCleared ==
  ASSUME Inductive, NoticeLaw, UNCHANGED <<claims, lost>>,
         \A t \in Tickets, f \in Flags : FlaggedIn(row, t, f) => FlaggedIn(row', t, f)
  PROVE  NoticeLaw'
  BY DEF NoticeLaw, Flagged, Inductive, TypeOK

\* Nor does writing columns other than the flags over an existing row.
LEMMA FlagsUntouched ==
  ASSUME Inductive, NoticeLaw, UNCHANGED <<claims, lost>>,
         NEW t \in Existing, NEW x \in Row, x.flag = row[t].flag,
         row' = [row EXCEPT ![t] = x]
  PROVE  NoticeLaw'
<1>1. Existing' = Existing
  BY Overwrite DEF Inductive, TypeOK
<1>2. \A u \in Tickets, f \in Flags : FlaggedIn(row, u, f) => FlaggedIn(row', u, f)
  BY <1>1 DEF FlaggedIn, Inductive, TypeOK, Existing
<1> QED BY <1>2, NoFlagCleared

\* The flags after a row is written over an existing one.
LEMMA FlagsWritten ==
  ASSUME row \in [Tickets -> Row \cup {NoRow}],
         NEW t \in Existing, NEW x \in Row,
         row' = [row EXCEPT ![t] = x]
  PROVE  /\ \A g \in Flags : FlaggedIn(row', t, g) <=> x.flag[g]
         /\ \A g \in Flags : FlaggedIn(row, t, g) <=> row[t].flag[g]
         /\ \A u \in Tickets, g \in Flags : u # t => (FlaggedIn(row', u, g) <=> FlaggedIn(row, u, g))
<1>1. Existing' = Existing /\ t \in Tickets
  BY Overwrite DEF Existing
<1>2. row'[t] = x /\ \A u \in Tickets : u # t => row'[u] = row[u]
  BY <1>1
<1>3. row[t] # NoRow /\ x # NoRow
  BY RowsDiffer DEF Existing
<1> QED BY <1>2, <1>3 DEF FlaggedIn

LEMMA FlagLaw ==
  ASSUME Inductive, NoticeLaw, NEW s \in Sweepers, NEW t \in Tickets, Flag(s, t)
  PROVE  NoticeLaw'
<1> DEFINE f == sweep[s].pass
<1>1. f \in Flags /\ t \in Existing /\ row[t] \in Row
  <2>1. t \in sweep[s].found
    BY DEF Flag
  <2> QED BY <2>1 DEF Inductive, TypeOK, Located, Existing, Sweep
<1>2. CASE ~row[t].flag[f]
  <2>1. row' = [row EXCEPT ![t] = Raise(row[t], f)] /\ claims' = Count(claims, t, f)
        /\ lost' = lost
    BY <1>2 DEF Flag
  <2>2. /\ claims'[t][f] = claims[t][f] + 1
        /\ \A u \in Tickets, g \in Flags :
             u # t \/ g # f => claims'[u][g] = claims[u][g]
    BY <1>1, <2>1 DEF Count, Inductive, TypeOK
  <2>3. Raise(row[t], f) \in Row /\ Existing' = Existing
    BY <1>1, <2>1, RaiseType, Overwrite DEF Inductive, TypeOK
  <2>4. Raise(row[t], f).flag = [row[t].flag EXCEPT ![f] = TRUE]
    BY <1>1 DEF Raise, Row
  <2>5. /\ \A g \in Flags : FlaggedIn(row', t, g) <=> Raise(row[t], f).flag[g]
        /\ \A g \in Flags : FlaggedIn(row, t, g) <=> row[t].flag[g]
        /\ \A u \in Tickets, g \in Flags : u # t => (FlaggedIn(row', u, g) <=> FlaggedIn(row, u, g))
    BY <1>1, <2>1, <2>3, FlagsWritten DEF Inductive, TypeOK
  <2>6. ASSUME NEW u \in Tickets, NEW g \in Flags
        PROVE  /\ claims'[u][g] <= lost'[u][g] + 1
               /\ ~FlaggedIn(row', u, g) => claims'[u][g] <= lost'[u][g]
    <3>1. /\ claims[u][g] <= lost[u][g] + 1
          /\ ~FlaggedIn(row, u, g) => claims[u][g] <= lost[u][g]
      BY DEF NoticeLaw, Flagged
    <3>2. claims[u][g] \in Nat /\ lost[u][g] \in Nat /\ lost' = lost
      BY <2>1 DEF Inductive, TypeOK
    <3>3. CASE u = t /\ g = f
      <4>1. ~FlaggedIn(row, t, f)
        BY <1>1, <1>2, <2>5
      <4>2. Raise(row[t], f).flag[f]
        BY <1>1, <2>4 DEF Row
      <4>3. FlaggedIn(row', t, f)
        BY <1>1, <2>5, <4>2
      <4>4. claims[t][f] <= lost[t][f]
        BY <1>1, <3>1, <3>3, <4>1
      <4>5. FlaggedIn(row', u, g)
        BY <3>3, <4>3 DEF FlaggedIn
      <4> QED BY <2>2, <3>2, <3>3, <4>4, <4>5
    <3>4. CASE u = t /\ g # f
      <4>1. claims'[u][g] = claims[u][g]
        BY <2>2, <3>4
      <4>2. Raise(row[t], f).flag[g] <=> row[t].flag[g]
        BY <1>1, <2>4, <3>4 DEF Row
      <4>3. FlaggedIn(row', t, g) <=> FlaggedIn(row, t, g)
        BY <2>5, <4>2
      <4>4. FlaggedIn(row', u, g) <=> FlaggedIn(row, u, g)
        BY <3>4, <4>3 DEF FlaggedIn
      <4> QED BY <3>1, <3>2, <4>1, <4>4
    <3>5. CASE u # t
      <4>1. claims'[u][g] = claims[u][g]
        BY <2>2, <3>5
      <4> QED BY <2>5, <3>1, <3>2, <3>5, <4>1
    <3> QED BY <3>3, <3>4, <3>5
  <2> QED BY <2>6 DEF NoticeLaw, Flagged
<1>3. CASE row[t].flag[f]
  <2>1. UNCHANGED <<row, claims, lost>>
    BY <1>3 DEF Flag
  <2> QED BY <2>1, NoFlagCleared DEF FlaggedIn, Existing
<1> QED BY <1>2, <1>3

LEMMA SaveLaw ==
  ASSUME Inductive, NoticeLaw, NEW r \in Requests, SaveTags(r)
  PROVE  NoticeLaw'
<1> DEFINE t == request[r].ticket
           x == request[r].copy
<1>1. request[r] \in Handler /\ t \in Existing /\ request[r].pc = "saveTags"
  BY DEF SaveTags, Inductive, TypeOK, Located
<1>2. x \in Row /\ row' = [row EXCEPT ![t] = x] /\ claims' = claims
  BY <1>1 DEF SaveTags, Handler
<1>3. lost' = [lost EXCEPT ![t] = [f \in Flags |->
         lost[t][f] + (IF row[t].flag[f] /\ ~row'[t].flag[f] THEN 1 ELSE 0)]]
  BY DEF SaveTags
<1>4. t \in Tickets /\ Existing' = Existing
  BY <1>1, <1>2, Overwrite DEF Existing, Inductive, TypeOK
<1>5. /\ \A g \in Flags : FlaggedIn(row', t, g) <=> x.flag[g]
      /\ \A g \in Flags : FlaggedIn(row, t, g) <=> row[t].flag[g]
      /\ \A u \in Tickets, g \in Flags : u # t => (FlaggedIn(row', u, g) <=> FlaggedIn(row, u, g))
  BY <1>1, <1>2, FlagsWritten DEF Inductive, TypeOK
<1>6. row'[t] = x
  BY <1>2, <1>4 DEF Inductive, TypeOK
<1>7. ASSUME NEW u \in Tickets, NEW g \in Flags
      PROVE  /\ claims'[u][g] <= lost'[u][g] + 1
             /\ ~FlaggedIn(row', u, g) => claims'[u][g] <= lost'[u][g]
  <2>1. /\ claims[u][g] <= lost[u][g] + 1
        /\ ~FlaggedIn(row, u, g) => claims[u][g] <= lost[u][g]
    BY DEF NoticeLaw, Flagged
  <2>2. claims[u][g] \in Nat /\ lost[u][g] \in Nat /\ claims' = claims
    BY <1>2 DEF Inductive, TypeOK
  <2>3. CASE u = t
    <3>1. lost'[t][g] = lost[t][g] + (IF row[t].flag[g] /\ ~x.flag[g] THEN 1 ELSE 0)
      BY <1>3, <1>4, <1>6 DEF Inductive, TypeOK
    <3>2. CASE row[t].flag[g] /\ ~x.flag[g]
      BY <2>1, <2>2, <2>3, <3>1, <3>2
    <3>3. CASE ~(row[t].flag[g] /\ ~x.flag[g])
      <4>1. lost'[u][g] = lost[u][g]
        BY <2>2, <2>3, <3>1, <3>3
      <4>2. ~FlaggedIn(row', t, g) => ~FlaggedIn(row, t, g)
        BY <1>5, <3>3
      <4>3. ~FlaggedIn(row', u, g) => ~FlaggedIn(row, u, g)
        BY <2>3, <4>2 DEF FlaggedIn
      <4> QED BY <2>1, <2>2, <4>1, <4>3
    <3> QED BY <3>2, <3>3
  <2>4. CASE u # t
    <3>1. lost'[u] = lost[u]
      BY <1>3, <2>4 DEF Inductive, TypeOK
    <3> QED BY <1>5, <2>1, <2>2, <2>4, <3>1
  <2> QED BY <2>3, <2>4
<1> QED BY <1>7 DEF NoticeLaw, Flagged

LEMMA RequestLaw ==
  ASSUME Inductive, NoticeLaw, NEW r \in Requests, Arrive(r) \/ Continue(r)
  PROVE  NoticeLaw'
<1>1. ASSUME NEW t \in Tickets, Create(r, t) PROVE NoticeLaw'
  <2>1. \A f \in Flags : ~FlaggedIn(row, t, f)
    BY <1>1 DEF Create, FlaggedIn, Existing
  <2>2. \A u \in Tickets : u # t => row'[u] = row[u]
    BY <1>1 DEF Create, Inductive, TypeOK
  <2>3. \A u \in Tickets, f \in Flags : FlaggedIn(row, u, f) => FlaggedIn(row', u, f)
    BY <2>1, <2>2 DEF FlaggedIn, Existing
  <2> QED BY <1>1, <2>3, NoFlagCleared DEF Create, hist
<1>2. ASSUME NEW t \in Tickets, ReadForUpdate(r, t) \/ ReadForReply(r, t)
      PROVE  NoticeLaw'
  BY <1>2, NoFlagCleared DEF ReadForUpdate, ReadForReply, db, hist, FlaggedIn, Existing
<1>3. ASSUME NEW t \in Tickets, Merge(r, t) \/ UnsnoozeNow(r, t) PROVE NoticeLaw'
  <2>1. t \in Existing /\ row[t] \in Row /\ UNCHANGED <<claims, lost>>
    BY <1>3 DEF Merge, UnsnoozeNow, Inductive, TypeOK, Existing, hist
  <2>2. PICK x \in Row : row' = [row EXCEPT ![t] = x] /\ x.flag = row[t].flag
    <3>1. /\ [row[t] EXCEPT !.merged = TRUE] \in Row
          /\ [row[t] EXCEPT !.snoozedUntil = Never] \in Row
      BY <2>1 DEF Row, Never
    <3>2. /\ [row[t] EXCEPT !.merged = TRUE].flag = row[t].flag
          /\ [row[t] EXCEPT !.snoozedUntil = Never].flag = row[t].flag
      BY <2>1 DEF Row
    <3> QED BY <1>3, <3>1, <3>2 DEF Merge, UnsnoozeNow
  <2> QED BY <2>1, <2>2, FlagsUntouched
<1>4. CASE SaveTags(r)
  BY <1>4, SaveLaw
<1>5. CASE WriteUpdate(r) \/ FirstResponse(r)
  <2> DEFINE t == request[r].ticket
  <2>1. request[r] \in Handler /\ t \in Existing /\ request[r].pc \in {"write", "respond"}
    BY <1>5 DEF WriteUpdate, FirstResponse, Inductive, TypeOK, Located
  <2>2. row[t] \in Row /\ now \in Nat /\ UNCHANGED <<claims, lost>>
    BY <1>5, <2>1 DEF WriteUpdate, FirstResponse, Inductive, TypeOK, Existing, hist
  <2>3. PICK x \in Row : row' = [row EXCEPT ![t] = x] /\ x.flag = row[t].flag
    <3>1. CASE WriteUpdate(r)
      <4> DEFINE w == request[r].write
      <4>1. w \in Write
        BY <3>1, <2>1 DEF WriteUpdate, Handler
      <4>2. [row[t].met EXCEPT !["resolution"] = w.stamp] \in [Kinds -> Nat]
        BY <4>1, <2>2 DEF Row, Write
      <4>3. Updated(row[t], w) \in Row /\ Updated(row[t], w).flag = row[t].flag
        BY <4>1, <4>2, <2>2 DEF Updated, Row, Write, Keep
      <4> QED BY <3>1, <4>3 DEF WriteUpdate
    <3>2. CASE FirstResponse(r)
      <4>1. [row[t].met EXCEPT !["first_response"] = now] \in [Kinds -> Nat]
        BY <2>2 DEF Row
      <4>2. Answered(row[t], now) \in Row /\ Answered(row[t], now).flag = row[t].flag
        BY <4>1, <2>2 DEF Answered, Row
      <4> QED BY <3>2, <4>2 DEF FirstResponse
    <3> QED BY <1>5, <3>1, <3>2
  <2> QED BY <2>1, <2>2, <2>3, FlagsUntouched
<1> QED BY <1>1, <1>2, <1>3, <1>4, <1>5 DEF Arrive, Continue

LEMMA NextLaw == Inductive /\ NoticeLaw /\ [Next]_vars => NoticeLaw'
<1> SUFFICES ASSUME Inductive, NoticeLaw, [Next]_vars PROVE NoticeLaw'
  OBVIOUS
<1>1. CASE Tick
  BY <1>1, NoFlagCleared DEF Tick, FlaggedIn, Existing, hist
<1>2. ASSUME NEW s \in Sweepers,
             NextQuery(s) \/ Emit(s) \/ CrashSweep(s) \/ FailSweep(s)
      PROVE  NoticeLaw'
  BY <1>2, NoFlagCleared DEF NextQuery, Emit, CrashSweep, FailSweep, db, hist, FlaggedIn, Existing
<1>3. ASSUME NEW s \in Sweepers, NEW t \in Tickets, Flag(s, t) PROVE NoticeLaw'
  BY <1>3, FlagLaw
<1>4. ASSUME NEW w \in Wakers, FindSnoozed(w) PROVE NoticeLaw'
  BY <1>4, NoFlagCleared DEF FindSnoozed, db, hist, FlaggedIn, Existing
<1>5. ASSUME NEW w \in Wakers, NEW t \in Tickets, Unsnooze(w, t) PROVE NoticeLaw'
  <2>1. t \in Existing /\ row[t] \in Row /\ UNCHANGED <<claims, lost>>
    BY <1>5 DEF Unsnooze, Inductive, TypeOK, Located, Existing, hist
  <2>2. /\ [row[t] EXCEPT !.snoozedUntil = Never] \in Row
        /\ [row[t] EXCEPT !.snoozedUntil = Never].flag = row[t].flag
    BY <2>1 DEF Row, Never
  <2> QED BY <1>5, <2>1, <2>2, FlagsUntouched DEF Unsnooze
<1>6. ASSUME NEW r \in Requests, Arrive(r) \/ Continue(r) PROVE NoticeLaw'
  BY <1>6, RequestLaw
<1>7. CASE UNCHANGED vars
  BY <1>7, NoFlagCleared DEF vars, FlaggedIn, Existing
<1> QED BY <1>1, <1>2, <1>3, <1>4, <1>5, <1>6, <1>7 DEF Next, SweepStep, WakeStep

\* For any number of overlapping sweeps and requests, a breach or warning flag is
\* won once more than whole-row saves cleared it, and no more than that.
THEOREM FlagWonOnce == Spec => []NoticeLaw
<1>1. Init => NoticeLaw
  BY DEF Init, NoticeLaw, FlaggedIn, Existing
<1>2. Inductive /\ NoticeLaw /\ [Next]_vars => NoticeLaw'
  BY NextLaw
<1> QED BY <1>1, <1>2, TypeCorrect, PTL DEF Spec

-----------------------------------------------------------------------------
(* Flags that say what is so. *)

FirstFlags == {"slaFirstResponseBreached", "slaFirstResponseWarned"}

Agrees(r) == r.slaBreached <=> \E f \in Breaches : r.flag[f]
RowsAgree ==
  /\ \A t \in Existing : Agrees(row[t])
  /\ \A r \in Requests : request[r].pc = "saveTags" => Agrees(request[r].copy)

\* At that time the deadline of the flag had come, with no answer before it.
Ripe(r, f, at) ==
  LET due == r.due["first_response"]  met == r.met["first_response"] IN
  /\ IF f \in Breaches THEN due < at ELSE due <= at + Window
  /\ met = Never \/ at <= met

\* A flag was ripe when its query ran, and so is what a sweep has found, unless an older
\* row was put back since.
FlagsRipe ==
  \A t \in Existing \ stale, f \in FirstFlags :
    row[t].flag[f] => \E at \in 0 .. now : Ripe(row[t], f, at)
FoundRipe ==
  \A s \in Sweepers :
    /\ sweep[s].at <= now
    /\ \A t \in sweep[s].found \ stale :
         sweep[s].pass \in FirstFlags => Ripe(row[t], sweep[s].pass, sweep[s].at)

Honest == RowsAgree /\ FlagsRipe /\ FoundRipe

\* An answer comes now, after every query that is under way or done.
LEMMA RipeKept ==
  ASSUME now \in Nat, NEW r, NEW x, x.due = r.due,
         x.met["first_response"] \in {r.met["first_response"], now},
         NEW f, NEW at \in Nat, at <= now, Ripe(r, f, at)
  PROVE  Ripe(x, f, at)
BY DEF Ripe

LEMMA HonestTypes ==
  ASSUME Inductive
  PROVE  /\ row \in [Tickets -> Row \cup {NoRow}] /\ now \in Nat
         /\ \A t \in Existing : t \in Tickets /\ row[t] \in Row
         /\ \A s \in Sweepers : /\ sweep[s] \in Sweep /\ sweep[s].at \in Nat
                                /\ sweep[s].found \subseteq Existing
                                /\ sweep[s].pass \in Flags \cup {"idle"}
BY DEF Inductive, TypeOK, Located, Existing, Sweep

\* A step that writes no row.
LEMMA HonestStill ==
  ASSUME Inductive, Honest, UNCHANGED <<row, stale>>, now' \in Nat, now <= now',
         \A s \in Sweepers :
           /\ sweep'[s].at <= now'
           /\ \A t \in sweep'[s].found \ stale :
                sweep'[s].pass \in FirstFlags => Ripe(row[t], sweep'[s].pass, sweep'[s].at),
         \A r \in Requests : request'[r].pc = "saveTags" =>
           request'[r] = request[r] \/ Agrees(request'[r].copy)
  PROVE  Honest'
<1>1. Existing' = Existing
  BY DEF Existing
<1>2. RowsAgree'
  BY <1>1 DEF Honest, RowsAgree
<1>3. FlagsRipe'
  <2>1. 0 .. now \subseteq 0 .. now'
    BY HonestTypes
  <2> QED  BY <1>1, <2>1 DEF Honest, FlagsRipe
<1>4. FoundRipe'
  BY DEF FoundRipe
<1> QED  BY <1>2, <1>3, <1>4 DEF Honest

\* A step that writes other columns of a row than its flags, or the time of an answer.
LEMMA HonestWrite ==
  ASSUME Inductive, Honest, NEW t \in Existing, NEW x \in Row,
         row' = [row EXCEPT ![t] = x],
         x.flag = row[t].flag, x.slaBreached = row[t].slaBreached, x.due = row[t].due,
         x.met["first_response"] \in {row[t].met["first_response"], now},
         UNCHANGED <<now, sweep, stale>>,
         \A r \in Requests : request'[r].pc = "saveTags" => request'[r] = request[r]
  PROVE  Honest'
<1>1. /\ row \in [Tickets -> Row \cup {NoRow}] /\ now \in Nat
      /\ \A u \in Existing : u \in Tickets /\ row[u] \in Row
  BY HonestTypes
<1>2. Existing' = Existing
  BY <1>1, Overwrite
<1>3. row'[t] = x /\ \A u \in Existing : u # t => row'[u] = row[u]
  BY <1>1
<1>4. \A u \in Existing : /\ row'[u].flag = row[u].flag
                          /\ row'[u].slaBreached = row[u].slaBreached
  BY <1>3
<1>5. ASSUME NEW u \in Existing, NEW f, NEW at \in Nat, at <= now, Ripe(row[u], f, at)
      PROVE  Ripe(row'[u], f, at)
  BY <1>1, <1>3, <1>5, RipeKept
<1>6. RowsAgree'
  BY <1>2, <1>4 DEF Honest, RowsAgree, Agrees
<1>7. FlagsRipe'
  BY <1>1, <1>2, <1>4, <1>5 DEF Honest, FlagsRipe
<1>8. FoundRipe'
  BY <1>5, HonestTypes DEF Honest, FoundRipe
<1> QED  BY <1>6, <1>7, <1>8 DEF Honest

LEMMA NextQueryHonest ==
  ASSUME Inductive, Honest, NEW s \in Sweepers, NextQuery(s)
  PROVE  Honest'
<1> DEFINE p  == NextPass(sweep[s].pass)
           q  == IF Window = 0 /\ p = "slaFirstResponseWarned" THEN "idle" ELSE p
           at == IF q \in {"slaFirstResponseBreached", "slaFirstResponseWarned"}
                   THEN now ELSE sweep[s].at
<1>1. sweep' = [sweep EXCEPT ![s] =
          IF q = "idle" THEN Idle
          ELSE [pass |-> q, at |-> at, owes |-> {},
                found |-> {t \in Existing : Matches(row[t], q, at)}]]
  BY DEF NextQuery
<1>2. at \in Nat /\ at <= now /\ sweep \in [Sweepers -> Sweep] /\ now \in Nat
  BY HonestTypes DEF Honest, FoundRipe, Inductive, TypeOK
<1>3. ASSUME NEW t \in Existing, Matches(row[t], q, at), q \in FirstFlags
      PROVE  Ripe(row[t], q, at)
  <2>1. KindOf(q) = "first_response"
    BY <1>3 DEF KindOf, FirstFlags
  <2>2. row[t].due["first_response"] \in Nat
    BY HonestTypes DEF Row, Kinds
  <2> HIDE DEF q, at
  <2>3. at .. (at + Window) \subseteq {i \in Nat : i <= at + Window}
    BY <1>2, BoundsAssumption
  <2> QED  BY <1>3, <2>1, <2>2, <2>3 DEF Matches, Ripe
<1> HIDE DEF q, at
<1>4. PICK y : /\ sweep' = [sweep EXCEPT ![s] = y] /\ y.at <= now
               /\ \A t \in y.found : y.pass \in FirstFlags => Ripe(row[t], y.pass, y.at)
  <2>1. CASE q = "idle"
    <3>1. Idle.at <= now /\ Idle.found = {}
      BY <1>2 DEF Idle
    <3> QED  BY <1>1, <2>1, <3>1
  <2>2. CASE q # "idle"
    <3> DEFINE y == [pass |-> q, at |-> at, owes |-> {},
                     found |-> {t \in Existing : Matches(row[t], q, at)}]
    <3>1. sweep' = [sweep EXCEPT ![s] = y]
      BY <1>1, <2>2
    <3>2. \A t \in y.found : y.pass \in FirstFlags => Ripe(row[t], y.pass, y.at)
      BY <1>3
    <3> QED  BY <1>2, <3>1, <3>2
  <2> QED  BY <2>1, <2>2
<1>5. UNCHANGED <<row, now, stale, request>>
  BY DEF NextQuery, db, hist
<1>6. sweep'[s] = y /\ \A z \in Sweepers : z # s => sweep'[z] = sweep[z]
  BY <1>2, <1>4
<1>7. \A z \in Sweepers :
        /\ sweep'[z].at <= now'
        /\ \A t \in sweep'[z].found \ stale :
             sweep'[z].pass \in FirstFlags => Ripe(row[t], sweep'[z].pass, sweep'[z].at)
  BY <1>4, <1>5, <1>6 DEF Honest, FoundRipe
<1> QED  BY <1>2, <1>5, <1>7, HonestStill

\* A sweep goes on with what it has found, or with less.
LEMMA SweepHonest ==
  ASSUME Inductive, Honest, NEW s \in Sweepers, Emit(s) \/ CrashSweep(s) \/ FailSweep(s)
  PROVE  Honest'
<1>1. UNCHANGED <<row, now, stale, request>> /\ now \in Nat
  BY HonestTypes DEF Emit, CrashSweep, FailSweep, db
<1>2. sweep[s] \in Sweep /\ sweep \in [Sweepers -> Sweep] /\ sweep[s].at <= now
  BY HonestTypes DEF Honest, FoundRipe, Inductive, TypeOK
<1>3. PICK y : /\ sweep' = [sweep EXCEPT ![s] = y] /\ y.at <= now
               /\ \/ y.found = {}
                  \/ /\ y.found = sweep[s].found /\ y.pass = sweep[s].pass
                     /\ y.at = sweep[s].at
  <2>1. CASE Emit(s)
    <3> DEFINE x == [sweep[s] EXCEPT !.owes = {}]
    <3>1. sweep' = [sweep EXCEPT ![s] = x]
      BY <2>1 DEF Emit
    <3>2. x.found = sweep[s].found /\ x.pass = sweep[s].pass /\ x.at = sweep[s].at
      BY <1>2 DEF Sweep
    <3> HIDE DEF x
    <3> QED  BY <1>2, <3>1, <3>2
  <2>2. Idle.at <= now /\ Idle.found = {}
    BY <1>1 DEF Idle
  <2>3. CASE CrashSweep(s)
    BY <2>2, <2>3 DEF CrashSweep
  <2>4. CASE FailSweep(s)
    <3> DEFINE x == [sweep[s] EXCEPT !.pass = "slaResolutionBreached", !.found = {}]
    <3>1. sweep' = [sweep EXCEPT ![s] = IF sweep[s].pass \in Breaches THEN x ELSE Idle]
      BY <1>2, <2>4 DEF FailSweep
    <3>2. x.at <= now /\ x.found = {}
      BY <1>2 DEF Sweep
    <3> QED  BY <2>2, <3>1, <3>2
  <2> QED  BY <2>1, <2>3, <2>4
<1>4. sweep'[s] = y /\ \A z \in Sweepers : z # s => sweep'[z] = sweep[z]
  BY <1>2, <1>3
<1>5. \A z \in Sweepers :
        /\ sweep'[z].at <= now'
        /\ \A t \in sweep'[z].found \ stale :
             sweep'[z].pass \in FirstFlags => Ripe(row[t], sweep'[z].pass, sweep'[z].at)
  BY <1>1, <1>3, <1>4 DEF Honest, FoundRipe
<1> QED  BY <1>1, <1>5, HonestStill

LEMMA RaiseFields ==
  ASSUME NEW r \in Row, NEW f \in Flags
  PROVE  /\ Raise(r, f).due = r.due /\ Raise(r, f).met = r.met
         /\ Raise(r, f).flag = [r.flag EXCEPT ![f] = TRUE]
         /\ Raise(r, f).slaBreached = IF f \in Breaches THEN TRUE ELSE r.slaBreached
BY DEF Raise, Row

LEMMA FlagHonest ==
  ASSUME Inductive, Honest, NEW s \in Sweepers, NEW t \in Tickets, Flag(s, t)
  PROVE  Honest'
<1>1. PICK f \in Flags : f = sweep[s].pass
  BY DEF Flag, Inductive, TypeOK, Located, Sweep
<1>2. /\ t \in sweep[s].found /\ t \in Existing /\ row[t] \in Row
      /\ sweep[s] \in Sweep /\ sweep \in [Sweepers -> Sweep] /\ now \in Nat
  BY HonestTypes DEF Flag, Inductive, TypeOK
<1>3. UNCHANGED <<now, stale, request>>
  BY DEF Flag
<1>4. PICK y : /\ sweep' = [sweep EXCEPT ![s] = y]
               /\ y.found = sweep[s].found \ {t} /\ y.pass = f /\ y.at = sweep[s].at
  <2> DEFINE a == [sweep[s] EXCEPT !.found = @ \ {t}, !.owes = {t}]
             b == [sweep[s] EXCEPT !.found = @ \ {t}]
  <2>1. sweep' = [sweep EXCEPT ![s] = a] \/ sweep' = [sweep EXCEPT ![s] = b]
    BY DEF Flag
  <2>2. /\ a.found = sweep[s].found \ {t} /\ a.pass = f /\ a.at = sweep[s].at
        /\ b.found = sweep[s].found \ {t} /\ b.pass = f /\ b.at = sweep[s].at
    BY <1>1, <1>2 DEF Sweep
  <2> HIDE DEF a, b
  <2> QED  BY <2>1, <2>2
<1>5. sweep'[s] = y /\ \A z \in Sweepers : z # s => sweep'[z] = sweep[z]
  BY <1>2, <1>4
<1>6. \A z \in Sweepers :
        /\ sweep'[z].at = sweep[z].at /\ sweep'[z].pass = sweep[z].pass
        /\ sweep'[z].found \subseteq sweep[z].found
  BY <1>1, <1>4, <1>5
<1>7. CASE row' = row
  <2>1. \A z \in Sweepers :
          /\ sweep'[z].at <= now'
          /\ \A u \in sweep'[z].found \ stale :
               sweep'[z].pass \in FirstFlags => Ripe(row[u], sweep'[z].pass, sweep'[z].at)
    BY <1>3, <1>6 DEF Honest, FoundRipe
  <2> QED  BY <1>2, <1>3, <1>7, <2>1, HonestStill
<1>8. CASE row' = [row EXCEPT ![t] = Raise(row[t], f)]
  <2>1. PICK x \in Row : x = Raise(row[t], f)
    BY <1>2, RaiseType
  <2>2. /\ x.due = row[t].due /\ x.met = row[t].met
        /\ x.flag = [row[t].flag EXCEPT ![f] = TRUE]
        /\ x.slaBreached = IF f \in Breaches THEN TRUE ELSE row[t].slaBreached
    BY <1>2, <2>1, RaiseFields
  <2>3. row'[t] = x /\ \A u \in Existing : u # t => row'[u] = row[u]
    BY <1>2, <1>8, <2>1, HonestTypes
  <2>4. Existing' = Existing
    BY <1>2, <1>8, <2>1, HonestTypes, Overwrite
  <2>5. \A u \in Existing : row'[u].due = row[u].due /\ row'[u].met = row[u].met
    BY <2>2, <2>3
  <2>6. \A u \in Existing : \A g, at : Ripe(row[u], g, at) => Ripe(row'[u], g, at)
    BY <2>5 DEF Ripe
  <2>7. \A g \in Flags : x.flag[g] <=> g = f \/ row[t].flag[g]
    BY <1>2, <2>2 DEF Row
  <2>8. Breaches \subseteq Flags /\ FirstFlags \subseteq Flags
    BY DEF Breaches, Flags, FirstFlags
  <2>9. Agrees(x)
    <3>1. Agrees(row[t])
      BY <1>2 DEF Honest, RowsAgree
    <3> QED  BY <2>2, <2>7, <2>8, <3>1 DEF Agrees
  <2>10. RowsAgree'
    BY <1>3, <2>3, <2>4, <2>9 DEF Honest, RowsAgree
  <2>11. FoundRipe'
    BY <1>3, <1>6, <2>6, HonestTypes DEF Honest, FoundRipe
  <2>12. ASSUME NEW u \in Existing \ stale, NEW g \in FirstFlags, row'[u].flag[g]
         PROVE  \E at \in 0 .. now : Ripe(row'[u], g, at)
    <3>1. CASE row[u].flag[g]
      BY <2>6, <2>12, <3>1 DEF Honest, FlagsRipe
    <3>2. CASE ~row[u].flag[g]
      <4>1. u = t /\ g = f
        BY <2>3, <2>7, <2>8, <2>12, <3>2
      <4>2. Ripe(row[t], f, sweep[s].at) /\ sweep[s].at \in 0 .. now
        BY <1>1, <1>2, <2>12, <4>1 DEF Honest, FoundRipe, Sweep
      <4> QED  BY <2>6, <4>1, <4>2
    <3> QED  BY <3>1, <3>2
  <2>13. FlagsRipe'
    BY <1>3, <2>4, <2>12 DEF FlagsRipe
  <2> QED  BY <2>10, <2>11, <2>13 DEF Honest
<1> QED  BY <1>1, <1>7, <1>8 DEF Flag

LEMMA WakeHonest ==
  ASSUME Inductive, Honest, NEW w \in Wakers, WakeStep(w)
  PROVE  Honest'
<1>1. CASE FindSnoozed(w)
  <2>1. UNCHANGED <<row, now, stale, request, sweep>> /\ now \in Nat
    BY <1>1, HonestTypes DEF FindSnoozed, db, hist
  <2> QED  BY <2>1, HonestStill DEF Honest, FoundRipe
<1>2. ASSUME NEW t \in Tickets, Unsnooze(w, t) PROVE Honest'
  <2>1. t \in Existing /\ row[t] \in Row
    BY <1>2 DEF Unsnooze, Inductive, TypeOK, Located, Existing
  <2>2. PICK x : x = [row[t] EXCEPT !.snoozedUntil = Never]
    OBVIOUS
  <2>3. /\ x \in Row /\ x.flag = row[t].flag /\ x.slaBreached = row[t].slaBreached
        /\ x.due = row[t].due /\ x.met = row[t].met
    BY <2>1, <2>2 DEF Row, Never
  <2>4. row' = [row EXCEPT ![t] = x] /\ UNCHANGED <<now, sweep, stale, request>>
    BY <1>2, <2>2 DEF Unsnooze, hist
  <2> QED  BY <2>1, <2>3, <2>4, HonestWrite
<1> QED  BY <1>1, <1>2 DEF WakeStep

LEMMA CreateHonest ==
  ASSUME Inductive, Honest, NEW r \in Requests, NEW t \in Tickets, Create(r, t)
  PROVE  Honest'
<1>1. PICK due \in [Kinds -> Nat] :
        /\ row' = [row EXCEPT ![t] = NewRow(due)]
        /\ \/ request' = [request EXCEPT ![r] = Done]
           \/ request' = [request EXCEPT ![r] =
                [pc |-> "saveTags", ticket |-> t, copy |-> row'[t],
                 write |-> [to |-> Keep, stamp |-> Never, snooze |-> Never]]]
  <2>1. [k \in Kinds |-> Never] \in [Kinds -> Nat]
    BY DEF Never
  <2>2. [k \in Kinds |-> now + Minutes[k]] \in [Kinds -> Nat]
    BY MinutesAssumption DEF Inductive, TypeOK
  <2> QED  BY <2>1, <2>2 DEF Create
<1>2. UNCHANGED <<now, sweep, stale>> /\ t \notin Existing
  BY DEF Create, hist
<1>3. PICK x \in Row : x = NewRow(due)
  BY NewRowType
<1>4. Agrees(x) /\ \A f \in FirstFlags : ~x.flag[f]
  BY <1>3 DEF NewRow, Agrees, Breaches, FirstFlags, Flags
<1>5. row'[t] = x /\ \A u \in Existing : row'[u] = row[u]
  BY <1>1, <1>2, <1>3, HonestTypes
<1>6. Existing' = Existing \cup {t}
  BY <1>1, <1>3, RowsDiffer, HonestTypes DEF Existing
<1>7. request \in [Requests -> Handler]
  BY DEF Inductive, TypeOK
<1>8. ASSUME NEW q \in Requests, request'[q].pc = "saveTags"
      PROVE  Agrees(request'[q].copy)
  <2>1. CASE q = r
    BY <1>1, <1>4, <1>5, <1>7, <1>8, <2>1 DEF Done
  <2>2. CASE q # r
    BY <1>1, <1>7, <1>8, <2>2 DEF Honest, RowsAgree
  <2> QED  BY <2>1, <2>2
<1>9. RowsAgree'
  BY <1>4, <1>5, <1>6, <1>8 DEF Honest, RowsAgree
<1>10. FlagsRipe'
  BY <1>2, <1>4, <1>5, <1>6 DEF Honest, FlagsRipe
<1>11. FoundRipe'
  BY <1>2, <1>5, HonestTypes DEF Honest, FoundRipe
<1> QED  BY <1>9, <1>10, <1>11 DEF Honest

\* A handler that only reads keeps the copy it read: an honest row.
LEMMA ReadHonest ==
  ASSUME Inductive, Honest, NEW r \in Requests, NEW t \in Tickets,
         ReadForUpdate(r, t) \/ ReadForReply(r, t)
  PROVE  Honest'
<1>1. UNCHANGED <<row, now, sweep, stale>> /\ t \in Existing /\ now \in Nat
  BY HonestTypes DEF ReadForUpdate, ReadForReply, db, hist
<1>2. PICK h : /\ request' = [request EXCEPT ![r] = h]
               /\ h.pc = "saveTags" => h.copy = row[t]
  <2>1. CASE ReadForReply(r, t)
    <3>1. PICK h \in {[pc |-> "respond", ticket |-> t], Done} :
            request' = [request EXCEPT ![r] = h]
      BY <2>1 DEF ReadForReply
    <3>2. h.pc # "saveTags"
      BY DEF Done
    <3> QED  BY <3>1, <3>2
  <2>2. CASE ReadForUpdate(r, t)
    <3>1. PICK pc, w :
            request' = [request EXCEPT ![r] =
              [pc |-> pc, ticket |-> t, copy |-> row[t], write |-> w]]
      BY <2>2 DEF ReadForUpdate
    <3>2. [pc |-> pc, ticket |-> t, copy |-> row[t], write |-> w].copy = row[t]
      OBVIOUS
    <3> QED  BY <3>1, <3>2
  <2> QED  BY <2>1, <2>2
<1>3. Agrees(row[t])
  BY <1>1 DEF Honest, RowsAgree
<1>4. \A q \in Requests : request'[q].pc = "saveTags" =>
        request'[q] = request[q] \/ Agrees(request'[q].copy)
  BY <1>2, <1>3 DEF Inductive, TypeOK
<1> QED  BY <1>1, <1>4, HonestStill DEF Honest, FoundRipe

LEMMA SaveTagsHonest ==
  ASSUME Inductive, Honest, NEW r \in Requests, SaveTags(r)
  PROVE  Honest'
<1>1. PICK t, x : t = request[r].ticket /\ x = request[r].copy
  OBVIOUS
<1>2. request[r] \in Handler /\ t \in Existing /\ request[r].pc = "saveTags"
  BY <1>1 DEF SaveTags, Inductive, TypeOK, Located
<1>3. x \in Row /\ Agrees(x)
  BY <1>1, <1>2 DEF Handler, Honest, RowsAgree
<1>4. /\ row' = [row EXCEPT ![t] = x] /\ UNCHANGED <<now, sweep>>
      /\ stale' = IF row' = row THEN stale ELSE stale \cup {t}
      /\ request' = [request EXCEPT ![r] = [request[r] EXCEPT !.pc = "write"]]
  BY <1>1 DEF SaveTags
<1>5. [request[r] EXCEPT !.pc = "write"].pc = "write"
  BY <1>2 DEF Handler
<1>6. \A q \in Requests : request'[q].pc = "saveTags" => request'[q] = request[q]
  BY <1>4, <1>5 DEF Inductive, TypeOK
<1>7. CASE row' = row
  BY <1>4, <1>6, <1>7, HonestTypes, HonestStill DEF Honest, FoundRipe
<1>8. CASE row' # row
  <2>1. stale' = stale \cup {t}
    BY <1>4, <1>8
  <2>2. row'[t] = x /\ \A u \in Existing : u # t => row'[u] = row[u]
    BY <1>2, <1>4, HonestTypes
  <2>3. Existing' = Existing
    BY <1>2, <1>3, <1>4, HonestTypes, Overwrite
  <2>4. RowsAgree'
    BY <1>3, <1>6, <2>2, <2>3 DEF Honest, RowsAgree
  <2>5. FlagsRipe'
    BY <1>4, <2>1, <2>2, <2>3 DEF Honest, FlagsRipe
  <2>6. FoundRipe'
    BY <1>4, <2>1, <2>2, HonestTypes DEF Honest, FoundRipe
  <2> QED  BY <2>4, <2>5, <2>6 DEF Honest
<1> QED  BY <1>7, <1>8

LEMMA RequestHonest ==
  ASSUME Inductive, Honest, NEW r \in Requests, Arrive(r) \/ Continue(r)
  PROVE  Honest'
<1>0. request \in [Requests -> Handler]
  BY DEF Inductive, TypeOK
<1>1. ASSUME request' = [request EXCEPT ![r] = Done]
      PROVE  \A q \in Requests : request'[q].pc = "saveTags" => request'[q] = request[q]
  BY <1>0, <1>1 DEF Done
<1>2. ASSUME NEW t \in Tickets, Merge(r, t) \/ UnsnoozeNow(r, t) PROVE Honest'
  <2>1. /\ t \in Existing /\ row[t] \in Row /\ UNCHANGED <<now, sweep, stale>>
        /\ request' = [request EXCEPT ![r] = Done]
    BY <1>2, HonestTypes DEF Merge, UnsnoozeNow, hist
  <2>2. PICK x : /\ row' = [row EXCEPT ![t] = x]
                 /\ \/ x = [row[t] EXCEPT !.merged = TRUE]
                    \/ x = [row[t] EXCEPT !.snoozedUntil = Never]
    BY <1>2 DEF Merge, UnsnoozeNow
  <2>3. /\ x \in Row /\ x.flag = row[t].flag /\ x.slaBreached = row[t].slaBreached
        /\ x.due = row[t].due /\ x.met = row[t].met
    <3>1. CASE x = [row[t] EXCEPT !.merged = TRUE]
      BY <2>1, <3>1 DEF Row
    <3>2. CASE x = [row[t] EXCEPT !.snoozedUntil = Never]
      BY <2>1, <3>2 DEF Row, Never
    <3> QED  BY <2>2, <3>1, <3>2
  <2>4. \A q \in Requests : request'[q].pc = "saveTags" => request'[q] = request[q]
    BY <1>1, <2>1
  <2>5. row' = [row EXCEPT ![t] = x]
    BY <2>2
  <2>6. x.met["first_response"] \in {row[t].met["first_response"], now}
    BY <2>3
  <2>7. x \in Row /\ x.flag = row[t].flag /\ x.slaBreached = row[t].slaBreached /\ x.due = row[t].due
    BY <2>3
  <2> QED  BY <2>1, <2>4, <2>5, <2>6, <2>7, HonestWrite
<1>3. CASE WriteUpdate(r)
  <2>1. PICK t, w : t = request[r].ticket /\ w = request[r].write
    OBVIOUS
  <2>2. /\ t \in Existing /\ w \in Write /\ row[t] \in Row
    BY <1>0, <1>3, <2>1, HonestTypes DEF WriteUpdate, Inductive, Located, Handler
  <2>3. PICK x : x = Updated(row[t], w)
    OBVIOUS
  <2>4. PICK met \in [Kinds -> Nat] :
          /\ met = IF w.stamp = Never THEN row[t].met
                   ELSE [row[t].met EXCEPT !["resolution"] = w.stamp]
          /\ met["first_response"] = row[t].met["first_response"]
    <3> DEFINE m == IF w.stamp = Never THEN row[t].met
                    ELSE [row[t].met EXCEPT !["resolution"] = w.stamp]
    <3>1. row[t].met \in [Kinds -> Nat] /\ w.stamp \in Nat
      BY <2>2 DEF Row, Write
    <3>2. m \in [Kinds -> Nat] /\ m["first_response"] = row[t].met["first_response"]
      BY <3>1 DEF Kinds
    <3> QED  BY <3>2
  <2>5. /\ x \in Row /\ x.flag = row[t].flag /\ x.slaBreached = row[t].slaBreached
        /\ x.due = row[t].due /\ x.met = met
    BY <2>2, <2>3, <2>4 DEF Updated, Row, Write, Keep
  <2>6. /\ row' = [row EXCEPT ![t] = x] /\ UNCHANGED <<now, sweep, stale>>
        /\ request' = [request EXCEPT ![r] = Done]
    BY <1>3, <2>1, <2>3 DEF WriteUpdate, hist
  <2> QED  BY <1>1, <2>2, <2>4, <2>5, <2>6, HonestWrite
<1>4. CASE FirstResponse(r)
  <2>1. PICK t : t = request[r].ticket
    OBVIOUS
  <2>2. /\ t \in Existing /\ row[t] \in Row /\ now \in Nat
    BY <1>0, <1>4, <2>1, HonestTypes DEF FirstResponse, Inductive, Located, Handler
  <2>3. PICK x : x = Answered(row[t], now)
    OBVIOUS
  <2>4. PICK met \in [Kinds -> Nat] :
          /\ met = [row[t].met EXCEPT !["first_response"] = now]
          /\ met["first_response"] = now
    <3> DEFINE m == [row[t].met EXCEPT !["first_response"] = now]
    <3>1. row[t].met \in [Kinds -> Nat]
      BY <2>2 DEF Row
    <3>2. m \in [Kinds -> Nat] /\ m["first_response"] = now
      BY <2>2, <3>1 DEF Kinds
    <3> QED  BY <3>2
  <2>5. /\ x \in Row /\ x.flag = row[t].flag /\ x.slaBreached = row[t].slaBreached
        /\ x.due = row[t].due /\ x.met = met
    BY <2>2, <2>3, <2>4 DEF Answered, Row
  <2>6. /\ row' = [row EXCEPT ![t] = x] /\ UNCHANGED <<now, sweep, stale>>
        /\ request' = [request EXCEPT ![r] = Done]
    BY <1>4, <2>1, <2>3 DEF FirstResponse, hist
  <2> QED  BY <1>1, <2>2, <2>4, <2>5, <2>6, HonestWrite
<1> QED  BY <1>2, <1>3, <1>4, CreateHonest, ReadHonest, SaveTagsHonest DEF Arrive, Continue

LEMMA NextHonest == Inductive /\ Honest /\ [Next]_vars => Honest'
<1> SUFFICES ASSUME Inductive, Honest, [Next]_vars PROVE Honest'
  OBVIOUS
<1>1. CASE Tick \/ UNCHANGED vars
  <2>1. UNCHANGED <<row, stale, request, sweep>> /\ now' \in Nat /\ now <= now'
    BY <1>1, HonestTypes DEF Tick, vars, hist
  <2>2. \A s \in Sweepers : sweep[s].at <= now'
    BY <2>1, HonestTypes DEF Honest, FoundRipe
  <2> QED  BY <2>1, <2>2, HonestStill DEF Honest, FoundRipe
<1>2. ASSUME NEW s \in Sweepers, SweepStep(s) \/ CrashSweep(s) \/ FailSweep(s)
      PROVE  Honest'
  BY <1>2, NextQueryHonest, SweepHonest, FlagHonest DEF SweepStep
<1>3. ASSUME NEW w \in Wakers, WakeStep(w) PROVE Honest'
  BY <1>3, WakeHonest
<1>4. ASSUME NEW r \in Requests, Arrive(r) \/ Continue(r) PROVE Honest'
  BY <1>4, RequestHonest
<1> QED  BY <1>1, <1>2, <1>3, <1>4 DEF Next

LEMMA HonestReal == Inductive /\ Honest => FlagIsReal
<1> SUFFICES ASSUME Inductive, Honest PROVE FlagIsReal
  OBVIOUS
<1>1. ASSUME NEW t \in Existing, NEW f \in FirstFlags, row[t].flag[f], t \notin stale
      PROVE  ~AnsweredInTime(row[t], f)
  <2>1. PICK at \in 0 .. now : Ripe(row[t], f, at)
    BY <1>1 DEF Honest, FlagsRipe
  <2>2. KindOf(f) = "first_response"
    BY DEF KindOf, FirstFlags
  <2>3. /\ row[t].due["first_response"] \in Nat /\ row[t].met["first_response"] \in Nat
        /\ at \in Nat
    BY HonestTypes DEF Row, Kinds
  <2> QED  BY <2>1, <2>2, <2>3, BoundsAssumption DEF Ripe, AnsweredInTime
<1> QED  BY <1>1 DEF FlagIsReal, FirstFlags, Honest, RowsAgree, Agrees

-----------------------------------------------------------------------------
(* An event for every flag won, and no more. *)

\* The sweeps that have won a flag of the ticket and not sent its event yet.
Owing(t, f) == {s \in Sweepers : sweep[s].pass = f /\ t \in sweep[s].owes}
Sendable ==
  \A t \in Tickets, f \in Flags :
    announced[t][f] + Cardinality(Owing(t, f)) <= claims[t][f]

LEMMA OwingFinite ==
  \A t, f : /\ IsFiniteSet(Owing(t, f)) /\ Cardinality(Owing(t, f)) \in Nat
            /\ IsFiniteSet(Owing(t, f)') /\ Cardinality(Owing(t, f)') \in Nat
<1>1. \A t, f : Owing(t, f) \in SUBSET Sweepers /\ Owing(t, f)' \in SUBSET Sweepers
  BY DEF Owing
<1> QED  BY <1>1, SweepersAssumption, FS_Subset, FS_CardinalityType

LEMMA Counts ==
  ASSUME Inductive, NEW t \in Tickets, NEW f \in Flags
  PROVE  announced[t][f] \in Nat /\ claims[t][f] \in Nat
BY DEF Inductive, TypeOK

\* A step after which no sweep owes more.
LEMMA SendableLess ==
  ASSUME Inductive, Sendable, UNCHANGED <<announced, claims>>,
         \A t \in Tickets, f \in Flags : Owing(t, f)' \subseteq Owing(t, f)
  PROVE  Sendable'
<1> SUFFICES ASSUME NEW t \in Tickets, NEW f \in Flags
             PROVE  announced'[t][f] + Cardinality(Owing(t, f)') <= claims'[t][f]
  BY DEF Sendable
<1>1. Owing(t, f)' \in SUBSET Owing(t, f)
  OBVIOUS
<1>2. Cardinality(Owing(t, f)') <= Cardinality(Owing(t, f))
  BY <1>1, OwingFinite, FS_Subset
<1>3. announced[t][f] + Cardinality(Owing(t, f)) <= claims[t][f]
  BY DEF Sendable
<1> QED  BY <1>2, <1>3, OwingFinite, Counts

LEMMA CountOne ==
  ASSUME NEW c \in [Tickets -> [Flags -> Nat]], NEW t \in Tickets, NEW f \in Flags
  PROVE  /\ Count(c, t, f)[t][f] = c[t][f] + 1
         /\ \A u \in Tickets, g \in Flags :
              u # t \/ g # f => Count(c, t, f)[u][g] = c[u][g]
BY DEF Count

LEMMA EmitSendable ==
  ASSUME Inductive, Sendable, NEW s \in Sweepers, Emit(s)
  PROVE  Sendable'
<1>1. PICK t \in sweep[s].owes : announced' = Count(announced, t, sweep[s].pass)
  BY DEF Emit
<1>2. sweep[s] \in Sweep /\ sweep \in [Sweepers -> Sweep]
  BY DEF Inductive, TypeOK
<1>3. PICK f \in Flags : f = sweep[s].pass
  BY <1>1, <1>2 DEF Inductive, Located, Sweep
<1>4. t \in Tickets
  BY <1>1, <1>2 DEF Sweep
<1>5. PICK y : y = [sweep[s] EXCEPT !.owes = {}] /\ sweep' = [sweep EXCEPT ![s] = y]
  BY DEF Emit
<1>6. y.owes = {}
  BY <1>2, <1>5 DEF Sweep
<1>7. sweep'[s] = y /\ \A z \in Sweepers : z # s => sweep'[z] = sweep[z]
  BY <1>2, <1>5
<1>8. \A u, g : Owing(u, g)' = Owing(u, g) \ {s}
  BY <1>6, <1>7 DEF Owing
<1>9. claims' = claims /\ announced \in [Tickets -> [Flags -> Nat]]
  BY DEF Emit, Inductive, TypeOK
<1>10. announced' = Count(announced, t, f)
  BY <1>1, <1>3
<1> SUFFICES ASSUME NEW u \in Tickets, NEW g \in Flags
             PROVE  announced'[u][g] + Cardinality(Owing(u, g)') <= claims'[u][g]
  BY DEF Sendable
<1>11. announced[u][g] + Cardinality(Owing(u, g)) <= claims[u][g]
  BY DEF Sendable
<1>12. CASE u = t /\ g = f
  <2>1. s \in Owing(u, g)
    BY <1>1, <1>3, <1>12 DEF Owing
  <2>2. Cardinality(Owing(u, g) \ {s}) = Cardinality(Owing(u, g)) - 1
    BY <2>1, OwingFinite, FS_RemoveElement
  <2>3. Cardinality(Owing(u, g)') = Cardinality(Owing(u, g)) - 1
    BY <1>8, <2>2, Zenon
  <2>4. announced'[u][g] = announced[u][g] + 1
    BY <1>4, <1>9, <1>10, <1>12, CountOne
  <2> QED  BY <1>9, <1>11, <2>3, <2>4, OwingFinite, Counts
<1>13. CASE u # t \/ g # f
  <2>1. announced'[u][g] = announced[u][g]
    BY <1>4, <1>9, <1>10, <1>13, CountOne
  <2>2. Owing(u, g)' \in SUBSET Owing(u, g)
    BY <1>8
  <2>3. Cardinality(Owing(u, g)') <= Cardinality(Owing(u, g))
    BY <2>2, OwingFinite, FS_Subset
  <2> QED  BY <1>9, <1>11, <2>1, <2>3, OwingFinite, Counts
<1> QED  BY <1>12, <1>13

LEMMA FlagSendable ==
  ASSUME Inductive, Sendable, NEW s \in Sweepers, NEW t \in Tickets, Flag(s, t)
  PROVE  Sendable'
<1>1. sweep[s] \in Sweep /\ sweep \in [Sweepers -> Sweep] /\ sweep[s].owes = {}
  BY DEF Flag, Inductive, TypeOK
<1>2. PICK f \in Flags : f = sweep[s].pass
  BY <1>1 DEF Flag, Inductive, Located, Sweep
<1>3. announced' = announced /\ claims \in [Tickets -> [Flags -> Nat]]
  BY DEF Flag, Inductive, TypeOK
<1>4. CASE claims' = Count(claims, t, f)
           /\ sweep' = [sweep EXCEPT ![s] = [sweep[s] EXCEPT !.found = @ \ {t}, !.owes = {t}]]
  <2>1. PICK y : y = [sweep[s] EXCEPT !.found = @ \ {t}, !.owes = {t}]
    OBVIOUS
  <2>2. y.owes = {t} /\ y.pass = f
    BY <1>1, <1>2, <2>1 DEF Sweep
  <2>3. sweep'[s] = y /\ \A z \in Sweepers : z # s => sweep'[z] = sweep[z]
    BY <1>1, <1>4, <2>1
  <2>4. \A u \in Tickets, g \in Flags :
          Owing(u, g)' = IF u = t /\ g = f THEN Owing(u, g) \cup {s} ELSE Owing(u, g)
    BY <1>1, <2>2, <2>3 DEF Owing
  <2> SUFFICES ASSUME NEW u \in Tickets, NEW g \in Flags
               PROVE  announced'[u][g] + Cardinality(Owing(u, g)') <= claims'[u][g]
    BY DEF Sendable
  <2>5. announced[u][g] + Cardinality(Owing(u, g)) <= claims[u][g]
    BY DEF Sendable
  <2>6. CASE u = t /\ g = f
    <3>1. s \notin Owing(u, g)
      BY <1>1 DEF Owing
    <3>2. Cardinality(Owing(u, g) \cup {s}) = Cardinality(Owing(u, g)) + 1
      BY <3>1, OwingFinite, FS_AddElement
    <3>3. Owing(u, g)' = Owing(u, g) \cup {s}
      BY <2>4, <2>6
    <3>4. Cardinality(Owing(u, g)') = Cardinality(Owing(u, g)) + 1
      BY <3>2, <3>3, Zenon
    <3>5. claims'[u][g] = claims[u][g] + 1
      BY <1>3, <1>4, <2>6, CountOne
    <3> QED  BY <1>3, <2>5, <3>4, <3>5, OwingFinite, Counts
  <2>7. CASE u # t \/ g # f
    <3>1. claims'[u][g] = claims[u][g]
      BY <1>3, <1>4, <2>7, CountOne
    <3>2. Owing(u, g)' = Owing(u, g)
      BY <2>4, <2>7
    <3>3. Cardinality(Owing(u, g)') = Cardinality(Owing(u, g))
      BY <3>2, Zenon
    <3> QED  BY <1>3, <2>5, <3>1, <3>3
  <2> QED  BY <2>6, <2>7
<1>5. CASE claims' = claims /\ sweep' = [sweep EXCEPT ![s] = [sweep[s] EXCEPT !.found = @ \ {t}]]
  <2>1. PICK y : y = [sweep[s] EXCEPT !.found = @ \ {t}]
    OBVIOUS
  <2>2. y.owes = {}
    BY <1>1, <2>1 DEF Sweep
  <2>3. sweep'[s] = y /\ \A z \in Sweepers : z # s => sweep'[z] = sweep[z]
    BY <1>1, <1>5, <2>1
  <2>4. \A u \in Tickets, g \in Flags : Owing(u, g)' \subseteq Owing(u, g)
    BY <2>2, <2>3 DEF Owing
  <2> QED  BY <1>3, <1>5, <2>4, SendableLess
<1> QED  BY <1>2, <1>4, <1>5 DEF Flag

LEMMA NextSendable == Inductive /\ Sendable /\ [Next]_vars => Sendable'
<1> SUFFICES ASSUME Inductive, Sendable, [Next]_vars PROVE Sendable'
  OBVIOUS
<1>0. sweep \in [Sweepers -> Sweep]
  BY DEF Inductive, TypeOK
<1>1. ASSUME UNCHANGED <<sweep, announced, claims>> PROVE Sendable'
  <2>1. \A t, f : Owing(t, f)' = Owing(t, f)
    BY <1>1 DEF Owing
  <2> QED  BY <1>1, <2>1, SendableLess
<1>2. ASSUME NEW s \in Sweepers, NextQuery(s) \/ CrashSweep(s) \/ FailSweep(s)
      PROVE  Sendable'
  <2>1. PICK y : /\ sweep' = [sweep EXCEPT ![s] = y]
                 /\ \/ y.owes = {}
                    \/ y.owes = sweep[s].owes /\ y.pass = sweep[s].pass
    <3>1. Idle.owes = {}
      BY DEF Idle
    <3>2. CASE NextQuery(s)
      <4>1. PICK q, at, found :
              sweep' = [sweep EXCEPT ![s] =
                IF q = "idle" THEN Idle
                ELSE [pass |-> q, at |-> at, owes |-> {}, found |-> found]]
        BY <3>2 DEF NextQuery
      <4>2. [pass |-> q, at |-> at, owes |-> {}, found |-> found].owes = {}
        OBVIOUS
      <4> QED  BY <3>1, <4>1, <4>2
    <3>3. CASE CrashSweep(s)
      BY <3>1, <3>3 DEF CrashSweep
    <3>4. CASE FailSweep(s)
      <4> DEFINE x == [sweep[s] EXCEPT !.pass = "slaResolutionBreached", !.found = {}]
      <4>1. sweep' = [sweep EXCEPT ![s] = IF sweep[s].pass \in Breaches THEN x ELSE Idle]
        BY <1>0, <3>4 DEF FailSweep
      <4>2. x.owes = {}
        BY <1>0, <3>4 DEF FailSweep, Sweep
      <4> QED  BY <3>1, <4>1, <4>2
    <3> QED  BY <1>2, <3>2, <3>3, <3>4
  <2>2. sweep'[s] = y /\ \A z \in Sweepers : z # s => sweep'[z] = sweep[z]
    BY <1>0, <2>1
  <2>3. \A t \in Tickets, f \in Flags : Owing(t, f)' \subseteq Owing(t, f)
    BY <2>1, <2>2 DEF Owing
  <2>4. UNCHANGED <<announced, claims>>
    BY <1>2 DEF NextQuery, CrashSweep, FailSweep, hist
  <2> QED  BY <2>3, <2>4, SendableLess
<1>3. ASSUME NEW w \in Wakers, WakeStep(w) PROVE UNCHANGED <<sweep, announced, claims>>
  BY <1>3 DEF WakeStep, FindSnoozed, Unsnooze, hist
<1>4. ASSUME NEW r \in Requests, Arrive(r) \/ Continue(r)
      PROVE  UNCHANGED <<sweep, announced, claims>>
  BY <1>4 DEF Arrive, Continue, Create, ReadForUpdate, ReadForReply, Merge, UnsnoozeNow,
              SaveTags, WriteUpdate, FirstResponse, hist
<1>5. Tick \/ UNCHANGED vars => UNCHANGED <<sweep, announced, claims>>
  BY DEF Tick, vars, hist
<1> QED  BY <1>1, <1>2, <1>3, <1>4, <1>5, EmitSendable, FlagSendable DEF Next, SweepStep

LEMMA InitHonest == Init => Honest /\ Sendable
<1> SUFFICES ASSUME Init PROVE Honest /\ Sendable
  OBVIOUS
<1>1. Existing = {}
  BY DEF Init, Existing
<1>2. Honest
  BY <1>1 DEF Init, Honest, RowsAgree, FlagsRipe, FoundRipe, Idle, Ready
<1>3. \A t \in Tickets, f \in Flags : Owing(t, f) = {}
  BY DEF Init, Owing, Idle
<1>4. \A t \in Tickets, f \in Flags : Cardinality(Owing(t, f)) = 0
  BY <1>3, FS_EmptySet, Zenon
<1>5. Sendable
  BY <1>4 DEF Init, Sendable
<1> QED  BY <1>2, <1>5

\* checkBreaches and checkWarnings: an event is sent for a flag that was won, and what a
\* flag says of the first response is so, whatever overlaps, fails or answers meanwhile.
THEOREM AnnouncedOnceAndTrue == Spec => []AnnouncedRightly
<1>1. Init => Honest /\ Sendable
  BY InitHonest
<1>2. Inductive /\ Honest /\ Sendable /\ [Next]_vars => (Honest /\ Sendable)'
  BY NextHonest, NextSendable
<1>3. ASSUME Inductive, NoticeLaw, Honest, Sendable PROVE AnnouncedRightly
  <2>1. ASSUME NEW t \in Tickets, NEW f \in Flags
        PROVE  announced[t][f] <= claims[t][f] /\ claims[t][f] <= 1 + lost[t][f]
    <3>1. announced[t][f] + Cardinality(Owing(t, f)) <= claims[t][f]
      BY <1>3 DEF Sendable
    <3>2. claims[t][f] <= lost[t][f] + 1 /\ lost[t][f] \in Nat
      BY <1>3 DEF NoticeLaw, Inductive, TypeOK
    <3> QED  BY <1>3, <3>1, <3>2, OwingFinite, Counts
  <2> QED  BY <1>3, <2>1, HonestReal DEF AnnouncedRightly, OnceUnlessOverwritten
<1>4. Inductive /\ NoticeLaw /\ Honest /\ Sendable => AnnouncedRightly
  BY <1>3
<1> QED  BY <1>1, <1>2, <1>4, TypeCorrect, FlagWonOnce, PTL DEF Spec

================================================================================
