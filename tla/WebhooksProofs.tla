---------------------------- MODULE WebhooksProofs -----------------------------
(***************************************************************************)
(* Proofs about Webhooks for any number of webhooks, events, sweeping      *)
(* processes and admin requests, any number of retries and of faults.      *)
(***************************************************************************)
EXTENDS Webhooks, TLAPS

InPost(a, d)  == sender[a].pc = "post" /\ sender[a].delivery = d
InSave(a, d)  == sender[a].pc = "save" /\ sender[a].delivery = d
InFound(a, d) == a \in Sweepers /\ sender[a].pc # "idle" /\ d \in DOMAIN sender[a].found

Won(r) == IF r.status = "success" THEN 1 ELSE 0

-----------------------------------------------------------------------------
(* What a sender knows of a delivery that it shares with nobody. *)

\* A copy that is yet to be sent: the row still has its number of attempts, which is
\* the POSTs made but for those a fault kept from being counted; there is one left.
Before(copy, d) ==
  /\ sends[d] <= copy.attempts + faults
  /\ acked[d] <= asked[d] + faults
  /\ copy.attempts < MaxRetries + asked[d]
  /\ row[d] # NoDelivery => row[d].attempts = copy.attempts

\* A copy that was sent: the row is one attempt behind it.
After(copy, d) ==
  /\ sends[d] <= copy.attempts + faults
  /\ acked[d] <= Won(copy) + asked[d] + faults
  /\ copy.attempts <= MaxRetries + asked[d]
  /\ row[d] # NoDelivery => copy.attempts = row[d].attempts + 1

\* A row that no sender is about to write counts its POSTs itself.
Recorded(d) ==
  row[d] # NoDelivery /\ (\A a \in Actors : ~InSave(a, d)) =>
    sends[d] <= row[d].attempts + faults /\ acked[d] <= Won(row[d]) + asked[d] + faults

Accounted(d) ==
  /\ sends[d] <= MaxRetries + asked[d] + faults
  /\ acked[d] <= 1 + asked[d] + faults
  /\ row[d] # NoDelivery => row[d].attempts <= MaxRetries + asked[d]
  /\ Recorded(d)
  /\ \A a \in Actors :
       /\ InPost(a, d) => Before(sender[a].copy, d)
       /\ InSave(a, d) => After(sender[a].copy, d)
       /\ InFound(a, d) => Before(sender[a].found[d], d)
  /\ \A a, b \in Actors : Holds(a, d) /\ Holds(b, d) => a = b

Counted == \A d \in Deliveries \ shared : Accounted(d)

-----------------------------------------------------------------------------
(* The shape of what the senders hold. *)

CopiesOK(f) ==
  /\ DOMAIN f \subseteq Deliveries
  /\ \A d \in DOMAIN f : f[d] \in Delivery /\ f[d].status = "failed" /\ f[d].attempts < MaxRetries

EventShape(e, x) ==
  /\ x.pc \in {"ready", "done", "next", "post", "save", "heard"}
  /\ x.pc \in {"next", "post", "save"} => x.found \subseteq x.all /\ x.all \subseteq Hooks
  /\ x.pc \in {"post", "save"} => \E h \in Hooks \ x.found : x.delivery = <<h, e>>
  /\ x.pc = "heard" => x.all \subseteq Hooks

SweeperShape(x) ==
  /\ x.pc \in {"idle", "next", "save"}
  /\ x.pc # "idle" => CopiesOK(x.found)
  /\ x.pc = "save" => x.delivery \notin DOMAIN x.found

Shape(a, x) ==
  /\ a \in Events => EventShape(a, x)
  /\ a \in Sweepers => SweeperShape(x)
  /\ a \in Requests => x.pc \in {"ready", "done", "post", "save"}
  /\ x.pc \in {"post", "save"} => x.delivery \in Deliveries /\ x.copy \in Delivery
  /\ x.pc = "save" => x.copy.status \in {"success", "failed"}

Shapes ==
  /\ sender = [a \in Actors |-> sender[a]]
  /\ \A a \in Actors : Shape(a, sender[a])

Tables ==
  /\ hook \in [Hooks -> {"active", "inactive", "deleted"}]
  /\ row \in [Deliveries -> Delivery \cup {NoDelivery}]
  /\ {sends, acked, asked} \subseteq [Deliveries -> Nat]
  /\ shared \subseteq Deliveries /\ faults \in 0 .. MaxFaults

\* The deliveries of a webhook go with it.
Gone == \A d \in Deliveries : hook[d[1]] = "deleted" => row[d] = NoDelivery

\* What an event has yet to be sent to.
ToHear(e) ==
  CASE sender[e].pc = "ready" -> Hooks
    [] sender[e].pc \in {"next", "post", "save"} -> sender[e].found
    [] OTHER -> {}

\* It has no delivery yet, was never sent, and nobody can hold it.
Fresh ==
  \A e \in Events : \A h \in ToHear(e) :
    /\ row[<<h, e>>] = NoDelivery
    /\ sends[<<h, e>>] = 0 /\ acked[<<h, e>>] = 0
    /\ \A a \in Actors : ~Holds(a, <<h, e>>)

Untroubled == faults = 0 /\ \A h \in Hooks : hook[h] # "deleted"

\* The webhooks an event has been sent to, but for the one in hand, have a result.
SettledFor(e) ==
  /\ sender[e].pc # "done"
  /\ sender[e].pc \in {"next", "post", "save", "heard"} =>
       \A h \in sender[e].all :
         \/ h \in ToHear(e)
         \/ sender[e].pc \in {"post", "save"} /\ sender[e].delivery = <<h, e>>
         \/ row[<<h, e>>].status \in {"success", "failed"}

Settled == \A e \in Events : Untroubled => SettledFor(e)

IInv == Tables /\ Shapes /\ Gone /\ Counted /\ Fresh /\ Settled

-----------------------------------------------------------------------------
(* Types and shapes *)

LEMMA TypesHold == IInv => TypeOK
BY DEF IInv, Tables, Shapes, Shape, EventShape, SweeperShape, CopiesOK, TypeOK, Actors

LEMMA TableTypes ==
  ASSUME Tables, NEW d \in Deliveries
  PROVE  /\ sends[d] \in Nat /\ acked[d] \in Nat /\ asked[d] \in Nat /\ faults \in Nat
         /\ row[d] # NoDelivery => row[d] \in Delivery
         /\ MaxRetries \in Nat
BY LimitsAssumption DEF Tables

LEMMA Absent == NoDelivery \notin Delivery
BY DEF NoDelivery, Delivery

\* A step of one sender: its new place, and everybody else's.
LEMMA Moved ==
  ASSUME Shapes, NEW a \in Actors, NEW x, Goto(a, x)
  PROVE  /\ sender'[a] = x
         /\ \A b \in Actors : b # a => sender'[b] = sender[b]
         /\ Shape(a, x) => Shapes'
<1>1. /\ sender'[a] = x
      /\ \A b \in Actors : b # a => sender'[b] = sender[b]
      /\ sender' = [b \in Actors |-> sender'[b]]
  BY DEF Shapes, Goto
<1> QED  BY <1>1 DEF Shapes

LEMMA EventActor ==
  ASSUME NEW e \in Events
  PROVE  e \in Actors /\ e \notin Sweepers /\ e \notin Requests
BY ActorsAssumption DEF Actors

LEMMA SweeperActor ==
  ASSUME NEW s \in Sweepers
  PROVE  s \in Actors /\ s \notin Events /\ s \notin Requests
BY ActorsAssumption DEF Actors

LEMMA RequestActor ==
  ASSUME NEW q \in Requests
  PROVE  q \in Actors /\ q \notin Events /\ q \notin Sweepers
BY ActorsAssumption DEF Actors

LEMMA EventOnward ==
  ASSUME NEW e \in Events, NEW A \in SUBSET Hooks, NEW F \in SUBSET A
  PROVE  LET x == Onward(e, F, A) IN
         /\ Shape(e, x) /\ x.pc \in {"next", "heard"} /\ x.all = A
         /\ x.pc = "heard" => F = {}
         /\ x.pc = "next" => x.found = F
BY EventActor DEF Onward, Shape, EventShape

LEMMA SweeperOnward ==
  ASSUME NEW s \in Sweepers, NEW f, CopiesOK(f), NEW A
  PROVE  LET x == Onward(s, f, A) IN
         /\ Shape(s, x) /\ x.pc \in {"next", "idle"}
         /\ x.pc = "next" => x.found = f
BY SweeperActor DEF Onward, Shape, SweeperShape, Resting

LEMMA LeaveShape ==
  ASSUME NEW a \in Actors, Leave(a)
  PROVE  \E x : /\ Goto(a, x) /\ Shape(a, x) /\ x.pc \in {"idle", "done"}
                /\ a \notin Sweepers => x.pc = "done"
                /\ a \in Sweepers => x.pc = "idle"
<1> DEFINE x == Resting(IF a \in Sweepers THEN "idle" ELSE "done")
<1>1. Goto(a, x)
  BY DEF Leave
<1>2. Shape(a, x) /\ x.pc = IF a \in Sweepers THEN "idle" ELSE "done"
  BY EventActor, SweeperActor, RequestActor DEF Shape, EventShape, SweeperShape, Resting, Actors
<1> QED  BY <1>1, <1>2

LEMMA AnsweredCopy ==
  ASSUME NEW a, NEW c \in Delivery, NEW ok \in BOOLEAN
  PROVE  /\ Answered(a, c, ok) \in Delivery
         /\ Answered(a, c, ok).attempts = c.attempts + 1
         /\ Answered(a, c, ok).status \in {"success", "failed"}
         /\ Won(Answered(a, c, ok)) = IF ok THEN 1 ELSE 0
BY DEF Answered, Delivery, Won

-----------------------------------------------------------------------------
(* What a step leaves accounted for *)

\* A delivery no count of which changed, nor its row but for being deleted or due,
\* and which the mover holds as before or no more.
Unmoved(d) ==
  /\ sends'[d] = sends[d] /\ acked'[d] = acked[d] /\ asked'[d] = asked[d]
  /\ \/ row'[d] = row[d]
     \/ row'[d] = NoDelivery
     \/ /\ row[d] # NoDelivery /\ row'[d] # NoDelivery
        /\ row'[d].attempts = row[d].attempts /\ row'[d].status = row[d].status

HoldsLess(a, d) ==
  /\ InPost(a, d)' => InPost(a, d) /\ sender'[a].copy = sender[a].copy
  /\ InFound(a, d)' => InFound(a, d) /\ sender'[a].found[d] = sender[a].found[d]
  /\ InSave(a, d)' => InSave(a, d) /\ sender'[a].copy = sender[a].copy
  /\ InSave(a, d) => InSave(a, d)' \/ row'[d] = NoDelivery \/ faults' > faults

LEMMA HoldsParts ==
  \A a, d : Holds(a, d) <=> InPost(a, d) \/ InSave(a, d) \/ InFound(a, d)
BY DEF Holds, InPost, InSave, InFound

LEMMA Carry ==
  ASSUME Tables, Tables', Shapes, NEW a \in Actors,
         \A b \in Actors : b # a => sender'[b] = sender[b],
         NEW d \in Deliveries, Accounted(d), Unmoved(d), HoldsLess(a, d), faults' >= faults
  PROVE  Accounted(d)'
<1>1. /\ sends[d] \in Nat /\ acked[d] \in Nat /\ asked[d] \in Nat /\ faults \in Nat
      /\ faults' \in Nat /\ MaxRetries \in Nat
      /\ row[d] # NoDelivery => row[d].attempts \in Nat
  BY TableTypes DEF Tables, Delivery
<1>2. \A b \in Actors :
        /\ InPost(b, d)' => InPost(b, d) /\ sender'[b].copy = sender[b].copy
        /\ InFound(b, d)' => InFound(b, d) /\ sender'[b].found[d] = sender[b].found[d]
        /\ InSave(b, d)' => InSave(b, d) /\ sender'[b].copy = sender[b].copy
        /\ InSave(b, d) => InSave(b, d)' \/ row'[d] = NoDelivery \/ faults' > faults
  BY DEF HoldsLess, InPost, InSave, InFound
<1>3. \A b \in Actors :
        /\ InPost(b, d) => sender[b].copy.attempts \in Nat
        /\ InSave(b, d) => sender[b].copy.attempts \in Nat
        /\ InFound(b, d) => sender[b].found[d].attempts \in Nat
  BY DEF Shapes, Shape, SweeperShape, CopiesOK, InPost, InSave, InFound, Delivery
<1>4. \A r : Won(r) \in {0, 1}
  BY DEF Won
<1>7. ASSUME NEW b \in Actors
      PROVE  /\ InPost(b, d)' => Before(sender[b].copy, d)'
             /\ InSave(b, d)' => After(sender[b].copy, d)'
             /\ InFound(b, d)' => Before(sender[b].found[d], d)'
  <2>1. InPost(b, d) => Before(sender[b].copy, d)
    BY DEF Accounted
  <2>2. InSave(b, d) => After(sender[b].copy, d)
    BY DEF Accounted
  <2>3. InFound(b, d) => Before(sender[b].found[d], d)
    BY DEF Accounted
  <2>4. InPost(b, d)' => Before(sender[b].copy, d)'
    BY <1>1, <1>2, <1>3, <2>1 DEF Before, Unmoved
  <2>5. InSave(b, d)' => After(sender[b].copy, d)'
    BY <1>1, <1>2, <1>3, <1>4, <2>2 DEF After, Unmoved, InSave
  <2>6. InFound(b, d)' => Before(sender[b].found[d], d)'
    BY <1>1, <1>2, <1>3, <2>3 DEF Before, Unmoved, InFound
  <2> QED  BY <2>4, <2>5, <2>6
<1>8. \A b \in Actors : Holds(b, d)' => Holds(b, d)
  BY <1>2 DEF Holds, InPost, InSave, InFound
<1>9. \A b, c \in Actors : Holds(b, d)' /\ Holds(c, d)' => b = c
  BY <1>8 DEF Accounted
<1>10. Recorded(d)'
  <2>1. SUFFICES ASSUME row'[d] # NoDelivery, \A b \in Actors : ~InSave(b, d)'
                 PROVE  /\ sends'[d] <= row'[d].attempts + faults'
                        /\ acked'[d] <= Won(row'[d]) + asked'[d] + faults'
    BY DEF Recorded
  <2>2. /\ row[d] # NoDelivery
        /\ row'[d].attempts = row[d].attempts /\ Won(row'[d]) = Won(row[d])
    BY <2>1 DEF Unmoved, Won
  <2>3. CASE \A b \in Actors : ~InSave(b, d)
    BY <1>1, <1>4, <2>2, <2>3 DEF Accounted, Recorded, Unmoved
  <2>4. ASSUME NEW b \in Actors, InSave(b, d)
        PROVE  /\ sends'[d] <= row'[d].attempts + faults'
               /\ acked'[d] <= Won(row'[d]) + asked'[d] + faults'
    <3>1. faults' > faults
      BY <1>2, <2>1, <2>4
    <3>2. After(sender[b].copy, d)
      BY <2>4 DEF Accounted
    <3>4. sender[b].copy.attempts \in Nat
      BY <1>3, <2>4
    <3>3. Won(sender[b].copy) \in {0, 1} /\ Won(row[d]) \in {0, 1}
      BY <1>4
    <3> QED  BY <1>1, <2>2, <3>1, <3>2, <3>3, <3>4 DEF After, Unmoved
  <2> QED  BY <2>3, <2>4
<1>11. row'[d] # NoDelivery => row'[d].attempts <= MaxRetries + asked'[d]
  BY <1>1 DEF Accounted, Unmoved
<1>12. /\ sends'[d] <= MaxRetries + asked'[d] + faults'
       /\ acked'[d] <= 1 + asked'[d] + faults'
  BY <1>1 DEF Accounted, Unmoved
<1> QED  BY <1>7, <1>9, <1>10, <1>11, <1>12 DEF Accounted

LEMMA Heard ==
  ASSUME Shapes, NEW e \in Events, NEW h \in ToHear(e)
  PROVE  h \in Hooks /\ <<h, e>> \in Deliveries
BY EventActor DEF Shapes, Shape, EventShape, ToHear, Deliveries

\* A step of one sender.  The deliveries in T are those it sends, takes up or stores;
\* of all others nothing changes that the invariant speaks of.
LEMMA Step ==
  ASSUME IInv, NEW a \in Actors, NEW x, Goto(a, x), Shape(a, x), Tables', Gone',
         shared \subseteq shared', faults' >= faults, Untroubled' => Untroubled,
         NEW T \in SUBSET Deliveries,
         \A d \in Deliveries \ T : Unmoved(d) /\ HoldsLess(a, d),
         \A d \in T : d \notin shared' => Accounted(d)',
         \A e \in Events : \A h \in ToHear(e)' : h \in ToHear(e) /\ <<h, e>> \notin T,
         \A d \in Deliveries : Untroubled' /\ row[d].status \in {"success", "failed"}
                                 => row'[d].status \in {"success", "failed"},
         a \in Events /\ Untroubled' => SettledFor(a)'
  PROVE  IInv'
<1> USE DEF IInv
<1>1. /\ sender'[a] = x /\ Shapes'
      /\ \A b \in Actors : b # a => sender'[b] = sender[b]
  BY Moved
<1>2. Counted'
  <2>1. SUFFICES ASSUME NEW d \in Deliveries, d \notin shared' PROVE Accounted(d)'
    BY DEF Counted
  <2>2. CASE d \in T
    BY <2>1, <2>2
  <2>3. CASE d \notin T
    <3>1. Accounted(d)
      BY <2>1 DEF Counted
    <3> QED  BY <1>1, <2>1, <2>3, <3>1, Carry
  <2> QED  BY <2>2, <2>3
<1>3. Fresh'
  <2>1. SUFFICES ASSUME NEW e \in Events, NEW h \in ToHear(e)'
                 PROVE  /\ row'[<<h, e>>] = NoDelivery
                        /\ sends'[<<h, e>>] = 0 /\ acked'[<<h, e>>] = 0
                        /\ \A b \in Actors : ~Holds(b, <<h, e>>)'
    BY DEF Fresh
  <2> DEFINE d == <<h, e>>
  <2>2. h \in ToHear(e) /\ d \notin T /\ d \in Deliveries
    BY <2>1, Heard
  <2>3. /\ row[d] = NoDelivery /\ sends[d] = 0 /\ acked[d] = 0
        /\ \A b \in Actors : ~Holds(b, d)
    BY <2>2 DEF Fresh
  <2>4. Unmoved(d) /\ HoldsLess(a, d)
    BY <2>2
  <2> HIDE DEF d
  <2>5. row'[d] = NoDelivery /\ sends'[d] = 0 /\ acked'[d] = 0
    BY <2>3, <2>4 DEF Unmoved
  <2>6. \A b \in Actors : ~Holds(b, d)'
    BY <1>1, <2>3, <2>4 DEF HoldsLess, Holds, InPost, InSave, InFound
  <2> QED  BY <2>5, <2>6 DEF d
<1>4. Settled'
  <2>1. SUFFICES ASSUME NEW e \in Events, Untroubled' PROVE SettledFor(e)'
    BY DEF Settled
  <2>2. CASE e = a
    BY <2>1, <2>2
  <2>3. CASE e # a
    <3>1. SettledFor(e) /\ sender'[e] = sender[e]
      BY <1>1, <2>1, <2>3, EventActor DEF Settled
    <3>2. \A h \in Hooks : row[<<h, e>>].status \in {"success", "failed"}
                             => row'[<<h, e>>].status \in {"success", "failed"}
      BY <2>1 DEF Deliveries
    <3>3. sender[e].pc \in {"next", "post", "save", "heard"} => sender[e].all \subseteq Hooks
      BY EventActor DEF Shapes, Shape, EventShape
    <3> QED  BY <3>1, <3>2, <3>3 DEF SettledFor, ToHear
  <2> QED  BY <2>2, <2>3
<1> QED  BY <1>1, <1>2, <1>3, <1>4

\* What a step that writes no table leaves as it was.
LEMMA TablesKept ==
  ASSUME IInv, UNCHANGED <<hook, row, sends, acked, asked>>,
         shared' \subseteq Deliveries, faults' \in 0 .. MaxFaults, faults' >= faults
  PROVE  /\ Tables' /\ Gone'
         /\ Untroubled' => Untroubled
         /\ \A d \in Deliveries : Unmoved(d)
         /\ \A d \in Deliveries : row[d].status \in {"success", "failed"}
                                    => row'[d].status \in {"success", "failed"}
BY TableTypes DEF IInv, Tables, Gone, Untroubled, Unmoved

\* Deliveries that somebody holds, or that have a row, are not yet to be made.
LEMMA NotFresh ==
  ASSUME IInv, NEW e \in Events, NEW h \in ToHear(e)
  PROVE  row[<<h, e>>] = NoDelivery /\ \A a \in Actors : ~Holds(a, <<h, e>>)
BY DEF IInv, Fresh

LEMMA FaultsKept ==
  ASSUME IInv, faults' = faults
  PROVE  faults' \in 0 .. MaxFaults /\ faults' >= faults
BY LimitsAssumption DEF IInv, Tables

-----------------------------------------------------------------------------
(* Events *)

LEMMA FindStep ==
  ASSUME IInv, NEW e \in Events, Find(e)
  PROVE  IInv'
<1> DEFINE active == {h \in Hooks : hook[h] = "active"}
           x == Onward(e, active, active)
<1>1. /\ Goto(e, x) /\ sender[e].pc = "ready"
      /\ UNCHANGED <<hook, row, sends, acked, asked, shared, faults>>
  BY DEF Find, Resting, hist
<1>2. /\ Shape(e, x) /\ x.pc \in {"next", "heard"} /\ x.all = active
      /\ x.pc = "heard" => active = {}
      /\ x.pc = "next" => x.found = active
  BY EventOnward
<1> HIDE DEF x
<1>3. e \in Actors /\ e \notin Sweepers
  BY EventActor
<1>4. /\ sender'[e] = x
      /\ \A b \in Actors : b # e => sender'[b] = sender[b]
  BY <1>1, <1>3, Moved DEF IInv
<1>5. /\ Tables' /\ Gone' /\ (Untroubled' => Untroubled)
      /\ \A d \in Deliveries : Unmoved(d)
      /\ \A d \in Deliveries : row[d].status \in {"success", "failed"}
                                 => row'[d].status \in {"success", "failed"}
  BY <1>1, TablesKept, FaultsKept DEF IInv, Tables
<1>6. \A d \in Deliveries : HoldsLess(e, d)
  BY <1>1, <1>2, <1>3, <1>4 DEF HoldsLess, InPost, InSave, InFound
<1>7. \A f \in Events : \A h \in ToHear(f)' : h \in ToHear(f)
  BY <1>1, <1>2, <1>4, EventActor DEF ToHear
<1>8. SettledFor(e)'
  BY <1>2, <1>4 DEF SettledFor, ToHear
<1>9. shared \subseteq shared' /\ faults' >= faults
  BY <1>1, FaultsKept
<1> QED  BY ONLY IInv, <1>1, <1>2, <1>3, <1>5, <1>6, <1>7, <1>8, <1>9, {} \in SUBSET Deliveries, Step

LEMMA InsertStep ==
  ASSUME IInv, NEW e \in Events, NEW h \in Hooks, Insert(e, h)
  PROVE  IInv'
<1>0. e \in Actors /\ e \notin Sweepers /\ Shape(e, sender[e]) /\ sender[e].pc = "next"
  BY EventActor DEF IInv, Shapes, Insert
<1>1. sender[e].found \subseteq sender[e].all /\ sender[e].all \subseteq Hooks /\ h \in sender[e].found
  BY <1>0 DEF Shape, EventShape, Insert
<1>2. h \in ToHear(e) /\ <<h, e>> \in Deliveries
  BY <1>0, <1>1 DEF ToHear, Deliveries
<1>3. CASE hook[h] = "deleted"
  <2>1. /\ Leave(e) /\ UNCHANGED <<hook, row, sends, acked, asked, shared, faults>>
    BY <1>3 DEF Insert, hist
  <2>2. PICK x : Goto(e, x) /\ Shape(e, x) /\ x.pc = "done"
    BY <1>0, <2>1, LeaveShape
  <2>3. /\ sender'[e] = x
        /\ \A b \in Actors : b # e => sender'[b] = sender[b]
    BY <1>0, <2>2, Moved DEF IInv
  <2>4. /\ Tables' /\ Gone' /\ (Untroubled' => Untroubled)
        /\ \A d \in Deliveries : Unmoved(d)
        /\ \A d \in Deliveries : row[d].status \in {"success", "failed"}
                                   => row'[d].status \in {"success", "failed"}
    BY <2>1, TablesKept, FaultsKept DEF IInv, Tables
  <2>5. \A d \in Deliveries : HoldsLess(e, d)
    BY <1>0, <2>2, <2>3 DEF HoldsLess, InPost, InSave, InFound
  <2>6. \A f \in Events : \A g \in ToHear(f)' : g \in ToHear(f)
    BY <2>2, <2>3, EventActor DEF ToHear
  <2>7. ~Untroubled'
    BY <1>3, <2>1 DEF Untroubled
  <2>8. shared \subseteq shared' /\ faults' >= faults
    BY <2>1, FaultsKept
  <2> QED  BY ONLY IInv, <1>0, <2>2, <2>4, <2>5, <2>6, <2>7, <2>8, {} \in SUBSET Deliveries, Step
<1>4. CASE hook[h] # "deleted"
  <2> DEFINE fresh == [status |-> "pending", attempts |-> 0, retry |-> "none"]
             d0 == <<h, e>>
             x == InHand("post", d0, fresh, sender[e].found \ {h}, sender[e].all)
  <2>1. /\ Goto(e, x) /\ row' = [row EXCEPT ![d0] = fresh]
        /\ UNCHANGED <<hook, sends, acked, asked, shared, faults>>
    BY <1>4 DEF Insert, hist
  <2>2. /\ x.pc = "post" /\ x.delivery = d0 /\ x.copy = fresh
        /\ x.found = sender[e].found \ {h} /\ x.all = sender[e].all
    BY DEF InHand
  <2>3. fresh \in Delivery /\ fresh # NoDelivery /\ fresh.attempts = 0 /\ fresh.status = "pending"
    BY DEF Delivery, NoDelivery
  <2> HIDE DEF x, fresh
  <2>4. Shape(e, x)
    BY <1>0, <1>1, <1>2, <2>2, <2>3, EventActor DEF Shape, EventShape
  <2>5. /\ sender'[e] = x
        /\ \A b \in Actors : b # e => sender'[b] = sender[b]
    BY <1>0, <2>1, Moved DEF IInv
  <2>6. /\ row'[d0] = fresh
        /\ \A d \in Deliveries : d # d0 => row'[d] = row[d]
        /\ row' \in [Deliveries -> Delivery \cup {NoDelivery}]
    BY <1>2, <2>1, <2>3 DEF IInv, Tables
  <2>7. Tables' /\ Gone' /\ (Untroubled' => Untroubled)
    BY <1>4, <2>1, <2>6 DEF IInv, Tables, Gone, Untroubled
  <2>8. /\ row[d0] = NoDelivery /\ sends[d0] = 0 /\ acked[d0] = 0
        /\ \A b \in Actors : ~Holds(b, d0)
    BY <1>2 DEF IInv, Fresh
  <2>9. \A d \in Deliveries \ {d0} : Unmoved(d) /\ HoldsLess(e, d)
    BY <1>0, <2>1, <2>2, <2>5, <2>6 DEF Unmoved, HoldsLess, InPost, InSave, InFound
  <2>10. Accounted(d0)'
    <3>1. /\ InPost(e, d0)' /\ ~InSave(e, d0)' /\ ~InFound(e, d0)'
          /\ \A b \in Actors : b # e => ~InPost(b, d0)' /\ ~InSave(b, d0)' /\ ~InFound(b, d0)'
      BY <1>0, <2>2, <2>5, <2>8 DEF Holds, InPost, InSave, InFound
    <3>2. /\ sends'[d0] = 0 /\ acked'[d0] = 0 /\ asked'[d0] \in Nat /\ faults' \in Nat
          /\ MaxRetries \in Nat /\ MaxRetries > 0
      BY <1>2, <2>1, <2>8, TableTypes, LimitsAssumption DEF IInv
    <3>3. row'[d0].attempts = 0 /\ Won(row'[d0]) = 0
      BY <2>3, <2>6 DEF Won
    <3> HIDE DEF d0
    <3>4. Before(sender[e].copy, d0)'
      <4>1. sender'[e].copy.attempts = 0
        BY <2>2, <2>3, <2>5
      <4>2. sends'[d0] <= 0 + faults'
        <5>1. \A n, f \in Nat : n = 0 => n <= 0 + f
          OBVIOUS
        <5>2. sends'[d0] \in Nat /\ sends'[d0] = 0 /\ faults' \in Nat
          BY <3>2
        <5> QED  BY <5>1, <5>2
      <4>3. acked'[d0] <= asked'[d0] + faults'
        BY <3>2
      <4>4. 0 < MaxRetries + asked'[d0]
        BY <3>2
      <4> QED  BY <3>3, <4>1, <4>2, <4>3, <4>4 DEF Before
    <3>5. Recorded(d0)'
      <4>1. sends'[d0] <= 0 + faults'
        <5>1. \A n, f \in Nat : n = 0 => n <= 0 + f
          OBVIOUS
        <5>2. sends'[d0] \in Nat /\ sends'[d0] = 0 /\ faults' \in Nat
          BY <3>2
        <5> QED  BY <5>1, <5>2
      <4>2. acked'[d0] <= 0 + asked'[d0] + faults'
        BY <3>2
      <4> QED  BY <3>3, <4>1, <4>2 DEF Recorded
    <3>6. \A b, c \in Actors : Holds(b, d0)' /\ Holds(c, d0)' => b = c
      BY <3>1 DEF Holds, InPost, InSave, InFound
    <3> QED  BY <3>1, <3>2, <3>3, <3>4, <3>5, <3>6 DEF Accounted
  <2>11. \A f \in Events : \A g \in ToHear(f)' : g \in ToHear(f) /\ <<g, f>> \notin {d0}
    BY <1>0, <2>2, <2>5, EventActor DEF ToHear
  <2>12. \A d \in Deliveries : row[d].status \in {"success", "failed"}
                                 => row'[d].status \in {"success", "failed"}
    BY <2>6, <2>8 DEF NoDelivery
  <2>13. Untroubled' => SettledFor(e)'
    <3>1. Untroubled' => SettledFor(e)
      BY <2>7 DEF IInv, Settled
    <3>2. \A g \in sender[e].all : g # h => row'[<<g, e>>] = row[<<g, e>>]
      BY <1>1, <2>6 DEF Deliveries
    <3> QED  BY <1>0, <2>2, <2>5, <3>1, <3>2 DEF SettledFor, ToHear
  <2>14. shared \subseteq shared' /\ faults' >= faults /\ {d0} \in SUBSET Deliveries
    BY <1>2, <2>1, FaultsKept
  <2> HIDE DEF d0
  <2> QED  BY ONLY IInv, <1>0, <2>1, <2>4, <2>7, <2>9, <2>10, <2>11, <2>12, <2>13, <2>14, Step
<1> QED  BY <1>3, <1>4

-----------------------------------------------------------------------------
(* Sweeps and requests *)

\* A delivery that nobody holds is taken up: k says whether an admin asked for it.
LEMMA TakesUp ==
  ASSUME Tables, NEW d \in Deliveries, Accounted(d), row[d] # NoDelivery,
         \A a \in Actors : ~InSave(a, d),
         row' = row, sends' = sends, acked' = acked, faults' = faults,
         NEW k \in {0, 1}, asked'[d] = asked[d] + k,
         Won(row[d]) <= k, row[d].attempts < MaxRetries + asked'[d]
  PROVE  /\ Before(row[d], d)'
         /\ sends'[d] <= MaxRetries + asked'[d] + faults'
         /\ acked'[d] <= 1 + asked'[d] + faults'
         /\ row'[d].attempts <= MaxRetries + asked'[d]
         /\ Recorded(d)'
<1>1. /\ sends[d] \in Nat /\ acked[d] \in Nat /\ asked[d] \in Nat /\ faults \in Nat
      /\ MaxRetries \in Nat /\ row[d].attempts \in Nat /\ Won(row[d]) \in Nat
  BY TableTypes DEF Delivery, Won
<1>2. /\ sends[d] <= row[d].attempts + faults
      /\ acked[d] <= Won(row[d]) + asked[d] + faults
      /\ sends[d] <= MaxRetries + asked[d] + faults
      /\ acked[d] <= 1 + asked[d] + faults
  BY DEF Accounted, Recorded
<1>3. Before(row[d], d)'
  BY <1>1, <1>2 DEF Before
<1>4. Recorded(d)'
  BY <1>1, <1>2 DEF Recorded
<1>5. /\ sends'[d] <= MaxRetries + asked'[d] + faults'
      /\ acked'[d] <= 1 + asked'[d] + faults'
  BY <1>1, <1>2
<1>6. row'[d].attempts <= MaxRetries + asked'[d]
  BY <1>1, <1>2
<1> QED  BY <1>3, <1>4, <1>5, <1>6

LEMMA FindFailedStep ==
  ASSUME IInv, NEW s \in Sweepers, FindFailed(s)
  PROVE  IInv'
<1> DEFINE due == {d \in Deliveries : IsDue(row[d])}
           f == [d \in due |-> row[d]]
           x == Onward(s, f, {})
<1>0. s \in Actors /\ s \notin Events
  BY SweeperActor
<1>1. /\ Goto(s, x) /\ due # {} /\ sender[s].pc = "idle"
      /\ shared' = shared \cup {d \in due : \E a \in Actors \ {s} : Holds(a, d)}
      /\ UNCHANGED <<hook, row, sends, acked, asked, faults>>
  BY DEF FindFailed, Resting
<1>2. \A d \in due : /\ d \in Deliveries /\ row[d] # NoDelivery /\ row[d] \in Delivery
                     /\ row[d].status = "failed" /\ row[d].attempts < MaxRetries
  BY DEF IsDue, NoDelivery, IInv, Tables
<1>3. CopiesOK(f)
  BY <1>2 DEF CopiesOK
<1>4. /\ Shape(s, x) /\ x.pc = "next" /\ x.found = f
  BY <1>0, <1>1, <1>3, SweeperOnward DEF Onward
<1> HIDE DEF x
<1>5. /\ sender'[s] = x
      /\ \A b \in Actors : b # s => sender'[b] = sender[b]
  BY <1>0, <1>1, Moved DEF IInv
<1>6. /\ Tables' /\ Gone' /\ (Untroubled' => Untroubled)
      /\ \A d \in Deliveries : Unmoved(d)
      /\ \A d \in Deliveries : row[d].status \in {"success", "failed"}
                                 => row'[d].status \in {"success", "failed"}
  BY <1>1, TablesKept, FaultsKept DEF IInv, Tables
<1>7. \A d \in Deliveries \ due : HoldsLess(s, d)
  BY <1>1, <1>4, <1>5 DEF HoldsLess, InPost, InSave, InFound
<1>8. ASSUME NEW d \in due, d \notin shared' PROVE Accounted(d)'
  <2>1. /\ d \in Deliveries /\ row[d] # NoDelivery /\ row[d].status = "failed"
        /\ row[d].attempts \in Nat /\ row[d].attempts < MaxRetries
    BY <1>2 DEF Delivery
  <2>2. d \notin shared /\ \A a \in Actors : ~Holds(a, d)
    BY <1>1, <1>8 DEF Holds
  <2>3. Accounted(d)
    BY <2>1, <2>2 DEF IInv, Counted
  <2>4. \A a \in Actors : ~InPost(a, d) /\ ~InSave(a, d) /\ ~InFound(a, d)
    BY <2>2 DEF Holds, InPost, InSave, InFound
  <2>5. asked[d] \in Nat /\ MaxRetries \in Nat
    BY <2>1, TableTypes DEF IInv
  <2>6. asked'[d] = asked[d] + 0 /\ row[d].attempts < MaxRetries + asked'[d]
    BY <1>1, <2>1, <2>5
  <2>7. Won(row[d]) <= 0
    BY <2>1 DEF Won
  <2>8. /\ Before(row[d], d)'
        /\ sends'[d] <= MaxRetries + asked'[d] + faults'
        /\ acked'[d] <= 1 + asked'[d] + faults'
        /\ row'[d].attempts <= MaxRetries + asked'[d]
        /\ Recorded(d)'
    BY <1>1, <2>1, <2>3, <2>4, <2>6, <2>7, TakesUp DEF IInv
  <2>9. \A a \in Actors : /\ ~InPost(a, d)' /\ ~InSave(a, d)'
                          /\ a # s => ~InFound(a, d)'
    BY <1>4, <1>5, <2>4 DEF InPost, InSave, InFound
  <2>10. sender'[s].found[d] = row'[d]
    BY <1>1, <1>4, <1>5
  <2>11. Before(sender[s].found[d], d)'
    BY <2>8, <2>10 DEF Before
  <2>12. \A a, b \in Actors : Holds(a, d)' /\ Holds(b, d)' => a = b
    BY <2>9 DEF Holds, InPost, InSave, InFound
  <2> QED  BY <2>8, <2>9, <2>11, <2>12 DEF Accounted
<1>9. \A e \in Events : \A h \in ToHear(e)' : h \in ToHear(e) /\ <<h, e>> \notin due
  <2>1. \A e \in Events : ToHear(e)' = ToHear(e)
    BY <1>0, <1>5, EventActor DEF ToHear
  <2> QED  BY <1>2, <2>1, NotFresh
<1>10. shared \subseteq shared' /\ faults' >= faults /\ due \in SUBSET Deliveries
  BY <1>1, FaultsKept
<1> HIDE DEF due
<1> QED  BY ONLY IInv, <1>0, <1>1, <1>4, <1>6, <1>7, <1>8, <1>9, <1>10, Step

LEMMA RetryStep ==
  ASSUME IInv, NEW q \in Requests, NEW d \in Deliveries, Retry(q, d)
  PROVE  IInv'
<1> DEFINE x == InHand("post", d, row[d], {}, {})
<1>0. q \in Actors /\ q \notin Events /\ q \notin Sweepers
  BY RequestActor
<1>1. /\ Goto(q, x) /\ sender[q].pc = "ready" /\ row[d] # NoDelivery
      /\ asked' = [asked EXCEPT ![d] = @ + 1]
      /\ shared' = IF \E a \in Actors \ {q} : Holds(a, d) THEN shared \cup {d} ELSE shared
      /\ UNCHANGED <<hook, row, sends, acked, faults>>
  BY DEF Retry, Resting
<1>2. row[d] \in Delivery
  BY <1>1, TableTypes DEF IInv
<1>3. x.pc = "post" /\ x.delivery = d /\ x.copy = row[d]
  BY DEF InHand
<1>4. Shape(q, x)
  BY <1>0, <1>2, <1>3 DEF Shape
<1> HIDE DEF x
<1>5. /\ sender'[q] = x
      /\ \A b \in Actors : b # q => sender'[b] = sender[b]
  BY <1>0, <1>1, Moved DEF IInv
<1>6. /\ asked' \in [Deliveries -> Nat] /\ asked'[d] = asked[d] + 1
      /\ \A c \in Deliveries : c # d => asked'[c] = asked[c]
  BY <1>1 DEF IInv, Tables
<1>7. Tables' /\ Gone' /\ (Untroubled' => Untroubled)
  BY <1>1, <1>6 DEF IInv, Tables, Gone, Untroubled
<1>8. \A c \in Deliveries \ {d} : Unmoved(c) /\ HoldsLess(q, c)
  BY <1>0, <1>1, <1>3, <1>5, <1>6 DEF Unmoved, HoldsLess, InPost, InSave, InFound
<1>9. ASSUME d \notin shared' PROVE Accounted(d)'
  <2>1. d \notin shared /\ \A a \in Actors : ~Holds(a, d)
    BY <1>0, <1>1, <1>9 DEF Holds
  <2>2. Accounted(d)
    BY <2>1 DEF IInv, Counted
  <2>3. \A a \in Actors : ~InPost(a, d) /\ ~InSave(a, d) /\ ~InFound(a, d)
    BY <2>1 DEF Holds, InPost, InSave, InFound
  <2>4. row[d].attempts \in Nat /\ asked[d] \in Nat /\ MaxRetries \in Nat
    BY <1>2, TableTypes DEF IInv, Delivery
  <2>5. row[d].attempts <= MaxRetries + asked[d]
    BY <1>1, <2>2 DEF Accounted
  <2>6. row[d].attempts < MaxRetries + asked'[d]
    BY <1>6, <2>4, <2>5
  <2>7. Won(row[d]) <= 1
    BY DEF Won
  <2>8. /\ Before(row[d], d)'
        /\ sends'[d] <= MaxRetries + asked'[d] + faults'
        /\ acked'[d] <= 1 + asked'[d] + faults'
        /\ row'[d].attempts <= MaxRetries + asked'[d]
        /\ Recorded(d)'
    BY <1>1, <1>6, <2>2, <2>3, <2>6, <2>7, TakesUp DEF IInv
  <2>9. \A a \in Actors : /\ ~InFound(a, d)' /\ ~InSave(a, d)'
                          /\ a # q => ~InPost(a, d)'
    BY <1>0, <1>3, <1>5, <2>3 DEF InPost, InSave, InFound
  <2>10. sender'[q].copy = row'[d]
    BY <1>1, <1>3, <1>5
  <2>11. Before(sender[q].copy, d)'
    BY <2>8, <2>10 DEF Before
  <2>12. \A a, b \in Actors : Holds(a, d)' /\ Holds(b, d)' => a = b
    BY <2>9 DEF Holds, InPost, InSave, InFound
  <2> QED  BY <2>8, <2>9, <2>11, <2>12 DEF Accounted
<1>10. \A e \in Events : \A h \in ToHear(e)' : h \in ToHear(e) /\ <<h, e>> \notin {d}
  <2>1. \A e \in Events : ToHear(e)' = ToHear(e)
    BY <1>0, <1>5, EventActor DEF ToHear
  <2> QED  BY <1>1, <2>1, NotFresh
<1>11. /\ shared \subseteq shared' /\ faults' >= faults /\ {d} \in SUBSET Deliveries
       /\ \A c \in Deliveries : row[c].status \in {"success", "failed"}
                                 => row'[c].status \in {"success", "failed"}
  BY <1>1, FaultsKept
<1> QED  BY ONLY IInv, <1>0, <1>1, <1>4, <1>7, <1>8, <1>9, <1>10, <1>11, Step

-----------------------------------------------------------------------------
(* The POST *)

\* One more POST of a delivery whose copy had an attempt left.
LEMMA Posts ==
  ASSUME Tables, NEW d \in Deliveries, Accounted(d), NEW a, NEW c \in Delivery, Before(c, d),
         NEW ok \in BOOLEAN, Sent(d, ok), UNCHANGED <<row, asked, faults>>
  PROVE  /\ After(Answered(a, c, ok), d)'
         /\ sends'[d] <= MaxRetries + asked'[d] + faults'
         /\ acked'[d] <= 1 + asked'[d] + faults'
         /\ row'[d] # NoDelivery => row'[d].attempts <= MaxRetries + asked'[d]
<1>1. /\ sends[d] \in Nat /\ acked[d] \in Nat /\ asked[d] \in Nat /\ faults \in Nat
      /\ MaxRetries \in Nat /\ c.attempts \in Nat
  BY TableTypes DEF Delivery
<1>2. sends'[d] = sends[d] + 1 /\ acked'[d] = acked[d] + (IF ok THEN 1 ELSE 0)
  BY <1>1 DEF Sent, Tables
<1>3. /\ Answered(a, c, ok).attempts = c.attempts + 1
      /\ Won(Answered(a, c, ok)) = IF ok THEN 1 ELSE 0
  BY AnsweredCopy
<1>4. After(Answered(a, c, ok), d)'
  <2>1. sends'[d] <= c.attempts + 1 + faults'
    BY <1>1, <1>2 DEF Before
  <2>2. acked'[d] <= (IF ok THEN 1 ELSE 0) + asked'[d] + faults'
    BY <1>1, <1>2 DEF Before
  <2>3. c.attempts + 1 <= MaxRetries + asked'[d]
    BY <1>1 DEF Before
  <2>4. row'[d] # NoDelivery => c.attempts + 1 = row'[d].attempts + 1
    BY DEF Before
  <2> QED  BY <1>3, <2>1, <2>2, <2>3, <2>4 DEF After
<1>5. sends'[d] <= MaxRetries + asked'[d] + faults'
  BY <1>1, <1>2 DEF Before
<1>6. acked'[d] <= 1 + asked'[d] + faults'
  BY <1>1, <1>2 DEF Before
<1>7. row'[d] # NoDelivery => row'[d].attempts <= MaxRetries + asked'[d]
  BY DEF Accounted
<1> QED  BY <1>4, <1>5, <1>6, <1>7

\* The tables after it, but for the delivery sent.
LEMMA PostTables ==
  ASSUME IInv, NEW d \in Deliveries, NEW ok \in BOOLEAN, Sent(d, ok),
         UNCHANGED <<hook, row, asked, shared, faults>>
  PROVE  /\ Tables' /\ Gone' /\ (Untroubled' => Untroubled)
         /\ \A c \in Deliveries \ {d} : Unmoved(c)
         /\ \A c \in Deliveries : row[c].status \in {"success", "failed"}
                                    => row'[c].status \in {"success", "failed"}
         /\ shared \subseteq shared' /\ faults' >= faults
<1>1. /\ sends' \in [Deliveries -> Nat] /\ acked' \in [Deliveries -> Nat]
      /\ \A c \in Deliveries : c # d => sends'[c] = sends[c] /\ acked'[c] = acked[c]
  BY DEF Sent, IInv, Tables
<1> QED  BY <1>1, FaultsKept DEF IInv, Tables, Gone, Untroubled, Unmoved

\* The delivery after it: the mover alone holds it, and has still to save.
LEMMA PostAccounted ==
  ASSUME Shapes, NEW a \in Actors, NEW d, Accounted(d), Holds(a, d),
         \A b \in Actors : b # a => sender'[b] = sender[b],
         InSave(a, d)', ~InPost(a, d)', ~InFound(a, d)',
         After(sender[a].copy, d)',
         sends'[d] <= MaxRetries + asked'[d] + faults',
         acked'[d] <= 1 + asked'[d] + faults',
         row'[d] # NoDelivery => row'[d].attempts <= MaxRetries + asked'[d]
  PROVE  Accounted(d)'
<1>1. \A b \in Actors : b # a => ~Holds(b, d)
  BY DEF Accounted
<1>2. \A b \in Actors : b # a => ~InPost(b, d)' /\ ~InSave(b, d)' /\ ~InFound(b, d)'
  BY <1>1 DEF Holds, InPost, InSave, InFound
<1>3. \A b, c \in Actors : Holds(b, d)' /\ Holds(c, d)' => b = c
  BY <1>2 DEF Holds, InPost, InSave, InFound
<1>4. Recorded(d)'
  BY DEF Recorded
<1> QED  BY <1>2, <1>3, <1>4 DEF Accounted

LEMMA PostStep ==
  ASSUME IInv, NEW a \in Events \cup Requests, Post(a)
  PROVE  IInv'
<1>0. a \in Actors /\ a \notin Sweepers /\ Shape(a, sender[a]) /\ sender[a].pc = "post"
  BY EventActor, RequestActor DEF IInv, Shapes, Post
<1>1. PICK d \in Deliveries, c \in Delivery : d = sender[a].delivery /\ c = sender[a].copy
  BY <1>0 DEF Shape
<1>2. PICK ok \in BOOLEAN : Sent(d, ok) /\ Goto(a, Answering(a, ok))
  BY <1>1 DEF Post
<1> DEFINE x == Answering(a, ok)
<1>3. UNCHANGED <<hook, row, asked, shared, faults>>
  BY DEF Post
<1>4. /\ x.pc = "save" /\ x.delivery = d /\ x.copy = Answered(a, c, ok)
      /\ x.found = sender[a].found /\ x.all = sender[a].all
  BY <1>1 DEF Answering, InHand
<1> HIDE DEF x
<1>5. Shape(a, x)
  BY <1>0, <1>1, <1>4, AnsweredCopy DEF Shape, EventShape
<1>6. /\ Goto(a, x) /\ sender'[a] = x
      /\ \A b \in Actors : b # a => sender'[b] = sender[b]
  BY <1>0, <1>2, Moved DEF IInv, x
<1>7. /\ Tables' /\ Gone' /\ (Untroubled' => Untroubled)
      /\ \A e \in Deliveries \ {d} : Unmoved(e)
      /\ \A e \in Deliveries : row[e].status \in {"success", "failed"}
                                 => row'[e].status \in {"success", "failed"}
      /\ shared \subseteq shared' /\ faults' >= faults
  BY <1>1, <1>2, <1>3, PostTables
<1>8. /\ InPost(a, d) /\ Holds(a, d)
      /\ InSave(a, d)' /\ ~InPost(a, d)' /\ ~InFound(a, d)'
  BY <1>0, <1>1, <1>4, <1>6 DEF InPost, InSave, InFound, Holds
<1>9. \A e \in Deliveries \ {d} : HoldsLess(a, e)
  BY <1>0, <1>1, <1>4, <1>6 DEF HoldsLess, InPost, InSave, InFound
<1>10. ASSUME d \notin shared' PROVE Accounted(d)'
  <2>1. Accounted(d)
    BY <1>1, <1>3, <1>10 DEF IInv, Counted
  <2>2. Before(c, d)
    BY <1>0, <1>1, <1>8, <2>1 DEF Accounted
  <2>3. /\ After(Answered(a, c, ok), d)'
        /\ sends'[d] <= MaxRetries + asked'[d] + faults'
        /\ acked'[d] <= 1 + asked'[d] + faults'
        /\ row'[d] # NoDelivery => row'[d].attempts <= MaxRetries + asked'[d]
    BY <1>1, <1>2, <1>3, <2>1, <2>2, Posts DEF IInv
  <2>4. sender'[a].copy = Answered(a, c, ok)
    BY <1>4, <1>6
  <2>5. After(sender[a].copy, d)'
    BY <2>3, <2>4 DEF After
  <2> QED  BY <1>0, <1>6, <1>8, <2>1, <2>3, <2>5, PostAccounted DEF IInv
<1>11. \A e \in Events : \A h \in ToHear(e)' : h \in ToHear(e) /\ <<h, e>> \notin {d}
  <2>1. \A e \in Events : ToHear(e)' = ToHear(e)
    BY <1>0, <1>4, <1>6, EventActor DEF ToHear
  <2> QED  BY <1>0, <1>8, <2>1, NotFresh
<1>12. a \in Events /\ Untroubled' => SettledFor(a)'
  BY <1>0, <1>1, <1>3, <1>4, <1>6, <1>7 DEF IInv, Settled, SettledFor, ToHear
<1>13. {d} \in SUBSET Deliveries
  BY <1>1
<1> QED  BY ONLY IInv, <1>0, <1>5, <1>6, <1>7, <1>9, <1>10, <1>11, <1>12, <1>13, Step

LEMMA ResendStep ==
  ASSUME IInv, NEW s \in Sweepers, NEW d \in Deliveries, Resend(s, d)
  PROVE  IInv'
<1> DEFINE f == sender[s].found
           rest == Without(f, d)
<1>0. s \in Actors /\ s \notin Events /\ Shape(s, sender[s]) /\ sender[s].pc = "next" /\ d \in DOMAIN f
  BY SweeperActor DEF IInv, Shapes, Resend
<1>1. CopiesOK(f)
  BY <1>0 DEF Shape, SweeperShape
<1>2. /\ DOMAIN rest = DOMAIN f \ {d} /\ \A c \in DOMAIN rest : rest[c] = f[c]
      /\ CopiesOK(rest)
  BY <1>1 DEF Without, CopiesOK
<1>3. PICK c \in Delivery : c = f[d] /\ InFound(s, d) /\ Holds(s, d)
  BY <1>0, <1>1 DEF CopiesOK, InFound, Holds
<1> HIDE DEF rest
<1>4. CASE hook[d[1]] = "active"
  <2>1. PICK ok \in BOOLEAN :
          /\ Sent(d, ok)
          /\ Goto(s, InHand("save", d, Answered(s, c, ok), rest, {}))
    BY <1>3, <1>4 DEF Resend, rest
  <2> DEFINE x == InHand("save", d, Answered(s, c, ok), rest, {})
  <2>2. UNCHANGED <<hook, row, asked, shared, faults>>
    BY DEF Resend
  <2>3. /\ x.pc = "save" /\ x.delivery = d /\ x.copy = Answered(s, c, ok)
        /\ x.found = rest
    BY DEF InHand
  <2>4. Goto(s, x)
    BY <2>1
  <2> HIDE DEF x
  <2>5. Shape(s, x)
    BY <1>0, <1>2, <1>3, <2>3, AnsweredCopy, SweeperActor DEF Shape, SweeperShape
  <2>6. /\ sender'[s] = x
        /\ \A b \in Actors : b # s => sender'[b] = sender[b]
    BY <1>0, <2>4, Moved DEF IInv
  <2>7. /\ Tables' /\ Gone' /\ (Untroubled' => Untroubled)
        /\ \A e \in Deliveries \ {d} : Unmoved(e)
        /\ \A e \in Deliveries : row[e].status \in {"success", "failed"}
                                   => row'[e].status \in {"success", "failed"}
        /\ shared \subseteq shared' /\ faults' >= faults
    BY <2>1, <2>2, PostTables
  <2>8. InSave(s, d)' /\ ~InPost(s, d)' /\ ~InFound(s, d)'
    BY <1>2, <2>3, <2>6 DEF InPost, InSave, InFound
  <2>9. \A e \in Deliveries \ {d} : HoldsLess(s, e)
    BY <1>0, <1>2, <2>3, <2>6 DEF HoldsLess, InPost, InSave, InFound
  <2>10. ASSUME d \notin shared' PROVE Accounted(d)'
    <3>1. Accounted(d)
      BY <2>2, <2>10 DEF IInv, Counted
    <3>2. Before(c, d)
      BY <1>0, <1>3, <3>1 DEF Accounted
    <3>3. /\ After(Answered(s, c, ok), d)'
          /\ sends'[d] <= MaxRetries + asked'[d] + faults'
          /\ acked'[d] <= 1 + asked'[d] + faults'
          /\ row'[d] # NoDelivery => row'[d].attempts <= MaxRetries + asked'[d]
      BY <1>3, <2>1, <2>2, <3>1, <3>2, Posts DEF IInv
    <3>4. sender'[s].copy = Answered(s, c, ok)
      BY <2>3, <2>6
    <3>5. After(sender[s].copy, d)'
      BY <3>3, <3>4 DEF After
    <3> QED  BY <1>0, <1>3, <2>6, <2>8, <3>1, <3>3, <3>5, PostAccounted DEF IInv
  <2>11. \A e \in Events : \A h \in ToHear(e)' : h \in ToHear(e) /\ <<h, e>> \notin {d}
    <3>1. \A e \in Events : ToHear(e)' = ToHear(e)
      BY <1>0, <2>6, EventActor DEF ToHear
    <3> QED  BY <1>0, <1>3, <3>1, NotFresh
  <2> QED  BY ONLY IInv, <1>0, <2>4, <2>5, <2>7, <2>9, <2>10, <2>11, {d} \in SUBSET Deliveries,
              Step
<1>5. CASE hook[d[1]] # "active"
  <2> DEFINE x == Onward(s, rest, {})
  <2>1. Goto(s, x) /\ UNCHANGED <<hook, row, sends, acked, asked, shared, faults>>
    BY <1>5 DEF Resend, rest
  <2>2. Shape(s, x) /\ x.pc \in {"next", "idle"} /\ (x.pc = "next" => x.found = rest)
    BY <1>2, SweeperOnward
  <2> HIDE DEF x
  <2>3. /\ sender'[s] = x
        /\ \A b \in Actors : b # s => sender'[b] = sender[b]
    BY <1>0, <2>1, Moved DEF IInv
  <2>4. /\ Tables' /\ Gone' /\ (Untroubled' => Untroubled)
        /\ \A e \in Deliveries : Unmoved(e)
        /\ \A e \in Deliveries : row[e].status \in {"success", "failed"}
                                   => row'[e].status \in {"success", "failed"}
    BY <2>1, TablesKept, FaultsKept DEF IInv, Tables
  <2>5. \A e \in Deliveries : HoldsLess(s, e)
    BY <1>0, <1>2, <2>2, <2>3 DEF HoldsLess, InPost, InSave, InFound
  <2>6. \A e \in Events : \A h \in ToHear(e)' : h \in ToHear(e)
    BY <1>0, <2>3, EventActor DEF ToHear
  <2>7. shared \subseteq shared' /\ faults' >= faults
    BY <2>1, FaultsKept
  <2> QED  BY ONLY IInv, <1>0, <2>1, <2>2, <2>4, <2>5, <2>6, <2>7, {} \in SUBSET Deliveries, Step
<1> QED  BY <1>4, <1>5

-----------------------------------------------------------------------------
(* The record of it *)

LEMMA SaveStep ==
  ASSUME IInv, NEW a \in Actors, Save(a)
  PROVE  IInv'
<1>0. Shape(a, sender[a]) /\ sender[a].pc = "save"
  BY DEF IInv, Shapes, Save
<1>1. PICK d \in Deliveries, c \in Delivery :
        /\ d = sender[a].delivery /\ c = sender[a].copy
        /\ c.status \in {"success", "failed"}
  BY <1>0 DEF Shape
<1>2. InSave(a, d) /\ Holds(a, d) /\ ~InPost(a, d) /\ ~InFound(a, d)
  BY <1>0, <1>1 DEF InSave, InPost, InFound, Holds, Shape, SweeperShape
<1>3. CASE hook[d[1]] = "deleted"
  <2>1. Leave(a) /\ UNCHANGED <<hook, row, sends, acked, asked, shared, faults>>
    BY <1>1, <1>3 DEF Save, hist
  <2>2. PICK x : /\ Goto(a, x) /\ Shape(a, x) /\ x.pc \in {"idle", "done"}
                 /\ a \notin Sweepers => x.pc = "done"
                 /\ a \in Sweepers => x.pc = "idle"
    BY <2>1, LeaveShape
  <2>3. /\ sender'[a] = x
        /\ \A b \in Actors : b # a => sender'[b] = sender[b]
    BY <2>2, Moved DEF IInv
  <2>4. /\ Tables' /\ Gone' /\ (Untroubled' => Untroubled)
        /\ \A e \in Deliveries : Unmoved(e)
        /\ \A e \in Deliveries : row[e].status \in {"success", "failed"}
                                   => row'[e].status \in {"success", "failed"}
    BY <2>1, TablesKept, FaultsKept DEF IInv, Tables
  <2>5. row'[d] = NoDelivery
    BY <1>3, <2>1 DEF IInv, Gone
  <2>6. \A e \in Deliveries : HoldsLess(a, e)
    BY <1>1, <2>2, <2>3, <2>5 DEF HoldsLess, InPost, InSave, InFound
  <2>7. \A e \in Events : \A h \in ToHear(e)' : h \in ToHear(e)
    BY <2>2, <2>3, EventActor DEF ToHear
  <2>8. ~Untroubled'
    BY <1>1, <1>3, <2>1 DEF Untroubled, Deliveries
  <2>9. shared \subseteq shared' /\ faults' >= faults
    BY <2>1, FaultsKept
  <2> QED  BY ONLY IInv, <2>2, <2>4, <2>6, <2>7, <2>8, <2>9, {} \in SUBSET Deliveries, Step
<1>4. CASE hook[d[1]] # "deleted"
  <2>1. /\ row' = [row EXCEPT ![d] = c]
        /\ IF a \in Requests THEN Leave(a) ELSE Goto(a, Onward(a, sender[a].found, sender[a].all))
        /\ UNCHANGED <<hook, sends, acked, asked, shared, faults>>
    BY <1>1, <1>4 DEF Save, hist
  <2>2. PICK x :
          /\ Goto(a, x) /\ Shape(a, x) /\ x.pc \in {"idle", "done", "next", "heard"}
          /\ a \in Sweepers /\ x.pc # "idle" => x.found = sender[a].found
          /\ a \in Events =>
               /\ x.pc \in {"next", "heard"} /\ x.all = sender[a].all
               /\ x.pc = "next" => x.found = sender[a].found
               /\ x.pc = "heard" => sender[a].found = {}
    <3>1. CASE a \in Requests
      BY <2>1, <3>1, LeaveShape, RequestActor
    <3>2. CASE a \in Events
      <4> DEFINE x == Onward(a, sender[a].found, sender[a].all)
      <4>1. sender[a].found \in SUBSET sender[a].all /\ sender[a].all \in SUBSET Hooks
        BY <1>0, <3>2 DEF Shape, EventShape
      <4>2. /\ Shape(a, x) /\ x.pc \in {"next", "heard"} /\ x.all = sender[a].all
            /\ x.pc = "heard" => sender[a].found = {}
            /\ x.pc = "next" => x.found = sender[a].found
        BY <3>2, <4>1, EventOnward
      <4>3. Goto(a, x)
        BY <2>1, <3>2, EventActor
      <4> HIDE DEF x
      <4> QED  BY <3>2, <4>2, <4>3, EventActor
    <3>3. CASE a \in Sweepers
      <4> DEFINE x == Onward(a, sender[a].found, sender[a].all)
      <4>1. CopiesOK(sender[a].found)
        BY <1>0, <3>3 DEF Shape, SweeperShape
      <4>2. /\ Shape(a, x) /\ x.pc \in {"next", "idle"}
            /\ x.pc = "next" => x.found = sender[a].found
        BY <3>3, <4>1, SweeperOnward
      <4>3. Goto(a, x)
        BY <2>1, <3>3, SweeperActor
      <4> HIDE DEF x
      <4> QED  BY <3>3, <4>2, <4>3, SweeperActor
    <3> QED  BY <3>1, <3>2, <3>3 DEF Actors
  <2>3. /\ sender'[a] = x
        /\ \A b \in Actors : b # a => sender'[b] = sender[b]
    BY <2>2, Moved DEF IInv
  <2>4. c # NoDelivery
    BY DEF Delivery, NoDelivery
  <2>5. /\ row'[d] = c
        /\ \A e \in Deliveries : e # d => row'[e] = row[e]
        /\ row' \in [Deliveries -> Delivery \cup {NoDelivery}]
    BY <2>1 DEF IInv, Tables
  <2>6. Tables' /\ Gone' /\ (Untroubled' => Untroubled)
    BY <1>4, <2>1, <2>5 DEF IInv, Tables, Gone, Untroubled
  <2>7. \A e \in Deliveries \ {d} : Unmoved(e) /\ HoldsLess(a, e)
    BY <1>0, <1>1, <2>1, <2>2, <2>3, <2>5 DEF Unmoved, HoldsLess, InPost, InSave, InFound
  <2>8. ASSUME d \notin shared' PROVE Accounted(d)'
    <3>1. Accounted(d)
      BY <2>1, <2>8 DEF IInv, Counted
    <3>2. After(c, d)
      BY <1>1, <1>2, <3>1 DEF Accounted
    <3>3. \A b \in Actors : b # a => ~Holds(b, d)
      BY <1>2, <3>1 DEF Accounted
    <3>4. \A b \in Actors : ~InPost(b, d)' /\ ~InSave(b, d)' /\ ~InFound(b, d)'
      BY <1>0, <1>2, <2>2, <2>3, <3>3 DEF Holds, InPost, InSave, InFound
    <3>5. \A b, e \in Actors : Holds(b, d)' /\ Holds(e, d)' => b = e
      BY <3>4 DEF Holds, InPost, InSave, InFound
    <3>6. Recorded(d)'
      BY <2>1, <2>5, <3>2 DEF Recorded, After
    <3>7. row'[d].attempts <= MaxRetries + asked'[d]
      BY <2>1, <2>5, <3>2 DEF After
    <3>8. /\ sends'[d] <= MaxRetries + asked'[d] + faults'
          /\ acked'[d] <= 1 + asked'[d] + faults'
      BY <2>1, <3>1 DEF Accounted
    <3> QED  BY <3>4, <3>5, <3>6, <3>7, <3>8 DEF Accounted
  <2>9. \A e \in Events : \A h \in ToHear(e)' : h \in ToHear(e) /\ <<h, e>> \notin {d}
    <3>1. \A e \in Events : \A h \in ToHear(e)' : h \in ToHear(e)
      BY <1>0, <2>2, <2>3, EventActor DEF ToHear
    <3> QED  BY <1>2, <3>1, NotFresh
  <2>10. \A e \in Deliveries : row[e].status \in {"success", "failed"}
                                 => row'[e].status \in {"success", "failed"}
    BY <1>1, <2>5
  <2>11. a \in Events /\ Untroubled' => SettledFor(a)'
    <3>1. SUFFICES ASSUME a \in Events, Untroubled' PROVE SettledFor(a)'
      OBVIOUS
    <3>2. SettledFor(a)
      BY <2>6, <3>1 DEF IInv, Settled
    <3>3. sender[a].all \subseteq Hooks
      BY <1>0, <3>1 DEF Shape, EventShape
    <3>4. ASSUME NEW h \in sender[a].all
          PROVE  h \in ToHear(a)' \/ row'[<<h, a>>].status \in {"success", "failed"}
      <4>1. <<h, a>> \in Deliveries
        BY <3>1, <3>3 DEF Deliveries
      <4>2. CASE h \in sender[a].found
        BY <2>2, <2>3, <3>1, <4>2 DEF ToHear
      <4>3. CASE h \notin sender[a].found /\ d = <<h, a>>
        BY <1>1, <2>5, <4>3
      <4>4. CASE h \notin sender[a].found /\ d # <<h, a>>
        <5>1. row[<<h, a>>].status \in {"success", "failed"}
          BY <1>0, <1>1, <3>2, <4>4 DEF SettledFor, ToHear
        <5> QED  BY <2>5, <4>1, <4>4, <5>1
      <4> QED  BY <4>2, <4>3, <4>4
    <3> QED  BY <2>2, <2>3, <3>1, <3>4 DEF SettledFor
  <2>12. shared \subseteq shared' /\ faults' >= faults /\ {d} \in SUBSET Deliveries
    BY <2>1, FaultsKept
  <2> QED  BY ONLY IInv, <2>2, <2>6, <2>7, <2>8, <2>9, <2>10, <2>11, <2>12, Step
<1> QED  BY <1>3, <1>4

-----------------------------------------------------------------------------
(* Failures, the admin and time *)

LEMMA FaultCounted ==
  ASSUME IInv, faults < MaxFaults, faults' = faults + 1
  PROVE  /\ faults' \in 0 .. MaxFaults /\ faults' > faults /\ faults' >= faults
         /\ faults \in Nat /\ faults' # 0
BY LimitsAssumption DEF IInv, Tables

LEMMA FailNoteStep ==
  ASSUME IInv, NEW a \in Actors, FailNote(a)
  PROVE  IInv'
<1>0. /\ Shape(a, sender[a]) /\ sender[a].pc = "save"
      /\ a \in Events /\ a \notin Sweepers /\ a \notin Requests
  BY EventActor DEF IInv, Shapes, FailNote
<1>1. PICK d \in Deliveries, c \in Delivery : d = sender[a].delivery /\ c = sender[a].copy
  BY <1>0 DEF Shape
<1> DEFINE n == [c EXCEPT !.status = "failed", !.retry = "later"]
           x == InHand("save", d, n, sender[a].found, sender[a].all)
<1>2. /\ Goto(a, x) /\ faults < MaxFaults /\ faults' = faults + 1
      /\ UNCHANGED <<hook, row, sends, acked, asked, shared>>
  BY <1>1 DEF FailNote, hist
<1>3. n \in Delivery /\ n.attempts = c.attempts /\ n.status = "failed" /\ Won(n) = 0
  BY DEF Delivery, Won
<1> HIDE DEF n
<1>4. /\ x.pc = "save" /\ x.delivery = d /\ x.copy = n
      /\ x.found = sender[a].found /\ x.all = sender[a].all
  BY DEF InHand
<1> HIDE DEF x
<1>5. Shape(a, x)
  BY <1>0, <1>1, <1>3, <1>4 DEF Shape, EventShape
<1>6. /\ sender'[a] = x
      /\ \A b \in Actors : b # a => sender'[b] = sender[b]
  BY <1>2, Moved DEF IInv
<1>7. /\ Tables' /\ Gone' /\ (Untroubled' => Untroubled)
      /\ \A e \in Deliveries : Unmoved(e)
      /\ \A e \in Deliveries : row[e].status \in {"success", "failed"}
                                 => row'[e].status \in {"success", "failed"}
  BY <1>2, TablesKept, FaultCounted DEF IInv, Tables
<1>8. \A e \in Deliveries \ {d} : HoldsLess(a, e)
  BY <1>0, <1>1, <1>4, <1>6 DEF HoldsLess, InPost, InSave, InFound
<1>9. /\ InSave(a, d) /\ Holds(a, d)
      /\ InSave(a, d)' /\ ~InPost(a, d)' /\ ~InFound(a, d)'
  BY <1>0, <1>1, <1>4, <1>6 DEF InPost, InSave, InFound, Holds
<1>10. ASSUME d \notin shared' PROVE Accounted(d)'
  <2>1. Accounted(d)
    BY <1>2, <1>10 DEF IInv, Counted
  <2>2. After(c, d)
    BY <1>1, <1>9, <2>1 DEF Accounted
  <2>3. /\ sends[d] \in Nat /\ acked[d] \in Nat /\ asked[d] \in Nat /\ faults \in Nat
        /\ MaxRetries \in Nat /\ c.attempts \in Nat /\ Won(c) \in {0, 1}
    BY TableTypes DEF IInv, Delivery, Won
  <2>4. sends'[d] <= n.attempts + faults'
    BY <1>2, <1>3, <2>2, <2>3 DEF After
  <2>5. acked'[d] <= Won(n) + asked'[d] + faults'
    BY <1>2, <1>3, <2>2, <2>3 DEF After
  <2>6. n.attempts <= MaxRetries + asked'[d]
    BY <1>2, <1>3, <2>2 DEF After
  <2>7. row'[d] # NoDelivery => n.attempts = row'[d].attempts + 1
    BY <1>2, <1>3, <2>2 DEF After
  <2>8. sender'[a].copy = n
    BY <1>4, <1>6
  <2>9. After(sender[a].copy, d)'
    BY <2>4, <2>5, <2>6, <2>7, <2>8 DEF After
  <2>10. sends'[d] <= MaxRetries + asked'[d] + faults'
    BY <1>2, <2>1, <2>3 DEF Accounted
  <2>11. acked'[d] <= 1 + asked'[d] + faults'
    BY <1>2, <2>1, <2>3 DEF Accounted
  <2>12. row'[d] # NoDelivery => row'[d].attempts <= MaxRetries + asked'[d]
    BY <1>2, <2>1 DEF Accounted
  <2> QED  BY <1>6, <1>9, <2>1, <2>9, <2>10, <2>11, <2>12, PostAccounted DEF IInv
<1>11. \A e \in Events : \A h \in ToHear(e)' : h \in ToHear(e) /\ <<h, e>> \notin {d}
  <2>1. \A e \in Events : ToHear(e)' = ToHear(e)
    BY <1>0, <1>4, <1>6, EventActor DEF ToHear
  <2> QED  BY <1>9, <2>1, NotFresh
<1>12. ~Untroubled' /\ shared \subseteq shared' /\ faults' >= faults
  BY <1>2, FaultCounted DEF Untroubled
<1>13. {d} \in SUBSET Deliveries
  OBVIOUS
<1> QED  BY ONLY IInv, <1>2, <1>5, <1>7, <1>8, <1>10, <1>11, <1>12, <1>13, Step

LEMMA DieStep ==
  ASSUME IInv, NEW a \in Actors, Die(a)
  PROVE  IInv'
<1>1. /\ Leave(a) /\ faults < MaxFaults /\ faults' = faults + 1
      /\ UNCHANGED <<hook, row, sends, acked, asked, shared>>
  BY DEF Die, hist
<1>2. PICK x : /\ Goto(a, x) /\ Shape(a, x) /\ x.pc \in {"idle", "done"}
               /\ a \notin Sweepers => x.pc = "done"
               /\ a \in Sweepers => x.pc = "idle"
  BY <1>1, LeaveShape
<1>3. /\ sender'[a] = x
      /\ \A b \in Actors : b # a => sender'[b] = sender[b]
  BY <1>2, Moved DEF IInv
<1>4. /\ Tables' /\ Gone' /\ (Untroubled' => Untroubled)
      /\ \A e \in Deliveries : Unmoved(e)
      /\ \A e \in Deliveries : row[e].status \in {"success", "failed"}
                                 => row'[e].status \in {"success", "failed"}
  BY <1>1, TablesKept, FaultCounted DEF IInv, Tables
<1>5. \A e \in Deliveries : HoldsLess(a, e)
  BY <1>1, <1>2, <1>3, FaultCounted DEF HoldsLess, InPost, InSave, InFound
<1>6. \A e \in Events : \A h \in ToHear(e)' : h \in ToHear(e)
  BY <1>2, <1>3, EventActor DEF ToHear
<1>7. ~Untroubled' /\ shared \subseteq shared' /\ faults' >= faults
  BY <1>1, FaultCounted DEF Untroubled
<1> QED  BY ONLY IInv, <1>2, <1>4, <1>5, <1>6, <1>7, {} \in SUBSET Deliveries, Step

\* An admin's request that is over in one statement, on tables T of which it kept the rest.
LEMMA AdminStep ==
  ASSUME IInv, NEW q \in Requests, sender[q].pc = "ready", Leave(q), Tables', Gone',
         \A d \in Deliveries : Unmoved(d), Untroubled' => Untroubled,
         \A d \in Deliveries : Untroubled' /\ row[d].status \in {"success", "failed"}
                                 => row'[d].status \in {"success", "failed"},
         UNCHANGED <<shared, faults>>
  PROVE  IInv'
<1>0. q \in Actors /\ q \notin Events /\ q \notin Sweepers
  BY RequestActor
<1>1. PICK x : Goto(q, x) /\ Shape(q, x) /\ x.pc = "done"
  BY <1>0, LeaveShape
<1>2. /\ sender'[q] = x
      /\ \A b \in Actors : b # q => sender'[b] = sender[b]
  BY <1>0, <1>1, Moved DEF IInv
<1>3. \A d \in Deliveries : HoldsLess(q, d)
  BY <1>0, <1>1, <1>2 DEF HoldsLess, InPost, InSave, InFound
<1>4. \A e \in Events : \A h \in ToHear(e)' : h \in ToHear(e)
  BY <1>0, <1>2, EventActor DEF ToHear
<1>5. shared \subseteq shared' /\ faults' >= faults
  BY FaultsKept
<1> QED  BY <1>0, <1>1, <1>3, <1>4, <1>5, {} \in SUBSET Deliveries, Step

LEMMA SetActiveStep ==
  ASSUME IInv, NEW q \in Requests, NEW h \in Hooks, SetActive(q, h)
  PROVE  IInv'
<1>1. /\ sender[q].pc = "ready" /\ Leave(q)
      /\ UNCHANGED <<row, sends, acked, asked, shared, faults>>
  BY DEF SetActive, Resting, hist
<1>2. /\ hook' \in [Hooks -> {"active", "inactive", "deleted"}]
      /\ \A g \in Hooks : hook'[g] = "deleted" <=> hook[g] = "deleted"
  BY DEF SetActive, IInv, Tables
<1>3. Tables' /\ (Untroubled' => Untroubled)
  BY <1>1, <1>2 DEF IInv, Tables, Untroubled
<1>4. Gone'
  BY <1>1, <1>2 DEF IInv, Gone, Deliveries
<1>5. \A d \in Deliveries : Unmoved(d)
  BY <1>1 DEF Unmoved
<1> QED  BY <1>1, <1>3, <1>4, <1>5, AdminStep

LEMMA DeleteStep ==
  ASSUME IInv, NEW q \in Requests, NEW h \in Hooks, Delete(q, h)
  PROVE  IInv'
<1>1. /\ sender[q].pc = "ready" /\ Leave(q)
      /\ hook' = [hook EXCEPT ![h] = "deleted"]
      /\ row' = [d \in Deliveries |-> IF d[1] = h THEN NoDelivery ELSE row[d]]
      /\ UNCHANGED <<sends, acked, asked, shared, faults>>
  BY DEF Delete, Resting, hist
<1>2. /\ hook' \in [Hooks -> {"active", "inactive", "deleted"}] /\ hook'[h] = "deleted"
      /\ \A g \in Hooks : g # h => hook'[g] = hook[g]
      /\ row' \in [Deliveries -> Delivery \cup {NoDelivery}]
      /\ \A d \in Deliveries : row'[d] = IF d[1] = h THEN NoDelivery ELSE row[d]
  BY <1>1 DEF IInv, Tables
<1>3. Tables' /\ ~Untroubled'
  BY <1>1, <1>2 DEF IInv, Tables, Untroubled
<1>4. Gone'
  BY <1>2 DEF IInv, Gone, Deliveries
<1>5. \A d \in Deliveries : Unmoved(d)
  BY <1>1, <1>2 DEF Unmoved
<1> QED  BY <1>1, <1>3, <1>4, <1>5, AdminStep

LEMMA DueStep ==
  ASSUME IInv, NEW d \in Deliveries, Due(d)
  PROVE  IInv'
<1>1. /\ row[d] # NoDelivery /\ row' = [row EXCEPT ![d] = [row[d] EXCEPT !.retry = "due"]]
      /\ UNCHANGED <<hook, sender, sends, acked, asked, shared, faults>>
  BY DEF Due, hist
<1>2. row[d] \in Delivery
  BY <1>1, TableTypes DEF IInv
<1> DEFINE n == [row[d] EXCEPT !.retry = "due"]
<1>3. n \in Delivery /\ n # NoDelivery /\ n.attempts = row[d].attempts /\ n.status = row[d].status
  BY <1>2 DEF Delivery, NoDelivery
<1> HIDE DEF n
<1>4. /\ row'[d] = n /\ \A e \in Deliveries : e # d => row'[e] = row[e]
      /\ row' \in [Deliveries -> Delivery \cup {NoDelivery}]
  BY <1>1, <1>3 DEF IInv, Tables, n
<1>5. Tables' /\ (Untroubled' => Untroubled)
  BY <1>1, <1>4 DEF IInv, Tables, Untroubled
<1>6. Gone'
  BY <1>1, <1>4 DEF IInv, Gone
<1>7. \A e \in Deliveries : Unmoved(e)
  BY <1>1, <1>3, <1>4 DEF Unmoved
<1>8. PICK a \in Events : a \in Actors
  BY EventActor DEF Deliveries
<1>9. Goto(a, sender[a]) /\ Shape(a, sender[a])
  BY <1>1, <1>8 DEF Goto, IInv, Shapes
<1>10. \A e \in Deliveries : HoldsLess(a, e)
  BY <1>1 DEF HoldsLess, InPost, InSave, InFound
<1>11. \A e \in Events : \A h \in ToHear(e)' : h \in ToHear(e)
  BY <1>1 DEF ToHear
<1>12. \A e \in Deliveries : row[e].status \in {"success", "failed"}
                               => row'[e].status \in {"success", "failed"}
  BY <1>3, <1>4
<1>13. Untroubled' => SettledFor(a)'
  <2>1. Untroubled' => SettledFor(a)
    BY <1>5 DEF IInv, Settled
  <2>2. sender[a].pc \in {"next", "post", "save", "heard"} =>
          \A h \in sender[a].all : <<h, a>> \in Deliveries
    BY <1>8, <1>9 DEF Shape, EventShape, Deliveries
  <2> QED  BY <1>1, <1>12, <2>1, <2>2 DEF SettledFor, ToHear
<1>14. shared \subseteq shared' /\ faults' >= faults
  BY <1>1, FaultsKept
<1> QED  BY ONLY IInv, <1>5, <1>6, <1>7, <1>8, <1>9, <1>10, <1>11, <1>12, <1>13, <1>14,
            {} \in SUBSET Deliveries, Step

-----------------------------------------------------------------------------
LEMMA InitInv == Init => IInv
<1> SUFFICES ASSUME Init PROVE IInv
  OBVIOUS
<1>1. \A a \in Actors : /\ a \in Sweepers => sender[a].pc = "idle"
                        /\ a \notin Sweepers => sender[a].pc = "ready"
  BY DEF Init, Resting
<1>2. Tables
  BY LimitsAssumption DEF Init, Tables
<1>3. Shapes
  <2>1. sender = [a \in Actors |-> sender[a]]
    BY DEF Init
  <2>2. ASSUME NEW a \in Actors PROVE Shape(a, sender[a])
    BY <1>1, <2>2, EventActor, SweeperActor, RequestActor
       DEF Shape, EventShape, SweeperShape
  <2> QED  BY <2>1, <2>2 DEF Shapes
<1>4. \A a \in Actors, d \in Deliveries :
        ~Holds(a, d) /\ ~InPost(a, d) /\ ~InSave(a, d) /\ ~InFound(a, d)
  BY <1>1 DEF Holds, InPost, InSave, InFound
<1>5. Gone
  BY DEF Init, Gone
<1>6. ASSUME NEW d \in Deliveries PROVE Accounted(d)
  <2>1. sends[d] = 0 /\ acked[d] = 0 /\ asked[d] = 0 /\ faults = 0 /\ row[d] = NoDelivery
    BY DEF Init
  <2>2. /\ 0 <= MaxRetries + 0 + 0
        /\ 0 <= 1 + 0 + 0
    BY LimitsAssumption
  <2>3. Recorded(d)
    BY <2>1 DEF Recorded
  <2> QED  BY <1>4, <2>1, <2>2, <2>3 DEF Accounted
<1>7. Fresh
  <2>1. ASSUME NEW e \in Events, NEW h \in ToHear(e)
        PROVE  /\ row[<<h, e>>] = NoDelivery
               /\ sends[<<h, e>>] = 0 /\ acked[<<h, e>>] = 0
               /\ \A a \in Actors : ~Holds(a, <<h, e>>)
    <3>1. <<h, e>> \in Deliveries
      BY <1>3, Heard
    <3> QED  BY <1>4, <3>1 DEF Init
  <2> QED  BY <2>1 DEF Fresh
<1>8. Settled
  BY <1>1, EventActor DEF Settled, SettledFor
<1> QED  BY <1>2, <1>3, <1>5, <1>6, <1>7, <1>8 DEF IInv, Counted

LEMMA StutterStep == IInv /\ UNCHANGED vars => IInv'
<1> SUFFICES ASSUME IInv, UNCHANGED vars PROVE IInv'
  OBVIOUS
<1>1. UNCHANGED <<hook, row, sender, sends, acked, asked, shared, faults>>
  BY DEF vars
<1>2. Tables' /\ Shapes' /\ Gone'
  BY <1>1 DEF IInv, Tables, Shapes, Gone
<1>3. Counted'
  <2>1. \A d \in Deliveries : Accounted(d) => Accounted(d)'
    BY <1>1 DEF Accounted, Recorded, Before, After, Holds, InPost, InSave, InFound
  <2> QED  BY <1>1, <2>1 DEF IInv, Counted
<1>4. Fresh'
  <2>1. \A e \in Events : ToHear(e)' = ToHear(e)
    BY <1>1 DEF ToHear
  <2>2. \A a, d : Holds(a, d)' <=> Holds(a, d)
    BY <1>1 DEF Holds
  <2> QED  BY <1>1, <2>1, <2>2 DEF IInv, Fresh
<1>5. Settled'
  <2>1. ASSUME NEW e \in Events, SettledFor(e) PROVE SettledFor(e)'
    BY <1>1, <2>1 DEF SettledFor, ToHear
  <2> QED  BY <1>1, <2>1 DEF IInv, Settled, Untroubled
<1> QED  BY <1>2, <1>3, <1>4, <1>5 DEF IInv

LEMMA NextInv == IInv /\ [Next]_vars => IInv'
<1> SUFFICES ASSUME IInv, [Next]_vars PROVE IInv'
  OBVIOUS
<1>1. ASSUME NEW e \in Events, Handle(e) PROVE IInv'
  BY <1>1, FindStep, InsertStep, PostStep, SaveStep, EventActor DEF Handle, Work
<1>2. ASSUME NEW s \in Sweepers, Sweep(s) PROVE IInv'
  BY <1>2, FindFailedStep, ResendStep, SaveStep, SweeperActor DEF Sweep
<1>3. ASSUME NEW q \in Requests, Arrive(q) \/ Work(q) PROVE IInv'
  BY <1>3, RetryStep, SetActiveStep, DeleteStep, PostStep, SaveStep, RequestActor
     DEF Arrive, Work
<1> QED  BY <1>1, <1>2, <1>3, FailNoteStep, DieStep, DueStep, StutterStep DEF Next

\* What the tables, the handlers and the sweeps hold is what they are declared to hold.
THEOREM TypeInvariant == Spec => []TypeOK
BY TypesHold, InitInv, NextInv, PTL DEF Spec

\* However many processes sweep and however often they fail: a delivery is sent no more
\* than maxRetries times and once for each admin's retry and each fault, is answered with
\* success no more than once beyond those, and no webhook keeps an event from another.
THEOREM SendsRight == Spec => []SendsLaw
<1>1. IInv => SendsLaw
  <2> SUFFICES ASSUME IInv PROVE SendsLaw
    OBVIOUS
  <2>1. SendsBounded /\ DeliveredOnce
    BY DEF IInv, Counted, Accounted, SendsBounded, DeliveredOnce
  <2>2. EveryWebhookHears
    BY DEF IInv, Settled, SettledFor, Untroubled, ToHear, EveryWebhookHears
  <2> QED  BY <2>1, <2>2 DEF SendsLaw
<1> QED  BY <1>1, InitInv, NextInv, PTL DEF Spec
================================================================================
