-------------------------------- MODULE Webhooks --------------------------------
(***************************************************************************)
(* Deliveries of events to webhooks: sent by the handler of the event,     *)
(* sent again by the five-minute sweep of every process, and by an admin.  *)
(* Each sender keeps a copy of the delivery during the POST and saves the  *)
(* whole copy after it.  One step is one statement or one POST.            *)
(* failureCount and lastDeliveredAt of a webhook are shown to the admin    *)
(* and read by nothing: of the statement that writes them before the save, *)
(* only its failure is here.                                               *)
(***************************************************************************)
EXTENDS Naturals, FiniteSets

CONSTANTS
  Hooks,       \* webhooks subscribed to the events
  Events,      \* events emitted, each handled once
  Sweepers,    \* processes running the retry sweep
  Requests,    \* admin requests, each handled once
  MaxRetries,  \* maxRetries of retryFailedDeliveries
  MaxFaults    \* bound on crashes and failed statements

ASSUME ActorsAssumption ==
  Events \cap Sweepers = {} /\ Events \cap Requests = {} /\ Sweepers \cap Requests = {}
ASSUME LimitsAssumption == MaxRetries \in Nat \ {0} /\ MaxFaults \in Nat

\* dispatch stores one delivery for a webhook and an event.
Deliveries == Hooks \X Events
Actors == Events \cup Sweepers \cup Requests

\* retry is nextRetryAt: not set, in the future, or past.
Delivery == [status : {"pending", "success", "failed"}, attempts : Nat,
             retry : {"none", "later", "due"}]
NoDelivery == [status |-> "absent"]

VARIABLES
  hook,        \* the webhooks table
  row,         \* the deliveries table
  sender,      \* per event handler, sweep and request: where it is, what it holds
  sends,       \* history: POSTs of a delivery
  acked,       \* history: POSTs of it answered with success
  asked,       \* history: retries of it by an admin
  shared,      \* history: deliveries two senders held at once
  faults

vars == <<hook, row, sender, sends, acked, asked, shared, faults>>
hist == <<sends, acked, asked, shared>>

\* found: the webhooks or the copies still to be worked off; in hand: the delivery
\* being sent, the copy of it, and whether its last POST was answered with success.
Resting(pc) == [pc |-> pc]

Holds(a, d) ==
  \/ sender[a].pc \in {"post", "save"} /\ sender[a].delivery = d
  \/ a \in Sweepers /\ sender[a].pc # "idle" /\ d \in DOMAIN sender[a].found
Goto(a, s) == sender' = [sender EXCEPT ![a] = s]
Leave(a) == Goto(a, Resting(IF a \in Sweepers THEN "idle" ELSE "done"))

\* On to what is left of the sweep, or of the event.
Onward(a, found, all) ==
  IF a \in Sweepers
    THEN IF DOMAIN found = {} THEN Resting("idle") ELSE [pc |-> "next", found |-> found]
    ELSE IF found = {} THEN [pc |-> "heard", all |-> all]
         ELSE [pc |-> "next", found |-> found, all |-> all]

\* A delivery in hand, with what is left to do after it.
InHand(pc, d, copy, found, all) ==
  [pc |-> pc, delivery |-> d, copy |-> copy, found |-> found, all |-> all]

-----------------------------------------------------------------------------
(* handleEscalatedEvent and dispatch *)

\* The active webhooks, read once for the event.
Find(e) ==
  /\ sender[e] = Resting("ready")
  /\ LET active == {h \in Hooks : hook[h] = "active"}
     IN Goto(e, Onward(e, active, active))
  /\ UNCHANGED <<hook, row, hist, faults>>

\* dispatch to the next of them: the pending delivery, which a webhook deleted
\* meanwhile refuses, and with it the rest of the event.
Insert(e, h) ==
  /\ sender[e].pc = "next" /\ h \in sender[e].found
  /\ IF hook[h] = "deleted"
       THEN Leave(e) /\ UNCHANGED row
       ELSE LET fresh == [status |-> "pending", attempts |-> 0, retry |-> "none"] IN
            /\ row' = [row EXCEPT ![<<h, e>>] = fresh]
            /\ Goto(e, InHand("post", <<h, e>>, fresh, sender[e].found \ {h}, sender[e].all))
  /\ UNCHANGED <<hook, hist, faults>>

-----------------------------------------------------------------------------
(* retryFailedDeliveries and retryDelivery *)

\* Mutant: the query looks at the time only.
IsDueAnyway(r) == r # NoDelivery /\ r.retry = "due"

\* Mutant: one attempt too many.
IsDueOnceMore(r) == r.status = "failed" /\ r.attempts <= MaxRetries /\ r.retry = "due"

\* Mutant: one attempt too few.
IsDueOnceLess(r) == r.status = "failed" /\ r.attempts + 1 < MaxRetries /\ r.retry = "due"

IsDue(r) == r.status = "failed" /\ r.attempts < MaxRetries /\ r.retry = "due"

\* The deliveries that failed and are due, each a copy.
FindFailed(s) ==
  /\ sender[s] = Resting("idle")
  /\ LET due == {d \in Deliveries : IsDue(row[d])} IN
     /\ due # {}
     /\ Goto(s, Onward(s, [d \in due |-> row[d]], {}))
     /\ shared' = shared \cup {d \in due : \E a \in Actors \ {s} : Holds(a, d)}
  /\ UNCHANGED <<hook, row, sends, acked, asked, faults>>

\* The admin's Retry button: any delivery, whatever its status.
Retry(q, d) ==
  /\ sender[q] = Resting("ready")
  /\ row[d] # NoDelivery
  /\ Goto(q, InHand("post", d, row[d], {}, {}))
  /\ asked' = [asked EXCEPT ![d] = @ + 1]
  /\ shared' = IF \E a \in Actors \ {q} : Holds(a, d) THEN shared \cup {d} ELSE shared
  /\ UNCHANGED <<hook, row, sends, acked, faults>>

-----------------------------------------------------------------------------
(* One POST and its record, by any of the three. *)

\* The copy after the POST.  The admin's retry sets no next one, nor does the last
\* attempt of the sweep.
Answered(a, copy, ok) ==
  [status |-> IF ok THEN "success" ELSE "failed",
   attempts |-> copy.attempts + 1,
   retry |-> IF \/ ok \/ a \in Requests
                \/ a \in Sweepers /\ copy.attempts + 1 >= MaxRetries
               THEN copy.retry ELSE "later"]

\* One POST: answered with success, or refused, timed out, sent nowhere.
Sent(d, ok) ==
  /\ sends' = [sends EXCEPT ![d] = @ + 1]
  /\ acked' = [acked EXCEPT ![d] = IF ok THEN @ + 1 ELSE @]

\* The sender of the delivery in hand, with the answer in its copy.
Answering(a, ok) ==
  InHand("save", sender[a].delivery, Answered(a, sender[a].copy, ok),
         sender[a].found, sender[a].all)

\* Mutant: a webhook that refuses the event ends its handler.
PostOrEnd(a) ==
  /\ sender[a].pc = "post"
  /\ \E ok \in BOOLEAN :
       /\ Sent(sender[a].delivery, ok)
       /\ IF ok THEN Goto(a, Answering(a, ok))
          ELSE Goto(a, Onward(a, {}, sender[a].all))
  /\ UNCHANGED <<hook, row, asked, shared, faults>>

Post(a) ==
  /\ sender[a].pc = "post"
  /\ \E ok \in BOOLEAN :
       /\ Sent(sender[a].delivery, ok)
       /\ Goto(a, Answering(a, ok))
  /\ UNCHANGED <<hook, row, asked, shared, faults>>

Without(found, d) == [c \in DOMAIN found \ {d} |-> found[c]]

\* The sweep's next copy: its webhook is read, and if it is active the copy is sent.
Resend(s, d) ==
  /\ sender[s].pc = "next" /\ d \in DOMAIN sender[s].found
  /\ LET rest == Without(sender[s].found, d) IN
     \/ /\ hook[d[1]] = "active"
        /\ \E ok \in BOOLEAN :
             /\ Sent(d, ok)
             /\ Goto(s, InHand("save", d, Answered(s, sender[s].found[d], ok), rest, {}))
     \/ /\ hook[d[1]] # "active"
        /\ Goto(s, Onward(s, rest, {}))
        /\ UNCHANGED <<sends, acked>>
  /\ UNCHANGED <<hook, row, asked, shared, faults>>

\* deliveryRepo.save of the copy; with its webhook gone it throws, and what was
\* left of the event or of the sweep is dropped.
Save(a) ==
  /\ sender[a].pc = "save"
  /\ LET d == sender[a].delivery IN
     IF hook[d[1]] = "deleted"
       THEN Leave(a) /\ UNCHANGED row
       ELSE /\ row' = [row EXCEPT ![d] = sender[a].copy]
            /\ IF a \in Requests THEN Leave(a)
               ELSE Goto(a, Onward(a, sender[a].found, sender[a].all))
  /\ UNCHANGED <<hook, hist, faults>>

-----------------------------------------------------------------------------
(* Failures. *)

\* The counters cannot be written: dispatch takes a delivery that arrived for one
\* that failed.
FailNote(a) ==
  /\ faults < MaxFaults /\ faults' = faults + 1
  /\ sender[a].pc = "save"
  /\ a \in Events /\ sender[a].copy.status = "success"
  /\ Goto(a, InHand("save", sender[a].delivery,
                    [sender[a].copy EXCEPT !.status = "failed", !.retry = "later"],
                    sender[a].found, sender[a].all))
  /\ UNCHANGED <<hook, row, hist>>

\* Any other statement fails, or the process dies: the exception ends the handler,
\* the sweep or the request, and what it held is gone.
Die(a) ==
  /\ faults < MaxFaults /\ faults' = faults + 1
  /\ sender[a].pc \in {"next", "post", "save"}
  /\ Leave(a)
  /\ UNCHANGED <<hook, row, hist>>

-----------------------------------------------------------------------------
(* The admin's other requests, and time. *)

SetActive(q, h) ==
  /\ sender[q] = Resting("ready") /\ hook[h] # "deleted"
  /\ hook' = [hook EXCEPT ![h] = IF @ = "active" THEN "inactive" ELSE "active"]
  /\ Leave(q)
  /\ UNCHANGED <<row, hist, faults>>

\* The deliveries go with their webhook (onDelete: CASCADE).
Delete(q, h) ==
  /\ sender[q] = Resting("ready") /\ hook[h] # "deleted"
  /\ hook' = [hook EXCEPT ![h] = "deleted"]
  /\ row' = [d \in Deliveries |-> IF d[1] = h THEN NoDelivery ELSE row[d]]
  /\ Leave(q)
  /\ UNCHANGED <<hist, faults>>

\* nextRetryAt comes.
Due(d) ==
  /\ row[d] # NoDelivery /\ row[d].retry = "later"
  /\ row' = [row EXCEPT ![d] = [row[d] EXCEPT !.retry = "due"]]
  /\ UNCHANGED <<hook, sender, hist, faults>>

Init ==
  /\ hook = [h \in Hooks |-> "active"]
  /\ row = [d \in Deliveries |-> NoDelivery]
  /\ sender = [a \in Actors |-> Resting(IF a \in Sweepers THEN "idle" ELSE "ready")]
  /\ sends = [d \in Deliveries |-> 0]
  /\ acked = [d \in Deliveries |-> 0]
  /\ asked = [d \in Deliveries |-> 0]
  /\ shared = {} /\ faults = 0

Work(a) == Post(a) \/ Save(a)
Handle(e) == Find(e) \/ Work(e) \/ \E h \in Hooks : Insert(e, h)
Sweep(s) == FindFailed(s) \/ Save(s) \/ \E d \in Deliveries : Resend(s, d)
Arrive(q) == \/ \E d \in Deliveries : Retry(q, d)
             \/ \E h \in Hooks : SetActive(q, h) \/ Delete(q, h)

Next ==
  \/ \E e \in Events : Handle(e)
  \/ \E s \in Sweepers : Sweep(s)
  \/ \E q \in Requests : Arrive(q) \/ Work(q)
  \/ \E a \in Actors : FailNote(a) \/ Die(a)
  \/ \E d \in Deliveries : Due(d)

Spec == Init /\ [][Next]_vars

\* Cron starts the sweeps, POSTs time out after ten seconds, statements return.
FairSpec ==
  /\ Spec
  /\ \A e \in Events : WF_vars(Handle(e))
  /\ \A s \in Sweepers : WF_vars(Sweep(s))
  /\ \A q \in Requests : WF_vars(Work(q))
  /\ \A d \in Deliveries : WF_vars(Due(d))

-----------------------------------------------------------------------------
\* The tables hold what they are declared to hold; a copy is of a delivery, and a
\* sweep holds copies of failed ones that have attempts left.
TypeOK ==
  /\ hook \in [Hooks -> {"active", "inactive", "deleted"}]
  /\ row \in [Deliveries -> Delivery \cup {NoDelivery}]
  /\ \A a \in Actors :
       /\ sender[a].pc \in {"ready", "idle", "done", "next", "post", "save", "heard"}
       /\ sender[a].pc \in {"post", "save"} =>
            sender[a].delivery \in Deliveries /\ sender[a].copy \in Delivery
  /\ \A s \in Sweepers : sender[s].pc = "next" =>
       \A d \in DOMAIN sender[s].found :
         sender[s].found[d].status = "failed" /\ sender[s].found[d].attempts < MaxRetries
  /\ {sends, acked, asked} \subseteq [Deliveries -> Nat]
  /\ shared \subseteq Deliveries /\ faults \in 0 .. MaxFaults

\* A delivery is sent MaxRetries times at most, the first time included, and once
\* more for each retry an admin asks for and each crash or failed statement; only two
\* senders that hold its copy at the same time can lose count (retryFailedDeliveries:
\* "attempts < maxRetries").
SendsBounded ==
  \A d \in Deliveries \ shared : sends[d] <= MaxRetries + asked[d] + faults

\* A webhook that answered with success does not get the event again, unless an admin
\* asks for it, the answer could not be recorded, or two senders held the delivery.
DeliveredOnce ==
  \A d \in Deliveries \ shared : acked[d] <= 1 + asked[d] + faults

\* A webhook that refuses an event or does not answer keeps it from no other: with
\* no fault and no webhook deleted, the handler of an event comes to its end only
\* when every webhook it found has a delivery with a result.
EveryWebhookHears ==
  \A e \in Events :
    (faults = 0 /\ \A h \in Hooks : hook[h] # "deleted") =>
      /\ sender[e].pc # "done"
      /\ sender[e].pc = "heard" =>
           \A h \in sender[e].all : row[<<h, e>>].status \in {"success", "failed"}

\* Sends are neither too many nor too few, whoever sends (WebhookService).
SendsLaw == SendsBounded /\ DeliveredOnce /\ EveryWebhookHears

\* A failed delivery with a next attempt is sent until it succeeds or has used up its
\* attempts, unless its webhook is switched off or deleted: overlapping sweeps may
\* write smaller numbers of attempts over greater ones, but not for ever.
Waiting(d) ==
  /\ hook[d[1]] = "active"
  /\ row[d].status = "failed" /\ row[d].attempts < MaxRetries /\ row[d].retry # "none"
FailedIsRetried == \A d \in Deliveries : Waiting(d) ~> ~Waiting(d)
================================================================================
