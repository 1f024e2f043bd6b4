------------------------------- MODULE GuestCodes -------------------------------
(***************************************************************************)
(* Emailed guest codes: requesting one within the mailbox's and the        *)
(* client's budget, guessing it, and spending it on an operation that may  *)
(* fail.  Requests overlap and processes die between any two statements.   *)
(***************************************************************************)
EXTENDS Naturals, FiniteSets

CONSTANTS
  Codes,        \* verification ids: random UUIDs, never used again
  Requests,     \* requests in flight, each handled once
  Clients, Mailboxes,
  MaxAttempts,  \* MAX_ATTEMPTS
  Lifetime,     \* CODE_TTL_SECONDS
  KeepFor,      \* how long purgeExpired keeps an expired code
  PerClient, PerMailbox,   \* challenges per hour
  MaxTime       \* bound on the clock

ASSUME LimitsAssumption ==
  {MaxAttempts, Lifetime, KeepFor, PerClient, PerMailbox, MaxTime} \subseteq Nat
ASSUME ClientsAssumption == IsFiniteSet(Clients)

Unissued == [state |-> "unissued"]
Deleted  == [state |-> "deleted"]
Stored   == [state : {"stored"}, attempts : Nat, used : BOOLEAN, expires : Nat]

VARIABLES
  row,          \* the verifications table
  now,          \* the clock
  request,      \* per request: where its handler is
  clientHits,   \* throttler counters of this hour, per client and mailbox ...
  mailboxHits,  \* ... and per mailbox
  guesses,      \* history: codes compared, per verification
  done          \* history: operations a verification authorised to the end

counters == <<clientHits, mailboxHits>>
vars == <<row, now, request, clientHits, mailboxHits, guesses, done>>

Ready == [pc |-> "ready"]
Done  == [pc |-> "done"]
At(pc, c) == [pc |-> pc, code |-> c]

Handler ==
  [pc : {"ready", "done"}]
  \cup [pc : {"mailbox"}, mailbox : Mailboxes]
  \cup [pc : {"store"}]
  \cup [pc : {"deliver", "claim", "run", "release", "undo"}, code : Codes]
  \cup [pc : {"count"}, code : Codes, attempts : Nat]

IsStored(c) == row[c].state = "stored"
Goto(r, h) == request' = [request EXCEPT ![r] = h]

-----------------------------------------------------------------------------
(* challenge *)

\* ThrottlerStorage.increment: a counter past its limit blocks and stands still.
Hit(n, limit) == IF n > limit THEN n ELSE n + 1

\* Mutant: the mailbox is counted before the client.
HitMailboxFirst(r) ==
  /\ request[r] = Ready
  /\ \E k \in Clients, b \in Mailboxes :
       /\ mailboxHits' = [mailboxHits EXCEPT ![b] = Hit(@, PerMailbox)]
       /\ clientHits' = [clientHits EXCEPT ![k][b] = Hit(@, PerClient)]
       /\ Goto(r, IF mailboxHits'[b] > PerMailbox \/ clientHits'[k][b] > PerClient
                    THEN Done ELSE [pc |-> "store"])
  /\ UNCHANGED <<row, now, guesses, done>>

\* The client's budget for the mailbox; past it the mailbox's is left alone.
HitClient(r) ==
  /\ request[r] = Ready
  /\ \E k \in Clients, b \in Mailboxes :
       /\ clientHits' = [clientHits EXCEPT ![k] =
            [clientHits[k] EXCEPT ![b] = Hit(clientHits[k][b], PerClient)]]
       /\ Goto(r, IF clientHits[k][b] >= PerClient THEN Done
                  ELSE [pc |-> "mailbox", mailbox |-> b])
  /\ UNCHANGED <<row, now, mailboxHits, guesses, done>>

HitMailbox(r) ==
  /\ request[r].pc = "mailbox"
  /\ LET b == request[r].mailbox IN
     /\ mailboxHits' = [mailboxHits EXCEPT ![b] = Hit(mailboxHits[b], PerMailbox)]
     /\ Goto(r, IF mailboxHits[b] >= PerMailbox THEN Done ELSE [pc |-> "store"])
  /\ UNCHANGED <<row, now, clientHits, guesses, done>>

\* purgeExpired, also run by the daily data retention job.
Purge ==
  /\ row' = [c \in Codes |->
       IF IsStored(c) /\ row[c].expires + KeepFor < now THEN Deleted ELSE row[c]]
  /\ UNCHANGED <<now, request, counters, guesses, done>>

\* Mutant: a row is stored without the columns' defaults.
StoreBare(r, c) ==
  /\ request[r].pc = "store" /\ row[c] = Unissued
  /\ row' = [row EXCEPT ![c] = [state |-> "stored", attempts |-> 0, expires |-> now + Lifetime]]
  /\ Goto(r, At("deliver", c))
  /\ UNCHANGED <<now, counters, guesses, done>>

Store(r, c) ==
  /\ request[r].pc = "store" /\ row[c] = Unissued
  /\ row' = [row EXCEPT ![c] =
       [state |-> "stored", attempts |-> 0, used |-> FALSE, expires |-> now + Lifetime]]
  /\ Goto(r, At("deliver", c))
  /\ UNCHANGED <<now, counters, guesses, done>>

\* The mail goes out, or the code is deleted again.
Deliver(r) ==
  /\ request[r].pc = "deliver"
  /\ Goto(r, Done) \/ Goto(r, At("undo", request[r].code))
  /\ UNCHANGED <<row, now, counters, guesses, done>>

Undo(r) ==
  /\ request[r].pc = "undo"
  /\ row' = [row EXCEPT ![request[r].code] = Deleted]
  /\ Goto(r, Done)
  /\ UNCHANGED <<now, counters, guesses, done>>

-----------------------------------------------------------------------------
(* consume *)

Read(r, c) ==
  /\ request[r] = Ready
  /\ IsStored(c) /\ ~row[c].used
  /\ row[c].expires > now /\ row[c].attempts < MaxAttempts
  /\ Goto(r, [pc |-> "count", code |-> c, attempts |-> row[c].attempts])
  /\ UNCHANGED <<row, now, counters, guesses, done>>

\* Mutant: the attempt is counted whatever the row says by now.
CountAnyway(r) ==
  /\ request[r].pc = "count"
  /\ LET c == request[r].code IN
     /\ IsStored(c)
     /\ row' = [row EXCEPT ![c].attempts = request[r].attempts + 1]
     /\ guesses' = [guesses EXCEPT ![c] = @ + 1]
     /\ Goto(r, Done) \/ Goto(r, At("claim", c))
  /\ UNCHANGED <<now, counters, done>>

\* The attempt is counted if no other was since the read and the code is unused;
\* only then is the code compared: it is right (on to the claim) or wrong.
Count(r) ==
  /\ request[r].pc = "count"
  /\ LET c == request[r].code IN
     \/ /\ IsStored(c) /\ row[c].attempts = request[r].attempts /\ ~row[c].used
        /\ row' = [row EXCEPT ![c] = [row[c] EXCEPT !.attempts = row[c].attempts + 1]]
        /\ guesses' = [guesses EXCEPT ![c] = guesses[c] + 1]
        /\ Goto(r, Done) \/ Goto(r, At("claim", c))
     \/ /\ ~(IsStored(c) /\ row[c].attempts = request[r].attempts /\ ~row[c].used)
        /\ Goto(r, Done)
        /\ UNCHANGED <<row, guesses>>
  /\ UNCHANGED <<now, counters, done>>

\* Mutant: the claim does not ask whether the code is unused.
ClaimAnyway(r) ==
  /\ request[r].pc = "claim"
  /\ LET c == request[r].code IN
     /\ IsStored(c)
     /\ row' = [row EXCEPT ![c].used = TRUE]
     /\ Goto(r, At("run", c))
  /\ UNCHANGED <<now, counters, guesses, done>>

Used(v, used) == [v EXCEPT !.used = used]

\* UPDATE ... SET usedAt WHERE usedAt IS NULL.
Claim(r) ==
  /\ request[r].pc = "claim"
  /\ LET c == request[r].code IN
     \/ /\ IsStored(c) /\ ~row[c].used
        /\ row' = [row EXCEPT ![c] = Used(row[c], TRUE)]
        /\ Goto(r, At("run", c))
     \/ /\ ~(IsStored(c) /\ ~row[c].used)
        /\ Goto(r, Done)
        /\ UNCHANGED row
  /\ UNCHANGED <<now, counters, guesses, done>>

\* Mutant: the claim is taken back after an operation that succeeded.
RunKeeps(r) ==
  /\ request[r].pc = "run"
  /\ done' = [done EXCEPT ![request[r].code] = @ + 1]
  /\ Goto(r, At("release", request[r].code))
  /\ UNCHANGED <<row, now, counters, guesses>>

\* The operation the code was sent for.
Run(r) ==
  /\ request[r].pc = "run"
  /\ LET c == request[r].code IN
     \/ /\ done' = [done EXCEPT ![c] = done[c] + 1]
        /\ Goto(r, Done)
     \/ /\ Goto(r, At("release", c))
        /\ UNCHANGED done
  /\ UNCHANGED <<row, now, counters, guesses>>

\* It threw: the claim is taken back, on the row if it is still there.
Release(r) ==
  /\ request[r].pc = "release"
  /\ LET c == request[r].code IN
       row' = [row EXCEPT ![c] = IF IsStored(c) THEN Used(row[c], FALSE) ELSE row[c]]
  /\ Goto(r, Done)
  /\ UNCHANGED <<now, counters, guesses, done>>

\* The process dies, or a statement of the handler fails.
Crash(r) ==
  /\ request[r] \notin {Ready, Done}
  /\ Goto(r, Done)
  /\ UNCHANGED <<row, now, counters, guesses, done>>

Tick ==
  /\ now < MaxTime
  /\ now' = now + 1
  /\ UNCHANGED <<row, request, counters, guesses, done>>

Init ==
  /\ row = [c \in Codes |-> Unissued]
  /\ now = 0
  /\ request = [r \in Requests |-> Ready]
  /\ clientHits = [k \in Clients |-> [b \in Mailboxes |-> 0]]
  /\ mailboxHits = [b \in Mailboxes |-> 0]
  /\ guesses = [c \in Codes |-> 0]
  /\ done = [c \in Codes |-> 0]

Continue(r) ==
  \/ HitMailbox(r) \/ Deliver(r) \/ Undo(r) \/ Count(r) \/ Claim(r) \/ Run(r) \/ Release(r)
  \/ \E c \in Codes : Store(r, c)

Next ==
  \/ \E r \in Requests : HitClient(r) \/ Continue(r) \/ Crash(r)
  \/ \E r \in Requests, c \in Codes : Read(r, c)
  \/ Purge
  \/ Tick

Spec == Init /\ [][Next]_vars

-----------------------------------------------------------------------------
TypeOK ==
  /\ row \in [Codes -> Stored \cup {Unissued, Deleted}]
  /\ now \in Nat
  /\ request \in [Requests -> Handler]
  /\ clientHits \in [Clients -> [Mailboxes -> Nat]]
  /\ mailboxHits \in [Mailboxes -> Nat]
  /\ guesses \in [Codes -> Nat]
  /\ done \in [Codes -> Nat]

\* The requests whose operation a code authorises right now.
Holders(c) ==
  {r \in Requests : request[r].pc \in {"run", "release"} /\ request[r].code = c}

\* However many requests present the same right code at once, crash, or fail and
\* release it, one operation at most is carried out with it, and none runs beside
\* another (consume: "two requests cannot both spend it").
SpentOnce ==
  \A c \in Codes :
    /\ done[c] <= 1
    /\ \A r, q \in Holders(c) : r = q
    /\ done[c] = 1 => Holders(c) = {}

\* Overlapping guesses cannot share an attempt: the code is compared at most
\* MAX_ATTEMPTS times ("Every guess counts, right or wrong").
GuessesBounded == \A c \in Codes : guesses[c] <= MaxAttempts

\* One client cannot use up the mailbox owner's budget: what all clients together
\* take of it is limited by what each may take (challenge).
OwnerNotLockedOut ==
  \A b \in Mailboxes : mailboxHits[b] <= PerClient * Cardinality(Clients)

\* The code as OneTimeCode describes it.
IsFree(c) == row[c] = Unissued \/ (IsStored(c) /\ ~row[c].used)
PhaseOf(c) ==
  CASE done[c] = 1 -> "spent"
    [] done[c] # 1 /\ Holders(c) # {} -> "held"
    [] done[c] # 1 /\ Holders(c) = {} -> IF IsFree(c) THEN "free" ELSE "void"
Phase == [c \in Codes |-> PhaseOf(c)]

Promise == INSTANCE OneTimeCode WITH phase <- Phase

\* Every step of the code is a step the promise allows, or none it sees: a spent
\* code stays spent, and a code is taken only while it is free.
KeepsPromise == Promise!Spec
================================================================================
