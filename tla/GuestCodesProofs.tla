---------------------------- MODULE GuestCodesProofs ----------------------------
(***************************************************************************)
(* Proofs about GuestCodes for any number of codes, requests and clients,  *)
(* any budgets and an unbounded number of crashes.                         *)
(***************************************************************************)
EXTENDS GuestCodes, FiniteSetTheorems, TLAPS

\* The attempts of the row are the comparisons made, and no more than allowed;
\* a request that is about to count has seen room for one more.
Budget ==
  /\ \A c \in Codes : /\ guesses[c] <= MaxAttempts
                      /\ row[c] = Unissued => guesses[c] = 0
                      /\ IsStored(c) => guesses[c] = row[c].attempts
  /\ \A r \in Requests : request[r].pc = "count" => request[r].attempts < MaxAttempts

\* A code that is held or spent is marked as used for as long as its row exists.
Claimed ==
  \A c \in Codes :
    /\ done[c] \in {0, 1}
    /\ Holders(c) # {} \/ done[c] = 1 =>
         row[c] # Unissued /\ (IsStored(c) => row[c].used)

\* One request holds a code, and none does once it is spent.
OneHolder ==
  \A c \in Codes :
    /\ \A r, q \in Holders(c) : r = q
    /\ done[c] = 1 => Holders(c) = {}

IInv == TypeOK /\ Budget /\ Claimed /\ OneHolder

-----------------------------------------------------------------------------
(* Shapes of rows and handlers *)

LEMMA RowShape ==
  ASSUME TypeOK, NEW c \in Codes
  PROVE  /\ row[c] \in Stored \cup {Unissued, Deleted}
         /\ IsStored(c) => row[c] \in Stored
         /\ row[c] \in Stored => IsStored(c)
         /\ IsStored(c) => row[c] # Unissued
BY DEF TypeOK, IsStored, Stored, Unissued, Deleted

LEMMA HandlerShape ==
  ASSUME TypeOK, NEW r \in Requests
  PROVE  /\ request[r] \in Handler
         /\ request[r].pc = "mailbox" => request[r].mailbox \in Mailboxes
         /\ request[r].pc \in {"deliver", "claim", "run", "release", "undo", "count"}
              => request[r].code \in Codes
         /\ request[r].pc = "count" => request[r].attempts \in Nat
BY DEF TypeOK, Handler

LEMMA NewRow ==
  ASSUME NEW t \in Nat
  PROVE  /\ [state |-> "stored", attempts |-> 0, used |-> FALSE, expires |-> t] \in Stored
         /\ [state |-> "stored", attempts |-> 0, used |-> FALSE, expires |-> t] # Unissued
BY DEF Stored, Unissued

LEMMA UsedStored ==
  ASSUME NEW v \in Stored, NEW u \in BOOLEAN
  PROVE  /\ Used(v, u) \in Stored
         /\ Used(v, u).used = u
         /\ Used(v, u).attempts = v.attempts
         /\ Used(v, u) # Unissued
         /\ Used(v, u).state = "stored"
BY DEF Stored, Used, Unissued

LEMMA CountedStored ==
  ASSUME NEW v \in Stored
  PROVE  LET w == [v EXCEPT !.attempts = v.attempts + 1] IN
         /\ w \in Stored
         /\ w.used = v.used
         /\ w.attempts = v.attempts + 1
         /\ w # Unissued
         /\ w.state = "stored"
BY DEF Stored, Unissued

LEMMA Handlers ==
  /\ Ready \in Handler /\ Done \in Handler /\ [pc |-> "store"] \in Handler
  /\ \A b \in Mailboxes : [pc |-> "mailbox", mailbox |-> b] \in Handler
  /\ \A c \in Codes : \A p \in {"deliver", "claim", "run", "release", "undo"} :
       At(p, c) \in Handler
  /\ \A c \in Codes, n \in Nat : [pc |-> "count", code |-> c, attempts |-> n] \in Handler
BY DEF Handler, Ready, Done, At

\* A handler that is sent on: its new place, and everybody else's.
LEMMA Sent ==
  ASSUME TypeOK, NEW r \in Requests, NEW h \in Handler, Goto(r, h)
  PROVE  /\ request' \in [Requests -> Handler]
         /\ request'[r] = h
         /\ \A q \in Requests : q # r => request'[q] = request[q]
BY DEF TypeOK, Goto

\* A step that leaves the rows and histories alone and sends one handler to a
\* place where it holds nothing, counting only what it has room for.
LEMMA QuietStep ==
  ASSUME IInv, NEW r \in Requests, NEW h \in Handler, Goto(r, h),
         UNCHANGED <<row, guesses, done>>,
         h.pc \notin {"run", "release"},
         h.pc = "count" => h.attempts < MaxAttempts
  PROVE  /\ Budget' /\ Claimed' /\ OneHolder'
         /\ \A c \in Codes : Holders(c)' \subseteq Holders(c)
<1>1. /\ request'[r] = h
      /\ \A q \in Requests : q # r => request'[q] = request[q]
  BY Sent DEF IInv
<1>2. \A c \in Codes : Holders(c)' \subseteq Holders(c)
  BY <1>1 DEF Holders
<1>3. Budget'
  BY <1>1 DEF IInv, Budget, IsStored
<1>4. Claimed' /\ OneHolder'
  BY <1>2 DEF IInv, Claimed, OneHolder, IsStored
<1> QED  BY <1>2, <1>3, <1>4

-----------------------------------------------------------------------------
(* Types *)

LEMMA HitType == \A n, l \in Nat : Hit(n, l) \in Nat
BY DEF Hit

LEMMA TypeInit == Init => TypeOK
BY DEF Init, TypeOK, Handler, Ready

LEMMA TypeStep == TypeOK /\ [Next]_vars => TypeOK'
<1> SUFFICES ASSUME TypeOK, [Next]_vars PROVE TypeOK'
  OBVIOUS
<1> USE LimitsAssumption
<1>1. ASSUME NEW r \in Requests, HitClient(r) PROVE TypeOK'
  <2>1. PICK k \in Clients, b \in Mailboxes :
          /\ clientHits' = [clientHits EXCEPT ![k] =
               [clientHits[k] EXCEPT ![b] = Hit(clientHits[k][b], PerClient)]]
          /\ Goto(r, IF clientHits[k][b] >= PerClient THEN Done
                     ELSE [pc |-> "mailbox", mailbox |-> b])
    BY <1>1 DEF HitClient
  <2>2. Hit(clientHits[k][b], PerClient) \in Nat
    BY HitType DEF TypeOK
  <2>3. clientHits' \in [Clients -> [Mailboxes -> Nat]]
    BY <2>1, <2>2 DEF TypeOK
  <2>4. request' \in [Requests -> Handler]
    BY <2>1, Handlers DEF TypeOK, Goto
  <2> QED  BY <1>1, <2>3, <2>4 DEF TypeOK, HitClient
<1>2. ASSUME NEW r \in Requests, HitMailbox(r) PROVE TypeOK'
  <2> DEFINE b == request[r].mailbox
  <2>1. b \in Mailboxes
    BY <1>2, HandlerShape DEF HitMailbox
  <2>2. mailboxHits' \in [Mailboxes -> Nat]
    BY <1>2, <2>1, HitType DEF TypeOK, HitMailbox
  <2>3. request' \in [Requests -> Handler]
    BY <1>2, Handlers DEF TypeOK, Goto, HitMailbox
  <2> QED  BY <1>2, <2>2, <2>3 DEF TypeOK, HitMailbox
<1>3. ASSUME NEW r \in Requests, NEW c \in Codes, Store(r, c) PROVE TypeOK'
  <2>1. row' \in [Codes -> Stored \cup {Unissued, Deleted}]
    BY <1>3 DEF TypeOK, Store, Stored
  <2>2. request' \in [Requests -> Handler]
    BY <1>3, Handlers DEF TypeOK, Goto, Store
  <2> QED  BY <1>3, <2>1, <2>2 DEF TypeOK, Store, counters
<1>4. ASSUME NEW r \in Requests, Deliver(r) PROVE TypeOK'
  <2>1. request[r].code \in Codes
    BY <1>4, HandlerShape DEF Deliver
  <2>2. request' \in [Requests -> Handler]
    BY <1>4, <2>1, Handlers DEF TypeOK, Goto, Deliver
  <2> QED  BY <1>4, <2>2 DEF TypeOK, Deliver, counters
<1>5. ASSUME NEW r \in Requests, Undo(r) PROVE TypeOK'
  <2>1. request' \in [Requests -> Handler]
    BY <1>5, Handlers DEF TypeOK, Goto, Undo
  <2>2. row' \in [Codes -> Stored \cup {Unissued, Deleted}]
    BY <1>5 DEF TypeOK, Undo
  <2> QED  BY <1>5, <2>1, <2>2 DEF TypeOK, Undo, counters
<1>6. ASSUME NEW r \in Requests, NEW c \in Codes, Read(r, c) PROVE TypeOK'
  <2>1. row[c].attempts \in Nat
    BY <1>6, RowShape DEF Read, Stored
  <2>2. request' \in [Requests -> Handler]
    BY <1>6, <2>1, Handlers DEF TypeOK, Goto, Read
  <2> QED  BY <1>6, <2>2 DEF TypeOK, Read, counters
<1>7. ASSUME NEW r \in Requests, Count(r) PROVE TypeOK'
  <2> DEFINE c == request[r].code
  <2>1. c \in Codes
    BY <1>7, HandlerShape DEF Count
  <2>2. request' \in [Requests -> Handler]
    BY <1>7, <2>1, Handlers DEF TypeOK, Goto, Count
  <2>3. /\ row' \in [Codes -> Stored \cup {Unissued, Deleted}]
        /\ guesses' \in [Codes -> Nat]
    BY <1>7, <2>1, RowShape, CountedStored DEF TypeOK, Count
  <2> QED  BY <1>7, <2>2, <2>3 DEF TypeOK, Count, counters
<1>8. ASSUME NEW r \in Requests, Claim(r) PROVE TypeOK'
  <2> DEFINE c == request[r].code
  <2>1. c \in Codes
    BY <1>8, HandlerShape DEF Claim
  <2>2. request' \in [Requests -> Handler]
    BY <1>8, <2>1, Handlers DEF TypeOK, Goto, Claim
  <2>3. row' \in [Codes -> Stored \cup {Unissued, Deleted}]
    <3>1. IsStored(c) => Used(row[c], TRUE) \in Stored
      BY <2>1, RowShape, UsedStored
    <3> QED  BY <1>8, <2>1, <3>1 DEF TypeOK, Claim
  <2> QED  BY <1>8, <2>2, <2>3 DEF TypeOK, Claim, counters
<1>9. ASSUME NEW r \in Requests, Run(r) PROVE TypeOK'
  <2>1. request[r].code \in Codes
    BY <1>9, HandlerShape DEF Run
  <2>2. request' \in [Requests -> Handler]
    BY <1>9, <2>1, Handlers DEF TypeOK, Goto, Run
  <2>3. done' \in [Codes -> Nat]
    BY <1>9, <2>1 DEF TypeOK, Run
  <2> QED  BY <1>9, <2>2, <2>3 DEF TypeOK, Run, counters
<1>10. ASSUME NEW r \in Requests, Release(r) PROVE TypeOK'
  <2>1. request[r].code \in Codes
    BY <1>10, HandlerShape DEF Release
  <2>2. request' \in [Requests -> Handler]
    BY <1>10, Handlers DEF TypeOK, Goto, Release
  <2>3. row' \in [Codes -> Stored \cup {Unissued, Deleted}]
    BY <1>10, <2>1, RowShape, UsedStored DEF TypeOK, Release
  <2> QED  BY <1>10, <2>2, <2>3 DEF TypeOK, Release, counters
<1>11. ASSUME NEW r \in Requests, Crash(r) PROVE TypeOK'
  BY <1>11, Handlers DEF TypeOK, Goto, Crash, counters
<1>12. CASE Purge
  BY <1>12 DEF TypeOK, Purge, counters
<1>13. CASE Tick
  BY <1>13 DEF TypeOK, Tick, counters
<1>14. CASE UNCHANGED vars
  BY <1>14 DEF TypeOK, vars
<1> QED
  BY <1>1, <1>2, <1>3, <1>4, <1>5, <1>6, <1>7, <1>8, <1>9, <1>10, <1>11, <1>12, <1>13,
     <1>14 DEF Next, Continue

\* The table, the counters and the handlers keep their types in every reachable state.
THEOREM TypeInvariant == Spec => []TypeOK
BY TypeInit, TypeStep, PTL DEF Spec

-----------------------------------------------------------------------------
(* The inductive invariant *)

LEMMA InvInit == Init => IInv
<1> SUFFICES ASSUME Init PROVE IInv
  OBVIOUS
<1>1. TypeOK
  BY TypeInit
<1>2. \A c \in Codes : row[c] = Unissued /\ ~IsStored(c) /\ Holders(c) = {}
  BY DEF Init, IsStored, Unissued, Holders, Ready
<1>3. Budget /\ Claimed /\ OneHolder
  BY <1>2, LimitsAssumption DEF Init, Budget, Claimed, OneHolder, Ready
<1> QED  BY <1>1, <1>3 DEF IInv

LEMMA QuietHitClient ==
  ASSUME IInv, NEW r \in Requests, HitClient(r)
  PROVE  Budget' /\ Claimed' /\ OneHolder' /\ \A c \in Codes : Holders(c)' \subseteq Holders(c)
<1>1. PICK k \in Clients, b \in Mailboxes :
        Goto(r, IF clientHits[k][b] >= PerClient THEN Done
                ELSE [pc |-> "mailbox", mailbox |-> b])
  BY DEF HitClient
<1>2. PICK h \in Handler : h \in {Done, [pc |-> "mailbox", mailbox |-> b]} /\ Goto(r, h)
  BY <1>1, Handlers
<1> QED  BY <1>2, QuietStep DEF HitClient, Done

LEMMA QuietHitMailbox ==
  ASSUME IInv, NEW r \in Requests, HitMailbox(r)
  PROVE  Budget' /\ Claimed' /\ OneHolder' /\ \A c \in Codes : Holders(c)' \subseteq Holders(c)
<1>1. PICK h \in Handler : h \in {Done, [pc |-> "store"]} /\ Goto(r, h)
  BY Handlers DEF HitMailbox
<1> QED  BY <1>1, QuietStep DEF HitMailbox, Done

LEMMA QuietDeliver ==
  ASSUME IInv, NEW r \in Requests, Deliver(r)
  PROVE  Budget' /\ Claimed' /\ OneHolder' /\ \A c \in Codes : Holders(c)' \subseteq Holders(c)
<1>1. request[r].code \in Codes
  BY HandlerShape DEF IInv, Deliver
<1>2. PICK h \in Handler : h \in {Done, At("undo", request[r].code)} /\ Goto(r, h)
  BY <1>1, Handlers DEF Deliver
<1> QED  BY <1>2, QuietStep DEF Deliver, Done, At

LEMMA QuietCrash ==
  ASSUME IInv, NEW r \in Requests, Crash(r)
  PROVE  Budget' /\ Claimed' /\ OneHolder' /\ \A c \in Codes : Holders(c)' \subseteq Holders(c)
<1>1. Done \in Handler /\ Goto(r, Done)
  BY Handlers DEF Crash
<1> QED  BY <1>1, QuietStep DEF Crash, Done

LEMMA QuietRead ==
  ASSUME IInv, NEW r \in Requests, NEW c \in Codes, Read(r, c)
  PROVE  Budget' /\ Claimed' /\ OneHolder' /\ \A d \in Codes : Holders(d)' \subseteq Holders(d)
<1> DEFINE h == [pc |-> "count", code |-> c, attempts |-> row[c].attempts]
<1>1. row[c].attempts \in Nat /\ row[c].attempts < MaxAttempts
  BY RowShape DEF IInv, Read, Stored
<1>2. h \in Handler
  BY <1>1, Handlers
<1>3. Goto(r, h)
  BY DEF Read
<1>4. h.pc \notin {"run", "release"} /\ h.attempts < MaxAttempts
  BY <1>1
<1> HIDE DEF h
<1> QED  BY <1>2, <1>3, <1>4, QuietStep DEF Read

\* A handler sent to a place where it holds nothing leaves the others holding.
LEMMA Leaves ==
  ASSUME TypeOK, NEW r \in Requests, NEW h \in Handler, Goto(r, h),
         h.pc \notin {"run", "release"}
  PROVE  \A c \in Codes : Holders(c)' = Holders(c) \ {r}
<1>1. /\ request'[r] = h
      /\ \A q \in Requests : q # r => request'[q] = request[q]
  BY Sent
<1> QED  BY <1>1 DEF Holders

\* One sent to a place where it holds c, from one where it held c or nothing.
LEMMA Holds ==
  ASSUME TypeOK, NEW r \in Requests, NEW c \in Codes, NEW p \in {"run", "release"},
         Goto(r, At(p, c)), request[r].pc \in {"run", "release"} => request[r].code = c
  PROVE  /\ Holders(c)' = Holders(c) \cup {r}
         /\ \A d \in Codes \ {c} : Holders(d)' = Holders(d)
<1>1. At(p, c) \in Handler
  BY Handlers
<1>2. /\ request'[r] = At(p, c)
      /\ \A q \in Requests : q # r => request'[q] = request[q]
  BY <1>1, Sent
<1>3. request'[r].pc = p /\ request'[r].code = c
  BY <1>2 DEF At
<1> QED  BY <1>2, <1>3 DEF Holders

LEMMA StoreInv ==
  ASSUME IInv, NEW r \in Requests, NEW c \in Codes, Store(r, c)
  PROVE  /\ Budget' /\ Claimed' /\ OneHolder'
         /\ \A d \in Codes : Holders(d)' = Holders(d) /\ (IsFree(d)' <=> IsFree(d))
<1> USE DEF IInv
<1>1. At("deliver", c) \in Handler /\ Goto(r, At("deliver", c)) /\ At("deliver", c).pc = "deliver"
  BY Handlers DEF Store, At
<1>2. /\ request'[r] = At("deliver", c)
      /\ \A q \in Requests : q # r => request'[q] = request[q]
  BY <1>1, Sent
<1>3. \A d \in Codes : Holders(d)' = Holders(d) \ {r}
  BY <1>1, Leaves
<1>4. \A d \in Codes : Holders(d)' = Holders(d)
  BY <1>3 DEF Store, Holders
<1>5. /\ row'[c].state = "stored" /\ ~row'[c].used /\ row'[c].attempts = 0
      /\ row'[c] # Unissued
      /\ \A d \in Codes \ {c} : row'[d] = row[d]
  BY DEF Store, TypeOK, Unissued
<1>6. Budget'
  BY <1>1, <1>2, <1>5 DEF Budget, IsStored, Store
<1>7. Claimed' /\ OneHolder'
  BY <1>4, <1>5 DEF Claimed, OneHolder, IsStored, Store
<1>8. \A d \in Codes : IsFree(d)' <=> IsFree(d)
  BY <1>5 DEF IsFree, IsStored, Store
<1> QED  BY <1>4, <1>6, <1>7, <1>8

LEMMA UndoInv ==
  ASSUME IInv, NEW r \in Requests, Undo(r)
  PROVE  /\ Budget' /\ Claimed' /\ OneHolder'
         /\ \A d \in Codes : Holders(d)' = Holders(d) /\ (IsFree(d)' => IsFree(d))
<1> USE DEF IInv
<1> DEFINE c == request[r].code
<1>1. Done \in Handler /\ Goto(r, Done) /\ Done.pc = "done"
  BY Handlers DEF Undo, Done
<1>2. /\ request'[r] = Done
      /\ \A q \in Requests : q # r => request'[q] = request[q]
  BY <1>1, Sent
<1>3. \A d \in Codes : Holders(d)' = Holders(d)
  BY <1>1, Leaves DEF Undo, Holders
<1>4. c \in Codes
  BY HandlerShape DEF Undo
<1>5. /\ row'[c].state # "stored" /\ row'[c] # Unissued
      /\ \A d \in Codes \ {c} : row'[d] = row[d]
  BY <1>4 DEF Undo, TypeOK, Unissued, Deleted
<1>6. Budget'
  BY <1>1, <1>2, <1>5 DEF Budget, IsStored, Undo
<1>7. Claimed' /\ OneHolder'
  BY <1>3, <1>5 DEF Claimed, OneHolder, IsStored, Undo
<1>8. \A d \in Codes : IsFree(d)' => IsFree(d)
  BY <1>5 DEF IsFree, IsStored
<1> QED  BY <1>3, <1>6, <1>7, <1>8

LEMMA PurgeInv ==
  ASSUME IInv, Purge
  PROVE  /\ Budget' /\ Claimed' /\ OneHolder'
         /\ \A d \in Codes : Holders(d)' = Holders(d) /\ (IsFree(d)' => IsFree(d))
<1> USE DEF IInv
<1>1. \A d \in Codes : Holders(d)' = Holders(d)
  BY DEF Purge, Holders
<1>2. \A d \in Codes : \/ row'[d] = row[d]
                       \/ /\ row[d] # Unissued
                          /\ row'[d].state # "stored" /\ row'[d] # Unissued
  BY DEF Purge, Unissued, Deleted, IsStored
<1>3. Budget'
  BY <1>2 DEF Budget, IsStored, Purge
<1>4. Claimed' /\ OneHolder'
  BY <1>1, <1>2 DEF Claimed, OneHolder, IsStored, Purge
<1>5. \A d \in Codes : IsFree(d)' => IsFree(d)
  BY <1>2 DEF IsFree, IsStored
<1> QED  BY <1>1, <1>3, <1>4, <1>5

LEMMA CountInv ==
  ASSUME IInv, NEW r \in Requests, Count(r)
  PROVE  /\ Budget' /\ Claimed' /\ OneHolder'
         /\ \A d \in Codes : Holders(d)' = Holders(d) /\ (IsFree(d)' <=> IsFree(d))
<1> USE DEF IInv
<1> DEFINE c == request[r].code
<1>1. c \in Codes /\ request[r].attempts \in Nat /\ request[r].attempts < MaxAttempts
  BY HandlerShape DEF Count, Budget
<1>2. PICK h \in Handler : h \in {Done, At("claim", c)} /\ Goto(r, h)
  BY <1>1, Handlers DEF Count
<1>3. h.pc \in {"done", "claim"}
  BY <1>2 DEF Done, At
<1>4. /\ request'[r] = h
      /\ \A q \in Requests : q # r => request'[q] = request[q]
  BY <1>2, Sent
<1>5. \A d \in Codes : Holders(d)' = Holders(d)
  BY <1>2, <1>3, Leaves DEF Count, Holders
<1>6. CASE /\ IsStored(c) /\ row[c].attempts = request[r].attempts /\ ~row[c].used
           /\ row' = [row EXCEPT ![c] = [row[c] EXCEPT !.attempts = row[c].attempts + 1]]
           /\ guesses' = [guesses EXCEPT ![c] = guesses[c] + 1]
  <2>1. row[c] \in Stored
    BY <1>1, <1>6, RowShape
  <2>2. /\ row'[c] \in Stored /\ row'[c].state = "stored" /\ row'[c] # Unissued
        /\ row'[c].used = row[c].used /\ row'[c].attempts = row[c].attempts + 1
        /\ row[c] # Unissued
        /\ \A d \in Codes \ {c} : row'[d] = row[d]
    BY <1>1, <1>6, <2>1, CountedStored, RowShape DEF TypeOK
  <2>3. /\ guesses'[c] = guesses[c] + 1
        /\ \A d \in Codes \ {c} : guesses'[d] = guesses[d]
    BY <1>1, <1>6 DEF TypeOK
  <2>4. guesses[c] = request[r].attempts
    BY <1>1, <1>6 DEF Budget
  <2>5. guesses'[c] <= MaxAttempts
    BY <1>1, <2>3, <2>4, LimitsAssumption
  <2>6. Budget'
    BY <1>3, <1>4, <1>6, <2>2, <2>3, <2>5 DEF Budget, IsStored
  <2>7. Claimed' /\ OneHolder'
    BY <1>5, <1>6, <2>2 DEF Claimed, OneHolder, IsStored, Count
  <2>8. \A d \in Codes : IsFree(d)' <=> IsFree(d)
    BY <1>6, <2>2 DEF IsFree, IsStored
  <2> QED  BY <1>5, <2>6, <2>7, <2>8
<1>7. CASE UNCHANGED <<row, guesses>>
  <2>1. Budget' /\ Claimed' /\ OneHolder'
    BY <1>2, <1>3, <1>7, QuietStep DEF Count
  <2> QED  BY <1>5, <1>7, <2>1 DEF IsFree, IsStored
<1> QED  BY <1>6, <1>7 DEF Count

\* Claiming a code that is already used, or gone, holds nothing.
LEMMA ClaimLost ==
  ASSUME IInv, NEW r \in Requests, Claim(r), UNCHANGED row, Goto(r, Done)
  PROVE  Budget' /\ Claimed' /\ OneHolder' /\ \A d \in Codes : Holders(d)' = Holders(d)
<1>1. Done \in Handler /\ Done.pc = "done"
  BY Handlers DEF Done
<1>2. \A d \in Codes : Holders(d)' = Holders(d)
  BY <1>1, Leaves DEF IInv, Claim, Holders
<1> QED  BY <1>1, <1>2, QuietStep DEF Claim

LEMMA ClaimWon ==
  ASSUME IInv, NEW r \in Requests, Claim(r), NEW c \in Codes, c = request[r].code,
         IsStored(c) /\ ~row[c].used,
         row' = [row EXCEPT ![c] = Used(row[c], TRUE)], Goto(r, At("run", c))
  PROVE  /\ Budget' /\ Claimed' /\ OneHolder'
         /\ Phase[c] = "free" /\ Phase'[c] = "held"
         /\ \A d \in Codes \ {c} : Phase'[d] = Phase[d]
<1> USE DEF IInv
<1>1. Holders(c) = {} /\ done[c] = 0
  BY DEF Claimed
<1>2. /\ Holders(c)' = Holders(c) \cup {r}
      /\ \A d \in Codes \ {c} : Holders(d)' = Holders(d)
  BY Holds DEF Claim
<1>3. row[c] \in Stored
  BY RowShape
<1>4. /\ row'[c].used /\ row'[c].state = "stored" /\ row'[c] # Unissued
      /\ row'[c].attempts = row[c].attempts
      /\ \A d \in Codes \ {c} : row'[d] = row[d]
  <2>1. row'[c] = Used(row[c], TRUE) /\ \A d \in Codes \ {c} : row'[d] = row[d]
    BY DEF TypeOK
  <2>2. /\ Used(row[c], TRUE).used /\ Used(row[c], TRUE).state = "stored"
        /\ Used(row[c], TRUE) # Unissued /\ Used(row[c], TRUE).attempts = row[c].attempts
    BY <1>3, UsedStored
  <2> QED  BY <2>1, <2>2
<1>5. /\ request'[r].pc = "run"
      /\ \A q \in Requests : q # r => request'[q] = request[q]
  <2>1. At("run", c) \in Handler
    BY Handlers
  <2>2. /\ request'[r] = At("run", c)
        /\ \A q \in Requests : q # r => request'[q] = request[q]
    BY <2>1, Sent
  <2> QED  BY <2>2 DEF At
<1>6. Budget'
  <2>1. guesses' = guesses /\ row[c] # Unissued
    BY RowShape DEF Claim
  <2> QED  BY <1>4, <1>5, <2>1 DEF Budget, IsStored
<1>7. Claimed' /\ OneHolder'
  <2>1. done' = done
    BY DEF Claim
  <2>2. Claimed'
    BY <1>1, <1>2, <1>4, <2>1 DEF Claimed, IsStored
  <2>3. OneHolder'
    BY <1>1, <1>2, <2>1 DEF OneHolder
  <2> QED  BY <2>2, <2>3
<1>8. Phase[c] = "free" /\ Phase'[c] = "held"
  BY <1>1, <1>2 DEF Phase, PhaseOf, IsFree, Claim
<1>9. \A d \in Codes \ {c} : Phase'[d] = Phase[d]
  BY <1>2, <1>4 DEF Phase, PhaseOf, IsFree, IsStored, Claim
<1> QED  BY <1>6, <1>7, <1>8, <1>9

LEMMA RunWon ==
  ASSUME IInv, NEW r \in Requests, Run(r), NEW c \in Codes, c = request[r].code,
         done' = [done EXCEPT ![c] = done[c] + 1], Goto(r, Done)
  PROVE  /\ Budget' /\ Claimed' /\ OneHolder'
         /\ Phase[c] = "held" /\ Phase'[c] = "spent"
         /\ \A d \in Codes \ {c} : Phase'[d] = Phase[d]
<1> USE DEF IInv
<1>1. r \in Holders(c)
  BY DEF Run, Holders
<1>2. done[c] = 0
  BY <1>1 DEF Claimed, OneHolder
<1>3. Done \in Handler /\ Done.pc = "done"
  BY Handlers DEF Done
<1>4. \A d \in Codes : Holders(d)' = Holders(d) \ {r}
  BY <1>3, Leaves
<1>5. Holders(c)' = {} /\ \A d \in Codes \ {c} : Holders(d)' = Holders(d)
  BY <1>1, <1>4 DEF OneHolder, Holders
<1>6. done'[c] = 1 /\ \A d \in Codes \ {c} : done'[d] = done[d]
  BY <1>2 DEF TypeOK
<1>7. /\ request'[r] = Done
      /\ \A q \in Requests : q # r => request'[q] = request[q]
  BY <1>3, Sent
<1>8. Budget'
  BY <1>3, <1>7 DEF Budget, IsStored, Run
<1>9. Claimed' /\ OneHolder'
  BY <1>1, <1>5, <1>6 DEF Claimed, OneHolder, IsStored, Run
<1>10. Phase[c] = "held" /\ Phase'[c] = "spent"
  BY <1>1, <1>2, <1>6 DEF Phase, PhaseOf
<1>11. \A d \in Codes \ {c} : Phase'[d] = Phase[d]
  BY <1>5, <1>6 DEF Phase, PhaseOf, IsFree, IsStored, Run
<1> QED  BY <1>8, <1>9, <1>10, <1>11

LEMMA RunFailed ==
  ASSUME IInv, NEW r \in Requests, Run(r), NEW c \in Codes, c = request[r].code,
         UNCHANGED done, Goto(r, At("release", c))
  PROVE  /\ Budget' /\ Claimed' /\ OneHolder'
         /\ \A d \in Codes : Phase'[d] = Phase[d]
<1> USE DEF IInv
<1>1. \A d \in Codes : Holders(d)' = Holders(d)
  BY Holds DEF Run, Holders
<1>2. /\ request'[r].pc = "release"
      /\ \A q \in Requests : q # r => request'[q] = request[q]
  <2>1. At("release", c) \in Handler
    BY Handlers
  <2>2. /\ request'[r] = At("release", c)
        /\ \A q \in Requests : q # r => request'[q] = request[q]
    BY <2>1, Sent
  <2> QED  BY <2>2 DEF At
<1>3. Budget'
  BY <1>2 DEF Budget, IsStored, Run
<1>4. Claimed' /\ OneHolder'
  BY <1>1 DEF Claimed, OneHolder, IsStored, Run
<1>5. \A d \in Codes : Phase'[d] = Phase[d]
  BY <1>1 DEF Phase, PhaseOf, IsFree, IsStored, Run
<1> QED  BY <1>3, <1>4, <1>5

LEMMA ReleaseInv ==
  ASSUME IInv, NEW r \in Requests, Release(r), NEW c \in Codes, c = request[r].code
  PROVE  /\ Budget' /\ Claimed' /\ OneHolder'
         /\ Phase[c] = "held" /\ Phase'[c] \in {"free", "void"}
         /\ \A d \in Codes \ {c} : Phase'[d] = Phase[d]
<1> USE DEF IInv
<1>1. r \in Holders(c)
  BY DEF Release, Holders
<1>2. done[c] = 0 /\ row[c] # Unissued
  BY <1>1 DEF Claimed, OneHolder
<1>3. Done \in Handler /\ Goto(r, Done) /\ Done.pc = "done"
  BY Handlers DEF Done, Release
<1>4. \A d \in Codes : Holders(d)' = Holders(d) \ {r}
  BY <1>3, Leaves
<1>5. Holders(c)' = {} /\ \A d \in Codes \ {c} : Holders(d)' = Holders(d)
  BY <1>1, <1>4 DEF OneHolder, Holders
<1>6. /\ row'[c] # Unissued
      /\ row'[c].state = "stored" <=> row[c].state = "stored"
      /\ IsStored(c) => row'[c].attempts = row[c].attempts
      /\ \A d \in Codes \ {c} : row'[d] = row[d]
  <2>1. CASE IsStored(c)
    <3>1. row[c] \in Stored
      BY <2>1, RowShape
    <3>2. row'[c] = Used(row[c], FALSE) /\ \A d \in Codes \ {c} : row'[d] = row[d]
      BY <2>1 DEF Release, TypeOK
    <3> QED  BY <2>1, <3>1, <3>2, UsedStored DEF IsStored
  <2>2. CASE ~IsStored(c)
    BY <1>2, <2>2 DEF Release, TypeOK
  <2> QED  BY <2>1, <2>2
<1>7. /\ request'[r] = Done
      /\ \A q \in Requests : q # r => request'[q] = request[q]
  BY <1>3, Sent
<1>8. Budget'
  BY <1>3, <1>6, <1>7 DEF Budget, IsStored, Release
<1>9. Claimed' /\ OneHolder'
  <2>1. done' = done
    BY DEF Release
  <2>2. Claimed'
    BY <1>2, <1>5, <1>6, <2>1 DEF Claimed, IsStored
  <2>3. OneHolder'
    BY <1>2, <1>5, <2>1 DEF OneHolder
  <2> QED  BY <2>2, <2>3
<1>10. Phase[c] = "held" /\ Phase'[c] \in {"free", "void"}
  BY <1>1, <1>2, <1>5 DEF Phase, PhaseOf, Release
<1>11. \A d \in Codes \ {c} : Phase'[d] = Phase[d]
  BY <1>5, <1>6 DEF Phase, PhaseOf, IsFree, IsStored, Release
<1> QED  BY <1>8, <1>9, <1>10, <1>11

-----------------------------------------------------------------------------
(* Refinement: every step is a step of OneTimeCode, or one it does not see *)

LEMMA PhaseIsFunction ==
  /\ Phase = [c \in Codes |-> Phase[c]]
  /\ Phase' = [c \in Codes |-> Phase'[c]]
BY DEF Phase

\* A step of the promise, or one it does not see.
PromiseStep == Promise!Next \/ UNCHANGED Phase

\* Every code keeps its phase, or loses it for good.
KeepsOrVoids(old, new) ==
  \A c \in Codes : new[c] = old[c] \/ (old[c] \in {"free", "held"} /\ new[c] = "void")

LEMMA SeenAsVoid ==
  ASSUME KeepsOrVoids(Phase, Phase')
  PROVE  PromiseStep
<1> DEFINE S == {c \in Codes : Phase'[c] # Phase[c]}
<1>1. S \in SUBSET Codes
  OBVIOUS
<1>2. \A c \in S : Phase[c] \in {"free", "held"} /\ Phase'[c] = "void"
  BY DEF KeepsOrVoids
<1>3. Phase' = [c \in Codes |-> IF c \in S THEN "void" ELSE Phase[c]]
  BY <1>2, PhaseIsFunction
<1>4. Promise!Void(S)
  BY <1>2, <1>3 DEF Promise!Void
<1> QED  BY <1>1, <1>4 DEF Promise!Next, PromiseStep

\* A step that moves one code.
LEMMA SeenAsOne ==
  ASSUME NEW c \in Codes, NEW p,
         Phase'[c] = p, \A d \in Codes \ {c} : Phase'[d] = Phase[d]
  PROVE  Phase' = [Phase EXCEPT ![c] = p]
<1>1. Phase' = [d \in Codes |-> IF d = c THEN p ELSE Phase[d]]
  BY PhaseIsFunction
<1> QED  BY <1>1, PhaseIsFunction

\* Handlers that hold less, over rows that are free no longer or as before.
LEMMA HoldingLess ==
  ASSUME IInv, UNCHANGED done,
         \A c \in Codes : Holders(c)' \subseteq Holders(c) /\ (IsFree(c)' => IsFree(c)),
         \A c \in Codes : Holders(c)' = Holders(c) \/ UNCHANGED row
  PROVE  PromiseStep
<1>1. ASSUME NEW c \in Codes
      PROVE  \/ Phase'[c] = Phase[c]
             \/ Phase[c] \in {"free", "held"} /\ Phase'[c] = "void"
  <2>1. CASE Holders(c)' = Holders(c)
    BY <2>1 DEF Phase, PhaseOf
  <2>2. CASE Holders(c)' # Holders(c)
    <3>1. Holders(c) # {} /\ UNCHANGED row
      BY <2>2
    <3>2. done[c] # 1 /\ ~IsFree(c)
      BY <3>1 DEF IInv, Claimed, OneHolder, IsFree
    <3>3. done'[c] # 1 /\ ~IsFree(c)'
      BY <3>1, <3>2
    <3>4. Phase[c] = "held" /\ Phase'[c] \in {"held", "void"}
      BY <3>1, <3>2, <3>3 DEF Phase, PhaseOf
    <3> QED  BY <3>4
  <2> QED  BY <2>1, <2>2
<1> QED  BY <1>1, SeenAsVoid DEF KeepsOrVoids

\* Nothing but the handler moves, and it holds no more than before.
LEMMA QuietSeen ==
  ASSUME IInv, UNCHANGED <<row, done>>, \A c \in Codes : Holders(c)' \subseteq Holders(c)
  PROVE  PromiseStep
<1>1. \A c \in Codes : IsFree(c)' => IsFree(c)
  BY DEF IsFree, IsStored
<1> QED  BY <1>1, HoldingLess

LEMMA Step ==
  ASSUME IInv, [Next]_vars
  PROVE  /\ Budget' /\ Claimed' /\ OneHolder'
         /\ PromiseStep
<1> DEFINE Goal == /\ Budget' /\ Claimed' /\ OneHolder'
                   /\ PromiseStep
<1>1. ASSUME NEW r \in Requests, HitClient(r) PROVE Goal
  BY <1>1, QuietHitClient, QuietSeen DEF HitClient
<1>2. ASSUME NEW r \in Requests, HitMailbox(r) PROVE Goal
  BY <1>2, QuietHitMailbox, QuietSeen DEF HitMailbox
<1>3. ASSUME NEW r \in Requests, NEW c \in Codes, Store(r, c) PROVE Goal
  <2>1. PromiseStep
    BY <1>3, StoreInv, HoldingLess DEF Store
  <2> QED  BY <1>3, <2>1, StoreInv
<1>4. ASSUME NEW r \in Requests, Deliver(r) PROVE Goal
  BY <1>4, QuietDeliver, QuietSeen DEF Deliver
<1>5. ASSUME NEW r \in Requests, Undo(r) PROVE Goal
  <2>1. PromiseStep
    BY <1>5, UndoInv, HoldingLess DEF Undo
  <2> QED  BY <1>5, <2>1, UndoInv
<1>6. ASSUME NEW r \in Requests, NEW c \in Codes, Read(r, c) PROVE Goal
  BY <1>6, QuietRead, QuietSeen DEF Read
<1>7. ASSUME NEW r \in Requests, Count(r) PROVE Goal
  <2>1. PromiseStep
    BY <1>7, CountInv, HoldingLess DEF Count
  <2> QED  BY <1>7, <2>1, CountInv
<1>8. ASSUME NEW r \in Requests, Claim(r) PROVE Goal
  <2>1. PICK c \in Codes : c = request[r].code
    BY <1>8, HandlerShape DEF IInv, Claim
  <2>2. CASE UNCHANGED row /\ Goto(r, Done)
    BY <1>8, <2>2, ClaimLost, QuietSeen DEF Claim
  <2>3. CASE /\ IsStored(c) /\ ~row[c].used
             /\ row' = [row EXCEPT ![c] = Used(row[c], TRUE)] /\ Goto(r, At("run", c))
    <3>1. /\ Budget' /\ Claimed' /\ OneHolder'
          /\ Phase[c] = "free" /\ Phase'[c] = "held"
          /\ \A d \in Codes \ {c} : Phase'[d] = Phase[d]
      BY <1>8, <2>1, <2>3, ClaimWon
    <3>2. Promise!Take(c)
      BY <2>1, <3>1, SeenAsOne DEF Promise!Take
    <3> QED  BY <2>1, <3>1, <3>2 DEF Promise!Next, PromiseStep
  <2> QED  BY <1>8, <2>1, <2>2, <2>3 DEF Claim
<1>9. ASSUME NEW r \in Requests, Run(r) PROVE Goal
  <2>1. PICK c \in Codes : c = request[r].code
    BY <1>9, HandlerShape DEF IInv, Run
  <2>2. CASE done' = [done EXCEPT ![c] = done[c] + 1] /\ Goto(r, Done)
    <3>1. /\ Budget' /\ Claimed' /\ OneHolder'
          /\ Phase[c] = "held" /\ Phase'[c] = "spent"
          /\ \A d \in Codes \ {c} : Phase'[d] = Phase[d]
      BY <1>9, <2>1, <2>2, RunWon
    <3>2. Promise!Spend(c)
      BY <2>1, <3>1, SeenAsOne DEF Promise!Spend
    <3> QED  BY <2>1, <3>1, <3>2 DEF Promise!Next, PromiseStep
  <2>3. CASE UNCHANGED done /\ Goto(r, At("release", c))
    <3>1. /\ Budget' /\ Claimed' /\ OneHolder'
          /\ \A d \in Codes : Phase'[d] = Phase[d]
      BY <1>9, <2>1, <2>3, RunFailed
    <3> QED  BY <3>1, SeenAsVoid DEF KeepsOrVoids
  <2> QED  BY <1>9, <2>1, <2>2, <2>3 DEF Run
<1>10. ASSUME NEW r \in Requests, Release(r) PROVE Goal
  <2>1. PICK c \in Codes : c = request[r].code
    BY <1>10, HandlerShape DEF IInv, Release
  <2>2. /\ Budget' /\ Claimed' /\ OneHolder'
        /\ Phase[c] = "held" /\ Phase'[c] \in {"free", "void"}
        /\ \A d \in Codes \ {c} : Phase'[d] = Phase[d]
    BY <1>10, <2>1, ReleaseInv
  <2>3. CASE Phase'[c] = "void"
    BY <2>2, <2>3, SeenAsVoid DEF KeepsOrVoids
  <2>4. CASE Phase'[c] = "free"
    <3>1. Promise!GiveBack(c)
      BY <2>1, <2>2, <2>4, SeenAsOne DEF Promise!GiveBack
    <3> QED  BY <2>1, <2>2, <3>1 DEF Promise!Next, PromiseStep
  <2> QED  BY <2>2, <2>3, <2>4
<1>11. ASSUME NEW r \in Requests, Crash(r) PROVE Goal
  BY <1>11, QuietCrash, QuietSeen DEF Crash
<1>12. CASE Purge
  <2>1. PromiseStep
    BY <1>12, PurgeInv, HoldingLess DEF Purge
  <2> QED  BY <1>12, <2>1, PurgeInv
<1>13. CASE Tick \/ UNCHANGED vars
  <2>1. UNCHANGED <<row, request, guesses, done>>
    BY <1>13 DEF Tick, vars
  <2>2. \A c \in Codes : Holders(c)' = Holders(c)
    BY <2>1 DEF Holders
  <2>3. Budget' /\ Claimed' /\ OneHolder'
    BY <2>1, <2>2 DEF IInv, Budget, Claimed, OneHolder, IsStored
  <2> QED  BY <2>1, <2>2, <2>3, QuietSeen
<1> QED
  BY <1>1, <1>2, <1>3, <1>4, <1>5, <1>6, <1>7, <1>8, <1>9, <1>10, <1>11, <1>12, <1>13
  DEF Next, Continue

LEMMA InvStep == IInv /\ [Next]_vars => IInv'
BY TypeStep, Step DEF IInv

\* The inductive invariant holds in every reachable state.
THEOREM Invariant == Spec => []IInv
BY InvInit, InvStep, PTL DEF Spec

\* consume, for any number of overlapping requests, failed operations, crashes and
\* purges: a code carries at most one operation to its end, and never two at once.
THEOREM OneOperation == Spec => []SpentOnce
<1>1. IInv => SpentOnce
  BY DEF IInv, TypeOK, Claimed, OneHolder, SpentOnce
<1> QED  BY <1>1, Invariant, PTL

\* consume: no interleaving compares a code more often than MAX_ATTEMPTS.
THEOREM AttemptsLimited == Spec => []GuessesBounded
<1>1. IInv => GuessesBounded
  BY DEF IInv, Budget, GuessesBounded
<1> QED  BY <1>1, Invariant, PTL

\* The handlers implement the one-time code that guests are promised.
THEOREM Refinement == Spec => KeepsPromise
<1>1. Init => Promise!Init
  <2> SUFFICES ASSUME Init PROVE Promise!Init
    OBVIOUS
  <2>1. \A c \in Codes : Phase[c] = "free"
    BY DEF Init, Phase, PhaseOf, Holders, Ready, IsFree
  <2> QED  BY <2>1, PhaseIsFunction DEF Promise!Init
<1>2. IInv /\ [Next]_vars => [Promise!Next]_Phase
  BY Step DEF PromiseStep
<1> QED  BY <1>1, <1>2, Invariant, PTL DEF Spec, KeepsPromise, Promise!Spec
-----------------------------------------------------------------------------
(* The budgets.  A client that was let through has taken one of its PerClient *)
(* places of the mailbox; the mailbox's counter, with the requests that are   *)
(* still to be counted there, never passes the places that were taken.        *)

Places == Clients \X (1 .. PerClient)
Taken(b) == {p \in Places : p[2] <= clientHits[p[1]][b]}
Asking(b) == {r \in Requests : request[r].pc = "mailbox" /\ request[r].mailbox = b}

Counted ==
  \A b \in Mailboxes :
    /\ IsFiniteSet(Asking(b))
    /\ mailboxHits[b] + Cardinality(Asking(b)) <= Cardinality(Taken(b))

LEMMA PlacesFinite ==
  /\ IsFiniteSet(Places)
  /\ Cardinality(Places) = PerClient * Cardinality(Clients)
<1>1. /\ IsFiniteSet(1 .. PerClient)
      /\ Cardinality(1 .. PerClient) = PerClient
  <2>1. PerClient \in Nat
    BY LimitsAssumption
  <2>2. PerClient \in Int /\ 1 \in Int /\ (1 > PerClient => PerClient = 0)
    BY <2>1
  <2> QED  BY <2>1, <2>2, FS_Interval
<1>2. /\ IsFiniteSet(Places)
      /\ Cardinality(Places) = Cardinality(Clients) * Cardinality(1 .. PerClient)
  BY <1>1, ClientsAssumption, FS_Product DEF Places
<1>3. Cardinality(Clients) \in Nat
  BY ClientsAssumption, FS_CardinalityType
<1> QED  BY <1>1, <1>2, <1>3, LimitsAssumption

LEMMA TakenFinite ==
  \A b : /\ IsFiniteSet(Taken(b))
         /\ Cardinality(Taken(b)) \in Nat
         /\ Cardinality(Taken(b)) <= PerClient * Cardinality(Clients)
<1> TAKE b
<1>1. Taken(b) \in SUBSET Places
  BY DEF Taken
<1> QED  BY <1>1, PlacesFinite, FS_Subset, FS_CardinalityType

\* A step that counts nothing and asks for nothing more.
LEMMA AskingLess ==
  ASSUME TypeOK, Counted, UNCHANGED counters,
         \A b \in Mailboxes : Asking(b)' \subseteq Asking(b)
  PROVE  Counted'
<1> SUFFICES ASSUME NEW b \in Mailboxes
             PROVE  /\ IsFiniteSet(Asking(b)')
                    /\ mailboxHits'[b] + Cardinality(Asking(b)') <= Cardinality(Taken(b)')
  BY DEF Counted
<1>1. IsFiniteSet(Asking(b)) /\ mailboxHits[b] + Cardinality(Asking(b)) <= Cardinality(Taken(b))
  BY DEF Counted
<1>2. /\ IsFiniteSet(Asking(b)')
      /\ Cardinality(Asking(b)') <= Cardinality(Asking(b))
      /\ Cardinality(Asking(b)') \in Nat /\ Cardinality(Asking(b)) \in Nat
  <2>1. Asking(b)' \in SUBSET Asking(b)
    OBVIOUS
  <2> QED  BY <1>1, <2>1, FS_Subset, FS_CardinalityType
<1>3. Taken(b)' = Taken(b) /\ mailboxHits'[b] = mailboxHits[b]
  BY DEF Taken, counters
<1>4. mailboxHits[b] \in Nat /\ Cardinality(Taken(b)) \in Nat
  BY TakenFinite DEF TypeOK
<1> QED  BY <1>1, <1>2, <1>3, <1>4

LEMMA ClientCounted ==
  ASSUME TypeOK, Counted, NEW r \in Requests, HitClient(r)
  PROVE  Counted'
<1>1. PICK k \in Clients, b \in Mailboxes :
        /\ clientHits' = [clientHits EXCEPT ![k] =
             [clientHits[k] EXCEPT ![b] = Hit(clientHits[k][b], PerClient)]]
        /\ Goto(r, IF clientHits[k][b] >= PerClient THEN Done
                   ELSE [pc |-> "mailbox", mailbox |-> b])
  BY DEF HitClient
<1> DEFINE n == clientHits[k][b]
<1>2. /\ n \in Nat /\ PerClient \in Nat
      /\ mailboxHits' = mailboxHits
      /\ request[r].pc = "ready"
  BY LimitsAssumption DEF TypeOK, HitClient, Ready
<1>3. /\ \A j \in Clients, a \in Mailboxes :
           <<j, a>> # <<k, b>> => clientHits'[j][a] = clientHits[j][a]
      /\ clientHits'[k][b] = IF n > PerClient THEN n ELSE n + 1
  BY <1>1 DEF TypeOK, Hit
<1>4. \A q \in Requests : q # r => request'[q] = request[q]
  BY <1>1 DEF Goto, TypeOK
<1>5. CASE n >= PerClient
  <2>1. request'[r] = Done
    BY <1>1, <1>5 DEF Goto, TypeOK
  <2>2. \A a \in Mailboxes : Asking(a)' \subseteq Asking(a)
    BY <1>4, <2>1 DEF Asking, Done
  <2>3. \A a \in Mailboxes : Taken(a)' = Taken(a)
    <3> SUFFICES ASSUME NEW a \in Mailboxes, NEW p \in Places
                 PROVE  p[2] <= clientHits'[p[1]][a] <=> p[2] <= clientHits[p[1]][a]
      BY DEF Taken
    <3>1. p[1] \in Clients /\ p[2] \in 1 .. PerClient
      BY DEF Places
    <3> QED  BY <3>1, <1>2, <1>3, <1>5
  <2> SUFFICES ASSUME NEW a \in Mailboxes
               PROVE  /\ IsFiniteSet(Asking(a)')
                      /\ mailboxHits'[a] + Cardinality(Asking(a)') <= Cardinality(Taken(a)')
    BY DEF Counted
  <2>4. IsFiniteSet(Asking(a)) /\ mailboxHits[a] + Cardinality(Asking(a)) <= Cardinality(Taken(a))
    BY DEF Counted
  <2>5. /\ IsFiniteSet(Asking(a)')
        /\ Cardinality(Asking(a)') <= Cardinality(Asking(a))
        /\ Cardinality(Asking(a)') \in Nat /\ Cardinality(Asking(a)) \in Nat
    <3>1. Asking(a)' \in SUBSET Asking(a)
      BY <2>2
    <3> QED  BY <2>4, <3>1, FS_Subset, FS_CardinalityType
  <2>6. mailboxHits[a] \in Nat /\ Cardinality(Taken(a)) \in Nat
    BY TakenFinite DEF TypeOK
  <2> QED  BY <1>2, <2>3, <2>4, <2>5, <2>6
<1>6. CASE n < PerClient
  <2>1. request'[r] = [pc |-> "mailbox", mailbox |-> b]
    BY <1>1, <1>2, <1>6 DEF Goto, TypeOK
  <2>2. /\ r \notin Asking(b) /\ Asking(b)' = Asking(b) \cup {r}
        /\ \A a \in Mailboxes : a # b => Asking(a)' = Asking(a)
    BY <1>2, <1>4, <2>1 DEF Asking
  <2>3. /\ <<k, n + 1>> \notin Taken(b) /\ Taken(b)' = Taken(b) \cup {<<k, n + 1>>}
    <3>1. <<k, n + 1>> \in Places
      BY <1>2, <1>6 DEF Places
    <3>2. ASSUME NEW p \in Places
          PROVE  p[2] <= clientHits'[p[1]][b] <=> (p[2] <= clientHits[p[1]][b] \/ p = <<k, n + 1>>)
      <4>1. PICK j \in Clients, i \in 1 .. PerClient : p = <<j, i>>
        BY DEF Places
      <4>2. i \in Nat /\ i <= n + 1 <=> (i <= n \/ i = n + 1)
        BY <1>2
      <4>3. CASE j = k
        BY <4>1, <4>2, <4>3, <1>2, <1>3, <1>6
      <4>4. CASE j # k
        BY <4>1, <4>4, <1>3
      <4> QED  BY <4>3, <4>4
    <3>3. Taken(b)' = {p \in Places : p[2] <= clientHits'[p[1]][b]}
      BY DEF Taken
    <3>4. <<k, n + 1>> \notin Taken(b)
      BY <1>2 DEF Taken
    <3> QED  BY <3>1, <3>2, <3>3, <3>4 DEF Taken
  <2>4. \A a \in Mailboxes : a # b => Taken(a)' = Taken(a)
    <3> SUFFICES ASSUME NEW a \in Mailboxes, a # b, NEW p \in Places
                 PROVE  clientHits'[p[1]][a] = clientHits[p[1]][a]
      BY DEF Taken
    <3> QED  BY <1>3 DEF Places
  <2> SUFFICES ASSUME NEW a \in Mailboxes
               PROVE  /\ IsFiniteSet(Asking(a)')
                      /\ mailboxHits'[a] + Cardinality(Asking(a)') <= Cardinality(Taken(a)')
    BY DEF Counted
  <2>5. IsFiniteSet(Asking(a)) /\ mailboxHits[a] + Cardinality(Asking(a)) <= Cardinality(Taken(a))
    BY DEF Counted
  <2>6. CASE a # b
    BY <1>2, <2>2, <2>4, <2>5, <2>6
  <2>7. CASE a = b
    <3>1. IsFiniteSet(Asking(b)') /\ Cardinality(Asking(b)') = Cardinality(Asking(b)) + 1
      BY <2>2, <2>5, <2>7, FS_AddElement
    <3>2. Cardinality(Taken(b)') = Cardinality(Taken(b)) + 1
      BY <2>3, TakenFinite, FS_AddElement
    <3>3. /\ Cardinality(Asking(b)) \in Nat /\ Cardinality(Taken(b)) \in Nat
          /\ mailboxHits[b] \in Nat
      BY <2>5, <2>7, TakenFinite, FS_CardinalityType DEF TypeOK
    <3> QED  BY <1>2, <2>5, <2>7, <3>1, <3>2, <3>3
  <2> QED  BY <2>6, <2>7
<1> QED  BY <1>2, <1>5, <1>6

LEMMA MailboxCounted ==
  ASSUME TypeOK, Counted, NEW r \in Requests, HitMailbox(r)
  PROVE  Counted'
<1>1. PICK b \in Mailboxes : b = request[r].mailbox
  BY HandlerShape DEF HitMailbox
<1>2. /\ mailboxHits' = [mailboxHits EXCEPT ![b] = Hit(mailboxHits[b], PerMailbox)]
      /\ clientHits' = clientHits /\ r \in Asking(b)
  BY <1>1 DEF HitMailbox, Asking
<1>3. /\ request'[r].pc \in {"done", "store"}
      /\ \A q \in Requests : q # r => request'[q] = request[q]
  BY DEF HitMailbox, Goto, TypeOK, Done
<1>4. Asking(b)' = Asking(b) \ {r} /\ \A a \in Mailboxes : a # b => Asking(a)' = Asking(a)
  BY <1>1, <1>3 DEF Asking
<1>5. \A a : Taken(a)' = Taken(a)
  BY <1>2 DEF Taken
<1> SUFFICES ASSUME NEW a \in Mailboxes
             PROVE  /\ IsFiniteSet(Asking(a)')
                    /\ mailboxHits'[a] + Cardinality(Asking(a)') <= Cardinality(Taken(a)')
  BY DEF Counted
<1>6. IsFiniteSet(Asking(a)) /\ mailboxHits[a] + Cardinality(Asking(a)) <= Cardinality(Taken(a))
  BY DEF Counted
<1>7. CASE a # b
  <2>1. mailboxHits'[a] = mailboxHits[a]
    BY <1>2, <1>7 DEF TypeOK
  <2> QED  BY <1>4, <1>5, <1>6, <1>7, <2>1
<1>8. CASE a = b
  <2>1. IsFiniteSet(Asking(b)') /\ Cardinality(Asking(b)') = Cardinality(Asking(b)) - 1
    BY <1>2, <1>4, <1>6, <1>8, FS_RemoveElement
  <2>2. /\ Cardinality(Asking(b)) \in Nat /\ Cardinality(Taken(b)) \in Nat
        /\ mailboxHits[b] \in Nat /\ PerMailbox \in Nat
    BY <1>6, <1>8, TakenFinite, FS_CardinalityType, LimitsAssumption DEF TypeOK
  <2>3. mailboxHits'[b] = Hit(mailboxHits[b], PerMailbox)
    BY <1>2 DEF TypeOK
  <2>4. mailboxHits'[b] \in {mailboxHits[b], mailboxHits[b] + 1}
    BY <2>3 DEF Hit
  <2> QED  BY <1>5, <1>6, <1>8, <2>1, <2>2, <2>4
<1> QED  BY <1>7, <1>8

LEMMA CountedStep == TypeOK /\ Counted /\ [Next]_vars => Counted'
<1> SUFFICES ASSUME TypeOK, Counted, [Next]_vars PROVE Counted'
  OBVIOUS
<1>1. ASSUME NEW r \in Requests, NEW h \in Handler, Goto(r, h), UNCHANGED counters,
             h.pc # "mailbox"
      PROVE  Counted'
  <2>1. request'[r] = h /\ \A q \in Requests : q # r => request'[q] = request[q]
    BY <1>1, Sent
  <2>2. \A b \in Mailboxes : Asking(b)' \subseteq Asking(b)
    BY <1>1, <2>1 DEF Asking
  <2> QED  BY <1>1, <2>2, AskingLess
<1>2. ASSUME UNCHANGED <<request, counters>> PROVE Counted'
  BY <1>2, AskingLess DEF Asking
<1>3. ASSUME NEW r \in Requests, HitClient(r) PROVE Counted'
  BY <1>3, ClientCounted
<1>4. ASSUME NEW r \in Requests, HitMailbox(r) PROVE Counted'
  BY <1>4, MailboxCounted
<1>5. ASSUME NEW r \in Requests, Deliver(r) \/ Undo(r) \/ Crash(r) PROVE Counted'
  <2>1. UNCHANGED counters
    BY <1>5 DEF Deliver, Undo, Crash
  <2>2. Goto(r, Done) \/ (request[r].code \in Codes /\ Goto(r, At("undo", request[r].code)))
    BY <1>5, HandlerShape DEF Deliver, Undo, Crash
  <2> QED  BY <1>1, <2>1, <2>2, Handlers DEF Done, At
<1>6. ASSUME NEW r \in Requests, Count(r) \/ Claim(r) \/ Run(r) \/ Release(r) PROVE Counted'
  <2>1. UNCHANGED counters /\ request[r].code \in Codes
    BY <1>6, HandlerShape DEF Count, Claim, Run, Release
  <2>2. \/ Goto(r, Done)
        \/ \E p \in {"claim", "run", "release"} : Goto(r, At(p, request[r].code))
    BY <1>6 DEF Count, Claim, Run, Release
  <2> QED  BY <1>1, <2>1, <2>2, Handlers DEF Done, At
<1>7. ASSUME NEW r \in Requests, NEW c \in Codes, Store(r, c) PROVE Counted'
  BY <1>1, <1>7, Handlers DEF Store, At
<1>8. ASSUME NEW r \in Requests, NEW c \in Codes, Read(r, c) PROVE Counted'
  <2>1. row[c].attempts \in Nat
    BY <1>8, RowShape DEF Read, Stored
  <2> QED  BY <1>1, <1>8, <2>1, Handlers DEF Read
<1>9. CASE Purge \/ Tick \/ UNCHANGED vars
  BY <1>2, <1>9 DEF Purge, Tick, vars, counters
<1> QED
  BY <1>3, <1>4, <1>5, <1>6, <1>7, <1>8, <1>9 DEF Next, Continue

LEMMA CountedInit == Init => Counted
<1> SUFFICES ASSUME Init, NEW b \in Mailboxes
             PROVE  /\ IsFiniteSet(Asking(b))
                    /\ mailboxHits[b] + Cardinality(Asking(b)) <= Cardinality(Taken(b))
  BY DEF Counted
<1>1. Asking(b) = {} /\ mailboxHits[b] = 0
  BY DEF Init, Asking, Ready
<1>2. IsFiniteSet({}) /\ Cardinality({}) = 0 /\ Cardinality(Taken(b)) \in Nat
  BY FS_EmptySet, TakenFinite
<1> QED  BY <1>1, <1>2

\* challenge, for any number of clients, mailboxes and overlapping requests: what
\* clients together take of a mailbox's budget is limited by what each may take.
THEOREM BudgetShared == Spec => []OwnerNotLockedOut
<1>1. TypeOK /\ Counted => OwnerNotLockedOut
  <2> SUFFICES ASSUME TypeOK, Counted, NEW b \in Mailboxes
               PROVE  mailboxHits[b] <= PerClient * Cardinality(Clients)
    BY DEF OwnerNotLockedOut
  <2>1. IsFiniteSet(Asking(b)) /\ mailboxHits[b] + Cardinality(Asking(b)) <= Cardinality(Taken(b))
    BY DEF Counted
  <2>2. Cardinality(Asking(b)) \in Nat /\ mailboxHits[b] \in Nat
    BY <2>1, FS_CardinalityType DEF TypeOK
  <2>3. /\ Cardinality(Taken(b)) \in Nat
        /\ Cardinality(Taken(b)) <= PerClient * Cardinality(Clients)
    BY TakenFinite
  <2>4. PerClient * Cardinality(Clients) \in Nat
    BY LimitsAssumption, ClientsAssumption, FS_CardinalityType
  <2> QED  BY <2>1, <2>2, <2>3, <2>4
<1> QED  BY <1>1, CountedInit, CountedStep, TypeInvariant, PTL DEF Spec
================================================================================
