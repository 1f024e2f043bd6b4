-------------------------------- MODULE TwoFactor --------------------------------
(***************************************************************************)
(* One staff user's second factor: enrolling with an authenticator app,    *)
(* the challenge between the host's login and the staff areas, the gate in *)
(* front of them, turning it off, and the move of an enrolment from the    *)
(* agent profile, where earlier releases kept it.  Requests of several     *)
(* browsers interleave; one step is one SQL statement.                     *)
(***************************************************************************)
EXTENDS Naturals, FiniteSets

CONSTANTS
  Browsers,     \* sessions of the user, one request each at a time
  Codes,        \* the recovery codes of an enrolment
  Legacy,       \* the user enrolled before the table existed
  MaxStep,      \* bound on the clock, in time steps of the authenticator
  MaxRequests   \* bound on requests, below the challenge's limit a minute

LegacyAssumption == Legacy \in BOOLEAN
CodesAssumption == IsFiniteSet(Codes)

None == [id |-> 0]
NoStep == 0

VARIABLES
  enrolment,  \* the user's row: [id, codes, confirmed, last], or None
  profile,    \* the agent profile still holds an enrolment
  passed,     \* the sessions marked as having passed the challenge
  req,        \* per browser: where its request is, and the row as it read it
  clock,
  ids,        \* enrolments made so far; each has a secret of its own
  wanted,     \* history: which of "on" and "off" the user last made it
  used,       \* history: codes accepted, as [id, code]
  again,      \* history: codes accepted a second time
  lost,       \* history: a recovery code was spent under a request that had read it
  crossed,    \* history: a row went while it was being confirmed, or came back adopted
  requests

shared  == <<enrolment, profile, ids>>
history == <<wanted, used, again, lost, crossed>>
vars    == <<enrolment, profile, passed, req, clock, ids, wanted, used, again, lost,
             crossed, requests>>

Idle == [at |-> "idle", op |-> "none", row |-> None, code |-> NoStep]

\* Where the request goes next.
At(b, at)       == req' = [req EXCEPT ![b].at = at]
AtWith(b, at, row) == req' = [req EXCEPT ![b].at = at, ![b].row = row]
Answer(b)       == req' = [req EXCEPT ![b] = Idle]

-----------------------------------------------------------------------------
(* confirmedFor: the confirmed enrolment, adopting the profile's. *)

Confirmed == enrolment # None /\ enrolment.confirmed

\* Where the gate lets a request in.
Entry == [setup |-> "look again", confirm |-> "pending", disable |-> "delete"]

\* What a request does once it knows whether the user is enrolled, `row` or None.  The
\* challenge has a code to check; the gate shows a page, or sends one who is enrolled and
\* has not passed to the challenge; setup looks again and refuses one who is enrolled.
Known(b, row) ==
  LET gate == req[b].at \in {"look", "profile", "move"}
      op == req[b].op
  IN CASE op = "verify" /\ row # None -> AtWith(b, "check", row)
       [] op \in DOMAIN Entry /\ gate /\ (row = None \/ b \in passed) -> At(b, Entry[op])
       [] ~gate /\ row = None -> At(b, "clear pending")
       [] OTHER -> Answer(b)

Look(b) ==
  /\ req[b].at \in {"look", "look again"}
  /\ IF Confirmed THEN Known(b, enrolment)
     ELSE At(b, IF req[b].at = "look" THEN "profile" ELSE "profile again")
  /\ UNCHANGED <<shared, passed, clock, history, requests>>

ReadProfile(b) ==
  /\ req[b].at \in {"profile", "profile again"}
  /\ IF profile THEN At(b, IF req[b].at = "profile" THEN "adopt" ELSE "adopt again")
     ELSE Known(b, None)
  /\ UNCHANGED <<shared, passed, clock, history, requests>>

\* adoptLegacy. The user has one row: a second insert is refused, and the request fails.
Adopt(b) ==
  /\ req[b].at \in {"adopt", "adopt again"}
  /\ IF enrolment # None
     THEN Answer(b) /\ UNCHANGED <<enrolment, ids, crossed>>
     ELSE LET row == [id |-> ids + 1, codes |-> Codes, confirmed |-> TRUE, last |-> NoStep]
          IN /\ enrolment' = row
             /\ AtWith(b, IF req[b].at = "adopt" THEN "move" ELSE "move again", row)
             /\ ids' = ids + 1
             /\ crossed' = (crossed \/ ~profile \/ \E c \in Browsers : req[c].at = "clear")
  /\ UNCHANGED <<profile, passed, clock, wanted, used, again, lost, requests>>

Move(b) ==
  /\ req[b].at \in {"move", "move again"}
  /\ profile' = FALSE
  /\ Known(b, req[b].row)
  /\ UNCHANGED <<enrolment, ids, passed, clock, history, requests>>

-----------------------------------------------------------------------------
(* Requests. The gate comes first, except before the challenge and a reset. *)

Begin(b) ==
  /\ req[b].at = "idle" /\ requests < MaxRequests
  /\ \E op \in {"visit", "setup", "confirm", "disable", "verify", "reset"} :
       req' = [req EXCEPT ![b] = [Idle EXCEPT !.op = op,
                 !.at = IF op = "reset" THEN "delete" ELSE "look"]]
  /\ requests' = requests + 1
  /\ UNCHANGED <<shared, passed, clock, history>>

\* A new login starts a session anew.
SignIn(b) ==
  /\ req[b].at = "idle" /\ b \in passed
  /\ passed' = passed \ {b}
  /\ UNCHANGED <<shared, req, clock, history, requests>>

\* setup: an enrolment begun and not confirmed is dropped ...
ClearPending(b) ==
  /\ req[b].at = "clear pending"
  /\ At(b, "insert")
  /\ IF enrolment # None /\ ~enrolment.confirmed
     THEN /\ enrolment' = None
          /\ crossed' = (crossed \/ \E c \in Browsers : req[c].at = "seal")
     ELSE UNCHANGED <<enrolment, crossed>>
  /\ UNCHANGED <<profile, ids, passed, clock, wanted, used, again, lost, requests>>

\* ... and a new one begun; with another inserted meanwhile, refused.
Insert(b) ==
  /\ req[b].at = "insert"
  /\ Answer(b)
  /\ IF enrolment = None
     THEN /\ enrolment' = [id |-> ids + 1, codes |-> Codes, confirmed |-> FALSE, last |-> NoStep]
          /\ ids' = ids + 1
     ELSE UNCHANGED <<enrolment, ids>>
  /\ UNCHANGED <<profile, passed, clock, history, requests>>

\* confirm: the pending row.
Pending(b) ==
  /\ req[b].at = "pending"
  /\ IF enrolment = None \/ enrolment.confirmed THEN Answer(b) ELSE AtWith(b, "check", enrolment)
  /\ UNCHANGED <<shared, passed, clock, history, requests>>

\* codeStep: the steps a code may be of right now, one of drift either side.
Window == {s \in 1..(MaxStep + 1) : s <= clock + 1 /\ clock <= s + 1}

\* Mutant: a step accepted meanwhile is not refused.
AdvanceAnyway(row, step) ==
  enrolment' = IF enrolment # None /\ enrolment.id = row.id
               THEN [enrolment EXCEPT !.last = step] ELSE enrolment

\* No step was used yet, or an earlier one.
Later(step, last) == last < step

\* The conditional update: only from a row without that step or a later one.
Advance(row, step) ==
  enrolment' = IF enrolment # None /\ enrolment.id = row.id /\ Later(step, enrolment.last)
               THEN [enrolment EXCEPT !.last = step] ELSE enrolment

\* The code typed in, of a step or a recovery code, against the row as read.
Check(b) ==
  /\ req[b].at = "check"
  /\ \/ \E s \in Window :
          IF Later(s, req[b].row.last)
          THEN req' = [req EXCEPT ![b].at = "advance", ![b].code = s] ELSE Answer(b)
     \/ /\ req[b].op = "verify"
        /\ \E c \in Codes :
             IF c \in req[b].row.codes
             THEN req' = [req EXCEPT ![b].at = "spend", ![b].code = c] ELSE Answer(b)
  /\ UNCHANGED <<shared, passed, clock, history, requests>>

Accepted(b) ==
  LET code == [id |-> req[b].row.id, code |-> req[b].code]
  IN used' = used \cup {code} /\ again' = IF code \in used THEN again \cup {code} ELSE again

\* verifyAndConsume
AdvanceStep(b) ==
  /\ req[b].at = "advance"
  /\ Advance(req[b].row, req[b].code)
  /\ IF enrolment' = enrolment
     THEN Answer(b) /\ UNCHANGED <<used, again>>
     ELSE At(b, IF req[b].op = "confirm" THEN "seal" ELSE "mark") /\ Accepted(b)
  /\ UNCHANGED <<profile, ids, passed, clock, wanted, lost, crossed, requests>>

\* useRecoveryCode: the codes read, less this one, written back over whatever is there.
Spend(b) ==
  /\ req[b].at = "spend"
  /\ LET row == req[b].row
     IN /\ enrolment' = IF enrolment # None /\ enrolment.id = row.id
                        THEN [enrolment EXCEPT !.codes = row.codes \ {req[b].code}]
                        ELSE enrolment
        /\ lost' = (lost \/ \E c \in Browsers \ {b} :
             /\ req[c].op = "verify" /\ req[c].row.id = row.id
             /\ req[c].at \in {"move", "check", "spend"})
  /\ Accepted(b)
  /\ At(b, "mark")
  /\ UNCHANGED <<profile, ids, passed, clock, wanted, crossed, requests>>

\* confirm: told it is on, whether the row is still there or not.
Seal(b) ==
  /\ req[b].at = "seal"
  /\ enrolment' = IF enrolment # None /\ enrolment.id = req[b].row.id
                  THEN [enrolment EXCEPT !.confirmed = TRUE] ELSE enrolment
  /\ wanted' = "on"
  /\ passed' = passed \cup {b}
  /\ Answer(b)
  /\ UNCHANGED <<profile, ids, clock, used, again, lost, crossed, requests>>

\* verify: a new session id, marked.
Mark(b) ==
  /\ req[b].at = "mark"
  /\ passed' = passed \cup {b}
  /\ Answer(b)
  /\ UNCHANGED <<shared, clock, history, requests>>

\* disable and reset: the row ...
DeleteRow(b) ==
  /\ req[b].at = "delete"
  /\ enrolment' = None
  /\ crossed' = (crossed \/ \E c \in Browsers : req[c].at = "seal")
  /\ wanted' = "off"
  /\ At(b, "clear")
  /\ UNCHANGED <<profile, ids, passed, clock, used, again, lost, requests>>

\* Mutant: the profile's is left.
KeepProfile(b) ==
  /\ req[b].at = "clear"
  /\ Answer(b)
  /\ UNCHANGED <<shared, passed, clock, history, requests>>

\* ... and what the profile may still hold.
ClearProfile(b) ==
  /\ req[b].at = "clear"
  /\ profile' = FALSE
  /\ Answer(b)
  /\ UNCHANGED <<enrolment, ids, passed, clock, history, requests>>

Tick ==
  /\ clock < MaxStep
  /\ clock' = clock + 1
  /\ UNCHANGED <<shared, passed, req, history, requests>>

-----------------------------------------------------------------------------
Init ==
  /\ enrolment = None
  /\ profile = Legacy
  /\ passed = {}
  /\ req = [b \in Browsers |-> Idle]
  /\ clock = 1 /\ ids = 0
  /\ wanted = IF Legacy THEN "on" ELSE "off"
  /\ used = {} /\ again = {} /\ lost = FALSE /\ crossed = FALSE
  /\ requests = 0

Next ==
  \/ Tick
  \/ \E b \in Browsers :
       \/ Begin(b) \/ SignIn(b) \/ Look(b) \/ ReadProfile(b) \/ Adopt(b) \/ Move(b)
       \/ ClearPending(b) \/ Insert(b) \/ Pending(b) \/ Check(b) \/ AdvanceStep(b)
       \/ Spend(b) \/ Seal(b) \/ Mark(b) \/ DeleteRow(b) \/ ClearProfile(b)

Spec == Init /\ [][Next]_vars

-----------------------------------------------------------------------------
Row == [id : Nat \ {0}, codes : SUBSET Codes, confirmed : BOOLEAN,
        last : NoStep..(MaxStep + 1)]

\* The row and every request have one of their states.
TypeOK ==
  /\ enrolment \in Row \cup {None}
  /\ passed \subseteq Browsers
  /\ \A b \in Browsers : req[b].row \in Row \cup {None}

\* "so a code works once", and "single-use recovery codes": a code of the app is accepted
\* once, by whatever browsers; so is a recovery code, until two requests that both hold the
\* list of codes have spent from it.
CodeWorksOnce ==
  \A u \in again : u.code \in Codes /\ lost

\* The user is enrolled if the last thing done was to confirm an enrolment, and not if it
\* was to turn it off: an enrolment neither vanishes nor comes back, except where a row being
\* confirmed is dropped, or the profile's is adopted while it is being cleared.
AsLastSet ==
  \/ crossed
  \/ \E b \in Browsers : req[b].at = "clear"
  \/ (wanted = "on") <=> (Confirmed \/ profile)
================================================================================
