-------------------------------- MODULE ApiTokens -------------------------------
(***************************************************************************)
(* API tokens: an admin creates, revokes and deletes them while requests   *)
(* are let in by ApiTokenGuard, which finds the token, looks at its end    *)
(* and its abilities, records its use, and names the token's user to the   *)
(* handler.  Each query and statement is a step.                           *)
(***************************************************************************)
EXTENDS Naturals, Sequences, FiniteSets

CONSTANTS
  Tokens,                   \* their numbers
  Users, Requests, None,
  MaxClock, MaxAsked        \* bounds

VARIABLES
  clock,
  token,                    \* escalated_api_tokens, by id
  agents,                   \* the users with an active agent profile
  req,                      \* requests of clients, and of admins
  asked,
  revoked                   \* history: the tokens ever revoked or deleted

vars == <<clock, token, agents, req, asked, revoked>>

TOKEN_ABILITIES == {"agent", "admin", "*"}
NoToken == [status |-> "none", isActive |-> FALSE, abilities |-> {}, user |-> None, expiresAt |-> None,
            lastUsedAt |-> None]
Idle == [at |-> "idle", token |-> None, row |-> NoToken, route |-> None, time |-> 0,
         good |-> FALSE]
There(t) == token[t].status = "there"

-----------------------------------------------------------------------------
(* The admin's screens and API.                                              *)

Begin(r, request) ==
  /\ req[r].at = "idle" /\ asked < MaxAsked /\ asked' = asked + 1
  /\ req' = [req EXCEPT ![r] = request]
  /\ UNCHANGED <<clock, token, agents, revoked>>
Row(user, abilities, expiresAt) ==
  [NoToken EXCEPT !.status = "there", !.isActive = TRUE, !.abilities = abilities, !.user = user,
                  !.expiresAt = expiresAt]
(* The screen: some abilities, an end that is to come or none, and an agent. *)
apiTokenInput(abilities, days) ==
  abilities # {} /\ abilities \subseteq TOKEN_ABILITIES /\ (days # None => days >= 1)
createOnScreen(r, user, abilities, days) ==
  /\ apiTokenInput(abilities, days) /\ user \in agents
  /\ LET expiresAt == IF days = None THEN None ELSE clock + days
     IN Begin(r, [Idle EXCEPT !.at = "create", !.row = Row(user, abilities, expiresAt)])
(* Over JSON for oneself, every ability unless some are given, and any end. *)
createOverJson(r, user, abilities, expiresAt) ==
  LET given == IF abilities = {} THEN {"*"} ELSE abilities
  IN Begin(r, [Idle EXCEPT !.at = "create", !.row = Row(user, given, expiresAt)])
create(r) ==
  /\ req[r].at = "create"
  /\ \E t \in Tokens : /\ token[t].status = "none" /\ \A s \in Tokens : s < t => token[s].status # "none"
                       /\ token' = [token EXCEPT ![t] = req[r].row]
  /\ req' = [req EXCEPT ![r] = Idle]
  /\ UNCHANGED <<clock, agents, asked, revoked>>
(* Revoking and deleting find the row first. *)
findById(r, t, step) == There(t) /\ Begin(r, [Idle EXCEPT !.at = step, !.token = t])
revoke(r) ==
  /\ req[r].at = "revoke"
  /\ token' = [token EXCEPT ![req[r].token].isActive = FALSE]
  /\ revoked' = revoked \cup {req[r].token}
  /\ req' = [req EXCEPT ![r] = Idle]
  /\ UNCHANGED <<clock, agents, asked>>
delete(r) ==
  /\ req[r].at = "delete"
  /\ token' = [token EXCEPT ![req[r].token] = [NoToken EXCEPT !.status = "gone"]]
  /\ revoked' = revoked \cup {req[r].token}
  /\ req' = [req EXCEPT ![r] = Idle]
  /\ UNCHANGED <<clock, agents, asked>>
(* An agent's profile is switched off, or on. *)
SwitchAgent(user) ==
  /\ agents' = (agents \ {user}) \cup ({user} \ agents)
  /\ asked < MaxAsked /\ asked' = asked + 1
  /\ UNCHANGED <<clock, token, req, revoked>>

-----------------------------------------------------------------------------
(* The guard.  A route has the ability its decorator names, the group whose  *)
(* host guard runs the token guard, and the group guard on it: the token     *)
(* guard may run before that one.                                            *)
Route(explicit, requested, guards) == [explicit |-> explicit, requested |-> requested, guards |-> guards]
Routes ==
  [adminInGroup |-> Route(None, "admin", "admin"), adminBefore |-> Route(None, None, "admin"),
   agentInGroup |-> Route(None, "agent", "agent"), agentBefore |-> Route(None, None, "agent"),
   customer     |-> Route(None, "customer", None), host |-> Route("invoices", None, None)]
\* Mutant: only the group that runs the guard decides
requestedAbility(route) ==
  IF Routes[route].explicit # None THEN Routes[route].explicit
  ELSE IF Routes[route].requested \in {"admin", "agent"} THEN Routes[route].requested ELSE None
requiredAbility(route) ==
  CASE Routes[route].explicit # None -> Routes[route].explicit
    [] Routes[route].explicit = None /\ Routes[route].requested \in {"admin", "agent"} -> Routes[route].requested
    [] Routes[route].explicit = None /\ Routes[route].requested = "customer" -> None
    [] OTHER -> Routes[route].guards
tokenHasAbility(row, ability) == "*" \in row.abilities \/ ability \in row.abilities

(* In the words of the guard's comment: the ability the route names, else that of its area. *)
Area(route) == IF Routes[route].explicit # None THEN {Routes[route].explicit} ELSE {Routes[route].guards} \ {None}
Good(t, route) ==
  /\ token[t].isActive /\ t \notin revoked /\ (token[t].expiresAt # None => clock <= token[t].expiresAt)
  /\ Area(route) \subseteq token[t].abilities \/ "*" \in token[t].abilities
(* The active token, not past its end, with the ability. *)
Passes(row, route, time) ==
  /\ row.isActive /\ (row.expiresAt # None => time <= row.expiresAt)
  /\ requiredAbility(route) # None => tokenHasAbility(row, requiredAbility(route))
ask(r, t, route) ==
  /\ token[t].status # "none"
  /\ Begin(r, [Idle EXCEPT !.at = "find", !.token = t, !.route = route, !.good = Good(t, route)])
canActivate(r) ==
  /\ req[r].at = "find"
  /\ LET row == token[req[r].token] IN
     req' = [req EXCEPT ![r] =
       IF Passes(row, @.route, clock) THEN [@ EXCEPT !.at = "use", !.row = row, !.time = clock] ELSE Idle]
  /\ UNCHANGED <<clock, token, agents, asked, revoked>>
\* Mutant: the row that was found is saved again
UseSaves(row, found, time) == [found EXCEPT !.lastUsedAt = time]
Use(row, found, time) == IF row.status = "there" THEN [row EXCEPT !.lastUsedAt = time] ELSE row
(* The use is recorded, then the handler runs as the token's user. *)
Serve(r) ==
  /\ req[r].at = "use"
  /\ token' = [token EXCEPT ![req[r].token] = Use(@, req[r].row, req[r].time)]
  /\ req' = [req EXCEPT ![r].at = "served"]
  /\ UNCHANGED <<clock, agents, asked, revoked>>
Answer(r) ==
  /\ req[r].at = "served" /\ req' = [req EXCEPT ![r] = Idle]
  /\ UNCHANGED <<clock, token, agents, asked, revoked>>
Tick == clock < MaxClock /\ clock' = clock + 1 /\ UNCHANGED <<token, agents, req, asked, revoked>>

-----------------------------------------------------------------------------
Init ==
  /\ clock = 1 /\ token = [t \in Tokens |-> NoToken] /\ agents = Users
  /\ req = [r \in Requests |-> Idle] /\ asked = 0 /\ revoked = {}
Next ==
  \/ \E r \in Requests, user \in Users, abilities \in {{}, {"agent"}, {"admin", "agent"}, {"*"}} :
       \E days \in {None, 1} : createOnScreen(r, user, abilities, days)
  \/ \E r \in Requests, user \in Users, abilities \in {{}, {"invoices"}} :
       \E expiresAt \in {None, 1} : createOverJson(r, user, abilities, expiresAt)
  \/ \E r \in Requests, t \in Tokens : \/ \E step \in {"revoke", "delete"} : findById(r, t, step)
                                       \/ \E route \in DOMAIN Routes : ask(r, t, route)
  \/ \E r \in Requests : create(r) \/ revoke(r) \/ delete(r) \/ canActivate(r) \/ Serve(r) \/ Answer(r)
  \/ \E user \in Users : SwitchAgent(user)
  \/ Tick
Spec == Init /\ [][Next]_vars

-----------------------------------------------------------------------------
TypeOK ==
  /\ \A t \in Tokens : token[t].status \in {"none", "there", "gone"} /\ (token[t].isActive => There(t))
  /\ \A r \in Requests : req[r].at \in {"idle", "create", "revoke", "delete", "find", "use", "served"}

(* A client is let in only with a token that was good when its request came, whichever guard ran *)
(* first: not one revoked, deleted or past its end before, nor one without the area's ability.   *)
LetInRightly == \A r \in Requests : req[r].at \in {"use", "served"} => req[r].good
(* A revoked token stays revoked, whatever was under way with it. *)
RevokedForGood == \A t \in revoked : ~token[t].isActive
=================================================================================
