------------------------------ MODULE AgentRoster ------------------------------
(***************************************************************************)
(* Agents' profiles, their Online/Away/Offline status, capacity counters   *)
(* and skills.  Which agent has which skill is one table with two screens: *)
(* the agent's, which replaces every skill of one agent, and the skill's,  *)
(* which replaces every agent of one skill.  Both check, then delete the   *)
(* old rows, then insert the new ones, with no transaction around the      *)
(* three; two rows of one agent and skill, and a row of a skill that is    *)
(* gone, are refused by the tables' keys.                                  *)
(***************************************************************************)
EXTENDS Naturals, FiniteSets

CONSTANTS
  Users, Skills,
  Requests,
  Nothing,
  MaxSaves, MaxTickets, MaxFaults   \* bounds

Statuses == {"online", "away", "offline"}

VARIABLES
  profile,   \* per host user, the agent profile
  capacity,  \* per host user, the profile's counter
  assigned,  \* open tickets assigned to each user
  skill,     \* the skills that exist
  rows,      \* escalated_agent_skills: pairs of a user and a skill
  req, saves, faults,
  may        \* history: whether each pair may be in the table, by the saves so far

vars == <<profile, capacity, assigned, skill, rows, req, saves, faults, may>>

Pairs == Users \X Skills
NoProfile == [exists |-> FALSE, status |-> "offline", available |-> FALSE]
Free == [at |-> "free", kind |-> Nothing, user |-> Nothing, skill |-> Nothing, want |-> {},
         profile |-> Nothing, count |-> 0, heard |-> {}]
Busy(kind) == [Free EXCEPT !.at = "checked", !.kind = kind]

-----------------------------------------------------------------------------
(* History: what a save asks of each pair it replaces, told to the saves that overlap it        *)

Scope(q) == {p \in Pairs : p[1] = q.user \/ p[2] = q.skill}
Asks(q) == {<<p, p \in q.want>> : p \in Scope(q)}
Overlapping(r) == UNION {Asks(req[o]) : o \in {x \in Requests \ {r} : req[x].at # "free"}}
(* The save of r ends: it, and those it overlapped, are what may be found. *)
Settle(r) ==
  /\ may' = {m \in may : m[1] \notin Scope(req[r])} \cup Asks(req[r])
            \cup {a \in req[r].heard \cup Overlapping(r) : a[1] \in Scope(req[r])}
  /\ req' = [o \in Requests |->
       IF o = r THEN Free ELSE IF req[o].at = "free" THEN Free
       ELSE [req[o] EXCEPT !.heard = @ \cup Asks(req[r])]]
(* It failed half-way: anything it could have done may be found. *)
Abandon(r) ==
  /\ may' = may \cup {<<p, FALSE>> : p \in Scope(req[r])} \cup Asks(req[r])
  /\ req' = [o \in Requests |->
       IF o = r THEN Free ELSE IF req[o].at = "free" THEN Free
       ELSE [req[o] EXCEPT !.heard = @ \cup Asks(req[r]) \cup {<<p, FALSE>> : p \in Scope(req[r])}]]

-----------------------------------------------------------------------------
(* Skills                                                                    *)

Save == saves < MaxSaves /\ saves' = saves + 1
(* The agent's screen: the profile and every skill named must exist. *)
setSkills(r, u, ss) ==
  /\ req[r].at = "free" /\ Save /\ profile[u].exists /\ ss \subseteq skill
  /\ req' = [req EXCEPT ![r] = [Busy("agent") EXCEPT !.user = u, !.want = {u} \X ss]]
  /\ UNCHANGED <<profile, capacity, assigned, skill, rows, faults, may>>
(* The skill's screen names active agents; a skill is saved before its agents are. *)
screenInput(us) == \A u \in us : profile[u].exists
syncAgents(r, s, us) == req' = [req EXCEPT ![r] = [Busy("skill") EXCEPT !.skill = s, !.want = us \X {s}]]
createSkill(r, s, us) ==
  /\ req[r].at = "free" /\ Save /\ screenInput(us)
  /\ s \notin skill /\ skill' = skill \cup {s}
  /\ syncAgents(r, s, us)
  /\ UNCHANGED <<profile, capacity, assigned, rows, faults, may>>
updateSkill(r, s, us) ==
  /\ req[r].at = "free" /\ Save /\ screenInput(us)
  /\ s \in skill
  /\ syncAgents(r, s, us)
  /\ UNCHANGED <<profile, capacity, assigned, skill, rows, faults, may>>
deleteSkill(r, s) ==
  /\ req[r].at = "free" /\ Save /\ s \in skill
  /\ req' = [req EXCEPT ![r] = [Busy("drop") EXCEPT !.skill = s]]
  /\ UNCHANGED <<profile, capacity, assigned, skill, rows, faults, may>>
deleteAgent(r, u) ==
  /\ req[r].at = "free" /\ Save /\ profile[u].exists
  /\ req' = [req EXCEPT ![r] = [Busy("leave") EXCEPT !.user = u]]
  /\ UNCHANGED <<profile, capacity, assigned, skill, rows, faults, may>>

\* Mutant: only the rows that are asked for again are deleted
KeepOthers(q) == rows \ (Scope(q) \cap q.want)
Without(q) == rows \ Scope(q)
DeleteRows(r) ==
  /\ req[r].at = "checked"
  /\ rows' = Without(req[r])
  /\ req' = [req EXCEPT ![r].at = "deleted"]
  /\ UNCHANGED <<profile, capacity, assigned, skill, saves, faults, may>>
(* One row that is there by now, or a skill that is gone, and the whole insert is refused. *)
Refused(q) == q.want \cap rows # {} \/ \E p \in q.want : p[2] \notin skill
InsertRows(r) ==
  /\ req[r].at = "deleted" /\ req[r].kind \in {"agent", "skill"}
  /\ IF Refused(req[r]) THEN rows' = rows /\ Abandon(r)
                        ELSE rows' = rows \cup req[r].want /\ Settle(r)
  /\ UNCHANGED <<profile, capacity, assigned, skill, saves, faults>>
(* Removing a skill takes the rows that came meanwhile with it; removing an agent does not. *)
RemoveSkill(r) ==
  /\ req[r].at = "deleted" /\ req[r].kind = "drop"
  /\ skill' = skill \ {req[r].skill} /\ rows' = Without(req[r]) /\ Settle(r)
  /\ UNCHANGED <<profile, capacity, assigned, saves, faults>>
RemoveAgent(r) ==
  /\ req[r].at = "deleted" /\ req[r].kind = "leave"
  /\ profile' = [profile EXCEPT ![req[r].user] = NoProfile]
  /\ capacity' = [capacity EXCEPT ![req[r].user] = Nothing]
  /\ Settle(r)
  /\ UNCHANGED <<assigned, skill, rows, saves, faults>>

-----------------------------------------------------------------------------
(* Profiles, status and capacity                                             *)

createAgent(u) ==
  /\ ~profile[u].exists
  /\ profile' = [profile EXCEPT ![u] = [NoProfile EXCEPT !.exists = TRUE]]
  /\ capacity' = [capacity EXCEPT ![u] = 0]
  /\ UNCHANGED <<assigned, skill, rows, req, saves, faults, may>>
(* The agent's own status makes a profile when there is none, but no capacity; both columns go   *)
(* in one statement.                                                                             *)
setStatus(u, status) ==
  /\ profile' = [profile EXCEPT ![u] = [exists |-> TRUE, status |-> status, available |-> status = "online"]]
  /\ UNCHANGED <<capacity, assigned, skill, rows, req, saves, faults, may>>
(* `PUT agents/:id` writes the columns it is sent, availability among them. *)
update(u, available) ==
  /\ profile[u].exists
  /\ profile' = [profile EXCEPT ![u].available = available]
  /\ UNCHANGED <<capacity, assigned, skill, rows, req, saves, faults, may>>
getCapacity(u) ==
  /\ profile[u].exists /\ capacity[u] = Nothing
  /\ capacity' = [capacity EXCEPT ![u] = 0]
  /\ UNCHANGED <<profile, assigned, skill, rows, req, saves, faults, may>>
(* The tickets are counted in one query and written in another. *)
recalculateCapacity(r, u) ==
  /\ req[r].at = "free" /\ Save /\ profile[u].exists
  /\ req' = [req EXCEPT ![r] = [Free EXCEPT !.at = "counted", !.profile = u, !.count = assigned[u]]]
  /\ UNCHANGED <<profile, capacity, assigned, skill, rows, faults, may>>
WriteCount(r) ==
  /\ req[r].at = "counted"
  /\ capacity' = [capacity EXCEPT ![req[r].profile] =
       IF capacity[req[r].profile] = Nothing THEN 0 ELSE req[r].count]
  /\ req' = [req EXCEPT ![r] = Free]
  /\ UNCHANGED <<profile, assigned, skill, rows, saves, faults, may>>
(* External: tickets are assigned and solved; the process ends. *)
Assign(u, n) ==
  /\ n # assigned[u] /\ assigned' = [assigned EXCEPT ![u] = n]
  /\ UNCHANGED <<profile, capacity, skill, rows, req, saves, faults, may>>
Crash(r) ==
  /\ faults < MaxFaults /\ faults' = faults + 1
  /\ req[r].at \in {"checked", "deleted"} /\ Abandon(r)
  /\ UNCHANGED <<profile, capacity, assigned, skill, rows, saves>>

-----------------------------------------------------------------------------
Init ==
  /\ profile = [u \in Users |-> NoProfile] /\ capacity = [u \in Users |-> Nothing]
  /\ assigned = [u \in Users |-> 0] /\ skill = {} /\ rows = {}
  /\ req = [r \in Requests |-> Free] /\ saves = 0 /\ faults = 0
  /\ may = {<<p, FALSE>> : p \in Pairs}
Next ==
  \/ \E r \in Requests :
       \/ \E u \in Users, ss \in SUBSET Skills : setSkills(r, u, ss)
       \/ \E s \in Skills, us \in SUBSET Users : createSkill(r, s, us) \/ updateSkill(r, s, us)
       \/ \E s \in Skills : deleteSkill(r, s)
       \/ \E u \in Users : deleteAgent(r, u) \/ recalculateCapacity(r, u)
       \/ DeleteRows(r) \/ InsertRows(r) \/ RemoveSkill(r) \/ RemoveAgent(r) \/ WriteCount(r) \/ Crash(r)
  \/ \E u \in Users :
       \/ createAgent(u) \/ getCapacity(u)
       \/ \E status \in Statuses : setStatus(u, status)
       \/ \E available \in BOOLEAN : update(u, available)
       \/ \E n \in 0 .. MaxTickets : Assign(u, n)
Spec == Init /\ [][Next]_vars

-----------------------------------------------------------------------------
TypeOK ==
  /\ \A u \in Users : profile[u].status \in Statuses /\ profile[u].available \in BOOLEAN
  /\ capacity \in [Users -> 0 .. MaxTickets \cup {Nothing}]
  /\ skill \subseteq Skills /\ rows \subseteq Pairs /\ may \subseteq Pairs \X BOOLEAN

(* The last save of either screen decides: while no save is under way, an agent is found with a  *)
(* skill only if the last save that covered the two asked for it, or one that overlapped that    *)
(* save or failed half-way since did; and is missing it only if one of those left it out.        *)
LaterSaveWins ==
  (\A r \in Requests : req[r].at \notin {"checked", "deleted"}) =>
    \A p \in Pairs : <<p, p \in rows>> \in may
===============================================================================
