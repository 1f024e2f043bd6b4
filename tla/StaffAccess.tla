------------------------------- MODULE StaffAccess -------------------------------
(***************************************************************************)
(* Roles and permissions: the guard that compares what a route needs with  *)
(* what the user's role grants, the admin menu filtered by the same table, *)
(* and the screens where admins give each other roles and edit them.       *)
(***************************************************************************)
EXTENDS RoutePermissions, NamedRoutes

CONSTANTS
  Staff,      \* users the host admits to the staff areas
  Custom,     \* the permissions of a role the admins made, "custom"
  Mounts,     \* where the admin may be mounted, `admin` among them
  MaxChanges  \* bound on changes to roles

VARIABLES
  roles,     \* role |-> its permissions
  roleOf,    \* user |-> the role on the agent profile, or NoRole
  asked,     \* the last request the guard decided on
  change,    \* per admin: where a change of theirs is
  edited,    \* history: a role's permissions were edited, or a role deleted
  crossed,   \* history: two changes of users' roles were in hand together
  changes

vars == <<roles, roleOf, asked, change, edited, crossed, changes>>

NoRole == "none"

-----------------------------------------------------------------------------
\* The permissions of the user's role; a role that is gone grants nothing.
userPermissions(u) == IF roleOf[u] \in DOMAIN roles THEN roles[roleOf[u]] ELSE {}

enforceRoute(u, method, path, body) ==
  /\ isRouteMapped(method, path)
  /\ requiredPermissions(method, path, body) \subseteq userPermissions(u)

\* The admin menu's items that lead to a mapped admin screen the user may open.
MenuItems ==
  {<<"escalated", "admin", w>> : w \in
     {"reports", "tickets", "departments", "sla-policies", "kb-articles", "escalation-rules",
      "workflows", "automations", "webhooks", "tags", "custom-fields", "statuses",
      "canned-responses", "macros", "skills", "users", "roles", "capacity", "business-hours",
      "audit-log", "api-tokens", "custom-objects", "plugins", "import", "settings"}}
  \cup {<<"admin", "newsletters">>}

adminNavigation(u) ==
  {p \in MenuItems : isRouteMapped("GET", p) /\ mappedPermissions("GET", p) \subseteq userPermissions(u)}

-----------------------------------------------------------------------------
(* Requests, and changes of roles. *)

\* Paths an entry matches, one of each shape.
PathsOf(pattern) ==
  LET n == Len(pattern)
      Words(segment) == IF segment \in {One, Rest} THEN {"x"} ELSE segment
      short[i \in 0 .. n] ==
        IF i = 0 THEN {<<>>} ELSE {Append(path, word) : path \in short[i - 1], word \in Words(pattern[i])}
  IN IF pattern[n] = Rest THEN short[n] \cup {Append(path, "y") : path \in short[n]} ELSE short[n]

NotAsked == [entry |-> 0]
Resting == \A u \in Staff : change[u].at = "idle"

\* The bodies that tell requests of an entry apart.
BodiesFor(entry, path) ==
  CASE path[Len(path)] = "bulk"      -> {b \in Bodies : ~b.internal /\ ~b.assigns}
    [] path[Len(path)] = "replies"   -> {[Plain EXCEPT !.internal = i] : i \in BOOLEAN}
    [] edit \cap entry.slugs # {}    -> {[Plain EXCEPT !.closes = c, !.assigns = a] : c, a \in BOOLEAN}
    [] OTHER                         -> {Plain}

\* The guard decides on a request that an entry of the table is for.
Ask(u) ==
  /\ asked = NotAsked /\ changes = 0
  /\ \E i \in DOMAIN ROUTE_PERMISSIONS :
     \E method \in ROUTE_PERMISSIONS[i].methods, path \in PathsOf(ROUTE_PERMISSIONS[i].pattern) :
     \E body \in BodiesFor(ROUTE_PERMISSIONS[i], path) :
       asked' = [entry |-> i, by |-> u, names |-> {}, method |-> method, path |-> path, body |-> body,
                 admitted |-> enforceRoute(u, method, path, body)]
  /\ UNCHANGED <<roles, roleOf, change, edited, crossed, changes>>

\* An admin page is rendered with the menu; the user follows one of its links.
FollowMenu(u) ==
  /\ asked = NotAsked /\ changes = 0
  /\ \E path \in adminNavigation(u) :
       asked' = [entry |-> FirstEntry("GET", path), by |-> u, names |-> {}, method |-> "GET", path |-> path,
                 body |-> Plain, admitted |-> enforceRoute(u, "GET", path, Plain)]
  /\ UNCHANGED <<roles, roleOf, change, edited, crossed, changes>>

\* A screen calls a route by its name, wherever the admin is mounted; the guard compares
\* the path as its controller declares it.
CallByName(u) ==
  /\ asked = NotAsked /\ changes = 0
  /\ \E route \in canonical, prefix \in Mounts : \E method \in route.methods :
       LET path == routeUrl(route)
           entry == IF isRouteMapped(method, path) THEN FirstEntry(method, path) ELSE 0
       IN \E body \in IF entry = 0 THEN {Plain} ELSE BodiesFor(ROUTE_PERMISSIONS[entry], path) :
            asked' = [entry |-> entry, by |-> u, method |-> method, path |-> path, body |-> body,
                      names |-> {<<route.name, found>> :
                                   found \in routeNameFor(prefix, method, routeUrl(Mounted(route, prefix)))},
                      admitted |-> enforceRoute(u, method, path, body)]
  /\ UNCHANGED <<roles, roleOf, change, edited, crossed, changes>>

manage == <<"role", "manage">>
MayManage(u) == manage \in userPermissions(u)
Idle == [at |-> "idle"]

\* The roles picker is admitted to, on the role it will set: none, or one there is.
Pick(u) ==
  /\ asked = NotAsked /\ change[u] = Idle /\ changes < MaxChanges
  /\ MayManage(u)
  /\ \E v \in Staff, r \in DOMAIN roles \cup {NoRole} :
       change' = [change EXCEPT ![u] = [at |-> "self", user |-> v, role |-> r]]
  /\ changes' = changes + 1
  /\ crossed' = (crossed \/ ~Resting)
  /\ UNCHANGED <<roles, roleOf, asked, edited>>

\* Mutant: one's own role is not looked at.
RemovesAny(u) ==
  /\ change[u].at = "self"
  /\ change' = [change EXCEPT ![u].at = "set"]
  /\ UNCHANGED <<roles, roleOf, asked, edited, crossed, changes>>

\* Nobody may take away their own role management.
KeepsOwn(u) ==
  /\ change[u].at = "self"
  /\ LET r == change[u].role
         manages == r \in DOMAIN roles /\ manage \in roles[r]
     IN change' = IF change[u].user = u /\ ~manages THEN [change EXCEPT ![u] = Idle]
                  ELSE [change EXCEPT ![u].at = "set"]
  /\ UNCHANGED <<roles, roleOf, asked, edited, crossed, changes>>

setProfileRole(u) ==
  /\ change[u].at = "set"
  /\ roleOf' = [roleOf EXCEPT ![change[u].user] = change[u].role]
  /\ change' = [change EXCEPT ![u] = Idle]
  /\ UNCHANGED <<roles, asked, edited, crossed, changes>>

\* RoleService.update: any role's permissions, system roles' too.
UpdateRole(u) ==
  /\ asked = NotAsked /\ changes < MaxChanges /\ MayManage(u)
  /\ \E r \in DOMAIN roles : \E p \in {Custom, roles[r] \ {manage}} :
       roles' = [roles EXCEPT ![r] = p]
  /\ edited' = TRUE /\ changes' = changes + 1
  /\ UNCHANGED <<roleOf, asked, change, crossed>>

\* RoleService.delete: not a system role. Profiles keep the id.
DeleteRole(u) ==
  /\ asked = NotAsked /\ changes < MaxChanges /\ MayManage(u)
  /\ \E r \in DOMAIN roles \ DOMAIN SYSTEM_ROLES :
       roles' = [s \in DOMAIN roles \ {r} |-> roles[s]]
  /\ edited' = TRUE /\ changes' = changes + 1
  /\ UNCHANGED <<roleOf, asked, change, crossed>>

Init ==
  /\ roles = [r \in DOMAIN SYSTEM_ROLES \cup {"custom"} |->
                IF r = "custom" THEN Custom ELSE SYSTEM_ROLES[r]]
  /\ roleOf \in [Staff -> {"admin", "agent", "light_agent"}]
  /\ \E u \in Staff : roleOf[u] = "admin"
  /\ asked = NotAsked
  /\ change = [u \in Staff |-> Idle]
  /\ edited = FALSE /\ crossed = FALSE /\ changes = 0

Next ==
  \E u \in Staff :
    \/ Ask(u) \/ FollowMenu(u) \/ CallByName(u)
    \/ Pick(u) \/ KeepsOwn(u) \/ setProfileRole(u) \/ UpdateRole(u) \/ DeleteRole(u)

Spec == Init /\ [][Next]_vars

-----------------------------------------------------------------------------
\* Every role, profile and change has one of its states.
TypeOK ==
  /\ \A r \in DOMAIN roles : roles[r] \subseteq PERMISSIONS
  /\ \A u \in Staff : roleOf[u] \in DOMAIN SYSTEM_ROLES \cup {"custom", NoRole}
  /\ \A u \in Staff : change[u].at \in {"idle", "self", "set"}

\* "Taking away your own role management would leave nobody able to undo it": the roles
\* picker never leaves the staff without anyone who manages roles, unless two of them
\* change each other at once, or the roles themselves are edited.
SomebodyManages == crossed \/ edited \/ \E u \in Staff : MayManage(u)

PluginPage(path) == Len(path) > 2 /\ path[3] = "plugins"

\* "The first match wins, so exact paths come before wider patterns": no entry is hidden
\* behind wider ones before it, but for a plugin's edit form, which is the plugin's page.
EntryIsReached ==
  (asked # NotAsked /\ asked.names = {}) =>
    \/ \E path \in PathsOf(ROUTE_PERMISSIONS[asked.entry].pattern), method \in ROUTE_PERMISSIONS[asked.entry].methods :
         FirstEntry(method, path) = asked.entry
    \/ PluginPage(asked.path)

\* A form of the admin screens is only shown to a user whose submission of it is heard:
\* nobody fills in a page that then refuses them. A plugin's pages ask nothing, and are no
\* forms of this table.
FormIsHeard ==
  (asked # NotAsked /\ asked.admitted /\ asked.method = "GET" /\ ~PluginPage(asked.path)) =>
    LET n == Len(asked.path)  at == SubSeq(asked.path, 1, n - 1)
    IN /\ asked.path[n] \in {"create", "new"} => enforceRoute(asked.by, "POST", at, Plain)
       /\ asked.path[n] = "edit" => enforceRoute(asked.by, "PUT", at, Plain)

\* "Every named route the screens can call": its URL, wherever the admin is, answers to that
\* name alone, and the guard knows it, so that the seeded admin, and at the desk the seeded
\* agent, is refused by no button of the screens.
NamedRouteServes ==
  (asked # NotAsked /\ asked.names # {}) =>
    \E called \in asked.names :
      /\ asked.names = {<<called[1], called[1]>>}
      /\ roleOf[asked.by] = "admin" \/ (roleOf[asked.by] = "agent" /\ called[1][1] = "agent") =>
           asked.admitted
================================================================================
