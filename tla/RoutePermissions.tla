---------------------------- MODULE RoutePermissions ----------------------------
(***************************************************************************)
(* Which permissions each admin and agent route needs, as the table the    *)
(* guard looks a request up in, and what the seeded roles grant.           *)
(***************************************************************************)
EXTENDS Naturals, Sequences

-----------------------------------------------------------------------------
(* Permissions, as <<group, verb>>, and the seeded roles. *)

Slugs(group, verbs) == {group} \X verbs
Of(group, verb) == {<<group, verb>>}

\* Mutant: only the groups with the usual two verbs are seeded; the roles name the others.
UsualVerbsOnly ==
  {"sla", "automation", "escalation", "tag", "custom_field", "role", "user", "settings",
   "webhook", "api_token", "plugin"} \X {"view", "manage"}

PERMISSIONS ==
  UNION {Slugs("ticket", {"view", "create", "edit", "delete", "assign", "merge", "close", "export"}),
         Slugs("reply", {"create", "create_internal", "edit", "delete"}),
         Slugs("kb", {"view", "create", "edit", "delete", "publish"}),
         Slugs("department", {"view", "create", "edit", "delete"}),
         Slugs("report", {"view", "export"}), Slugs("macro", {"view", "create", "manage"}),
         Of("audit", "view"), Slugs("custom_object", {"view", "manage", "data"}),
         Slugs("newsletters", {"manage", "send"}),
         {"sla", "automation", "escalation", "tag", "custom_field", "role", "user", "settings",
          "webhook", "api_token", "plugin"} \X {"view", "manage"}}

SYSTEM_ROLES ==
  [admin |-> PERMISSIONS,
   agent |-> {p \in PERMISSIONS : p[1] \in {"ticket", "reply"}} \cup Slugs("macro", {"view", "create"})
             \cup ({"kb", "report", "tag", "custom_field", "audit"} \X {"view"}),
   light_agent |-> Slugs("reply", {"create", "create_internal"})
                   \cup ({"ticket", "kb", "macro", "tag"} \X {"view"})]

-----------------------------------------------------------------------------
(* The table: the first entry whose method and pattern match decides.  A   *)
(* segment of a pattern is the set of its words, One or, last, Rest.       *)

One  == {"*"}
Rest == {"**"}
View == {"GET"}
Post == {"POST"}
All  == {"GET", "POST", "PUT", "PATCH", "DELETE"}

E(methods, pattern, slugs) == <<[methods |-> methods, pattern |-> pattern, slugs |-> slugs]>>

Admin(words)  == <<{"escalated"}, {"admin"}, words>>
Agent(words)  == <<{"escalated"}, {"agent"}, words>>
Either(words) == <<{"escalated"}, {"admin", "agent"}, words>>

\* Mutant: reads before the forms.
resourceReadsFirst(name, group) ==
  LET at == Admin({name})  manage == Of(group, "manage")
  IN E(View, at, Of(group, "view")) \o E(View, at \o <<Rest>>, Of(group, "view"))
     \o E(View, at \o <<{"create", "new"}>>, manage) \o E(View, at \o <<One, {"edit"}>>, manage)
     \o E(All, at, manage) \o E(All, at \o <<Rest>>, manage)

\* index and reads need view; forms and writes, manage.
resource(name, group) ==
  LET at == Admin({name})  manage == Of(group, "manage")
  IN E(View, at \o <<{"create", "new"}>>, manage) \o E(View, at \o <<One, {"edit"}>>, manage)
     \o E(View, at, Of(group, "view")) \o E(View, at \o <<Rest>>, Of(group, "view"))
     \o E(All, at, manage) \o E(All, at \o <<Rest>>, manage)

view == Of("ticket", "view")
edit == Of("ticket", "edit")
Both == {"admin", "agent"}
Desk == {"agent"}
Ticket(area, last) == <<{"escalated"}, area, {"tickets"}, One>> \o last

Personal ==
  E(All, Admin({"settings"}) \o <<{"two-factor"}>>, {})
  \o E(All, Admin({"settings"}) \o <<{"two-factor"}, Rest>>, {})
  \o E(All, <<{"escalated"}, {"two-factor"}, {"challenge"}>>, {})
  \o E(All, Agent({"status"}), {})
  \o E(View, Agent({"notifications"}), {})
  \o E(Post, Agent({"notifications"}) \o <<Rest>>, {})

TicketRoutes ==
  E(View, <<{"escalated"}, {"agent"}>>, view)
  \o E(Post, Either({"tickets"}) \o <<{"bulk"}>>, view)
  \o E(View, Either({"tickets"}), view)
  \o E(View, Ticket(Both, <<>>), view)
  \o E(View, Ticket(Desk, <<{"activities", "replies", "links", "side-conversations"}>>), view)
  \o E(Post, Agent({"tickets"}), Of("ticket", "create"))
  \o E(Post, Ticket(Desk, <<{"split"}>>), Of("ticket", "create"))
  \o E({"PUT"}, Ticket(Desk, <<>>), edit)
  \o E({"DELETE"}, Ticket(Desk, <<>>), Of("ticket", "delete"))
  \o E(Post, Ticket(Desk, <<{"merge"}, One>>), Of("ticket", "merge"))
  \o E(Post, Ticket(Both, <<{"status", "priority", "tags", "department", "snooze", "unsnooze"}>>), edit)
  \o E(Post, Ticket(Desk, <<{"actions"}, One>>), edit)
  \o E(Post, Ticket(Both, <<{"assign"}>>), Of("ticket", "assign"))
  \o E(Post, Ticket(Both, <<{"follow"}>>), view)
  \o E(Post, Ticket(Desk, <<{"read", "unread"}>>), view)
  \o E(Post, Ticket(Both, <<{"macro"}>>), Of("macro", "view") \cup edit)
  \o E(Post, Ticket(Both, <<{"reply"}>>), Of("reply", "create"))
  \o E(Post, Ticket(Both, <<{"note"}>>), Of("reply", "create_internal"))
  \o E(Post, Ticket(Desk, <<{"replies"}>>), Of("reply", "create"))
  \o E(All, Ticket(Desk, <<{"links", "subjects"}>>), edit)
  \o E(All, Ticket(Desk, <<{"links", "subjects"}, One>>), edit)
  \o E(Post, Ticket(Desk, <<{"side-conversations"}>>), Of("reply", "create"))
  \o E(Post, Ticket(Desk, <<{"side-conversations"}, Rest>>), Of("reply", "create"))
  \o E(View, Agent({"macros"}), Of("macro", "view"))
  \o E(Post, Agent({"macros"}) \o <<One, {"execute"}, One>>, Of("macro", "view") \cup edit)
  \o E(View, Admin({"agents"}) \o <<{"search"}>>, view)
  \o E(View, Agent({"canned-responses"}), view)
  \o E(View, Agent({"canned-responses"}) \o <<One>>, view)
  \o E(All, Either({"saved-views"}), view)
  \o E(All, Either({"saved-views"}) \o <<Rest>>, view)
  \o E(View, <<{"escalated"}, {"attachments"}, Rest>>, view)
  \o E(View, Agent({"chat"}) \o <<Rest>>, view)
  \o E(Post, Agent({"chat"}) \o <<Rest>>, Of("reply", "create"))

ReportsAndKnowledge ==
  LET pages == {"kb-articles", "kb-categories"}  parts == {"articles", "categories"}
  IN E(View, Admin({"reports"}) \o <<{"export"}, Rest>>, Of("report", "export"))
     \o E(View, Admin({"reports"}), Of("report", "view"))
     \o E(View, Admin({"reports"}) \o <<Rest>>, Of("report", "view"))
     \o E(View, Agent({"kb"}) \o <<{"search"}>>, Of("kb", "view"))
     \o E(View, Admin({"kb-articles"}) \o <<{"create"}>>, Of("kb", "create"))
     \o E(View, Admin({"kb-articles"}) \o <<One, {"edit"}>>, Of("kb", "edit"))
     \o E(View, Admin(pages), Of("kb", "view")) \o E(View, Admin({"kb"}) \o <<parts>>, Of("kb", "view"))
     \o E(View, Admin({"kb"}) \o <<{"articles"}, One>>, Of("kb", "view"))
     \o E(Post, Admin({"kb-articles"}), Of("kb", "create"))
     \o E(Post, Admin({"kb"}) \o <<{"articles"}>>, Of("kb", "create"))
     \o E({"PUT"}, Admin({"kb-articles"}) \o <<One>>, Of("kb", "edit"))
     \o E({"PUT"}, Admin({"kb"}) \o <<{"articles"}, One>>, Of("kb", "edit"))
     \o E(All, Admin({"kb-categories"}), Of("kb", "edit"))
     \o E(All, Admin({"kb"}) \o <<{"categories"}>>, Of("kb", "edit"))
     \o E({"PUT"}, Admin({"kb-categories"}) \o <<One>>, Of("kb", "edit"))
     \o E({"PUT"}, Admin({"kb"}) \o <<{"categories"}, One>>, Of("kb", "edit"))
     \o E({"DELETE"}, Admin(pages) \o <<One>>, Of("kb", "delete"))
     \o E({"DELETE"}, Admin({"kb"}) \o <<parts, One>>, Of("kb", "delete"))

DepartmentsToPlugins ==
  LET plugins == <<{"escalated"}, {"api"}, {"plugins"}, One>>
  IN E(View, Admin({"departments"}) \o <<{"create"}>>, Of("department", "create"))
     \o E(View, Admin({"departments"}) \o <<One, {"edit"}>>, Of("department", "edit"))
     \o E(View, Admin({"departments"}), Of("department", "view"))
     \o E(Post, Admin({"departments"}), Of("department", "create"))
     \o E({"PUT"}, Admin({"departments"}) \o <<One>>, Of("department", "edit"))
     \o E({"DELETE"}, Admin({"departments"}) \o <<One>>, Of("department", "delete"))
     \o E(View, Admin({"macros"}), Of("macro", "view"))
     \o E(View, Admin({"macros"}) \o <<One>>, Of("macro", "view"))
     \o E(Post, Admin({"macros"}), Of("macro", "create"))
     \o E(All, Admin({"macros"}) \o <<Rest>>, Of("macro", "manage"))
     \o E(View, Admin({"custom-objects"}) \o <<One, {"records"}>>, Of("custom_object", "view"))
     \o E(All, Admin({"custom-objects"}) \o <<One, {"records"}>>, Of("custom_object", "data"))
     \o E(All, Admin({"custom-objects"}) \o <<One, {"records"}, Rest>>, Of("custom_object", "data"))
     \o resource("custom-objects", "custom_object")
     \o E(View, Admin({"users"}), Of("user", "view"))
     \o E(All, Admin({"users"}) \o <<One, {"role"}>>, Of("user", "manage"))
     \o E({"PUT"}, Admin({"users"}) \o <<One, {"roles"}>>, Of("role", "manage"))
     \o E(View, Admin({"audit-log", "audit-logs"}), Of("audit", "view"))
     \o E(View, Admin({"permissions"}), Of("role", "view"))
     \o resource("roles", "role")
     \o E(View, Admin({"plugins"}) \o <<One, Rest>>, {})
     \o E(All, plugins, {}) \o E(All, plugins \o <<Rest>>, {})
     \o resource("plugins", "plugin")

ResourcesAndSettings ==
  resource("sla", "sla") \o resource("sla-policies", "sla") \o resource("business-hours", "sla")
  \o resource("escalation-rules", "escalation") \o resource("automations", "automation")
  \o resource("workflows", "automation") \o resource("tags", "tag")
  \o resource("custom-fields", "custom_field") \o resource("statuses", "settings")
  \o resource("agents", "user") \o resource("skills", "user") \o resource("capacity", "user")
  \o resource("webhooks", "webhook") \o resource("api-tokens", "api_token")
  \o resource("canned-responses", "macro")
  \o E(All, Admin({"import"}), Of("settings", "manage"))
  \o E(All, Admin({"import"}) \o <<Rest>>, Of("settings", "manage"))
  \o E(View, Admin({"settings"}), Of("settings", "view"))
  \o E(View, Admin({"settings"}) \o <<Rest>>, Of("settings", "view"))
  \o E(All, Admin({"settings"}), Of("settings", "manage"))
  \o E(All, Admin({"settings"}) \o <<Rest>>, Of("settings", "manage"))
  \o E(All, <<{"admin"}, {"newsletters"}>>, Of("newsletters", "manage"))
  \o E(All, <<{"admin"}, {"newsletters"}, Rest>>, Of("newsletters", "manage"))

ROUTE_PERMISSIONS ==
  Personal \o TicketRoutes \o ReportsAndKnowledge \o DepartmentsToPlugins \o ResourcesAndSettings

\* One segment each, or any number of them for a last Rest.
Matches(pattern, path) ==
  LET n == Len(pattern)
      open == pattern[n] = Rest
  IN /\ IF open THEN Len(path) >= n ELSE Len(path) = n
     /\ \A i \in 1..(IF open THEN n - 1 ELSE n) : pattern[i] = One \/ path[i] \in pattern[i]

EntriesFor(method, path) ==
  {i \in DOMAIN ROUTE_PERMISSIONS : /\ method \in ROUTE_PERMISSIONS[i].methods
                                    /\ Matches(ROUTE_PERMISSIONS[i].pattern, path)}

isRouteMapped(method, path) == EntriesFor(method, path) # {}
FirstEntry(method, path) ==
  LET found == EntriesFor(method, path) IN CHOOSE i \in found : \A j \in found : i <= j
mappedPermissions(method, path) == ROUTE_PERMISSIONS[FirstEntry(method, path)].slugs

-----------------------------------------------------------------------------
(* What a request needs, its body considered. *)

BULK_ACTIONS ==
  [status |-> edit, priority |-> edit, assign |-> Of("ticket", "assign"), tags |-> edit,
   department |-> edit, delete |-> Of("ticket", "delete"), mark_read |-> {}]  \* mark_unread alike

Bodies == [action : DOMAIN BULK_ACTIONS, closes : BOOLEAN, internal : BOOLEAN, assigns : BOOLEAN]
Plain == [action |-> "mark_read", closes |-> FALSE, internal |-> FALSE, assigns |-> FALSE]

\* `closes`: a status is sent, one of the solved ones or `reopened`.
closing(body) == IF body.closes THEN Of("ticket", "close") ELSE {}

requiredPermissions(method, path, body) ==
  LET mapped == mappedPermissions(method, path)
  IN CASE Matches(Either({"tickets"}) \o <<{"bulk"}>>, path) ->
            mapped \cup BULK_ACTIONS[body.action]
                   \cup (IF body.action = "status" THEN closing(body) ELSE {})
       [] Matches(Ticket(Desk, <<{"replies"}>>), path) /\ body.internal ->
            Of("reply", "create_internal")
       [] edit \subseteq mapped ->
            mapped \cup closing(body)
                   \cup (IF method = "PUT" /\ body.assigns THEN Of("ticket", "assign") ELSE {})
       [] OTHER -> mapped
================================================================================
