------------------------------- MODULE NamedRoutes -------------------------------
(***************************************************************************)
(* The routes the staff's screens call by name, where they are while the   *)
(* admin is mounted elsewhere, and the name found for a request.           *)
(***************************************************************************)
EXTENDS Naturals, Sequences, FiniteSets

Arg == "{}"   \* a parameter's segment

\* Routes under the names `prefix`.word, each at `path`/word.
Each(prefix, path, words, methods) ==
  {[name |-> Append(prefix, w), path |-> Append(path, w), methods |-> methods] : w \in words}
Named(name, path, methods) == {[name |-> name, path |-> path, methods |-> methods]}

desk  == <<"escalated", "agent">>
admin == <<"escalated", "admin">>

\* The usual routes of a resource: list, forms and writes.
Usual ==
  [index |-> <<<<>>, "GET">>, create |-> <<<<"create">>, "GET">>, store |-> <<<<>>, "POST">>,
   edit |-> <<<<Arg, "edit">>, "GET">>, update |-> <<<<Arg>>, "PUT">>, destroy |-> <<<<Arg>>, "DELETE">>]
Screens(things, verbs) ==
  {[name |-> <<"admin", t, v>>, path |-> admin \o <<t>> \o Usual[v][1], methods |-> {Usual[v][2]}] :
     t \in things, v \in verbs}
Pages == DOMAIN Usual
Lists == {"index", "store", "update", "destroy"}

-----------------------------------------------------------------------------
(* The table. *)

OnTicket == {"reply", "note", "assign", "status", "priority", "tags", "department", "macro",
             "follow", "snooze", "unsnooze"}

DeskRoutes ==
  LET tickets == Append(desk, "tickets")  at == Append(tickets, Arg)
      notices == Append(desk, "notifications")
  IN UNION {Named(<<"agent", "dashboard">>, desk, {"GET"}),
            Named(<<"agent", "tickets", "index">>, tickets, {"GET"}),
            Named(<<"agent", "tickets", "show">>, at, {"GET"}),
            Named(<<"agent", "tickets", "update">>, at, {"PUT"}),
            Each(<<"agent", "tickets">>, at, OnTicket \cup {"read", "unread"}, {"POST"}),
            Named(<<"agent", "tickets", "bulk">>, Append(tickets, "bulk"), {"POST"}),
            Named(<<"agent", "status">>, Append(desk, "status"), {"PUT", "POST"}),
            Named(<<"agent", "kb", "search">>, desk \o <<"kb", "search">>, {"GET"}),
            Named(<<"agent", "notifications", "index">>, notices, {"GET"}),
            Named(<<"agent", "notifications", "read-all">>, Append(notices, "read-all"), {"POST"}),
            Named(<<"agent", "notifications", "read">>, notices \o <<Arg, "read">>, {"POST"})}

AdminTicketRoutes ==
  LET tickets == Append(admin, "tickets")  at == Append(tickets, Arg)
      views == Append(admin, "saved-views")
  IN UNION {Named(<<"admin", "tickets", "index">>, tickets, {"GET"}),
            Named(<<"admin", "tickets", "bulk">>, Append(tickets, "bulk"), {"POST"}),
            Named(<<"admin", "tickets", "show">>, at, {"GET"}),
            Each(<<"admin", "tickets">>, at, OnTicket, {"POST"}),
            Named(<<"admin", "saved-views", "store">>, views, {"POST"}),
            Named(<<"admin", "saved-views", "update">>, Append(views, Arg), {"PUT"}),
            Named(<<"admin", "saved-views", "destroy">>, Append(views, Arg), {"DELETE"})}

\* Policies, statuses, rules, macros, replies, webhooks and fields.
ConfigRoutes ==
  LET hooks == Append(admin, "webhooks")
  IN UNION {Screens({"sla-policies", "statuses", "escalation-rules", "webhooks", "custom-fields"}, Pages),
            Screens({"macros", "canned-responses"}, Lists),
            Named(<<"admin", "webhooks", "deliveries">>, hooks \o <<Arg, "deliveries">>, {"GET"}),
            Named(<<"admin", "webhooks", "retry">>, hooks \o <<"deliveries", Arg, "retry">>, {"POST"}),
            Named(<<"admin", "custom-fields", "reorder">>, admin \o <<"custom-fields", "reorder">>, {"POST"})}

\* Objects, people and the knowledge base.
PeopleRoutes ==
  LET records == admin \o <<"custom-objects", Arg, "records">>  users == Append(admin, "users")
      object == <<"admin", "custom-objects", "records">>
  IN UNION {Screens({"custom-objects", "roles", "kb-articles"}, Pages),
            Screens({"kb-categories"}, Lists), Screens({"api-tokens"}, {"index", "store", "destroy"}),
            Named(object, records, {"GET"}), Named(Append(object, "store"), records, {"POST"}),
            Named(Append(object, "update"), Append(records, Arg), {"PUT"}),
            Named(Append(object, "destroy"), Append(records, Arg), {"DELETE"}),
            Named(<<"admin", "agents", "search">>, admin \o <<"agents", "search">>, {"GET"}),
            Screens({"users"}, {"index"}),
            Named(<<"admin", "users", "role">>, users \o <<Arg, "role">>, {"PATCH"}),
            Named(<<"admin", "users", "roles">>, users \o <<Arg, "roles">>, {"PUT"})}

ReportRoutes ==
  LET reports == Append(admin, "reports")
  IN UNION {Named(<<"admin", "reports">>, reports, {"GET"}),
            Each(<<"admin", "reports">>, reports,
                 {"dashboard", "agents", "sla", "csat", "sla-trends", "frt", "resolution", "response-times",
                  "resolution-times", "agent-ranking", "cohorts", "comparison"}, {"GET"}),
            Named(<<"admin", "reports", "agent-detail">>, reports \o <<"agent", Arg, "detail">>, {"GET"}),
            Named(<<"admin", "reports", "export">>, reports \o <<"export", Arg>>, {"GET"})}

SettingsRoutes ==
  LET settings == Append(admin, "settings")
      Saved(page, method) == Named(<<"admin", "settings", page, "update">>, Append(settings, page), {method})
      posted == {"csat", "data-retention", "database", "email"}
  IN UNION {Named(<<"admin", "settings">>, settings, {"GET"}),
            Named(<<"admin", "settings", "update">>, settings, {"POST"}),
            Each(<<"admin", "settings">>, settings, posted \cup {"public-tickets"}, {"GET"}),
            UNION {Saved(page, "POST") : page \in posted}, Saved("public-tickets", "PUT"),
            Named(<<"admin", "settings", "database", "test">>, settings \o <<"database", "test">>, {"POST"})}

\* Enrolment, the challenge and single sign-on.
TwoFactorAndSso ==
  LET own == admin \o <<"settings", "two-factor">>  sso == admin \o <<"settings", "sso">>
      challenge == <<"escalated", "two-factor", "challenge">>
  IN UNION {Named(<<"admin", "two-factor", "index">>, own, {"GET"}),
            Each(<<"admin", "two-factor">>, own, {"setup", "confirm", "disable"}, {"POST"}),
            Named(<<"two-factor", "challenge">>, challenge, {"GET"}),
            Named(<<"two-factor", "verify">>, challenge, {"POST"}),
            Named(<<"admin", "settings", "sso">>, sso, {"GET"}),
            Named(<<"admin", "settings", "sso", "update">>, sso, {"POST"})}

\* Departments, automations, hours, skills, capacity and the audit log.
DepartmentsToAudit ==
  UNION {Screens({"departments", "automations", "business-hours", "skills"}, Pages),
         Screens({"capacity"}, {"index", "update"}),
         Named(<<"admin", "audit-log">>, Append(admin, "audit-log"), {"GET"})}

TagsAndWorkflows ==
  LET workflows == Append(admin, "workflows")
  IN UNION {Screens({"workflows"}, Pages), Screens({"tags"}, Lists),
            Named(<<"admin", "workflows", "toggle">>, workflows \o <<Arg, "toggle">>, {"POST"}),
            Named(<<"admin", "workflows", "logs">>, Append(workflows, "logs"), {"GET"}),
            Named(<<"admin", "workflows", "reorder">>, Append(workflows, "reorder"), {"POST"})}

ImportRoutes ==
  LET import == Append(admin, "import")
      On(w, method) == Named(<<"admin", "import", w>>, import \o <<Arg, w>>, {method})
      Job(w, method) == Named(<<"admin", "import", w>>, import \o <<w, Arg>>, {method})
  IN UNION {Screens({"import"}, {"index"}), On("connect", "GET"), On("test-connection", "POST"),
            On("mapping", "GET"), On("review", "POST"), On("start", "POST"), Job("progress", "GET"),
            Job("status", "GET"), Job("pause", "POST"), Job("resume", "POST"), Job("cancel", "POST")}

PluginAndChatRoutes ==
  LET plugins == Append(admin, "plugins")  chat == desk \o <<"chat", Arg>>
  IN UNION {Named(<<"agent", "tickets", "custom-action">>, desk \o <<"tickets", Arg, "actions", Arg>>, {"POST"}),
            Screens({"plugins"}, {"index", "destroy"}),
            Each(<<"admin", "plugins">>, Append(plugins, Arg), {"activate", "deactivate"}, {"POST"}),
            Each(<<"admin", "chat">>, chat, {"transfer", "end"}, {"POST"})}

canonical ==
  UNION {DeskRoutes, AdminTicketRoutes, ConfigRoutes, PeopleRoutes, ReportRoutes, SettingsRoutes,
         DepartmentsToAudit, TagsAndWorkflows, TwoFactorAndSso, ImportRoutes, PluginAndChatRoutes}

-----------------------------------------------------------------------------
(* Mounting, URLs and the way back. *)

\* mountAdminRoutes: admin routes move under the prefix, but for everybody's own two-factor pages.
Mounted(route, prefix) ==
  IF route.name[1] = "admin" /\ route.name[2] # "two-factor" /\ SubSeq(route.path, 1, 2) = admin
    THEN [route EXCEPT !.path = prefix \o SubSeq(@, 3, Len(@))]
    ELSE route

routes(prefix) == {Mounted(route, prefix) : route \in canonical}

\* routeUrl: every parameter filled in.
routeUrl(route) == [i \in DOMAIN route.path |-> IF route.path[i] = Arg THEN "x" ELSE route.path[i]]

Params(route) == Cardinality({i \in DOMAIN route.path : route.path[i] = Arg})

\* Mutant: the method is not looked at.
AnswersAnyMethod(route, method, path) ==
  Len(path) = Len(route.path) /\ \A i \in DOMAIN path : route.path[i] \in {Arg, path[i]}

Answers(route, method, path) ==
  /\ method \in route.methods /\ Len(path) = Len(route.path)
  /\ \A i \in DOMAIN path : route.path[i] \in {Arg, path[i]}

\* The names a request may be found to have: fewer placeholders win.
routeNameFor(prefix, method, path) ==
  LET found == {route \in routes(prefix) : Answers(route, method, path)}
  IN {route.name : route \in {best \in found : \A route \in found : Params(best) <= Params(route)}}
================================================================================
