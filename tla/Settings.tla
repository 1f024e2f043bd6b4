-------------------------------- MODULE Settings --------------------------------
(***************************************************************************)
(* The settings table and the audit log.  A page of the admin area, or the *)
(* JSON API, checks everything it was sent, then writes it key by key,     *)
(* each key a query and a statement.  Two requests run at once, any        *)
(* statement may fail, and every reader decodes the rows in its own way.   *)
(* An update over JSON leaves a row in the audit log once it is done.      *)
(***************************************************************************)
EXTENDS Naturals, Sequences, FiniteSets

CONSTANTS Requests, None, MaxAsked, MaxFaults

VARIABLES
  rows,      \* escalated_settings, by key
  req,       \* what each request has left to write
  audit,     \* escalated_audit_logs: the numbers of the requests in it
  book,      \* history: the requests that had a wrong entry, wrote something, wrote everything
  meant,     \* history: what the last write of each key meant
  asked, faults

vars == <<rows, req, audit, book, meant, asked, faults>>

(* Of several keys of one shape on one page, one stands for all. *)
Fields(page) ==
  CASE page = "settings"       -> <<"two_factor_required", "widget_allowed_origins">>
    [] page = "csat"           -> <<"csat_scale", "csat_delivery_trigger">>
    [] page = "data-retention" -> <<"retention_closed_tickets", "retention_user_data_gdpr">>
    [] page = "email"          -> <<"email_addresses", "default_reply_address">>
    [] page = "public-tickets" -> <<"guest_policy">>
    [] page = "api"            -> <<"widget_allowed_origins", "guest_policy">>
Pages == {"settings", "csat", "data-retention", "email", "public-tickets", "api"}
(* A form may leave a field out, and the API an entry. *)
Optional == {"two_factor_required", "widget_allowed_origins", "default_reply_address"}
Keys == UNION {{Fields(page)[i] : i \in DOMAIN Fields(page)} : page \in Pages}
Fallback(key) ==
  CASE key \in {"two_factor_required", "retention_user_data_gdpr"} -> "no"
    [] key = "csat_scale" -> "1-5" [] key = "csat_delivery_trigger" -> "on_resolve"
    [] key = "retention_closed_tickets" -> "never" [] key = "guest_policy" -> "unassigned"
    [] OTHER -> "none"
(* What is sent for a key and taken; anything else is "wrong". *)
Taken(key) ==
  CASE key \in {"two_factor_required", "retention_user_data_gdpr"} -> {"yes", "no"}
    [] key = "csat_scale" -> {"1-3"} [] key = "csat_delivery_trigger" -> {"manual"}
    [] key = "retention_closed_tickets" -> {"1_year"} [] key = "guest_policy" -> {"prompt_signup"}
    [] OTHER -> {"one"}
(* The API passes every key but widget_allowed_origins on as it is; only the policy of the docs is sent. *)
Sent(page, key) == Taken(key) \cup (IF page = "api" /\ key = "guest_policy" THEN {} ELSE {"wrong"})
Entry(key, value) == [key |-> key, value |-> value]

-----------------------------------------------------------------------------
(* The stored text and type of a value.                                      *)
Stored(value, type) == [there |-> TRUE, value |-> value, type |-> type]
NoRow == [there |-> FALSE, value |-> None, type |-> "string"]
\* Mutant: flags are all stored as the newsletter's are
encodeDigits(key, v) ==
  CASE key \in {"two_factor_required", "retention_user_data_gdpr"} ->
         Stored(IF v = "yes" THEN "1" ELSE "0", "boolean")
    [] key = "guest_policy" -> Stored(v, "json")
    [] OTHER -> Stored(v, "string")
encode(key, v) ==
  CASE key = "two_factor_required" -> Stored(IF v = "yes" THEN "true" ELSE "false", "boolean")
    [] key = "retention_user_data_gdpr" -> Stored(IF v = "yes" THEN "1" ELSE "0", "string")
    [] key = "guest_policy" -> Stored(v, "json")
    [] OTHER -> Stored(v, "string")

get(key) == IF rows[key].there THEN rows[key].value ELSE Fallback(key)
getTyped(key) == IF rows[key].type = "boolean" THEN (IF get(key) = "true" THEN "yes" ELSE "no") ELSE get(key)
(* What the pages show.  A text that is no policy has no mode. *)
resolveGuestPolicy == IF rows["guest_policy"].type = "json" THEN getTyped("guest_policy") ELSE "unassigned"
dataRetention(key) == IF key = "retention_user_data_gdpr" THEN (IF get(key) \in {"1", "true"} THEN "yes" ELSE "no")
                      ELSE get(key)
Shown(key) ==
  CASE key \in {"retention_user_data_gdpr", "retention_closed_tickets"} -> dataRetention(key)
    [] key \in {"two_factor_required", "widget_allowed_origins"} -> getTyped(key)
    [] key = "guest_policy" -> resolveGuestPolicy
    [] OTHER -> get(key)
(* TwoFactorService.required reads the text by itself. *)
required == IF get("two_factor_required") \in {"1", "true", "yes", "on"} THEN "yes" ELSE "no"

-----------------------------------------------------------------------------
Idle == [at |-> "idle", page |-> None, todo |-> <<>>, found |-> FALSE, number |-> 0]
Wrong(form) == \E i \in DOMAIN form : form[i].value = "wrong"
\* Mutant: each entry is checked when its turn comes
RefusesFirst(form) == form # <<>> /\ Head(form).value = "wrong"
Refuses(form) == Wrong(form)
(* An API body that is no list has no entries, and is answered like one. *)
Forms(page) ==
  LET Field(i) == {<<>>} \cup {<<Entry(Fields(page)[i], v)>> : v \in Sent(page, Fields(page)[i])}
      Given(i) == IF page = "api" \/ Fields(page)[i] \in Optional THEN Field(i) ELSE Field(i) \ {<<>>}
  IN IF Len(Fields(page)) = 1 THEN Given(1) ELSE {f \o g : f \in Given(1), g \in Given(2)}

Ended(now) == IF now.page = "api" THEN [now EXCEPT !.at = "audit"] ELSE Idle
update(r, page, form) ==
  /\ req[r].at = "idle" /\ asked < MaxAsked /\ asked' = asked + 1
  /\ LET now == [Idle EXCEPT !.at = "find", !.page = page, !.todo = form, !.number = asked + 1]
     IN /\ req' = [req EXCEPT ![r] = IF Refuses(form) THEN Idle ELSE IF form = <<>> THEN Ended(now) ELSE now]
        /\ book' = [book EXCEPT !.wrong = IF Wrong(form) THEN @ \cup {asked + 1} ELSE @,
                                !.done = IF form = <<>> THEN @ \cup {asked + 1} ELSE @]
  /\ UNCHANGED <<rows, audit, meant, faults>>
updateSettings(r)      == \E form \in Forms("settings") : update(r, "settings", form)
updateCsat(r)          == \E form \in Forms("csat") : update(r, "csat", form)
updateDataRetention(r) == \E form \in Forms("data-retention") : update(r, "data-retention", form)
(* An empty reply address is not written: the old one stays. *)
updateEmail(r)         == \E form \in Forms("email") : update(r, "email", form)
savePublicTickets(r)   == \E form \in Forms("public-tickets") : update(r, "public-tickets", form)
putSettings(r)         == \E form \in Forms("api") : update(r, "api", form)
(* SettingsService.set: find, then save or insert; another request may have inserted the key. *)
Find(r) ==
  /\ req[r].at = "find"
  /\ req' = [req EXCEPT ![r].at = "save", ![r].found = rows[Head(req[r].todo).key].there]
  /\ UNCHANGED <<rows, audit, book, meant, asked, faults>>
set(r) ==
  /\ req[r].at = "save"
  /\ LET key  == Head(req[r].todo).key
         v    == Head(req[r].todo).value
         rest == [req[r] EXCEPT !.todo = Tail(@), !.at = "find"]
         last == rest.todo = <<>>
     IN IF req[r].found = rows[key].there
        THEN /\ rows' = [rows EXCEPT ![key] = encode(key, v)] /\ meant' = [meant EXCEPT ![key] = v]
             /\ req' = [req EXCEPT ![r] = IF last THEN Ended(rest) ELSE rest]
             /\ book' = [book EXCEPT !.wrote = @ \cup {req[r].number},
                                     !.done = IF last THEN @ \cup {req[r].number} ELSE @]
        ELSE req' = [req EXCEPT ![r] = Idle] /\ UNCHANGED <<rows, meant, book>>
  /\ UNCHANGED <<audit, asked, faults>>
\* Mutant: the row is written before the handler runs
AuditAnyway(r) ==
  /\ req[r].page = "api" /\ audit' = audit \cup {req[r].number}
  /\ req' = [req EXCEPT ![r].page = "audited"]
  /\ UNCHANGED <<rows, book, meant, asked, faults>>
(* AuditLogInterceptor, behind the answer. *)
intercept(r) ==
  /\ req[r].at = "audit" /\ audit' = audit \cup {req[r].number}
  /\ req' = [req EXCEPT ![r] = Idle]
  /\ UNCHANGED <<rows, book, meant, asked, faults>>
(* A statement fails, the audit log's without a word. *)
Fails(r) ==
  /\ req[r].at # "idle" /\ faults < MaxFaults /\ faults' = faults + 1
  /\ req' = [req EXCEPT ![r] = Idle]
  /\ UNCHANGED <<rows, audit, book, meant, asked>>

-----------------------------------------------------------------------------
(* A fresh install, or one where everything was saved before. *)
Init ==
  /\ \/ rows = [key \in Keys |-> NoRow]
     \/ rows = [key \in Keys |-> encode(key, Fallback(key))]
  /\ req = [r \in Requests |-> Idle] /\ audit = {} /\ asked = 0 /\ faults = 0
  /\ book = [wrong |-> {}, wrote |-> {}, done |-> {}]
  /\ meant = [key \in Keys |-> Fallback(key)]
Next ==
  \/ \E r \in Requests : \/ updateSettings(r) \/ updateCsat(r) \/ updateDataRetention(r)
                         \/ updateEmail(r) \/ savePublicTickets(r) \/ putSettings(r)
  \/ \E r \in Requests : Find(r) \/ set(r) \/ intercept(r) \/ Fails(r)
Spec == Init /\ [][Next]_vars

-----------------------------------------------------------------------------
TypeOK ==
  /\ \A key \in Keys : rows[key].type \in {"string", "boolean", "json"}
  /\ \A r \in Requests : req[r].todo = <<>> \/ req[r].at \in {"find", "save"}

(* Every reader takes a key for what its last writer meant by it, whichever page or process it was. *)
ReadAsMeant == (\A key \in Keys : Shown(key) = meant[key]) /\ required = meant["two_factor_required"]
(* A request with one wrong entry has written none of its keys. *)
WrongWritesNothing == book.wrong \cap book.wrote = {}
(* The audit log names only updates that were written to the end. *)
AuditedIsDone == audit \subseteq book.done
=================================================================================
