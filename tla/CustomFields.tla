---------------------------- MODULE CustomFields ----------------------------
(***************************************************************************)
(* Custom fields of tickets and custom objects (custom-field.service.ts,   *)
(* custom-object.service.ts).  A request checks the values it carries      *)
(* against the definitions it read, then finds and writes one row after    *)
(* another; meanwhile other requests write the same rows and admins change *)
(* or delete the definitions.  A value is stored as text, and read back by *)
(* the definition of the day.  Objects keep records, checked against the   *)
(* schema of their object in the same way.                                 *)
(*                                                                         *)
(* A value is a tuple of its kind and its parts; what is stored is text:   *)
(* plain, or the JSON of a list.  Slugs, labels, positions and conditions  *)
(* are not modelled: a key of the form is the field it names.              *)
(***************************************************************************)
EXTENDS Naturals, Sequences, FiniteSets, SequencesExt

CONSTANTS Fields, Tickets, Requests,
          Definitions,   \* what an admin may save: [type, options, required, active]
          Values,        \* what a request may send
          Schemas,       \* of the object: functions from names to definitions
          Records,
          MaxEdits       \* bound on what admins do

VARIABLES field,    \* the definition of each field, or Absent
          value,    \* [ticket][field]: the stored row, or NoRow
          request,  \* what each request has in hand
          object,   \* the schema of the custom object, or Absent
          record,   \* the rows of the object: their data, or NoRow
          edits

vars == <<field, value, request, object, record, edits>>

Absent == [type |-> "absent", options |-> {}, required |-> FALSE, active |-> FALSE]
Nothing == <<"nothing">>
NoText == <<"none">>
NoRow == [by |-> "nobody", text |-> NoText, sent |-> Nothing, under |-> Absent]
NoObject == <<>>
NoRecord == [data |-> <<>>, under |-> NoObject]
Numerals == {"0", "1", "7"}
Dates == {"2024-02-29"}

(* isEmpty: null, blank text, an empty list.  An empty list is not blank to a custom object. *)
isEmpty(v) == v = Nothing \/ v = <<"array">> \/ v = <<"string", "">>
isBlank(v) == v = Nothing \/ v = <<"string", "">>
isNumeric(v) == v[1] = "number" \/ (v[1] = "string" /\ v[2] \in Numerals)
isValidDate(v) == v[1] = "string" /\ v[2] \in Dates

(* checkboxValue: the spellings of yes and no. *)
Yes == {<<"boolean", "true">>, <<"number", "1">>, <<"string", "1">>, <<"string", "true">>}
No == {<<"boolean", "false">>, <<"number", "0">>, <<"string", "0">>, <<"string", "false">>}

(* encode: whether the field takes the value, and the text it is stored as. *)
Accepts(d, v) ==
    CASE d.type = "number" -> isNumeric(v)
      [] d.type = "date" -> isValidDate(v)
      [] d.type = "checkbox" -> v \in Yes \union No
      [] d.type = "select" -> v[1] = "string" /\ v[2] \in d.options
      [] d.type = "multi_select" -> v[1] = "array" /\ Range(Tail(v)) \subseteq d.options
      [] OTHER -> v[1] = "string"

\* Mutant: only 1 counts as yes.
encodeDigits(d, v) ==
    CASE d.type = "multi_select" -> <<"json">> \o Tail(v)
      [] d.type = "checkbox" -> <<"plain", IF v[2] = "1" THEN "1" ELSE "0">>
      [] OTHER -> <<"plain">> \o Tail(v)

encode(d, v) ==
    CASE d.type = "multi_select" -> <<"json">> \o Tail(v)
      [] d.type = "checkbox" -> IF v \in Yes THEN <<"plain", "1">> ELSE <<"plain", "0">>
      [] OTHER -> <<"plain">> \o Tail(v)

(* decodeCustomFieldValue: the stored text by today's definition. *)
decodeCustomFieldValue(d, text) ==
    CASE text = NoText -> Nothing
      [] d.type = "multi_select" -> <<"array">> \o Tail(text)
      [] d.type = "checkbox" ->
            <<"boolean", IF text \in {<<"plain", "1">>, <<"plain", "true">>} THEN "true" ELSE "false">>
      [] d.type = "number" /\ text[1] = "plain" /\ text[2] \in Numerals -> <<"number", text[2]>>
      [] OTHER -> <<IF text[1] = "plain" THEN "string" ELSE "json">> \o Tail(text)

(* ticketValues: what the page of a ticket shows for the active fields. *)
Shown(t, f) == decodeCustomFieldValue(field[f], value[t][f].text)

(* checkRecord: the names are known, the required ones filled, the others fit their type.  *)
(* Text and lookups take anything.                                                         *)
\* Mutant: only the names that were sent are looked at.
checkRecordSent(schema, data) ==
    /\ DOMAIN data \subseteq DOMAIN schema
    /\ \A name \in DOMAIN data : schema[name].type = "number" => isNumeric(data[name])

checkRecord(schema, data) ==
    /\ DOMAIN data \subseteq DOMAIN schema
    /\ \A name \in DOMAIN schema :
          LET v == IF name \in DOMAIN data THEN data[name] ELSE Nothing
              d == schema[name]
          IN IF isBlank(v) THEN ~d.required
             ELSE CASE d.type = "number" -> isNumeric(v)
                    [] d.type = "date" -> isValidDate(v)
                    [] d.type = "select" -> Len(v) = 2 /\ v[2] \in d.options
                    [] OTHER -> TRUE

-----------------------------------------------------------------------------
Active == {f \in Fields : field[f].active}
Idle == [at |-> "idle", ticket |-> CHOOSE t \in Tickets : TRUE, todo |-> <<>>, found |-> "nobody"]

Init ==
    /\ field \in [Fields -> {Absent} \union {d \in Definitions : d.active}]
    /\ value = [t \in Tickets |-> [f \in Fields |-> NoRow]]
    /\ request = [r \in Requests |-> Idle]
    /\ object = NoObject
    /\ record = [r \in Records |-> NoRecord]
    /\ edits = 0

(* resolveTicketInput refuses a key that is no active field, an empty value of a required    *)
(* field that was sent, every unfilled required field of a new ticket, and a value its field *)
(* does not take.                                                                            *)
\* Mutant: an update may empty a required field.
RefusedUnlessNew(f, sent, required) ==
    IF f \in DOMAIN sent /\ ~isEmpty(sent[f]) THEN ~Accepts(field[f], sent[f])
    ELSE field[f].required /\ required

Refused(f, sent, required) ==
    IF f \in DOMAIN sent /\ ~isEmpty(sent[f]) THEN ~Accepts(field[f], sent[f])
    ELSE field[f].required /\ (required \/ f \in DOMAIN sent)

Pending(f, v) ==
    [field |-> f, sent |-> v, under |-> field[f],
     text |-> IF isEmpty(v) THEN NoText ELSE encode(field[f], v)]

resolveTicketInput(r, t, sent, required) ==
    /\ request[r].at = "idle"
    /\ LET ok == DOMAIN sent \subseteq Active /\ \A f \in Active : ~Refused(f, sent, required)
       IN request' = [request EXCEPT ![r] =
             [@ EXCEPT !.at = IF ok THEN "find" ELSE "done", !.ticket = t,
                       !.todo = IF ok THEN SetToSeq({Pending(f, sent[f]) : f \in DOMAIN sent})
                                ELSE <<>>]]
    /\ UNCHANGED <<field, value, object, record, edits>>

(* saveTicketValues looks for the row of the next value, ... *)
FindRow(r) ==
    LET q == request[r] IN
    /\ q.at = "find"
    /\ request' = [request EXCEPT ![r] =
          IF q.todo = <<>> THEN [@ EXCEPT !.at = "done"]
          ELSE [@ EXCEPT !.at = "write", !.found = value[q.ticket][Head(q.todo).field].by]]
    /\ UNCHANGED <<field, value, object, record, edits>>

(* ... then removes it, saves it or inserts one.  A row saved after it was removed is inserted *)
(* again; the database refuses a second row of one field and ticket, and a row of no field:    *)
(* the request fails with what it wrote so far.                                                *)
Rewritten(row, found, p) ==
    CASE p.text = NoText -> IF found # "nobody" /\ row.by = found THEN NoRow ELSE row
      [] OTHER -> [by |-> p.by, text |-> p.text, sent |-> p.sent, under |-> p.under]

WriteRow(r) ==
    LET q == request[r]
        p == Head(q.todo)
        row == value[q.ticket][p.field]
        refused == p.text # NoText
                   /\ (field[p.field] = Absent \/ row.by \notin {"nobody", q.found})
        id == IF q.found = "nobody" THEN r ELSE q.found
    IN /\ q.at = "write"
       /\ IF refused
          THEN /\ request' = [request EXCEPT ![r].at = "failed"]
               /\ UNCHANGED value
          ELSE /\ value' = [value EXCEPT ![q.ticket][p.field] =
                     Rewritten(row, q.found, [by |-> id, text |-> p.text, sent |-> p.sent,
                                              under |-> p.under])]
               /\ request' = [request EXCEPT ![r] =
                     [@ EXCEPT !.at = "find", !.todo = Tail(q.todo), !.found = "nobody"]]
       /\ UNCHANGED <<field, object, record, edits>>

-----------------------------------------------------------------------------
(* The admin's form carries every column; a choice needs options.  The JSON endpoint updates *)
(* the columns it is sent without that rule.                                                 *)
Admin == edits < MaxEdits /\ edits' = edits + 1

adminInput(d) == d.type \in {"select", "multi_select"} => d.options # {}

adminCreate(f, d) ==
    /\ Admin /\ field[f] = Absent /\ adminInput(d)
    /\ field' = [field EXCEPT ![f] = d]
    /\ UNCHANGED <<value, request, object, record>>

adminUpdate(f, d) ==
    /\ Admin /\ field[f] # Absent /\ adminInput(d)
    /\ field' = [field EXCEPT ![f] = d]
    /\ UNCHANGED <<value, request, object, record>>

update(f, d) ==
    /\ Admin /\ field[f] # Absent
    /\ \/ field' = [field EXCEPT ![f].options = d.options]
       \/ field' = [field EXCEPT ![f].type = d.type]
    /\ UNCHANGED <<value, request, object, record>>

(* delete removes the values, then the field, and the key takes what was added in between. *)
delete(f) ==
    /\ Admin /\ field[f] # Absent
    /\ field' = [field EXCEPT ![f] = Absent]
    /\ value' = [t \in Tickets |-> [value[t] EXCEPT ![f] = NoRow]]
    /\ UNCHANGED <<request, object, record>>

(* input: a schema has at least one field, and each is named and of a type it may have. *)
input(schema) ==
    /\ schema # NoObject
    /\ \A name \in DOMAIN schema : schema[name].type \in {"text", "number", "select", "date", "lookup"}

saveObject(schema) ==
    /\ Admin /\ input(schema) /\ object' = schema
    /\ UNCHANGED <<field, value, request, record>>

deleteObject ==
    /\ Admin /\ object # NoObject /\ object' = NoObject
    /\ record' = [r \in Records |-> NoRecord]
    /\ UNCHANGED <<field, value, request>>

(* createRecord and updateRecord check the data against the schema they read; by the time they *)
(* write, an admin may have saved another one.  A record of a deleted object is refused.       *)
CheckRecord(r, data) ==
    /\ request[r].at = "idle" /\ object # NoObject
    /\ request' = [request EXCEPT ![r] =
          IF checkRecord(object, data)
          THEN [at |-> "record", data |-> data, under |-> object]
          ELSE [@ EXCEPT !.at = "done"]]
    /\ UNCHANGED <<field, value, object, record, edits>>

SaveRecord(r, id) ==
    /\ request[r].at = "record"
    /\ record' = IF object = NoObject THEN record
                 ELSE [record EXCEPT ![id] = [data |-> request[r].data, under |-> request[r].under]]
    /\ request' = [request EXCEPT ![r] =
          [Idle EXCEPT !.at = IF object = NoObject THEN "failed" ELSE "done"]]
    /\ UNCHANGED <<field, value, object, edits>>

deleteRecord(id) ==
    /\ Admin
    /\ record' = [record EXCEPT ![id] = NoRecord]
    /\ UNCHANGED <<field, value, request, object>>

Inputs == UNION {[S -> Values] : S \in SUBSET Fields}
Data == UNION {[S -> Values] : S \in SUBSET UNION {DOMAIN s : s \in Schemas}}

Ask(r) ==
    \/ \E t \in Tickets, sent \in Inputs, required \in BOOLEAN :
          resolveTicketInput(r, t, sent, required)
    \/ \E data \in Data : CheckRecord(r, data)

AdministerFields ==
    \/ \E f \in Fields, d \in Definitions : adminCreate(f, d) \/ adminUpdate(f, d) \/ update(f, d)
    \/ \E f \in Fields : delete(f)

AdministerObjects ==
    \/ \E schema \in Schemas : saveObject(schema)
    \/ deleteObject
    \/ \E id \in Records : deleteRecord(id)

Next ==
    \/ \E r \in Requests : Ask(r) \/ FindRow(r) \/ WriteRow(r)
    \/ \E r \in Requests, id \in Records : SaveRecord(r, id)
    \/ AdministerFields
    \/ AdministerObjects

Spec == Init /\ [][Next]_vars

-----------------------------------------------------------------------------
TypeOK ==
    /\ \A f \in Fields : field[f].type \in {"absent", "text", "number", "date", "checkbox",
                                            "select", "multi_select"}
    /\ \A t \in Tickets, f \in Fields : value[t][f].by \in Requests \union {"nobody"}
    /\ \A r \in Requests : request[r].at \in {"idle", "find", "write", "record", "done", "failed"}
    /\ edits \in 0 .. MaxEdits

(* What a value means, whatever spelling it was sent in. *)
Meant(d, v) ==
    CASE d.type = "checkbox" -> <<"boolean", IF v \in Yes THEN "true" ELSE "false">>
      [] d.type = "number" -> <<"number", v[2]>>
      [] OTHER -> v

(* A ticket's page shows what was meant by the value stored last, as long as the field is of  *)
(* the type it was checked under; and no row is left of a deleted field.  The value goes      *)
(* through a check against a definition of an earlier moment, text and back, with other       *)
(* requests and admins between every two steps (encode, saveTicketValues,                     *)
(* decodeCustomFieldValue, delete).                                                           *)
ShownIsMeant ==
    \A t \in Tickets, f \in Fields :
        LET row == value[t][f] IN
        row # NoRow =>
            /\ field[f] # Absent
            /\ field[f].type = row.under.type
                 => Shown(t, f) = Meant(row.under, row.sent)

(* A stored value disappears only with its field, or by a request that read the field while   *)
(* it was not required: nobody empties a required field, however the steps of updates         *)
(* interleave with the admin's edits (resolveTicketInput, saveTicketValues).                  *)
FilledStays ==
    \A t \in Tickets, f \in Fields :
        value[t][f] # NoRow /\ value'[t][f] = NoRow =>
            \/ field'[f] = Absent
            \/ \E r \in Requests : /\ request[r].at = "write" /\ request[r].ticket = t
                                   /\ Head(request[r].todo).field = f
                                   /\ ~Head(request[r].todo).under.required

(* No record outlives its object, and the required names of the schema a record was checked   *)
(* under are filled in it (checkRecord, createRecord, updateRecord, delete).                  *)
RecordsBelong ==
    \A id \in Records : record[id].under # NoObject =>
        /\ object # NoObject
        /\ \A name \in DOMAIN record[id].under :
              record[id].under[name].required =>
                  name \in DOMAIN record[id].data /\ ~isBlank(record[id].data[name])
=============================================================================
