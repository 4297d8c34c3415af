---------------------------- MODULE NotionWrites ----------------------------
(***************************************************************************)
(* Controlled writes to Notion: a request is checked against the allowlists *)
(* and schemas of the settings, audited, sent once and audited again with   *)
(* its end.  The call has a timeout: what timed out may have been applied,  *)
(* or be applied later.  Refusals (403, 422) are not told apart.            *)
(***************************************************************************)
EXTENDS Naturals, Sequences, FiniteSets

CONSTANTS
    Requests,            \* HTTP requests; a client's retry is another one
    Operations,          \* what they may ask for
    allowed_pages, allowed_databases,
    editable_fields,     \* field schemas, by page and by <<"row_in", database>>
    database_templates,  \* field schemas, by database
    Dates, Numbers       \* the values that read as a date, and as a number

VARIABLES
    enabled,     \* notion_write_enabled
    asked,       \* the operation of a request
    stage,       \* of a request: new, calling, or its answer
    inflight,    \* calls that Notion has yet to see
    notion,      \* the calls Notion applied, in order: <<request, properties>>
    audit        \* the audit lines: <<request, status>>

vars == <<enabled, asked, stage, inflight, notion, audit>>

NoOperation == "none"
Answers == {"disabled", "refused", "noop", "success", "error"}

Init ==
    /\ enabled \in BOOLEAN
    /\ asked = [r \in Requests |-> NoOperation]
    /\ stage = [r \in Requests |-> "new"]
    /\ inflight = {}
    /\ notion = <<>> /\ audit = <<>>

----------------------------------------------------------------------------
(* The validator.                                                           *)

validate_field_value(value, schema) ==
    CASE schema.type \in {"select", "enum", "status"} ->
            schema.options = {} \/ value \in schema.options
      [] schema.type = "date" -> value \in Dates
      [] schema.type = "number" -> value \in Numbers
      [] OTHER -> TRUE

FieldsAreValid(values, schemas) ==
    /\ DOMAIN values \subseteq DOMAIN schemas
    /\ \A field \in DOMAIN values : validate_field_value(values[field], schemas[field])

PageWriteIsValid(op) ==
    /\ op.target \in allowed_pages \cap DOMAIN editable_fields
    /\ FieldsAreValid(op.values, editable_fields[op.target])

RowCreateIsValid(op) ==
    /\ op.target \in allowed_databases \cap DOMAIN database_templates
    /\ LET template == database_templates[op.target]
       IN  /\ {field \in DOMAIN template : template[field].required} \subseteq DOMAIN op.values
           /\ FieldsAreValid(op.values, template)

\* The row is checked by the fields of its database; that it is one of its rows is not checked.
RowUpdateIsValid(op) ==
    /\ op.target \in allowed_databases
    /\ <<"row_in", op.target>> \in DOMAIN editable_fields
    /\ FieldsAreValid(op.values, editable_fields[<<"row_in", op.target>>])

IsValid(op) ==
    \/ op.kind = "page_update" /\ PageWriteIsValid(op)
    \/ op.kind = "row_create" /\ RowCreateIsValid(op)
    \/ op.kind = "row_update" /\ RowUpdateIsValid(op)

Schemas(op) ==
    CASE op.kind = "page_update" -> editable_fields[op.target]
      [] op.kind = "row_create" -> database_templates[op.target]
      [] op.kind = "row_update" -> editable_fields[<<"row_in", op.target>>]

\* Every field under its Notion key, in the shape of its type.
Properties(op) ==
    {<<Schemas(op)[f].key, Schemas(op)[f].type, op.values[f]>> : f \in DOMAIN op.values}

----------------------------------------------------------------------------
(* A request.                                                               *)

Log(r, statuses) == audit' = audit \o [i \in DOMAIN statuses |-> <<r, statuses[i]>>]
Turn(r, from, to) == stage[r] = from /\ stage' = [stage EXCEPT ![r] = to]
Ask(r, op) == asked' = [asked EXCEPT ![r] = op]

\* _ensure_enabled comes before the audit.
Disabled(r, op) ==
    /\ ~enabled
    /\ Turn(r, "new", "disabled") /\ Ask(r, op)
    /\ UNCHANGED <<enabled, inflight, notion, audit>>

Refuse(r, op) ==
    /\ enabled /\ ~IsValid(op)
    /\ Turn(r, "new", "refused") /\ Ask(r, op)
    /\ Log(r, <<"attempt">>)
    /\ UNCHANGED <<enabled, inflight, notion>>

\* An update of no field is not sent; a row without one is.
Noop(r, op) ==
    /\ enabled /\ IsValid(op) /\ DOMAIN op.values = {} /\ op.kind # "row_create"
    /\ Turn(r, "new", "noop") /\ Ask(r, op)
    /\ Log(r, <<"attempt", "noop">>)
    /\ UNCHANGED <<enabled, inflight, notion>>

Send(r, op) ==
    /\ enabled /\ IsValid(op) /\ (DOMAIN op.values # {} \/ op.kind = "row_create")
    /\ Turn(r, "new", "calling") /\ Ask(r, op)
    /\ inflight' = inflight \cup {r}
    /\ Log(r, <<"attempt">>)
    /\ UNCHANGED <<enabled, notion>>

Effects(r) == {i \in DOMAIN notion : notion[i][1] = r}

\* A reply below 400 that holds a JSON object.
Succeed(r) ==
    /\ Effects(r) # {}
    /\ Turn(r, "calling", "success")
    /\ Log(r, <<"success">>)
    /\ UNCHANGED <<enabled, asked, inflight, notion>>

\* A timeout is answered by a second call.
CallAgain(r) ==
    /\ stage[r] = "calling"
    /\ inflight' = inflight \cup {r}
    /\ UNCHANGED <<enabled, asked, stage, notion, audit>>

\* No token, a timeout, a lost connection, or a reply that is not a JSON object: the call may
\* have been applied, and may be yet.
CallFails(r) ==
    /\ Turn(r, "calling", "error")
    /\ Log(r, <<"error">>)
    /\ UNCHANGED <<enabled, asked, notion>>
    /\ UNCHANGED inflight \/ inflight' = inflight \ {r}

Apply(r) ==
    /\ r \in inflight
    /\ inflight' = inflight \ {r}
    /\ notion' = Append(notion, <<r, Properties(asked[r])>>)
    /\ UNCHANGED <<enabled, asked, stage, audit>>

\* The process ends: its requests have no answer, its calls are on their way.
Crash ==
    /\ \E r \in Requests : stage[r] = "calling"
    /\ stage' = [r \in Requests |-> IF stage[r] = "calling" THEN "gone" ELSE stage[r]]
    /\ UNCHANGED <<enabled, asked, inflight, notion, audit>>

Next ==
    \/ \E r \in Requests :
         \/ \E op \in Operations : Disabled(r, op) \/ Refuse(r, op) \/ Noop(r, op) \/ Send(r, op)
         \/ Succeed(r) \/ CallFails(r) \/ Apply(r)
    \/ Crash

Spec == Init /\ [][Next]_vars

----------------------------------------------------------------------------
(* Properties.                                                              *)

\* The lines of r, in their order, are one of each of these statuses.
Audited(r, statuses) ==
    \E line \in [DOMAIN statuses -> DOMAIN audit] :
        /\ {i \in DOMAIN audit : audit[i][1] = r} = {line[k] : k \in DOMAIN statuses}
        /\ \A j, k \in DOMAIN statuses : j < k => line[j] < line[k]
        /\ \A k \in DOMAIN statuses : audit[line[k]] = <<r, statuses[k]>>

\* What the audit says of a request at a stage.
AuditOf(at) ==
    CASE at \in {"new", "disabled"} -> <<>>
      [] at \in {"calling", "gone", "refused"} -> <<"attempt">>
      [] OTHER -> <<"attempt", at>>

\* Whatever is retried, lost or late, a request changes Notion at most once; the audit and the
\* answer never say more than was done; and only a request audited as an attempt changes Notion.
EffectsMatchAnswers ==
    \A r \in Requests :
        /\ Cardinality(Effects(r)) <= 1
        /\ stage[r] = "success" => Cardinality(Effects(r)) = 1
        /\ stage[r] \in {"disabled", "refused", "noop"} => Effects(r) = {} /\ r \notin inflight
        /\ Effects(r) # {} => <<r, "attempt">> \in {audit[i] : i \in DOMAIN audit}
        /\ Audited(r, AuditOf(stage[r]))

=============================================================================
