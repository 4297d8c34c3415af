--------------------------- MODULE FactLifecycle ---------------------------
(***************************************************************************)
(* The memory of facts of the conversational-semantic-memory experiment:    *)
(* one extraction per user turn, in order, whose operations are applied to  *)
(* an immutable store (facts.py), behind the preconditions of               *)
(* extraction_request and the latch of T6Extractor.  The loop over a        *)
(* response's operations is taken one operation at a time.                  *)
(***************************************************************************)
EXTENDS Integers

CONSTANTS
    Slots,        \* slot keys
    Meanings,     \* values up to normalize_value
    Spellings,    \* the ways to write a value that normalize_value identifies
    MaxTurns,     \* user turns of the conversation
    MaxOps        \* bound: operations of a response

ASSUME FactBounds == MaxTurns \in Nat /\ MaxOps \in Nat

Values == Meanings \X Spellings

normalize_value(v) == v[1]

\* fact_id: the slot, the turn and the index among the accepted operations of the turn.
Ids == Slots \X (1..MaxTurns) \X (0..MaxOps - 1)
Slot(id) == id[1]
Turn(id) == id[2]

NoId == <<>>

\* The order in which facts of a slot are asserted.
Before(f, g) == Turn(f) < Turn(g) \/ (Turn(f) = Turn(g) /\ f[3] < g[3])

VARIABLES
    status,       \* of each fact; "none" when there is no such fact
    value,
    supersedes,
    superseded_by,
    sources,      \* source_message_ids
    last,         \* last_sequence of the store
    turn,         \* the turn whose response is being applied, 0 when there is none
    payloads,     \* payloads of that response seen
    index,        \* operations of it accepted
    audit,        \* the audited operations of the store, by turn and kind
    stopped       \* the latch of T6Extractor

factVars == <<status, value, supersedes, superseded_by, sources>>
vars == <<factVars, last, turn, payloads, index, audit, stopped>>

Init ==
    /\ status = [id \in Ids |-> "none"]
    /\ value = [id \in Ids |-> NoId]
    /\ supersedes = [id \in Ids |-> NoId]
    /\ superseded_by = [id \in Ids |-> NoId]
    /\ sources = [id \in Ids |-> {}]
    /\ last = 0 /\ turn = 0 /\ payloads = 0 /\ index = 0
    /\ audit = {}
    /\ stopped = FALSE

Facts == {id \in Ids : status[id] # "none"}
Active(slot) == {id \in Facts : Slot(id) = slot /\ status[id] = "active"}

----------------------------------------------------------------------------
(* extraction_request and extract_turn.                                     *)

\* What the store must be like before a slot value of it is sent: no fact of the turn or of
\* a later one, provenance from earlier user turns, one active fact for a slot.
RequestIsAccepted(t) ==
    /\ \A id \in Facts : Turn(id) < t
    /\ \A id \in Facts : sources[id] # {} /\ sources[id] \subseteq 1..(t - 1)
    /\ \A slot \in Slots : \A f, g \in Active(slot) : f = g

CanExtract == turn = 0 /\ last < MaxTurns /\ ~stopped /\ RequestIsAccepted(last + 1)

\* The completion is an object with an array of facts.
Respond ==
    /\ CanExtract
    /\ turn' = last + 1 /\ payloads' = 0 /\ index' = 0
    /\ UNCHANGED <<factVars, last, audit, stopped>>

\* Anything else is one rejection and consumes the turn.
RespondMalformed ==
    /\ CanExtract
    /\ audit' = audit \cup {<<last + 1, "validation_rejection">>}
    /\ last' = last + 1
    /\ UNCHANGED <<factVars, turn, payloads, index, stopped>>

\* A response over the bound stops the session for good, with the turn not consumed.
RespondOversized ==
    /\ CanExtract
    /\ stopped' = TRUE
    /\ UNCHANGED <<factVars, last, turn, payloads, index, audit>>

TakePayload == turn # 0 /\ payloads < MaxOps /\ payloads' = payloads + 1

RejectPayload ==
    /\ TakePayload
    /\ audit' = audit \cup {<<turn, "validation_rejection">>}
    /\ UNCHANGED <<factVars, last, turn, index, stopped>>

FinishTurn ==
    /\ turn # 0
    /\ last' = turn /\ turn' = 0
    /\ UNCHANGED <<factVars, payloads, index, audit, stopped>>

----------------------------------------------------------------------------
(* apply.                                                                   *)

Accept == TakePayload /\ index' = index + 1 /\ UNCHANGED <<last, turn, stopped>>

RetractNothing(slot) ==
    /\ Accept
    /\ Active(slot) = {}
    /\ audit' = audit \cup {<<turn, "retract_without_active_fact">>}
    /\ UNCHANGED factVars

Retract(slot, prior) ==
    /\ Accept
    /\ prior \in Active(slot)
    /\ status' = [status EXCEPT ![prior] = "retracted"]
    /\ superseded_by' = [superseded_by EXCEPT ![prior] = NoId]
    /\ UNCHANGED <<value, supersedes, sources, audit>>

\* The same value again adds its turn to the provenance of the active fact.
AssertSame(slot, v, prior) ==
    /\ Accept
    /\ prior \in Active(slot)
    /\ normalize_value(value[prior]) = normalize_value(v)
    /\ sources' = [sources EXCEPT ![prior] = @ \cup {turn}]
    /\ UNCHANGED <<status, value, supersedes, superseded_by, audit>>

NewFact(id, v, statusBefore, prior) ==
    /\ status' = [statusBefore EXCEPT ![id] = "active"]
    /\ value' = [value EXCEPT ![id] = v]
    /\ sources' = [sources EXCEPT ![id] = {turn}]
    /\ supersedes' = [supersedes EXCEPT ![id] = prior]
    /\ UNCHANGED audit

\* What was retracted is superseded as well.
AssertFirstLinked(slot, v) ==
    /\ Accept
    /\ Active(slot) = {}
    /\ \E prior \in {f \in Facts : Slot(f) = slot /\ status[f] = "retracted"} \cup {NoId} :
          NewFact(<<slot, turn, index>>, v, status, prior)
    /\ UNCHANGED superseded_by

AssertFirst(slot, v) ==
    /\ Accept
    /\ Active(slot) = {}
    /\ NewFact(<<slot, turn, index>>, v, status, NoId)
    /\ UNCHANGED superseded_by

\* The prior fact is linked to the new one and stays active.
AssertOtherUnmarked(slot, v, prior) ==
    /\ Accept
    /\ prior \in Active(slot)
    /\ normalize_value(value[prior]) # normalize_value(v)
    /\ LET id == <<slot, turn, index>>
       IN  /\ NewFact(id, v, status, prior)
           /\ superseded_by' = [superseded_by EXCEPT ![prior] = id]

AssertOther(slot, v, prior) ==
    /\ Accept
    /\ prior \in Active(slot)
    /\ normalize_value(value[prior]) # normalize_value(v)
    /\ LET id == <<slot, turn, index>>
       IN  /\ NewFact(id, v, [status EXCEPT ![prior] = "superseded"], prior)
           /\ superseded_by' = [superseded_by EXCEPT ![prior] = id]

Next ==
    \/ Respond \/ RespondMalformed \/ RespondOversized
    \/ RejectPayload \/ FinishTurn
    \/ \E slot \in Slots : RetractNothing(slot)
    \/ \E slot \in Slots, prior \in Ids : Retract(slot, prior)
    \/ \E slot \in Slots, v \in Values : AssertFirst(slot, v)
    \/ \E slot \in Slots, v \in Values, prior \in Ids : AssertSame(slot, v, prior)
    \/ \E slot \in Slots, v \in Values, prior \in Ids : AssertOther(slot, v, prior)

Spec == Init /\ [][Next]_vars

----------------------------------------------------------------------------
(* Properties.                                                              *)

TypeOK ==
    /\ status \in [Ids -> {"none", "active", "superseded", "retracted"}]
    /\ value \in [Ids -> Values \cup {NoId}]
    /\ supersedes \in [Ids -> Ids \cup {NoId}]
    /\ superseded_by \in [Ids -> Ids \cup {NoId}]
    /\ sources \in [Ids -> SUBSET (1..MaxTurns)]
    /\ last \in 0..MaxTurns
    /\ turn \in {0, last + 1} /\ turn <= MaxTurns
    /\ payloads \in 0..MaxOps /\ index \in 0..payloads
    /\ audit \subseteq (1..MaxTurns) \X {"validation_rejection", "retract_without_active_fact"}
    /\ stopped \in BOOLEAN

\* The preconditions extraction_request raises on ("foreign or future facts", "not causal user
\* evidence", "multiple active facts") never stop a session: whatever the model answered to
\* the turns before, the store it left is one the next turn may be extracted from.
NextTurnIsAccepted == turn = 0 => RequestIsAccepted(last + 1)

\* Links agree in both directions, go forward in time, and a fact is superseded exactly when it
\* has a successor, even after that one was retracted.
Links ==
    \A id \in Ids :
        /\ status[id] = "superseded" <=> superseded_by[id] # NoId
        /\ LET next == superseded_by[id]
           IN  next # NoId =>
                  /\ next \in Facts /\ Slot(next) = Slot(id) /\ supersedes[next] = id
                  /\ Before(id, next)
        /\ supersedes[id] # NoId => superseded_by[supersedes[id]] = id

\* Of the facts of a slot only the latest may be active, and the successor of a superseded one is
\* the next of them.
Segments ==
    \A f, g \in Facts :
        Slot(f) = Slot(g) /\ Before(f, g) =>
            /\ status[f] # "active"
            /\ status[f] = "superseded" => superseded_by[f] = g \/ Before(superseded_by[f], g)

\* The facts of a slot, in the order they were asserted, are chains: a correction is linked to
\* the fact it replaced and to no other, a retraction ends a chain, and the assertion after it
\* begins another, which supersedes nothing.
Lineage == Links /\ Segments
=============================================================================
