------------------------ MODULE FactLifecycleProofs ------------------------
(***************************************************************************)
(* The memory of facts, for any slots, values, turns and operations: the   *)
(* store an extraction left is one the next extraction accepts, and the    *)
(* facts of a slot form chains.                                            *)
(***************************************************************************)
EXTENDS FactLifecycle, TLAPS

\* The last turn whose operations may be in the store.
Now == IF turn = 0 THEN last ELSE turn

\* A fact is of a turn already taken, and in the current turn of an operation already applied.
Placed ==
    \A id \in Facts : Turn(id) <= Now /\ (Turn(id) = turn => id[3] < index)

Provenance == \A id \in Facts : sources[id] # {} /\ sources[id] \subseteq 1..Now

OneActive == \A f, g \in Facts :
    Slot(f) = Slot(g) /\ status[f] = "active" /\ status[g] = "active" => f = g

IInv == TypeOK /\ Placed /\ Provenance /\ OneActive /\ Links /\ Segments

----------------------------------------------------------------------------

(* The parts of an identifier.  facts.py: fact_id.                          *)
LEMMA IdParts ==
    ASSUME NEW id \in Ids
    PROVE  /\ Slot(id) \in Slots /\ Turn(id) \in 1..MaxTurns /\ id[3] \in Nat
           /\ id # NoId
  <1>1. PICK s \in Slots, t \in 1..MaxTurns, n \in 0..MaxOps - 1 : id = <<s, t, n>>
    BY DEF Ids
  <1>2. id # <<>>
    BY <1>1
  <1> QED
    BY <1>1, <1>2, FactBounds DEF Slot, Turn, NoId

(* The identifier of an accepted operation is one, and is not in use: every *)
(* earlier operation had a smaller turn or index.  facts.py: apply.         *)
LEMMA NewId ==
    ASSUME IInv, Accept, NEW slot \in Slots
    PROVE  LET id == <<slot, turn, index>>
           IN  /\ id \in Ids /\ id \notin Facts
               /\ Slot(id) = slot /\ Turn(id) = turn /\ id[3] = index
  <1>1. /\ turn \in 1..MaxTurns /\ index \in 0..MaxOps - 1
    BY FactBounds DEF IInv, TypeOK, Accept, TakePayload
  <1>2. <<slot, turn, index>> \in Ids
    BY <1>1 DEF Ids
  <1>3. ASSUME <<slot, turn, index>> \in Facts PROVE FALSE
    BY <1>1, <1>3 DEF IInv, Placed, Turn
  <1> QED
    BY <1>2, <1>3 DEF Slot, Turn

(* Nothing is active, linked or sourced at first.  facts.py: FactStore.     *)
LEMMA Initially == Init => IInv
  <1>1. Init => TypeOK
    <2> SUFFICES ASSUME Init PROVE TypeOK
      OBVIOUS
    <2>1. /\ status \in [Ids -> {"none", "active", "superseded", "retracted"}]
          /\ value \in [Ids -> Values \cup {NoId}]
          /\ supersedes \in [Ids -> Ids \cup {NoId}]
          /\ superseded_by \in [Ids -> Ids \cup {NoId}]
          /\ sources \in [Ids -> SUBSET (1..MaxTurns)]
      BY DEF Init
    <2>2. /\ last \in 0..MaxTurns /\ turn \in {0, last + 1} /\ turn <= MaxTurns
          /\ payloads \in 0..MaxOps /\ index \in 0..payloads
      BY FactBounds DEF Init
    <2>3. /\ audit \subseteq (1..MaxTurns) \X {"validation_rejection", "retract_without_active_fact"}
          /\ stopped \in BOOLEAN
      BY DEF Init
    <2> QED
      BY <2>1, <2>2, <2>3 DEF TypeOK
  <1>2. Init => Facts = {}
    BY DEF Init, Facts
  <1>3. Init => Links
    BY DEF Init, Links
  <1> QED
    BY <1>1, <1>2, <1>3 DEF IInv, Placed, Provenance, OneActive, Segments

(* What a step that leaves the facts alone has to keep of the rest.         *)
LEMMA FactsKept ==
    ASSUME IInv, UNCHANGED factVars, TypeOK', Now' \in Int, Now <= Now',
           turn' = turn => index <= index',
           turn' # turn => turn' \in {0, Now + 1}
    PROVE  IInv'
  <1>1. Facts' = Facts /\ Now \in 0..MaxTurns /\ Facts \subseteq Ids /\ index \in Int
    BY FactBounds DEF factVars, Facts, Now, IInv, TypeOK
  <1>2. Placed'
    <2> SUFFICES ASSUME NEW id \in Facts
                 PROVE  Turn(id) <= Now' /\ (Turn(id) = turn' => id[3] < index')
      BY <1>1 DEF Placed, Turn
    <2>1. Turn(id) \in 1..MaxTurns /\ id[3] \in Nat /\ Turn(id) <= Now
          /\ (Turn(id) = turn => id[3] < index)
      BY <1>1, IdParts DEF IInv, Placed
    <2>2. index' \in Int
      BY FactBounds DEF TypeOK
    <2> QED
      BY <1>1, <2>1, <2>2, FactBounds
  <1>3. Provenance'
    <2> SUFFICES ASSUME NEW id \in Facts
                 PROVE  sources[id] # {} /\ sources[id] \subseteq 1..Now'
      BY <1>1 DEF Provenance, factVars
    <2> QED
      BY <1>1 DEF IInv, Provenance
  <1>4. OneActive' /\ Links' /\ Segments'
    BY <1>1 DEF IInv, OneActive, Links, Segments, Before, factVars, Slot, Turn
  <1> QED
    BY <1>2, <1>3, <1>4 DEF IInv

----------------------------------------------------------------------------
(* Types.                                                                   *)

(* An operation leaves its turn where it was and the counters in bounds.    *)
LEMMA AcceptTypes ==
    ASSUME TypeOK, Accept
    PROVE  /\ last' = last /\ turn' = turn /\ turn \in 1..MaxTurns /\ turn = last + 1
           /\ index \in 0..MaxOps - 1 /\ index' = index + 1
           /\ last' \in 0..MaxTurns /\ turn' \in {0, last' + 1} /\ turn' <= MaxTurns
           /\ payloads' \in 0..MaxOps /\ index' \in 0..payloads' /\ stopped' \in BOOLEAN
  BY FactBounds DEF TypeOK, Accept, TakePayload

(* Every step keeps the types.  extraction_request, apply.                  *)
LEMMA Types == TypeOK /\ [Next]_vars => TypeOK'
  <1> SUFFICES ASSUME TypeOK, [Next]_vars PROVE TypeOK'
    OBVIOUS
  <1> DEFINE Kinds == {"validation_rejection", "retract_without_active_fact"}
  <1> DEFINE Factual ==
        /\ status' \in [Ids -> {"none", "active", "superseded", "retracted"}]
        /\ value' \in [Ids -> Values \cup {NoId}]
        /\ supersedes' \in [Ids -> Ids \cup {NoId}]
        /\ superseded_by' \in [Ids -> Ids \cup {NoId}]
        /\ sources' \in [Ids -> SUBSET (1..MaxTurns)]
  <1> DEFINE Counted ==
        /\ last' \in 0..MaxTurns
        /\ turn' \in {0, last' + 1} /\ turn' <= MaxTurns
        /\ payloads' \in 0..MaxOps /\ index' \in 0..payloads'
        /\ stopped' \in BOOLEAN
  <1> DEFINE Audited == audit' \subseteq (1..MaxTurns) \X Kinds
  <1>1. UNCHANGED factVars => Factual
    BY DEF TypeOK, factVars
  <1>2. UNCHANGED audit => Audited
    BY DEF TypeOK
  <1>3. Accept => Counted
    BY AcceptTypes
  <1>4. SUFFICES Factual /\ Counted /\ Audited
    BY DEF TypeOK
  <1> USE FactBounds
  <1>5. CASE UNCHANGED vars
    BY <1>5, <1>1, <1>2 DEF vars, TypeOK
  <1>6. CASE Respond
    <2>1. Counted
      BY <1>6 DEF Respond, CanExtract, TypeOK
    <2> QED
      BY <2>1, <1>6, <1>1, <1>2 DEF Respond
  <1>7. CASE RespondMalformed
    <2>1. Counted
      BY <1>7 DEF RespondMalformed, CanExtract, TypeOK
    <2>2. last + 1 \in 1..MaxTurns
      BY <1>7 DEF RespondMalformed, CanExtract, TypeOK
    <2>3. Audited
      BY <2>2, <1>7 DEF RespondMalformed, TypeOK
    <2> QED
      BY <2>1, <2>3, <1>7, <1>1 DEF RespondMalformed
  <1>8. CASE RespondOversized
    <2>1. Counted
      BY <1>8 DEF RespondOversized, CanExtract, TypeOK
    <2> QED
      BY <2>1, <1>8, <1>1, <1>2 DEF RespondOversized
  <1>9. CASE RejectPayload
    <2>1. Counted
      BY <1>9 DEF RejectPayload, TakePayload, TypeOK
    <2>2. turn \in 1..MaxTurns
      BY <1>9 DEF RejectPayload, TakePayload, TypeOK
    <2>3. Audited
      BY <2>2, <1>9 DEF RejectPayload, TypeOK
    <2> QED
      BY <2>1, <2>3, <1>9, <1>1 DEF RejectPayload
  <1>10. CASE FinishTurn
    <2>1. Counted
      BY <1>10 DEF FinishTurn, TypeOK
    <2> QED
      BY <2>1, <1>10, <1>1, <1>2 DEF FinishTurn
  <1>11. ASSUME NEW slot \in Slots, RetractNothing(slot) PROVE Factual /\ Counted /\ Audited
    <2>1. turn \in 1..MaxTurns
      BY <1>11, AcceptTypes DEF RetractNothing
    <2>2. Audited
      BY <2>1, <1>11 DEF RetractNothing, TypeOK
    <2> QED
      BY <2>2, <1>11, <1>1, <1>3 DEF RetractNothing
  <1>12. ASSUME NEW slot \in Slots, NEW prior \in Ids, Retract(slot, prior)
         PROVE  Factual /\ Counted /\ Audited
    <2>1. Factual
      BY <1>12 DEF Retract, TypeOK
    <2> QED
      BY <2>1, <1>12, <1>2, <1>3 DEF Retract
  <1>13. ASSUME NEW slot \in Slots, NEW v \in Values, AssertFirst(slot, v)
         PROVE  Factual /\ Counted /\ Audited
    <2>1. turn \in 1..MaxTurns /\ index \in 0..MaxOps - 1
      BY <1>13, AcceptTypes DEF AssertFirst
    <2>2. <<slot, turn, index>> \in Ids
      BY <2>1 DEF Ids
    <2>3. Factual
      BY <2>1, <2>2, <1>13 DEF AssertFirst, NewFact, TypeOK
    <2> QED
      BY <2>3, <1>13, <1>2, <1>3 DEF AssertFirst, NewFact
  <1>14. ASSUME NEW slot \in Slots, NEW v \in Values, NEW prior \in Ids,
                AssertSame(slot, v, prior)
         PROVE  Factual /\ Counted /\ Audited
    <2>1. turn \in 1..MaxTurns
      BY <1>14, AcceptTypes DEF AssertSame
    <2>2. Factual
      BY <2>1, <1>14 DEF AssertSame, TypeOK
    <2> QED
      BY <2>2, <1>14, <1>2, <1>3 DEF AssertSame
  <1>15. ASSUME NEW slot \in Slots, NEW v \in Values, NEW prior \in Ids,
                AssertOther(slot, v, prior)
         PROVE  Factual /\ Counted /\ Audited
    <2>1. turn \in 1..MaxTurns /\ index \in 0..MaxOps - 1
      BY <1>15, AcceptTypes DEF AssertOther
    <2>2. <<slot, turn, index>> \in Ids
      BY <2>1 DEF Ids
    <2>3. Factual
      BY <2>1, <2>2, <1>15 DEF AssertOther, NewFact, TypeOK
    <2> QED
      BY <2>3, <1>15, <1>2, <1>3 DEF AssertOther, NewFact
  <1> QED
    BY <1>5, <1>6, <1>7, <1>8, <1>9, <1>10, <1>11, <1>12, <1>13, <1>14, <1>15 DEF Next

----------------------------------------------------------------------------
(* Operations.                                                              *)

(* A retracted fact has no successor: only an active fact is retracted.     *)
(* facts.py: apply.                                                         *)
LEMMA RetractKeeps ==
    ASSUME IInv, TypeOK', NEW slot \in Slots, NEW prior \in Ids, Retract(slot, prior)
    PROVE  IInv'
  <1>1. /\ prior \in Facts /\ status[prior] = "active"
        /\ status' = [status EXCEPT ![prior] = "retracted"]
        /\ superseded_by' = [superseded_by EXCEPT ![prior] = NoId]
        /\ UNCHANGED <<supersedes, sources>>
    BY DEF Retract, Active
  <1>2. /\ last' = last /\ turn' = turn /\ turn \in 1..MaxTurns
        /\ index \in 0..MaxOps - 1 /\ index' = index + 1
    BY AcceptTypes DEF Retract, IInv
  <1>3. TypeOK /\ Links
    BY DEF IInv
  <1>4. superseded_by[prior] = NoId
    BY <1>1, <1>3 DEF Links
  <1>5. superseded_by' = superseded_by
    BY <1>1, <1>3, <1>4 DEF TypeOK
  <1>6. Facts' = Facts
    BY <1>1, <1>3 DEF Facts, TypeOK
  <1>7. Placed'
    <2> SUFFICES ASSUME NEW id \in Facts
                 PROVE  Turn(id) <= Now' /\ (Turn(id) = turn' => id[3] < index')
      BY <1>6 DEF Placed, Turn
    <2>1. Turn(id) <= Now /\ (Turn(id) = turn => id[3] < index) /\ id[3] \in Nat
      BY IdParts DEF IInv, Placed, Facts
    <2> QED
      BY <1>2, <2>1, FactBounds DEF Now
  <1>8. Provenance'
    BY <1>1, <1>2, <1>6 DEF IInv, Provenance, Now
  <1>9. OneActive'
    BY <1>1, <1>3, <1>6 DEF IInv, OneActive, Slot, TypeOK, Facts
  <1>10. Links'
    <2> SUFFICES ASSUME NEW id \in Ids
                 PROVE  /\ status'[id] = "superseded" <=> superseded_by[id] # NoId
                        /\ LET next == superseded_by[id]
                           IN  next # NoId =>
                                  /\ next \in Facts /\ Slot(next) = Slot(id)
                                  /\ supersedes[next] = id
                                  /\ Before(id, next)
                        /\ supersedes[id] # NoId => superseded_by[supersedes[id]] = id
      BY <1>1, <1>5, <1>6 DEF Links, Before, Slot, Turn
    <2>1. status'[id] = "superseded" <=> status[id] = "superseded"
      BY <1>1, <1>3 DEF TypeOK
    <2> QED
      BY <2>1, <1>3 DEF Links
  <1>11. Segments'
    <2> SUFFICES ASSUME NEW f \in Facts, NEW g \in Facts, Slot(f) = Slot(g), Before(f, g)
                 PROVE  /\ status'[f] # "active"
                        /\ status'[f] = "superseded" =>
                              superseded_by[f] = g \/ Before(superseded_by[f], g)
      BY <1>5, <1>6 DEF Segments, Before, Slot, Turn
    <2>1. status'[f] = status[f] \/ status'[f] = "retracted"
      BY <1>1, <1>3 DEF TypeOK, Facts
    <2> QED
      BY <2>1 DEF IInv, Segments
  <1> QED
    BY <1>7, <1>8, <1>9, <1>10, <1>11 DEF IInv

(* The same value again only adds its turn to the sources.                  *)
LEMMA AssertSameKeeps ==
    ASSUME IInv, TypeOK', NEW slot \in Slots, NEW v \in Values, NEW prior \in Ids,
           AssertSame(slot, v, prior)
    PROVE  IInv'
  <1>1. /\ sources' = [sources EXCEPT ![prior] = @ \cup {turn}]
        /\ UNCHANGED <<status, supersedes, superseded_by>>
    BY DEF AssertSame
  <1>2. /\ last' = last /\ turn' = turn /\ turn \in 1..MaxTurns
        /\ index \in 0..MaxOps - 1 /\ index' = index + 1
    BY AcceptTypes DEF AssertSame, IInv
  <1>3. Facts' = Facts /\ Now' = Now /\ turn \in 1..Now /\ Facts \subseteq Ids
    BY <1>1, <1>2, FactBounds DEF Facts, Now
  <1>4. Placed'
    <2> SUFFICES ASSUME NEW id \in Facts
                 PROVE  Turn(id) <= Now' /\ (Turn(id) = turn' => id[3] < index')
      BY <1>3 DEF Placed, Turn
    <2>1. Turn(id) <= Now /\ (Turn(id) = turn => id[3] < index) /\ id[3] \in Nat
      BY IdParts DEF IInv, Placed, Facts
    <2> QED
      BY <1>2, <1>3, <2>1, FactBounds
  <1>5. Provenance'
    <2> SUFFICES ASSUME NEW id \in Facts
                 PROVE  sources'[id] # {} /\ sources'[id] \subseteq 1..Now
      BY <1>3 DEF Provenance
    <2>1. sources[id] # {} /\ sources[id] \subseteq 1..Now
      BY DEF IInv, Provenance
    <2>2. sources'[id] = sources[id] \/ sources'[id] = sources[id] \cup {turn}
      BY <1>1, <1>3 DEF IInv, TypeOK
    <2> QED
      BY <2>1, <2>2, <1>3
  <1>6. OneActive' /\ Links' /\ Segments'
    BY <1>1, <1>3 DEF IInv, OneActive, Links, Segments, Before, Slot, Turn
  <1> QED
    BY <1>4, <1>5, <1>6 DEF IInv

(* A new fact ends the chain of its slot: the active fact, when there is    *)
(* one, is the only one it is linked to.  facts.py: apply.                  *)
LEMMA NewFactKeeps ==
    ASSUME IInv, TypeOK', Accept, NEW slot \in Slots, NEW v \in Values,
           NEW prior \in Ids \cup {NoId},
           prior = NoId => Active(slot) = {},
           prior # NoId => prior \in Active(slot),
           NewFact(<<slot, turn, index>>, v,
                   IF prior = NoId THEN status ELSE [status EXCEPT ![prior] = "superseded"],
                   prior),
           superseded_by' = IF prior = NoId THEN superseded_by
                            ELSE [superseded_by EXCEPT ![prior] = <<slot, turn, index>>]
    PROVE  IInv'
  <1> DEFINE new == <<slot, turn, index>>
  <1>1. /\ new \in Ids /\ new \notin Facts /\ new # NoId
        /\ Slot(new) = slot /\ Turn(new) = turn /\ new[3] = index
    BY NewId, IdParts
  <1>2. /\ last' = last /\ turn' = turn /\ turn \in 1..MaxTurns
        /\ index \in 0..MaxOps - 1 /\ index' = index + 1 /\ Now' = turn /\ Now = turn
    BY AcceptTypes, FactBounds DEF IInv, Now
  <1>3. /\ TypeOK /\ Links /\ Segments /\ Placed /\ Provenance /\ OneActive
        /\ Facts \subseteq Ids
    BY DEF IInv, Facts
  <1>4. prior # NoId => prior \in Facts /\ status[prior] = "active" /\ Slot(prior) = slot
    BY DEF Active
  <1>5. prior # new
    BY <1>1, <1>4
  <1>6. \A x \in Ids :
            /\ status'[x] = IF x = new THEN "active"
                            ELSE IF x = prior THEN "superseded" ELSE status[x]
            /\ supersedes'[x] = IF x = new THEN prior ELSE supersedes[x]
            /\ sources'[x] = IF x = new THEN {turn} ELSE sources[x]
            /\ superseded_by'[x] = IF x = prior THEN new ELSE superseded_by[x]
    <2> SUFFICES ASSUME NEW x \in Ids
                 PROVE  /\ status'[x] = IF x = new THEN "active"
                                  ELSE IF x = prior THEN "superseded" ELSE status[x]
                        /\ supersedes'[x] = IF x = new THEN prior ELSE supersedes[x]
                        /\ sources'[x] = IF x = new THEN {turn} ELSE sources[x]
                        /\ superseded_by'[x] = IF x = prior THEN new ELSE superseded_by[x]
      OBVIOUS
    <2>1. x # NoId
      BY IdParts
    <2> HIDE DEF new
    <2>2. CASE prior = NoId
      BY <2>1, <2>2, <1>3 DEF NewFact, TypeOK, new
    <2>3. CASE prior # NoId
      BY <2>1, <2>3, <1>3 DEF NewFact, TypeOK, new
    <2> QED
      BY <2>2, <2>3
  <1> HIDE DEF new
  <1>7. Facts' = Facts \cup {new}
    <2>1. ASSUME NEW x \in Ids PROVE x \in Facts' <=> x \in Facts \/ x = new
      <3>1. x # NoId
        BY IdParts
      <3>2. x = prior => status[x] = "active"
        BY <3>1, <1>4
      <3>3. status'[x] # "none" <=> status[x] # "none" \/ x = new
        BY <1>6, <3>2
      <3> QED
        BY <3>3 DEF Facts
    <2>2. Facts' \subseteq Ids
      BY DEF Facts
    <2> QED
      BY <2>1, <2>2, <1>1, <1>3
  <1>8. \A x \in Facts : /\ Turn(x) <= turn /\ (Turn(x) = turn => x[3] < index)
                         /\ Turn(x) \in 1..MaxTurns /\ x[3] \in Nat
    BY <1>2, <1>3, IdParts DEF Placed
  <1>9. Placed'
    <2> SUFFICES ASSUME NEW x \in Facts \cup {new}
                 PROVE  Turn(x) <= turn /\ (Turn(x) = turn => x[3] < index + 1)
      BY <1>2, <1>7 DEF Placed, Turn
    <2> QED
      BY <1>1, <1>2, <1>8
  <1>10. Provenance'
    <2> SUFFICES ASSUME NEW x \in Facts \cup {new}
                 PROVE  sources'[x] # {} /\ sources'[x] \subseteq 1..turn
      BY <1>2, <1>7 DEF Provenance
    <2>1. CASE x = new
      BY <2>1, <1>1, <1>2, <1>6
    <2>2. CASE x # new
      BY <2>2, <1>2, <1>3, <1>6 DEF Provenance
    <2> QED
      BY <2>1, <2>2
  <1>11. ASSUME NEW x \in Facts, x # new, Slot(x) = slot PROVE status'[x] # "active"
    <2>1. CASE prior = NoId
      <3>1. x \notin Active(slot)
        BY <2>1
      <3> QED
        BY <3>1, <2>1, <1>11, <1>3, <1>6, IdParts DEF Active
    <2>2. CASE prior # NoId
      BY <2>2, <1>11, <1>3, <1>4, <1>6 DEF OneActive
    <2> QED
      BY <2>1, <2>2
  <1>12. OneActive'
    <2> SUFFICES ASSUME NEW f \in Facts \cup {new}, NEW g \in Facts \cup {new},
                        Slot(f) = Slot(g), status'[f] = "active", status'[g] = "active"
                 PROVE  f = g
      BY <1>7 DEF OneActive, Slot
    <2>2. CASE f = new \/ g = new
      BY <2>2, <1>11, <1>1
    <2>3. CASE f # new /\ g # new
      BY <2>3, <1>3, <1>6 DEF OneActive
    <2> QED
      BY <2>2, <2>3
  <1>13. Links'
    <2> SUFFICES ASSUME NEW x \in Ids
                 PROVE  /\ status'[x] = "superseded" <=> superseded_by'[x] # NoId
                        /\ superseded_by'[x] # NoId =>
                              /\ superseded_by'[x] \in Facts \cup {new}
                              /\ Slot(superseded_by'[x]) = Slot(x)
                              /\ supersedes'[superseded_by'[x]] = x
                              /\ Before(x, superseded_by'[x])
                        /\ supersedes'[x] # NoId => superseded_by'[supersedes'[x]] = x
      BY <1>7 DEF Links, Before, Slot, Turn
    <2>1. x # NoId /\ superseded_by[new] = NoId
      BY <1>1, <1>3, IdParts DEF Links, Facts
    <2>2. CASE x = new
      <3>1. superseded_by'[x] = NoId /\ status'[x] = "active" /\ supersedes'[x] = prior
        BY <2>1, <2>2, <1>5, <1>6
      <3>2. prior # NoId => superseded_by'[prior] = x
        BY <2>2, <1>6
      <3> QED
        BY <3>1, <3>2
    <2>3. CASE x # new /\ x = prior
      <3>1. superseded_by'[x] = new /\ status'[x] = "superseded"
            /\ supersedes'[x] = supersedes[x] /\ supersedes'[new] = x
        BY <2>3, <1>1, <1>6
      <3>2. x \in Facts /\ Slot(x) = slot
        BY <2>1, <2>3, <1>4
      <3>3. Turn(x) < turn \/ (Turn(x) = turn /\ x[3] < index)
        BY <3>2, <1>2, <1>8
      <3>4. supersedes[x] # NoId => superseded_by'[supersedes[x]] = x
        <4> SUFFICES ASSUME supersedes[x] # NoId PROVE superseded_by'[supersedes[x]] = x
          OBVIOUS
        <4>1. supersedes[x] \in Ids /\ superseded_by[supersedes[x]] = x
          BY <1>3 DEF TypeOK, Links
        <4>2. supersedes[x] # prior
          BY <4>1, <1>3, <1>4, <2>1, <2>3 DEF Links
        <4> QED
          BY <4>1, <4>2, <1>6
      <3> QED
        BY <3>1, <3>2, <3>3, <3>4, <1>1 DEF Before
    <2>4. CASE x # new /\ x # prior
      <3>1. superseded_by'[x] = superseded_by[x] /\ status'[x] = status[x]
            /\ supersedes'[x] = supersedes[x]
        BY <2>4, <1>6
      <3>2. superseded_by[x] # NoId => superseded_by[x] \in Facts /\ superseded_by[x] # new
        BY <1>1, <1>3 DEF Links
      <3>3. superseded_by[x] # NoId => supersedes'[superseded_by[x]] = x
        BY <3>2, <1>3, <1>6 DEF Links
      <3>4. supersedes[x] # NoId => superseded_by'[supersedes[x]] = x
        <4> SUFFICES ASSUME supersedes[x] # NoId PROVE superseded_by'[supersedes[x]] = x
          OBVIOUS
        <4>1. supersedes[x] \in Ids /\ superseded_by[supersedes[x]] = x
          BY <1>3 DEF TypeOK, Links
        <4>2. supersedes[x] # prior
          BY <4>1, <1>3, <1>4, <2>1 DEF Links
        <4> QED
          BY <4>1, <4>2, <1>6
      <3> QED
        BY <3>1, <3>2, <3>3, <3>4, <1>3 DEF Links
    <2> QED
      BY <2>2, <2>3, <2>4
  <1>14. Segments'
    <2> SUFFICES ASSUME NEW f \in Facts \cup {new}, NEW g \in Facts \cup {new},
                        Slot(f) = Slot(g), Before(f, g)
                 PROVE  /\ status'[f] # "active"
                        /\ status'[f] = "superseded" =>
                              superseded_by'[f] = g \/ Before(superseded_by'[f], g)
      BY <1>7 DEF Segments, Before, Slot, Turn
    <2>1. f # new
      BY <1>1, <1>2, <1>8 DEF Before
    <2>2. f \in Facts /\ f \in Ids /\ f # NoId
      BY <2>1, <1>3, IdParts
    <2>3. CASE g = new
      <3>1. status'[f] # "active"
        BY <2>1, <2>2, <2>3, <1>11, <1>1
      <3>2. CASE f = prior
        BY <2>2, <2>3, <3>1, <3>2, <1>6
      <3>3. CASE f # prior
        <4>1. status'[f] = status[f] /\ superseded_by'[f] = superseded_by[f]
          BY <2>1, <2>2, <3>3, <1>6
        <4>2. status[f] = "superseded" => superseded_by[f] \in Facts
          BY <2>2, <1>3 DEF Links
        <4>3. superseded_by[f] \in Facts => Before(superseded_by[f], new)
          BY <1>1, <1>2, <1>8 DEF Before
        <4> QED
          BY <2>3, <3>1, <4>1, <4>2, <4>3
      <3> QED
        BY <3>2, <3>3
    <2>4. CASE g # new
      <3>1. g \in Facts /\ f # prior
        BY <2>2, <2>4, <1>3, <1>4 DEF Segments
      <3>2. status'[f] = status[f] /\ superseded_by'[f] = superseded_by[f]
        BY <2>1, <2>2, <3>1, <1>6
      <3> QED
        BY <2>2, <3>1, <3>2, <1>3 DEF Segments
    <2> QED
      BY <2>3, <2>4
  <1> QED
    BY <1>9, <1>10, <1>12, <1>13, <1>14 DEF IInv

----------------------------------------------------------------------------

(* Every step keeps the invariant.  extraction_request, apply.              *)
LEMMA Inductive == IInv /\ [Next]_vars => IInv'
  <1> SUFFICES ASSUME IInv, [Next]_vars PROVE IInv'
    OBVIOUS
  <1>1. TypeOK' /\ TypeOK
    BY Types DEF IInv
  <1> USE FactBounds
  <1>2. CASE UNCHANGED vars
    BY <1>1, <1>2, FactsKept DEF vars, Now, TypeOK
  <1>3. CASE Respond
    BY <1>1, <1>3, FactsKept DEF Respond, CanExtract, Now, TypeOK
  <1>4. CASE RespondMalformed
    BY <1>1, <1>4, FactsKept DEF RespondMalformed, CanExtract, Now, TypeOK
  <1>5. CASE RespondOversized
    BY <1>1, <1>5, FactsKept DEF RespondOversized, CanExtract, Now, TypeOK
  <1>6. CASE RejectPayload
    BY <1>1, <1>6, FactsKept DEF RejectPayload, TakePayload, Now, TypeOK
  <1>7. CASE FinishTurn
    BY <1>1, <1>7, FactsKept DEF FinishTurn, Now, TypeOK
  <1>8. ASSUME NEW slot \in Slots, RetractNothing(slot) PROVE IInv'
    <2>1. UNCHANGED factVars
      BY <1>8 DEF RetractNothing
    <2>2. turn' = turn /\ last' = last /\ index' = index + 1 /\ index \in 0..MaxOps - 1
      BY <1>1, <1>8, AcceptTypes DEF RetractNothing
    <2>3. Now' = Now /\ Now \in Int
      BY <1>1, <2>2 DEF Now, TypeOK
    <2> QED
      BY <1>1, <2>1, <2>2, <2>3, FactsKept
  <1>9. ASSUME NEW slot \in Slots, NEW prior \in Ids, Retract(slot, prior) PROVE IInv'
    BY <1>1, <1>9, RetractKeeps
  <1>10. ASSUME NEW slot \in Slots, NEW v \in Values, AssertFirst(slot, v) PROVE IInv'
    BY <1>1, <1>10, NewFactKeeps DEF AssertFirst
  <1>11. ASSUME NEW slot \in Slots, NEW v \in Values, NEW prior \in Ids,
                AssertSame(slot, v, prior)
         PROVE  IInv'
    BY <1>1, <1>11, AssertSameKeeps
  <1>12. ASSUME NEW slot \in Slots, NEW v \in Values, NEW prior \in Ids,
                AssertOther(slot, v, prior)
         PROVE  IInv'
    <2>1. prior # NoId
      BY IdParts
    <2> QED
      BY <2>1, <1>1, <1>12, NewFactKeeps DEF AssertOther
  <1> QED
    BY <1>2, <1>3, <1>4, <1>5, <1>6, <1>7, <1>8, <1>9, <1>10, <1>11, <1>12 DEF Next

(* The invariant holds.  facts.py, fact_extraction.py.                      *)
LEMMA Invariance == Spec => []IInv
  BY Initially, Inductive, PTL DEF Spec

(* Whatever the model answers, the facts of a slot are chains, which        *)
(* corrections lengthen and retractions end.  facts.py: apply.              *)
THEOREM SlotsAreChains == Spec => []Lineage
  <1>1. IInv => Lineage
    BY DEF IInv, Lineage
  <1> QED
    BY <1>1, Invariance, PTL

(* No turn is refused for what the turns before it left in the store.       *)
(* facts.py: extraction_request.                                            *)
THEOREM TurnsAreAccepted == Spec => []NextTurnIsAccepted
  <1>1. IInv => NextTurnIsAccepted
    <2> SUFFICES ASSUME IInv, turn = 0 PROVE RequestIsAccepted(last + 1)
      BY DEF NextTurnIsAccepted
    <2>1. \A id \in Facts : Turn(id) <= last /\ Turn(id) \in 1..MaxTurns /\ last \in Nat
      BY IdParts, FactBounds DEF IInv, Placed, Now, Facts, TypeOK
    <2>2. \A id \in Facts : sources[id] # {} /\ sources[id] \subseteq 1..last
      BY DEF IInv, Provenance, Now
    <2>3. \A slot \in Slots : \A f, g \in Active(slot) : f = g
      BY DEF IInv, OneActive, Active
    <2>4. (last + 1) - 1 = last /\ \A id \in Facts : Turn(id) < last + 1
      BY <2>1, FactBounds DEF IInv, TypeOK
    <2> QED
      BY <2>2, <2>3, <2>4 DEF RequestIsAccepted
  <1> QED
    BY <1>1, Invariance, PTL
=============================================================================
