-------------------------------- MODULE Replay --------------------------------
(***************************************************************************)
(* The requests of the long context experiment for one evaluation step:    *)
(* B shows the newest events that fit, E the newest few and, before them,  *)
(* what BM25 finds in an index shared with other tenants and               *)
(* conversations, the oracle the events that hold the answer.  Two canaries *)
(* planted in the index show that the scope filter works.  A step that     *)
(* breaks a rule of the replay is refused before anything is sent.         *)
(*                                                                         *)
(* Scores are left open: BM25 ranks every event it is given, in any order. *)
(* The tokens of a text are those of its events; the atoms of the answer,  *)
(* checked like its events, and the counts of the audit are left out.      *)
(***************************************************************************)
EXTENDS Integers, Sequences, FiniteSets, SequencesExt, FiniteSetsExt

CONSTANTS
    LastEvent,       \* the authoritative events are 1 .. LastEvent
    Sizes,           \* the tokens an event may have
    Overheads,       \* the tokens the instructions and a question may have
    HistoryBudget, RecentBudget, RetrievedBudget, TopEvents,
    OverheadCap, InputCap, OracleCap,
    LeastPrefix, MostPrefix     \* of the tokens before a primary step

VARIABLES
    fault,    \* what is wrong with the index of the step: "none" mostly
    kind,     \* of the step: "primary", "recent" or "no evidence"
    size,     \* of each authoritative event
    overhead,
    gold,     \* the events that hold the answer
    at,
    b,        \* the events B shows
    e,        \* what E shows: [recent, retrieved]
    oracle

vars == <<fault, kind, size, overhead, gold, at, b, e, oracle>>
step == <<fault, kind, size, overhead, gold>>

Own == 1 .. LastEvent
WrongTenant == LastEvent + 1
WrongConversation == LastEvent + 2
Canaries == {WrongTenant, WrongConversation}
Later == LastEvent + 3

TokensOf(events) == MapThenSumSet(LAMBDA i : size[i], events)
NoContext == [recent |-> {}, retrieved |-> <<>>]

Faults ==
    {"none", "missing", "altered", "candidate", "later", "copied", "no canary", "tame canary",
     "unconfirmed canary", "mute canary", "idle canary", "leaked sentinel"}

\* A step has gold unless it is there to have none; that the gold is of the prefix, nobody checks.
Init ==
    /\ fault \in Faults
    /\ kind \in {"primary", "recent", "no evidence"}
    /\ size \in [Own -> Sizes] /\ overhead \in Overheads
    /\ gold \in SUBSET (Own \cup {Later}) /\ (gold = {} <=> kind = "no evidence")
    /\ at = "start"
    /\ b = {} /\ e = NoContext /\ oracle = {}

----------------------------------------------------------------------------
(* The shared index of the step: its events and the canaries, each with a   *)
(* sentinel and the words of the question, and what may be wrong with it.   *)

Event(i) ==
    [id |-> i, text |-> "original", confirmed |-> TRUE,
     tenant |-> IF i = WrongTenant THEN "other" ELSE "own",
     conversation |-> IF i = WrongConversation THEN "other" ELSE "own",
     sentinel |-> IF i \in Canaries THEN i ELSE 0,
     reuses |-> i \in Canaries]

Source(i) ==
    IF fault = "leaked sentinel" /\ i = 1 THEN [Event(i) EXCEPT !.sentinel = WrongTenant]
    ELSE Event(i)
Sources == {Source(i) : i \in Own}

Honest == Sources \cup {Event(i) : i \in Canaries}
Swapped(x, y) == (Honest \ {x}) \cup {y}

Shared ==
    LET first == Event(1)  canary == Event(WrongTenant)
    IN  CASE fault = "missing" -> Honest \ {first}
          [] fault = "altered" -> Swapped(first, [first EXCEPT !.text = "altered"])
          [] fault = "candidate" -> Swapped(first, [first EXCEPT !.confirmed = FALSE])
          [] fault = "later" -> Honest \cup {Event(Later)}
          [] fault = "copied" -> Honest \cup {[first EXCEPT !.conversation = "other"]}
          [] fault = "no canary" -> Honest \ {canary}
          [] fault = "tame canary" ->
                Swapped(canary, [canary EXCEPT !.tenant = "own", !.conversation = "other"])
          [] fault = "unconfirmed canary" -> Swapped(canary, [canary EXCEPT !.confirmed = FALSE])
          [] fault = "mute canary" -> Swapped(canary, [canary EXCEPT !.sentinel = 0])
          [] fault = "idle canary" -> Swapped(canary, [canary EXCEPT !.reuses = FALSE])
          [] OTHER -> Honest

\* The filter of a tenant lets through its other conversations.
InTenant(x) == x.confirmed /\ x.tenant = "own"

InScope(x) == x.confirmed /\ x.tenant = "own" /\ x.conversation = "own"

Scoped == {x \in Shared : InScope(x)}

----------------------------------------------------------------------------
(* The newest events that fit, up to the first that does not.               *)

CompleteSuffix(events, budget) ==
    LET suffix(k) == {i \in events : i >= k}
        fitting == {k \in events : TokensOf(suffix(k)) <= budget}
    IN  IF fitting = {} THEN {} ELSE suffix(Min(fitting))

\* The best few that still fit: one too large does not stop the next.
Packed(ranked) ==
    FoldLeft(LAMBDA taken, i :
                IF Len(taken.kept) < TopEvents /\ size[i] <= RetrievedBudget - taken.used
                THEN [kept |-> Append(taken.kept, i), used |-> taken.used + size[i]]
                ELSE taken,
             [kept |-> <<>>, used |-> 0], ranked)

----------------------------------------------------------------------------
(* build_development_requests, one step.                                    *)

Refuse == at' = "refused"

\* authoritative_prefix and build_bounded_history.
BuildB ==
    /\ at = "start"
    /\ LET kept == CompleteSuffix(Own, HistoryBudget)
       IN  IF \/ \E x \in Sources : ~x.confirmed
              \/ overhead > OverheadCap
              \/ TokensOf(kept) + overhead > InputCap
           THEN Refuse /\ UNCHANGED b
           ELSE b' = kept /\ at' = "B"
    /\ UNCHANGED <<step, e, oracle>>

\* validate_isolation_challenge: the canaries are there, would be found, and did not get through.
ChallengeHolds(delivered) ==
    /\ \A x, y \in Shared : x.id = y.id => x = y
    /\ \E tenant, conversation \in Shared :
         /\ tenant.id = WrongTenant /\ conversation.id = WrongConversation
         /\ tenant.tenant # "own"
         /\ conversation.tenant = "own" /\ conversation.conversation # "own"
         /\ \A canary \in {tenant, conversation} :
              canary.confirmed /\ canary.sentinel = canary.id /\ canary.reuses
    /\ \A x \in Sources : x.id \notin Canaries /\ x.sentinel \notin Canaries
    /\ delivered \subseteq Own
    /\ \A x \in Scoped : x.id \notin Canaries

\* build_bm25_context.
BuildE ==
    /\ at = "B"
    /\ LET recent == CompleteSuffix(Own, RecentBudget)
       IN  IF Scoped # Sources
           THEN Refuse /\ UNCHANGED e
           ELSE \E ranked \in SetToSeqs(Own \ recent) :
                  LET retrieved == Packed(ranked)
                      history == TokensOf(recent) + retrieved.used
                  IN  IF /\ ChallengeHolds(ToSet(retrieved.kept) \cup recent)
                         /\ overhead <= OverheadCap
                         /\ history <= HistoryBudget
                         /\ history + overhead <= InputCap
                      THEN e' = [recent |-> recent, retrieved |-> retrieved.kept] /\ at' = "E"
                      ELSE Refuse /\ UNCHANGED e
    /\ UNCHANGED <<step, b, oracle>>

\* EvaluationStepAudit.__post_init__: what a step of each kind is there to measure.
StepHolds ==
    /\ kind = "primary" =>
         /\ TokensOf(Own) \in LeastPrefix .. MostPrefix
         /\ b # Own
         /\ gold # {} /\ gold \subseteq Own \ b
    /\ kind = "recent" => gold # {} /\ gold \subseteq b
    /\ kind = "no evidence" => gold = {}

\* _a_context and _oracle_context, then build_evaluation_step_audit.
Audit ==
    /\ at = "E"
    /\ oracle' = gold \cap Own
    /\ IF /\ overhead <= OverheadCap
          /\ TokensOf(oracle') + overhead <= OracleCap
          /\ b \cup ToSet(e.retrieved) \cup e.recent \cup oracle' \subseteq Own
          /\ StepHolds
       THEN at' = "prepared" ELSE Refuse
    /\ UNCHANGED <<step, b, e>>

Next == BuildB \/ BuildE \/ Audit

----------------------------------------------------------------------------

\* Said of the step alone: nothing is wrong with its index, the question and the answer are short
\* enough, and the answer lies where the kind of step wants it, by the tokens that followed it.
Since(i) == {j \in Own : j >= i}
Sound ==
    /\ fault = "none"
    /\ overhead <= OverheadCap
    /\ TokensOf(gold \cap Own) + overhead <= OracleCap
    /\ kind # "no evidence" => gold \subseteq Own
    /\ kind = "primary" =>
         /\ TokensOf(Own) \in LeastPrefix .. MostPrefix
         /\ \A i \in gold : TokensOf(Since(i)) > HistoryBudget
    /\ kind = "recent" => \A i \in gold : TokensOf(Since(i)) <= HistoryBudget

(* A step is prepared if it is sound and refused if it is not, whatever    *)
(* BM25 finds: no other budget and no canary stops a sound step, and each  *)
(* fault of the index is noticed.  The requests of a prepared step tell    *)
(* apart what the experiment compares: in a primary step only the oracle   *)
(* and what is retrieved can show the answer, in a recent one B does       *)
(* (build_bm25_context, validate_isolation_challenge,                      *)
(* EvaluationStepAudit.__post_init__).                                     *)
PreparedIffSound ==
    /\ at = "refused" => ~Sound
    /\ at = "prepared" =>
         /\ Sound
         /\ kind = "primary" => oracle # {} /\ oracle \cap (b \cup e.recent) = {}
         /\ kind = "recent" => oracle # {} /\ oracle \subseteq b
=============================================================================
