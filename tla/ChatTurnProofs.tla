--------------------------- MODULE ChatTurnProofs ---------------------------
(***************************************************************************)
(* Theorems about ChatTurn, for any number of requests, tenants,            *)
(* conversations and texts, and any window bounds: its types and sessions;  *)
(* the rows it writes; and what it promises its clients.                    *)
(***************************************************************************)
EXTENDS ChatTurn, FiniteSetTheorems, TLAPS

(* Types, sessions and the atomicity of a turn.                             *)

\* The reply a turn is about to persist exists: a streaming turn begins after its
\* stream, a non-streaming one obtains it before its assistant row.
ReplyReady ==
    \A r \in Requests :
        pc[r] = "assistant" \/ (pc[r] = "begin" /\ IsStream(r)) => reply[r] \in Requests

TypeInv == TypeOK /\ ReplyReady

\* The window of a set of rows is a part of it.
LEMMA WindowIsSubset ==
    ASSUME NEW rows
    PROVE  MaterializedWindow(rows) \subseteq rows
<1>1. Newest(rows, MaxRows) \subseteq rows
  BY DEF Newest
<1>2. \A t \in Turns(Newest(rows, MaxRows)) :
         t[1] \in Newest(rows, MaxRows) /\ t[2] \in Newest(rows, MaxRows)
  BY DEF Turns
<1> QED
  BY <1>1, <1>2 DEF MaterializedWindow

\* So the history of a request is made of committed rows.
LEMMA HistoryIsCommitted ==
    ASSUME NEW r \in Requests, NEW history \in NewestTurns(HistoryOf(r))
    PROVE  history \subseteq messages
<1> DEFINE rows == {m \in messages : /\ m.conversation = rq[r].conversation
                                    /\ m.tenant = rq[r].tenant}
<1>1. MaterializedWindow(rows) \subseteq rows
  BY WindowIsSubset
<1>2. HistoryOf(r) \subseteq messages
  BY <1>1 DEF HistoryOf
<1> QED
  BY <1>2 DEF NewestTurns, Newest

LEMMA TypeInit == Init => TypeInv
<1> SUFFICES ASSUME Init PROVE TypeInv
  OBVIOUS
<1>1. Params # {}
  <2>1. PICK s \in StreamModes, t \in Tenants, c \in Conversations, x \in Texts : TRUE
    BY NonEmptyConstants, ChatBounds
  <2>2. [stream |-> s, tenant |-> t, conversation |-> c, is_new |-> TRUE, message |-> x]
          \in Params
    BY DEF Params
  <2> QED
    BY <2>2
<1>2. (CHOOSE p \in Params : TRUE) \in Params
  BY <1>1
<1>3. NoTx \in Sessions
  BY DEF NoTx, Sessions
<1>4. StoreTypeOK
  BY <1>3 DEF Init, StoreInit, StoreTypeOK
<1>5. NoPrompt \in Prompts
  BY ChatBounds DEF NoPrompt, Prompts
<1>6. corpus \in 0..MaxCorpus /\ restarts \in 0..MaxRestarts
  BY ChatBounds DEF Init
<1>7. TypeOK
  BY <1>2, <1>4, <1>5, <1>6
  DEF Init, TypeOK, CacheInit, Points, Outcomes, Failures, Answers
<1>8. ReplyReady
  BY DEF Init, ReplyReady
<1> QED
  BY <1>7, <1>8 DEF TypeInv

LEMMA EmptySessions == NoTx \in Sessions /\ [NoTx EXCEPT !.open = TRUE] \in Sessions
BY DEF NoTx, Sessions

\* A message row built from the request is a row.
LEMMA RowTyped ==
    ASSUME TypeOK, NEW r \in Requests, NEW role \in Roles, NEW content \in Texts \cup Requests
    PROVE  MessageRow(r, rq[r].conversation, rq[r].tenant, role, content) \in MessageRows
<1>1. rq[r].conversation \in Conversations /\ rq[r].tenant \in Tenants
  BY DEF TypeOK, Params
<1>2. sequence \in Nat
  BY DEF TypeOK, StoreTypeOK
<1> QED
  BY <1>1, <1>2 DEF MessageRow, MessageRows

LEMMA TypeNext == TypeInv /\ [Next]_vars => TypeInv'
<1> SUFFICES ASSUME TypeInv, [Next]_vars PROVE TypeInv'
  OBVIOUS
<1> USE DEF TypeInv, TypeOK, ReplyReady, IsStream, Goto
<1>1. ASSUME NEW r \in Requests, NEW p \in Params, Arrive(r, p) PROVE TypeInv'
  BY <1>1 DEF Arrive, storeVars, StoreTypeOK, deployVars, Points
<1>2. ASSUME NEW r \in Requests, ReadContext(r) PROVE TypeInv'
  <2>1. PICK history \in NewestTurns(HistoryOf(r)), evidence \in {IF augmented THEN corpus ELSE 0, 0} :
           prompt' = [prompt EXCEPT ![r] = [history |-> history, evidence |-> evidence]]
    BY <1>2 DEF ReadContext
  <2>2. history \subseteq MessageRows
    BY HistoryIsCommitted DEF StoreTypeOK
  <2>3. evidence \in 0..MaxCorpus
    BY ChatBounds
  <2>4. prompt' \in [Requests -> Prompts]
    BY <2>1, <2>2, <2>3 DEF Prompts
  <2> QED
    BY <1>2, <2>4 DEF ReadContext, storeVars, StoreTypeOK, deployVars, Points
<1>3. ASSUME NEW r \in Requests, StreamFinishes(r) PROVE TypeInv'
  BY <1>3 DEF StreamFinishes, storeVars, StoreTypeOK, deployVars, Points
<1>4. ASSUME NEW r \in Requests, StreamFails(r) PROVE TypeInv'
  BY <1>4 DEF StreamFails, FailTurn, storeVars, StoreTypeOK, deployVars, Points, Outcomes, Failures
<1>5. ASSUME NEW r \in Requests, ProviderFails(r) PROVE TypeInv'
  BY <1>5 DEF ProviderFails, FailTurn, Rollback, NoTx, Sessions, tables, StoreTypeOK, deployVars,
              Points, Outcomes, Failures
<1>6. ASSUME NEW r \in Requests, DatabaseFails(r) PROVE TypeInv'
  BY <1>6 DEF DatabaseFails, FailTurn, Rollback, NoTx, Sessions, tables, StoreTypeOK, deployVars,
              Points, Outcomes, Failures
<1>7. ASSUME NEW r \in Requests, OpenTurn(r) PROVE TypeInv'
  <2>1. MessageRow(r, rq[r].conversation, rq[r].tenant, "user", rq[r].message) \in MessageRows
    BY RowTyped DEF Roles, Params
  <2>2. [id |-> rq[r].conversation, tenant |-> rq[r].tenant] \in ConversationRows
    BY DEF Params, ConversationRows
  <2>3. tx' \in [Requests -> Sessions]
    BY <1>7, <2>1, <2>2 DEF OpenTurn, Begin, NoTx, Sessions, StoreTypeOK
  <2>4. StoreTypeOK'
    BY <1>7, <2>3 DEF OpenTurn, Begin, tables, StoreTypeOK
  <2> QED
    BY <1>7, <2>4 DEF OpenTurn, deployVars, Points
<1>8. ASSUME NEW r \in Requests, NotFound(r) PROVE TypeInv'
  <2>1. tx' \in [Requests -> Sessions]
    <3>1. CASE UNCHANGED tx
      BY <3>1 DEF StoreTypeOK
    <3>2. CASE Begin(r, {}, {})
      <4>1. [NoTx EXCEPT !.open = TRUE, !.conversations = {}, !.messages = {}] \in Sessions
        BY DEF NoTx, Sessions
      <4> QED
        BY <3>2, <4>1 DEF Begin, StoreTypeOK
    <3> QED
      BY <1>8, <3>1, <3>2 DEF NotFound
  <2>2. StoreTypeOK'
    BY <1>8, <2>1 DEF NotFound, Begin, tables, StoreTypeOK
  <2>3. pc' \in [Requests -> Points] /\ pc'[r] # "assistant" /\ pc'[r] # "begin"
    BY <1>8 DEF NotFound, Points
  <2> QED
    BY <1>8, <2>2, <2>3 DEF NotFound, deployVars, Outcomes
<1>9. ASSUME NEW r \in Requests, CacheHit(r) PROVE TypeInv'
  BY <1>9 DEF CacheHit, Hits, storeVars, StoreTypeOK, deployVars, Points
<1>10. ASSUME NEW r \in Requests, ProviderAnswers(r) PROVE TypeInv'
  BY <1>10 DEF ProviderAnswers, storeVars, StoreTypeOK, deployVars, Points
<1>11. ASSUME NEW r \in Requests, FlushAssistant(r) PROVE TypeInv'
  <2>1. AssistantRow(r) \in MessageRows
    BY <1>11, RowTyped DEF FlushAssistant, AssistantRow, Roles
  <2>2. PICK usage \in {{}, {[request |-> r, status |-> "success", message |-> "assistant"]}} :
           Stage(r, {AssistantRow(r)}, usage)
    BY <1>11 DEF FlushAssistant
  <2>3. usage \subseteq UsageRows
    BY DEF UsageRows
  <2>4. tx' \in [Requests -> Sessions]
    <3>1. tx[r] \in Sessions
      BY DEF StoreTypeOK
    <3>2. [tx[r] EXCEPT !.messages = @ \cup {AssistantRow(r)}, !.usage = @ \cup usage] \in Sessions
      BY <2>1, <2>3, <3>1 DEF Sessions
    <3>3. tx' = [tx EXCEPT ![r] = [tx[r] EXCEPT !.messages = @ \cup {AssistantRow(r)},
                                                !.usage = @ \cup usage]]
      BY <2>2, <3>1 DEF Stage, StoreTypeOK, Sessions
    <3> QED
      BY <3>2, <3>3 DEF StoreTypeOK
  <2>5. StoreTypeOK'
    BY <1>11, <2>4 DEF FlushAssistant, Stage, tables, StoreTypeOK
  <2> QED
    BY <1>11, <2>5 DEF FlushAssistant, deployVars, Points, Outcomes
<1>12. ASSUME NEW r \in Requests, CommitTurn(r) PROVE TypeInv'
  BY <1>12 DEF CommitTurn, Commit, Publish, NoTx, Sessions, StoreTypeOK, deployVars, Points
<1>13. ASSUME NEW r \in Requests, CommitUnacknowledged(r) PROVE TypeInv'
  BY <1>13 DEF CommitUnacknowledged, FailTurn, Commit, Publish, NoTx, Sessions, StoreTypeOK,
              deployVars, Points, Outcomes, Failures
<1>14. ASSUME NEW r \in Requests, UsageInsertFails(r) PROVE TypeInv'
  BY <1>14 DEF UsageInsertFails, FailTurn, Rollback, NoTx, Sessions, tables, StoreTypeOK,
              deployVars, Points, Outcomes, Failures
<1>15. ASSUME NEW r \in Requests, StoreReply(r) PROVE TypeInv'
  BY <1>15 DEF StoreReply, Store, Hits, storeVars, StoreTypeOK, deployVars, Points
<1>16. ASSUME NEW r \in Requests, ErrorTelemetry(r) PROVE TypeInv'
  BY <1>16 DEF ErrorTelemetry, UsageRows, StoreTypeOK, deployVars, Points
<1>17. ASSUME NEW r \in Requests, SendFrame(r) PROVE TypeInv'
  BY <1>17 DEF SendFrame, Answer, Answers, storeVars, StoreTypeOK, deployVars, Points
<1>18. ASSUME NEW r \in Requests, SendFrameInTransaction(r) PROVE TypeInv'
  BY <1>18 DEF SendFrameInTransaction, Answer, Answers, Rollback, NoTx, Sessions, tables,
              StoreTypeOK, deployVars, Points
<1>19. ASSUME NEW r \in Requests, Finish(r) PROVE TypeInv'
  BY <1>19 DEF Finish, WriteMetrics, MetricsOutcome, Answer, Answers, Outcomes, Failures,
              storeVars, StoreTypeOK, deployVars, Points
<1>20. ASSUME NEW r \in Requests, CloseSession(r) PROVE TypeInv'
  BY <1>20 DEF CloseSession, Rollback, NoTx, Sessions, tables, StoreTypeOK, handlerVars,
              deployVars
<1>21. ASSUME NEW r \in Requests, Disconnect(r) PROVE TypeInv'
  <2>1. tx' \in [Requests -> Sessions]
    <3>1. CASE tx' = tx
      BY <3>1 DEF StoreTypeOK
    <3>2. CASE tx' = [tx EXCEPT ![r] = NoTx]
      BY <3>2, EmptySessions DEF StoreTypeOK
    <3> QED
      BY <1>21, <3>1, <3>2 DEF Disconnect
  <2> QED
    BY <1>21, <2>1 DEF Disconnect, tables, StoreTypeOK, deployVars, Points
<1>22. ASSUME NEW r \in Requests, DisconnectInCommit(r) PROVE TypeInv'
  <2>1. tx' \in [Requests -> Sessions]
    <3>1. CASE tx' = [tx EXCEPT ![r] = [NoTx EXCEPT !.open = TRUE]]
      BY <3>1, EmptySessions DEF StoreTypeOK
    <3>2. CASE tx' = [tx EXCEPT ![r] = NoTx]
      BY <3>2, EmptySessions DEF StoreTypeOK
    <3> QED
      BY <1>22, <3>1, <3>2 DEF DisconnectInCommit
  <2>2. tx[r] \in Sessions
    BY DEF StoreTypeOK
  <2>3. StoreTypeOK'
    BY <1>22, <2>1, <2>2 DEF DisconnectInCommit, Publish, Sessions, tables, StoreTypeOK
  <2> QED
    BY <1>22, <2>3 DEF DisconnectInCommit, deployVars, Points
<1>23. CASE Restart
  <2>1. restarts' \in 0..MaxRestarts
    BY <1>23, ChatBounds DEF Restart
  <2>2. tx' \in [Requests -> Sessions]
    BY <1>23 DEF Restart, NoTx, Sessions
  <2>3. StoreTypeOK'
    BY <1>23, <2>2 DEF Restart, tables, StoreTypeOK
  <2>4. pc' \in [Requests -> Points] /\ \A r \in Requests : pc'[r] \in {"idle", "done"}
    BY <1>23 DEF Restart, Points
  <2>5. /\ reply' \in [Requests -> Requests \cup {None}]
        /\ outcome' \in [Requests -> Outcomes]
        /\ failure' \in [Requests -> Failures]
    BY <1>23 DEF Restart, Outcomes, Failures
  <2> QED
    BY <1>23, <2>1, <2>3, <2>4, <2>5 DEF Restart
<1>24. CASE Reingest
  <2>1. corpus' \in 0..MaxCorpus
    BY <1>24, ChatBounds DEF Reingest
  <2> QED
    BY <1>24, <2>1 DEF Reingest, storeVars, StoreTypeOK, handlerVars
<1>25. CASE CacheExpires
  BY <1>25 DEF CacheExpires, Expire, storeVars, StoreTypeOK, handlerVars, deployVars
<1>26. CASE UNCHANGED vars
  BY <1>26 DEF vars, storeVars, StoreTypeOK, handlerVars, deployVars
<1> QED
  BY <1>1, <1>2, <1>3, <1>4, <1>5, <1>6, <1>7, <1>8, <1>9, <1>10, <1>11, <1>12, <1>13, <1>14,
     <1>15, <1>16, <1>17, <1>18, <1>19, <1>20, <1>21, <1>22, <1>23, <1>24, <1>25, <1>26
  DEF Next, HandlerStep, Failure, ProviderStreams

LEMMA TypeCorrect == Spec => []TypeInv
<1>1. TypeInv /\ [Next]_vars => TypeInv'
  BY TypeNext
<1> QED
  BY <1>1, TypeInit, PTL DEF Spec

\* Every variable keeps its type, in every behaviour of the handlers.
THEOREM TypeCorrectness == Spec => []TypeOK
<1>1. TypeInv => TypeOK
  BY DEF TypeInv
<1> QED
  BY <1>1, TypeCorrect, PTL

----------------------------------------------------------------------------
(* Turn atomicity.  TurnAtomicity speaks of the tables only and is not      *)
(* inductive; SessionDiscipline says what the open transactions stage.      *)

AtomicInv == TypeInv /\ SessionDiscipline /\ TurnAtomicity

BeforeCommit == {"idle", "context", "streaming", "begin", "reply", "assistant", "commit"}
NoTransaction == {"idle", "context", "streaming", "begin", "store", "telemetry", "frame"}

LEMMA RolesKept ==
    ASSUME UNCHANGED messages, NEW q \in Requests
    PROVE  RolesOf(q)' = RolesOf(q)
BY DEF RolesOf

LEMMA SessionKept ==
    ASSUME NEW q \in Requests, tx'[q] = tx[q], rq'[q] = rq[q], OwnSession(q)
    PROVE  OwnSession(q)' /\ StagedRoles(q)' = StagedRoles(q)
BY DEF OwnSession, StagedRoles

LEMMA EmptySessionOwn ==
    ASSUME NEW q \in Requests, tx'[q] = NoTx \/ tx'[q] = [NoTx EXCEPT !.open = TRUE]
    PROVE  OwnSession(q)'
BY DEF OwnSession, NoTx

\* A step that publishes nothing and only keeps or drops what sessions have staged.
LEMMA QuietStep ==
    ASSUME AtomicInv,
           UNCHANGED <<conversations, messages, rq>>,
           \A u \in usage_events' : u \in usage_events \/ u.status = "error",
           \A q \in Requests :
              /\ pc'[q] \in BeforeCommit => pc[q] \in BeforeCommit
              /\ \/ /\ tx'[q] = tx[q]
                    /\ pc'[q] \in {"reply", "assistant"} => pc[q] \in {"reply", "assistant"}
                    /\ pc'[q] = "commit" => pc[q] = "commit"
                    /\ pc'[q] \in NoTransaction => pc[q] \in NoTransaction
                 \/ /\ tx'[q] = NoTx
                    /\ pc'[q] \notin {"reply", "assistant", "commit"}
                 \/ tx'[q] = [NoTx EXCEPT !.open = TRUE] /\ pc'[q] = "metrics"
    PROVE  SessionDiscipline' /\ TurnAtomicity'
<1>1. TurnAtomicity'
  <2>1. \A q \in Requests : RolesOf(q)' = RolesOf(q)
    BY RolesKept
  <2>2. \A q \in Requests : RolesOf(q)' \in {{}, Roles}
    BY <2>1 DEF AtomicInv, TurnAtomicity
  <2>3. \A c \in conversations' : \E m \in messages' : m.conversation = c.id
    BY DEF AtomicInv, TurnAtomicity
  <2>4. \A u \in usage_events' : u.status = "success" => Durable(u.request)'
    <3>1. ASSUME NEW u \in usage_events', u.status = "success" PROVE Durable(u.request)'
      <4>1. u \in usage_events
        BY <3>1
      <4>2. u.request \in Requests
        BY <4>1 DEF AtomicInv, TypeInv, TypeOK, StoreTypeOK, UsageRows
      <4>3. RolesOf(u.request) = Roles
        BY <3>1, <4>1 DEF AtomicInv, TurnAtomicity, Durable
      <4> QED
        BY <2>1, <4>2, <4>3 DEF Durable
    <3> QED
      BY <3>1
  <2> QED
    BY <2>2, <2>3, <2>4 DEF TurnAtomicity
<1>2. ASSUME NEW q \in Requests
      PROVE  /\ OwnSession(q)'
             /\ pc'[q] \in {"reply", "assistant"}
                   => StagedRoles(q)' = {"user"} /\ tx'[q].usage = {}
             /\ pc'[q] = "commit" => StagedRoles(q)' = Roles
             /\ pc'[q] \in NoTransaction => ~tx'[q].open
             /\ pc'[q] \in BeforeCommit => RolesOf(q)' = {}
  <2>1. pc'[q] \in BeforeCommit => RolesOf(q)' = {}
    BY RolesKept DEF AtomicInv, SessionDiscipline, BeforeCommit
  <2>2. CASE tx'[q] = NoTx /\ pc'[q] \notin {"reply", "assistant", "commit"}
    BY <2>1, <2>2, EmptySessionOwn DEF NoTx
  <2>4. CASE tx'[q] = [NoTx EXCEPT !.open = TRUE] /\ pc'[q] = "metrics"
    BY <2>1, <2>4, EmptySessionOwn DEF NoTransaction
  <2>3. CASE /\ tx'[q] = tx[q]
             /\ pc'[q] \in {"reply", "assistant"} => pc[q] \in {"reply", "assistant"}
             /\ pc'[q] = "commit" => pc[q] = "commit"
             /\ pc'[q] \in NoTransaction => pc[q] \in NoTransaction
    BY <2>1, <2>3, SessionKept DEF AtomicInv, SessionDiscipline, NoTransaction
  <2> QED
    BY <2>2, <2>3, <2>4
<1> QED
  BY <1>1, <1>2 DEF SessionDiscipline, NoTransaction, BeforeCommit

\* A COMMIT makes both rows of one turn durable and touches no other turn.
LEMMA PublishStep ==
    ASSUME AtomicInv, NEW r \in Requests, pc[r] = "commit", Publish(r)
    PROVE  /\ TurnAtomicity'
           /\ RolesOf(r)' = Roles
           /\ \A q \in Requests \ {r} : RolesOf(q)' = RolesOf(q)
<1>1. /\ OwnSession(r)
      /\ StagedRoles(r) = Roles
      /\ RolesOf(r) = {}
  BY DEF AtomicInv, SessionDiscipline
<1>2. /\ messages' = messages \cup tx[r].messages
      /\ conversations' = conversations \cup tx[r].conversations
      /\ usage_events' = usage_events \cup tx[r].usage
  BY DEF Publish
<1>3. \A m \in tx[r].messages : m.request = r /\ m.conversation = rq[r].conversation
  BY <1>1 DEF OwnSession
<1>4. RolesOf(r)' = Roles
  <2>1. RolesOf(r)' = RolesOf(r) \cup StagedRoles(r)
    BY <1>2, <1>3 DEF RolesOf, StagedRoles
  <2> QED
    BY <1>1, <2>1
<1>5. ASSUME NEW q \in Requests \ {r} PROVE RolesOf(q)' = RolesOf(q)
  BY <1>2, <1>3 DEF RolesOf
<1>6. \A q \in Requests : RolesOf(q)' \in {{}, Roles}
  BY <1>4, <1>5 DEF AtomicInv, TurnAtomicity
<1>7. ASSUME NEW c \in conversations' PROVE \E m \in messages' : m.conversation = c.id
  <2>1. CASE c \in conversations
    BY <1>2, <2>1 DEF AtomicInv, TurnAtomicity
  <2>2. CASE c \in tx[r].conversations
    <3>1. c.id = rq[r].conversation
      BY <1>1, <2>2 DEF OwnSession
    <3>2. \E m \in tx[r].messages : TRUE
      BY <1>1 DEF StagedRoles, Roles
    <3> QED
      BY <1>2, <1>3, <3>1, <3>2
  <2> QED
    BY <1>2, <2>1, <2>2
<1>8. ASSUME NEW u \in usage_events', u.status = "success" PROVE Durable(u.request)'
  <2>1. CASE u \in usage_events
    <3>1. u.request \in Requests /\ RolesOf(u.request) = Roles
      BY <1>8, <2>1 DEF AtomicInv, TurnAtomicity, Durable, TypeInv, TypeOK, StoreTypeOK, UsageRows
    <3> QED
      BY <1>4, <1>5, <3>1 DEF Durable
  <2>2. CASE u \in tx[r].usage
    BY <1>1, <1>4, <2>2 DEF OwnSession, Durable
  <2> QED
    BY <1>2, <2>1, <2>2
<1> QED
  BY <1>4, <1>5, <1>6, <1>7, <1>8 DEF TurnAtomicity

\* After a COMMIT the session is empty and its handler is past the turn.
LEMMA CommitStep ==
    ASSUME AtomicInv, NEW r \in Requests, pc[r] = "commit", Publish(r), rq' = rq,
           tx' \in {[tx EXCEPT ![r] = NoTx], [tx EXCEPT ![r] = [NoTx EXCEPT !.open = TRUE]]},
           pc'[r] \in NoTransaction => tx' = [tx EXCEPT ![r] = NoTx],
           pc'[r] \notin BeforeCommit,
           \A q \in Requests \ {r} : pc'[q] = pc[q]
    PROVE  SessionDiscipline' /\ TurnAtomicity'
<1>1. tx \in [Requests -> Sessions]
  BY DEF AtomicInv, TypeInv, TypeOK, StoreTypeOK
<1>2. OwnSession(r)'
  BY <1>1, EmptySessionOwn
<1>3. pc'[r] \in NoTransaction => ~tx'[r].open
  BY <1>1 DEF NoTx, NoTransaction
<1>4. ASSUME NEW q \in Requests \ {r}
      PROVE  tx'[q] = tx[q] /\ rq'[q] = rq[q] /\ pc'[q] = pc[q] /\ RolesOf(q)' = RolesOf(q)
  BY <1>1, PublishStep
<1>5. ASSUME NEW q \in Requests \ {r}
      PROVE  /\ OwnSession(q)'
             /\ StagedRoles(q)' = StagedRoles(q)
  <2>1. OwnSession(q)
    BY DEF AtomicInv, SessionDiscipline
  <2> QED
    BY <1>4, <2>1, SessionKept
<1>6. SessionDiscipline'
  BY <1>2, <1>3, <1>4, <1>5
  DEF SessionDiscipline, AtomicInv, BeforeCommit, NoTransaction
<1> QED
  BY <1>6, PublishStep

LEMMA AtomicInit == Init => AtomicInv
<1> SUFFICES ASSUME Init PROVE AtomicInv
  OBVIOUS
<1>1. \A r \in Requests : tx[r] = NoTx /\ RolesOf(r) = {} /\ pc[r] = "idle"
  BY DEF Init, StoreInit, RolesOf
<1>2. \A r \in Requests : OwnSession(r)
  BY <1>1 DEF OwnSession, NoTx
<1>3. SessionDiscipline
  BY <1>1, <1>2 DEF SessionDiscipline, NoTx
<1>4. TurnAtomicity
  BY <1>1 DEF TurnAtomicity, Init, StoreInit
<1> QED
  BY <1>3, <1>4, TypeInit DEF AtomicInv

\* The steps that open a session or add to it.
LEMMA OpenTurnAtomic ==
    ASSUME AtomicInv, NEW r \in Requests, OpenTurn(r)
    PROVE  SessionDiscipline' /\ TurnAtomicity'
<1> DEFINE row == MessageRow(r, rq[r].conversation, rq[r].tenant, "user", rq[r].message)
           convs == IF rq[r].is_new
                    THEN {[id |-> rq[r].conversation, tenant |-> rq[r].tenant]} ELSE {}
<1>1. tx \in [Requests -> Sessions] /\ pc \in [Requests -> Points]
  BY DEF AtomicInv, TypeInv, TypeOK, StoreTypeOK
<1>2. tx'[r] = [open |-> TRUE, conversations |-> convs, messages |-> {row}, usage |-> {}]
  BY <1>1 DEF OpenTurn, Begin, NoTx
<1>3. \A q \in Requests \ {r} : tx'[q] = tx[q] /\ pc'[q] = pc[q] /\ rq'[q] = rq[q]
  BY <1>1 DEF OpenTurn, Begin, Goto
<1>4. /\ row.request = r /\ row.role = "user"
      /\ row.conversation = rq[r].conversation /\ row.tenant = rq[r].tenant
  BY DEF MessageRow
<1>5. OwnSession(r)'
  BY <1>2, <1>4 DEF OwnSession, OpenTurn
<1>6. StagedRoles(r)' = {"user"} /\ tx'[r].usage = {}
  BY <1>2, <1>4 DEF StagedRoles
<1>7. pc'[r] \in {"reply", "assistant"} /\ pc[r] = "begin"
  BY <1>1 DEF OpenTurn, Goto
<1>8. UNCHANGED <<conversations, messages, usage_events>>
  BY DEF OpenTurn, tables
<1>9. \A q \in Requests : RolesOf(q)' = RolesOf(q)
  BY <1>8, RolesKept
<1>10. TurnAtomicity'
  BY <1>8 DEF AtomicInv, TurnAtomicity, RolesOf, Durable
<1>11. \A q \in Requests \ {r} : OwnSession(q)' /\ StagedRoles(q)' = StagedRoles(q)
  BY <1>3, SessionKept DEF AtomicInv, SessionDiscipline
<1>12. SessionDiscipline'
  BY <1>3, <1>5, <1>6, <1>7, <1>9, <1>11 DEF AtomicInv, SessionDiscipline
<1> QED
  BY <1>10, <1>12

LEMMA NotFoundAtomic ==
    ASSUME AtomicInv, NEW r \in Requests, NotFound(r)
    PROVE  SessionDiscipline' /\ TurnAtomicity'
<1>1. tx \in [Requests -> Sessions] /\ pc \in [Requests -> Points]
  BY DEF AtomicInv, TypeInv, TypeOK, StoreTypeOK
<1>2. pc'[r] \in {"frame_in_tx", "metrics"} /\ pc[r] = "begin"
  BY <1>1 DEF NotFound, Goto
<1>3. OwnSession(r)'
  <2>1. CASE UNCHANGED tx
    <3>1. tx'[r] = NoTx
      BY <1>2, <2>1 DEF AtomicInv, SessionDiscipline, OwnSession
    <3> QED
      BY <3>1, EmptySessionOwn
  <2>2. CASE Begin(r, {}, {})
    BY <1>1, <2>2 DEF Begin, OwnSession, NoTx
  <2> QED
    BY <2>1, <2>2 DEF NotFound
<1>4. \A q \in Requests \ {r} : tx'[q] = tx[q] /\ pc'[q] = pc[q] /\ rq'[q] = rq[q]
  BY <1>1 DEF NotFound, Begin, Goto
<1>5. UNCHANGED <<conversations, messages, usage_events>>
  BY DEF NotFound, tables
<1>6. \A q \in Requests : RolesOf(q)' = RolesOf(q)
  BY <1>5, RolesKept
<1>7. TurnAtomicity'
  BY <1>5 DEF AtomicInv, TurnAtomicity, RolesOf, Durable
<1>8. \A q \in Requests \ {r} : OwnSession(q)' /\ StagedRoles(q)' = StagedRoles(q)
  BY <1>4, SessionKept DEF AtomicInv, SessionDiscipline
<1>9. SessionDiscipline'
  BY <1>2, <1>3, <1>4, <1>6, <1>8 DEF AtomicInv, SessionDiscipline
<1> QED
  BY <1>7, <1>9

LEMMA FlushAssistantAtomic ==
    ASSUME AtomicInv, NEW r \in Requests, FlushAssistant(r)
    PROVE  SessionDiscipline' /\ TurnAtomicity'
<1>1. tx \in [Requests -> Sessions] /\ pc \in [Requests -> Points]
  BY DEF AtomicInv, TypeInv, TypeOK, StoreTypeOK
<1>2. PICK usage \in {{}, {[request |-> r, status |-> "success", message |-> "assistant"]}} :
        Stage(r, {AssistantRow(r)}, usage)
  BY DEF FlushAssistant
<1>3. /\ tx'[r].open = tx[r].open
      /\ tx'[r].conversations = tx[r].conversations
      /\ tx'[r].messages = tx[r].messages \cup {AssistantRow(r)}
      /\ tx'[r].usage = tx[r].usage \cup usage
  BY <1>1, <1>2 DEF Stage, Sessions
<1>4. /\ AssistantRow(r).request = r /\ AssistantRow(r).role = "assistant"
      /\ AssistantRow(r).conversation = rq[r].conversation
      /\ AssistantRow(r).tenant = rq[r].tenant
  BY DEF AssistantRow, MessageRow
<1>5. /\ OwnSession(r) /\ StagedRoles(r) = {"user"} /\ tx[r].usage = {}
      /\ RolesOf(r) = {} /\ tx[r].open
  <2>1. /\ OwnSession(r) /\ StagedRoles(r) = {"user"} /\ tx[r].usage = {} /\ RolesOf(r) = {}
    BY DEF FlushAssistant, AtomicInv, SessionDiscipline
  <2>2. tx[r] # NoTx
    BY <2>1 DEF StagedRoles, NoTx
  <2> QED
    BY <2>1, <2>2 DEF OwnSession
<1>6. OwnSession(r)'
  <2>1. tx'[r].open
    BY <1>3, <1>5
  <2>2. rq' = rq
    BY DEF FlushAssistant
  <2> QED
    BY <1>3, <1>4, <1>5, <2>1, <2>2 DEF OwnSession
<1>7. StagedRoles(r)' = Roles
  <2>1. StagedRoles(r)' = StagedRoles(r) \cup {"assistant"}
    BY <1>3, <1>4 DEF StagedRoles
  <2> QED
    BY <1>5, <2>1 DEF Roles
<1>8. pc'[r] = "commit"
  BY <1>1 DEF FlushAssistant, Goto
<1>9. \A q \in Requests \ {r} : tx'[q] = tx[q] /\ pc'[q] = pc[q] /\ rq'[q] = rq[q]
  BY <1>1, <1>2 DEF FlushAssistant, Stage, Goto
<1>10. UNCHANGED <<conversations, messages, usage_events>>
  BY DEF FlushAssistant, tables
<1>11. \A q \in Requests : RolesOf(q)' = RolesOf(q)
  BY <1>10, RolesKept
<1>12. TurnAtomicity'
  BY <1>10 DEF AtomicInv, TurnAtomicity, RolesOf, Durable
<1>13. \A q \in Requests \ {r} : OwnSession(q)' /\ StagedRoles(q)' = StagedRoles(q)
  BY <1>9, SessionKept DEF AtomicInv, SessionDiscipline
<1>14. SessionDiscipline'
  BY <1>5, <1>6, <1>7, <1>8, <1>9, <1>11, <1>13 DEF AtomicInv, SessionDiscipline
<1> QED
  BY <1>12, <1>14

\* The request that arrives has an empty session, so its new parameters fit what it stages.
LEMMA ArriveAtomic ==
    ASSUME AtomicInv, NEW r \in Requests, NEW p \in Params, Arrive(r, p)
    PROVE  SessionDiscipline' /\ TurnAtomicity'
<1>1. rq \in [Requests -> Params] /\ pc \in [Requests -> Points]
  BY DEF AtomicInv, TypeInv, TypeOK
<1>2. pc[r] = "idle" /\ pc'[r] = "context"
  BY <1>1 DEF Arrive, Goto
<1>3. UNCHANGED <<conversations, messages, usage_events, tx>>
  BY DEF Arrive, storeVars
<1>4. \A q \in Requests \ {r} : pc'[q] = pc[q] /\ rq'[q] = rq[q]
  BY <1>1 DEF Arrive, Goto
<1>5. OwnSession(r)'
  <2>1. tx'[r] = NoTx
    BY <1>2, <1>3 DEF AtomicInv, SessionDiscipline, OwnSession
  <2> QED
    BY <2>1, EmptySessionOwn
<1>6. \A q \in Requests : RolesOf(q)' = RolesOf(q)
  BY <1>3, RolesKept
<1>7. TurnAtomicity'
  BY <1>3 DEF AtomicInv, TurnAtomicity, RolesOf, Durable
<1>8. \A q \in Requests \ {r} : OwnSession(q)' /\ StagedRoles(q)' = StagedRoles(q)
  BY <1>3, <1>4, SessionKept DEF AtomicInv, SessionDiscipline
<1>9. SessionDiscipline'
  BY <1>2, <1>3, <1>4, <1>5, <1>6, <1>8 DEF AtomicInv, SessionDiscipline
<1> QED
  BY <1>7, <1>9

LEMMA AtomicNext == AtomicInv /\ [Next]_vars => AtomicInv'
<1> SUFFICES ASSUME AtomicInv, [Next]_vars PROVE SessionDiscipline' /\ TurnAtomicity'
  BY TypeNext DEF AtomicInv
<1>0. tx \in [Requests -> Sessions] /\ pc \in [Requests -> Points]
  BY DEF AtomicInv, TypeInv, TypeOK, StoreTypeOK
<1> USE DEF BeforeCommit, NoTransaction, Goto, FailTurn, Rollback, tables, storeVars
<1>1. ASSUME NEW r \in Requests, NEW p \in Params, Arrive(r, p)
      PROVE  SessionDiscipline' /\ TurnAtomicity'
  BY <1>1, ArriveAtomic
<1>2. ASSUME NEW r \in Requests, ReadContext(r) PROVE SessionDiscipline' /\ TurnAtomicity'
  BY <1>0, <1>2, QuietStep DEF ReadContext
<1>3. ASSUME NEW r \in Requests, StreamFinishes(r) PROVE SessionDiscipline' /\ TurnAtomicity'
  BY <1>0, <1>3, QuietStep DEF StreamFinishes
<1>4. ASSUME NEW r \in Requests, StreamFails(r) PROVE SessionDiscipline' /\ TurnAtomicity'
  BY <1>0, <1>4, QuietStep DEF StreamFails
<1>5. ASSUME NEW r \in Requests, ProviderFails(r) PROVE SessionDiscipline' /\ TurnAtomicity'
  BY <1>0, <1>5, QuietStep DEF ProviderFails
<1>6. ASSUME NEW r \in Requests, DatabaseFails(r) PROVE SessionDiscipline' /\ TurnAtomicity'
  BY <1>0, <1>6, QuietStep DEF DatabaseFails
<1>7. ASSUME NEW r \in Requests, CacheHit(r) PROVE SessionDiscipline' /\ TurnAtomicity'
  BY <1>0, <1>7, QuietStep DEF CacheHit
<1>8. ASSUME NEW r \in Requests, ProviderAnswers(r) PROVE SessionDiscipline' /\ TurnAtomicity'
  BY <1>0, <1>8, QuietStep DEF ProviderAnswers
<1>9. ASSUME NEW r \in Requests, UsageInsertFails(r) PROVE SessionDiscipline' /\ TurnAtomicity'
  BY <1>0, <1>9, QuietStep DEF UsageInsertFails
<1>10. ASSUME NEW r \in Requests, StoreReply(r) PROVE SessionDiscipline' /\ TurnAtomicity'
  BY <1>0, <1>10, QuietStep DEF StoreReply
<1>11. ASSUME NEW r \in Requests, ErrorTelemetry(r) PROVE SessionDiscipline' /\ TurnAtomicity'
  BY <1>0, <1>11, QuietStep DEF ErrorTelemetry
<1>12. ASSUME NEW r \in Requests, SendFrame(r) PROVE SessionDiscipline' /\ TurnAtomicity'
  BY <1>0, <1>12, QuietStep DEF SendFrame
<1>13. ASSUME NEW r \in Requests, SendFrameInTransaction(r) PROVE SessionDiscipline' /\ TurnAtomicity'
  BY <1>0, <1>13, QuietStep DEF SendFrameInTransaction
<1>14. ASSUME NEW r \in Requests, Finish(r) PROVE SessionDiscipline' /\ TurnAtomicity'
  BY <1>0, <1>14, QuietStep DEF Finish, WriteMetrics
<1>15. ASSUME NEW r \in Requests, CloseSession(r) PROVE SessionDiscipline' /\ TurnAtomicity'
  BY <1>0, <1>15, QuietStep DEF CloseSession, handlerVars
<1>16. ASSUME NEW r \in Requests, Disconnect(r) PROVE SessionDiscipline' /\ TurnAtomicity'
  BY <1>0, <1>16, QuietStep DEF Disconnect
<1>17. ASSUME NEW r \in Requests, OpenTurn(r) PROVE SessionDiscipline' /\ TurnAtomicity'
  BY <1>17, OpenTurnAtomic
<1>18. ASSUME NEW r \in Requests, NotFound(r) PROVE SessionDiscipline' /\ TurnAtomicity'
  BY <1>18, NotFoundAtomic
<1>19. ASSUME NEW r \in Requests, FlushAssistant(r) PROVE SessionDiscipline' /\ TurnAtomicity'
  BY <1>19, FlushAssistantAtomic
<1>20. ASSUME NEW r \in Requests, CommitTurn(r) PROVE SessionDiscipline' /\ TurnAtomicity'
  <2>1. pc[r] = "commit" /\ Publish(r) /\ rq' = rq /\ tx' = [tx EXCEPT ![r] = NoTx]
    BY <1>20 DEF CommitTurn, Commit
  <2>2. pc'[r] \notin BeforeCommit /\ \A q \in Requests \ {r} : pc'[q] = pc[q]
    BY <1>0, <1>20 DEF CommitTurn
  <2>3. tx' \in {[tx EXCEPT ![r] = NoTx], [tx EXCEPT ![r] = [NoTx EXCEPT !.open = TRUE]]}
    BY <2>1
  <2> QED
    BY <2>1, <2>2, <2>3, CommitStep
<1>21. ASSUME NEW r \in Requests, CommitUnacknowledged(r) PROVE SessionDiscipline' /\ TurnAtomicity'
  <2>1. pc[r] = "commit" /\ Publish(r) /\ rq' = rq /\ tx' = [tx EXCEPT ![r] = NoTx]
    BY <1>21 DEF CommitUnacknowledged, Commit
  <2>2. pc'[r] \notin BeforeCommit /\ \A q \in Requests \ {r} : pc'[q] = pc[q]
    BY <1>0, <1>21 DEF CommitUnacknowledged
  <2>3. tx' \in {[tx EXCEPT ![r] = NoTx], [tx EXCEPT ![r] = [NoTx EXCEPT !.open = TRUE]]}
    BY <2>1
  <2> QED
    BY <2>1, <2>2, <2>3, CommitStep
<1>22. ASSUME NEW r \in Requests, DisconnectInCommit(r)
      PROVE  SessionDiscipline' /\ TurnAtomicity'
  <2>1. CASE Publish(r)
    <3>1. /\ pc[r] = "commit" /\ rq' = rq
          /\ tx' \in {[tx EXCEPT ![r] = NoTx], [tx EXCEPT ![r] = [NoTx EXCEPT !.open = TRUE]]}
          /\ pc'[r] \notin NoTransaction
      BY <1>0, <1>22 DEF DisconnectInCommit
    <3>2. pc'[r] \notin BeforeCommit /\ \A q \in Requests \ {r} : pc'[q] = pc[q]
      BY <1>0, <1>22 DEF DisconnectInCommit
    <3> QED
      BY <2>1, <3>1, <3>2, CommitStep
  <2>2. CASE UNCHANGED tables
    BY <1>0, <1>22, <2>2, QuietStep DEF DisconnectInCommit
  <2> QED
    BY <1>22, <2>1, <2>2 DEF DisconnectInCommit
<1>23. CASE Restart
  BY <1>0, <1>23, QuietStep DEF Restart
<1>24. CASE Reingest
  BY <1>0, <1>24, QuietStep DEF Reingest, handlerVars
<1>25. CASE CacheExpires
  BY <1>0, <1>25, QuietStep DEF CacheExpires, handlerVars
<1>26. CASE UNCHANGED vars
  BY <1>0, <1>26, QuietStep DEF vars, handlerVars
<1> QED
  BY <1>1, <1>2, <1>3, <1>4, <1>5, <1>6, <1>7, <1>8, <1>9, <1>10, <1>11, <1>12, <1>13, <1>14, <1>15, <1>16, <1>17, <1>18, <1>19, <1>20, <1>21, <1>22, <1>23, <1>24, <1>25, <1>26 DEF Next, HandlerStep, Failure, ProviderStreams

LEMMA AtomicCorrect == Spec => []AtomicInv
<1>1. AtomicInv /\ [Next]_vars => AtomicInv'
  BY AtomicNext
<1> QED
  BY <1>1, AtomicInit, PTL DEF Spec

\* No partial persistence: in every behaviour, whatever fails, disconnects or restarts, a
\* turn is in the tables with both its messages or not at all.
THEOREM AtomicTurns == Spec => []TurnAtomicity
<1>1. AtomicInv => TurnAtomicity
  BY DEF AtomicInv
<1> QED
  BY <1>1, AtomicCorrect, PTL

\* A session stages rows of its own turn only, the question while its reply is awaited and
\* both messages when it commits, and no transaction is open at the points up to the last
\* frame that are outside of one.
THEOREM DisciplinedSessions == Spec => []SessionDiscipline
<1>1. AtomicInv => SessionDiscipline
  BY DEF AtomicInv
<1> QED
  BY <1>1, AtomicCorrect, PTL

----------------------------------------------------------------------------
(* The rows POST /chat writes: the order their sequence numbers give them,  *)
(* the prompts their replies were generated for, and the whole turns that a *)
(* later prompt reads back.  The invariants speak of the staged rows as     *)
(* well as of the committed ones, and share one lemma about what a step may *)
(* change.                                                                  *)

\* Every row that has taken a sequence number and is not rolled back.
Rows == messages \cup UNION {tx[q].messages : q \in Requests}

\* A request whose parameters and prompt are final, and one whose handler has them in hand.
Settled(q) == pc[q] \notin {"idle", "context"}
Working(q) == pc[q] \notin {"idle", "context", "done"}

\* A request that its client is still waiting for.
Busy(q) == pc[q] \notin {"idle", "done"}

\* A handler that holds the reply its assistant row will carry (see ReplyReady).
HasReply(q) == pc[q] = "assistant" \/ (pc[q] = "begin" /\ IsStream(q))

\* What a step may have changed of request q, and by which action.
Causes(q) ==
    /\ Settled(q) => Settled(q)' /\ rq'[q] = rq[q] /\ prompt'[q] = prompt[q]
    /\ prompt'[q] = prompt[q] \/ ReadContext(q)
    /\ HasReply(q)' => \/ HasReply(q) /\ reply'[q] = reply[q]
                       \/ StreamFinishes(q) \/ CacheHit(q) \/ ProviderAnswers(q)
    /\ Working(q)' => (Working(q) /\ augmented' = augmented) \/ ReadContext(q)
    /\ Busy(q)' => \/ Busy(q) /\ rq'[q] = rq[q]
                   \/ \E p \in Params : Arrive(q, p)

CacheCause == cache' \subseteq cache \/ \E r \in Requests : StoreReply(r)

\* A step that flushes nothing commits what a session staged, and drops what it drops.
FlushesNothing ==
    /\ sequence' = sequence
    /\ \A q \in Requests : tx'[q].messages \subseteq tx[q].messages
    /\ messages' = messages \/ \E q \in Requests : messages' = messages \cup tx[q].messages

RowCause == FlushesNothing \/ \E r \in Requests : OpenTurn(r) \/ FlushAssistant(r)

LEMMA FlushesNothingStep ==
    ASSUME FlushesNothing
    PROVE  messages \subseteq messages' /\ Rows' \subseteq Rows
BY DEF FlushesNothing, Rows

LEMMA StepCauses ==
    ASSUME AtomicInv, [Next]_vars
    PROVE  /\ \A q \in Requests : Causes(q)
           /\ CacheCause
           /\ RowCause
<1> DEFINE Goal == (\A q \in Requests : Causes(q)) /\ CacheCause /\ RowCause
<1>0. /\ tx \in [Requests -> Sessions] /\ pc \in [Requests -> Points]
      /\ rq \in [Requests -> Params] /\ prompt \in [Requests -> Prompts]
      /\ reply \in [Requests -> Requests \cup {None}]
  BY DEF AtomicInv, TypeInv, TypeOK, StoreTypeOK
<1>f. ASSUME sequence' = sequence, messages' = messages,
             \A q \in Requests : tx'[q] = tx[q] \/ tx'[q].messages = {}
      PROVE  RowCause
  BY <1>f DEF FlushesNothing, RowCause
<1>p. ASSUME NEW r \in Requests, sequence' = sequence, Publish(r),
             \A q \in Requests : tx'[q] = tx[q] \/ tx'[q].messages = {}
      PROVE  RowCause
  BY <1>p DEF FlushesNothing, RowCause, Publish
<1> USE DEF Causes, Settled, Working, Busy, HasReply, IsStream, CacheCause, Goto, FailTurn,
        Rollback, tables, storeVars, deployVars, NoTx
<1>1. ASSUME NEW r \in Requests, NEW p \in Params, Arrive(r, p) PROVE Goal
  BY <1>0, <1>1, <1>f DEF Arrive
<1>2. ASSUME NEW r \in Requests, ReadContext(r) PROVE Goal
  BY <1>0, <1>2, <1>f DEF ReadContext
<1>3. ASSUME NEW r \in Requests, StreamFinishes(r) PROVE Goal
  BY <1>0, <1>3, <1>f DEF StreamFinishes
<1>4. ASSUME NEW r \in Requests, StreamFails(r) PROVE Goal
  BY <1>0, <1>4, <1>f DEF StreamFails
<1>5. ASSUME NEW r \in Requests, ProviderFails(r) PROVE Goal
  BY <1>0, <1>5, <1>f DEF ProviderFails
<1>6. ASSUME NEW r \in Requests, DatabaseFails(r) PROVE Goal
  BY <1>0, <1>6, <1>f DEF DatabaseFails
<1>7. ASSUME NEW r \in Requests, CacheHit(r) PROVE Goal
  BY <1>0, <1>7, <1>f DEF CacheHit
<1>8. ASSUME NEW r \in Requests, ProviderAnswers(r) PROVE Goal
  BY <1>0, <1>8, <1>f DEF ProviderAnswers
<1>9. ASSUME NEW r \in Requests, UsageInsertFails(r) PROVE Goal
  BY <1>0, <1>9, <1>f DEF UsageInsertFails
<1>10. ASSUME NEW r \in Requests, StoreReply(r) PROVE Goal
  BY <1>0, <1>10, <1>f DEF StoreReply
<1>11. ASSUME NEW r \in Requests, ErrorTelemetry(r) PROVE Goal
  BY <1>0, <1>11, <1>f DEF ErrorTelemetry
<1>12. ASSUME NEW r \in Requests, SendFrame(r) PROVE Goal
  BY <1>0, <1>12, <1>f DEF SendFrame
<1>13. ASSUME NEW r \in Requests, SendFrameInTransaction(r) PROVE Goal
  BY <1>0, <1>13, <1>f DEF SendFrameInTransaction
<1>14. ASSUME NEW r \in Requests, Finish(r) PROVE Goal
  BY <1>0, <1>14, <1>f DEF Finish, WriteMetrics
<1>15. ASSUME NEW r \in Requests, CloseSession(r) PROVE Goal
  BY <1>0, <1>15, <1>f DEF CloseSession, handlerVars
<1>16. ASSUME NEW r \in Requests, Disconnect(r) PROVE Goal
  BY <1>0, <1>16, <1>f DEF Disconnect
<1>17. ASSUME NEW r \in Requests, OpenTurn(r) PROVE Goal
  BY <1>0, <1>17 DEF OpenTurn, Begin, RowCause
<1>18. ASSUME NEW r \in Requests, NotFound(r) PROVE Goal
  BY <1>0, <1>18, <1>f, ZenonT(30) DEF NotFound, Begin
<1>19. ASSUME NEW r \in Requests, FlushAssistant(r) PROVE Goal
  BY <1>0, <1>19 DEF FlushAssistant, RowCause
<1>20. ASSUME NEW r \in Requests, CommitTurn(r) PROVE Goal
  BY <1>0, <1>20, <1>p DEF CommitTurn, Commit
<1>21. ASSUME NEW r \in Requests, CommitUnacknowledged(r) PROVE Goal
  BY <1>0, <1>21, <1>p DEF CommitUnacknowledged, Commit
<1>22. ASSUME NEW r \in Requests, DisconnectInCommit(r) PROVE Goal
  BY <1>0, <1>22, <1>f, <1>p DEF DisconnectInCommit
<1>23. CASE Restart
  BY <1>0, <1>23, <1>f DEF Restart
<1>24. CASE Reingest
  BY <1>0, <1>24, <1>f DEF Reingest, handlerVars
<1>25. CASE CacheExpires
  BY <1>0, <1>25, <1>f DEF CacheExpires, Expire, handlerVars
<1>26. CASE UNCHANGED vars
  BY <1>0, <1>26, <1>f DEF vars, handlerVars
<1> QED
  BY <1>1, <1>2, <1>3, <1>4, <1>5, <1>6, <1>7, <1>8, <1>9, <1>10, <1>11, <1>12, <1>13, <1>14,
     <1>15, <1>16, <1>17, <1>18, <1>19, <1>20, <1>21, <1>22, <1>23, <1>24, <1>25, <1>26
  DEF Next, HandlerStep, Failure, ProviderStreams

----------------------------------------------------------------------------
(* Sequence numbers.  SequenceOrder speaks of committed rows; a number is   *)
(* taken when a row is staged, so the order has to hold of those already.   *)

OrderedRows ==
    /\ \A m \in Rows : m.sequence < sequence
    /\ \A m, n \in Rows : m.sequence = n.sequence => m = n
    /\ \A m, n \in Rows :
          m.request = n.request /\ m.role = "user" /\ n.role = "assistant"
              => m.sequence < n.sequence
    /\ \A n \in Rows : \A m \in prompt[n.request].history : m.sequence < n.sequence
    /\ \A q \in Requests : prompt[q].history \subseteq messages

SequenceInv == AtomicInv /\ OrderedRows

\* What the window of a request is read from is committed, and numbered already.
LEMMA SequenceInit == Init => SequenceInv
<1> SUFFICES ASSUME Init PROVE OrderedRows
  BY AtomicInit DEF SequenceInv
<1>1. Rows = {}
  BY DEF Init, StoreInit, NoTx, Rows
<1>2. \A q \in Requests : prompt[q].history = {}
  BY DEF Init, NoPrompt
<1> QED
  BY <1>1, <1>2 DEF OrderedRows

LEMMA RowsTyped ==
    ASSUME AtomicInv
    PROVE  Rows \subseteq MessageRows /\ sequence \in Nat
<1>1. messages \subseteq MessageRows /\ \A q \in Requests : tx[q].messages \subseteq MessageRows
  BY DEF AtomicInv, TypeInv, TypeOK, StoreTypeOK, Sessions
<1> QED
  BY <1>1 DEF Rows, AtomicInv, TypeInv, TypeOK, StoreTypeOK

\* The rows of a request are its own session's and the committed ones.
LEMMA RowsOfRequest ==
    ASSUME AtomicInv, NEW n \in Rows
    PROVE  n.role \in RolesOf(n.request) \/ (n \in tx[n.request].messages /\ tx[n.request].open)
<1>1. CASE n \in messages
  BY <1>1 DEF RolesOf
<1>2. ASSUME NEW q \in Requests, n \in tx[q].messages
      PROVE  n.request = q /\ tx[q].open
  BY <1>2 DEF AtomicInv, SessionDiscipline, OwnSession, NoTx
<1> QED
  BY <1>1, <1>2 DEF Rows

\* A step that flushes nothing keeps the order of what there is.
LEMMA OrderKept ==
    ASSUME SequenceInv, FlushesNothing, UNCHANGED prompt
    PROVE  OrderedRows'
BY FlushesNothingStep DEF SequenceInv, OrderedRows, FlushesNothing

\* A flush takes the next number, for a row that no other of its turn has to follow.
LEMMA OrderExtended ==
    ASSUME SequenceInv, NEW row \in MessageRows, row.sequence = sequence,
           sequence' = sequence + 1, Rows' \subseteq Rows \cup {row},
           UNCHANGED <<messages, prompt>>,
           row.role = "user" => \A n \in Rows : n.request # row.request
    PROVE  OrderedRows'
<1>1. Rows \subseteq MessageRows /\ sequence \in Nat
  BY RowsTyped DEF SequenceInv
<1>2. \A m \in Rows : m.sequence \in Nat /\ m.sequence < sequence
  BY <1>1 DEF SequenceInv, OrderedRows, MessageRows
<1>3. \A m \in Rows' : m.sequence < sequence'
  BY <1>1, <1>2
<1>4. \A m, n \in Rows' : m.sequence = n.sequence => m = n
  BY <1>1, <1>2 DEF SequenceInv, OrderedRows
<1>5. ASSUME NEW m \in Rows', NEW n \in Rows',
             m.request = n.request, m.role = "user", n.role = "assistant"
      PROVE  m.sequence < n.sequence
  <2>1. CASE m \in Rows /\ n \in Rows
    BY <1>5, <2>1 DEF SequenceInv, OrderedRows
  <2>2. CASE m \in Rows /\ n = row
    BY <1>2, <2>2
  <2>3. CASE m = row /\ n \in Rows
    BY <1>5, <2>3
  <2>4. CASE m = row /\ n = row
    BY <1>5, <2>4
  <2> QED
    BY <2>1, <2>2, <2>3, <2>4
<1>6. \A q \in Requests : \A m \in prompt[q].history : m \in Rows
  BY DEF SequenceInv, OrderedRows, Rows
<1>7. row.request \in Requests
  BY DEF MessageRows
<1>8. \A n \in Rows' : \A m \in prompt'[n.request].history : m.sequence < n.sequence
  BY <1>2, <1>6, <1>7 DEF SequenceInv, OrderedRows
<1> QED
  BY <1>3, <1>4, <1>5, <1>8 DEF OrderedRows, SequenceInv

\* A prompt is read before its turn has a row.
LEMMA ReadContextOrder ==
    ASSUME SequenceInv, NEW r \in Requests, ReadContext(r)
    PROVE  OrderedRows'
<1>1. prompt \in [Requests -> Prompts]
  BY DEF SequenceInv, AtomicInv, TypeInv, TypeOK
<1>2. UNCHANGED <<messages, tx, sequence>>
  BY DEF ReadContext, storeVars
<1>3. Rows' = Rows
  BY <1>2 DEF Rows
<1>4. \A q \in Requests \ {r} : prompt'[q] = prompt[q]
  BY <1>1 DEF ReadContext
<1>5. prompt'[r].history \subseteq messages
  BY <1>1, HistoryIsCommitted DEF ReadContext
<1>6. \A n \in Rows : n.request # r
  BY RowsOfRequest DEF SequenceInv, AtomicInv, SessionDiscipline, ReadContext
<1>7. \A n \in Rows : n.request \in Requests
  BY RowsTyped DEF SequenceInv, MessageRows
<1> QED
  BY <1>2, <1>3, <1>4, <1>5, <1>6, <1>7 DEF SequenceInv, OrderedRows

LEMMA OpenTurnRow ==
    ASSUME AtomicInv, NEW r \in Requests, OpenTurn(r)
    PROVE  LET row == MessageRow(r, rq[r].conversation, rq[r].tenant, "user", rq[r].message)
           IN  /\ Rows' \subseteq Rows \cup {row}
               /\ \A q \in Requests : tx'[q].messages \subseteq tx[q].messages \cup {row}
               /\ row \in MessageRows
               /\ \A n \in Rows : n.request # r
<1> DEFINE row == MessageRow(r, rq[r].conversation, rq[r].tenant, "user", rq[r].message)
<1>1. tx \in [Requests -> Sessions] /\ rq \in [Requests -> Params]
  BY DEF AtomicInv, TypeInv, TypeOK, StoreTypeOK
<1>2. tx'[r].messages = {row}
  BY <1>1 DEF OpenTurn, Begin, NoTx
<1>3. \A q \in Requests \ {r} : tx'[q] = tx[q]
  BY <1>1 DEF OpenTurn, Begin
<1>4. Rows' \subseteq Rows \cup {row}
  BY <1>2, <1>3 DEF Rows, OpenTurn, tables
<1>5. row \in MessageRows
  BY <1>1, RowTyped DEF Params, Roles, AtomicInv, TypeInv
<1>6. \A n \in Rows : n.request # r
  BY RowsOfRequest DEF AtomicInv, SessionDiscipline, OpenTurn
<1> QED
  BY <1>2, <1>3, <1>4, <1>5, <1>6

LEMMA FlushAssistantRow ==
    ASSUME AtomicInv, NEW r \in Requests, FlushAssistant(r)
    PROVE  LET row == AssistantRow(r)
           IN  /\ Rows' \subseteq Rows \cup {row}
               /\ \A q \in Requests : tx'[q].messages \subseteq tx[q].messages \cup {row}
               /\ row \in MessageRows
               /\ \A n \in Rows : n.request = r => n.role = "user"
<1>1. tx \in [Requests -> Sessions] /\ pc \in [Requests -> Points]
  BY DEF AtomicInv, TypeInv, TypeOK, StoreTypeOK
<1>2. PICK usage \in {{}, {[request |-> r, status |-> "success", message |-> "assistant"]}} :
        Stage(r, {AssistantRow(r)}, usage)
  BY DEF FlushAssistant
<1>3. tx'[r].messages = tx[r].messages \cup {AssistantRow(r)}
  BY <1>1, <1>2 DEF Stage, Sessions
<1>4. \A q \in Requests \ {r} : tx'[q] = tx[q]
  BY <1>1, <1>2 DEF Stage
<1>5. Rows' \subseteq Rows \cup {AssistantRow(r)}
  BY <1>3, <1>4 DEF Rows, FlushAssistant, tables
<1>6. AssistantRow(r) \in MessageRows
  BY RowTyped DEF AtomicInv, TypeInv, ReplyReady, FlushAssistant, AssistantRow, Roles
<1>7. RolesOf(r) = {} /\ StagedRoles(r) = {"user"}
  BY DEF AtomicInv, SessionDiscipline, FlushAssistant
<1>8. ASSUME NEW n \in Rows, n.request = r PROVE n.role = "user"
  <2>1. n.role \in RolesOf(r) \/ n \in tx[r].messages
    BY <1>8, RowsOfRequest
  <2> QED
    BY <1>7, <2>1 DEF StagedRoles
<1> QED
  BY <1>3, <1>4, <1>5, <1>6, <1>8

LEMMA SequenceNext == SequenceInv /\ [Next]_vars => SequenceInv'
<1> SUFFICES ASSUME SequenceInv, [Next]_vars PROVE OrderedRows'
  BY AtomicNext DEF SequenceInv
<1>1. AtomicInv /\ RowCause /\ \A q \in Requests : Causes(q)
  BY StepCauses DEF SequenceInv
<1>2. CASE \E r \in Requests : ReadContext(r)
  BY <1>2, ReadContextOrder
<1>3. CASE \E r \in Requests : OpenTurn(r)
  <2>1. PICK r \in Requests : OpenTurn(r)
    BY <1>3
  <2> DEFINE row == MessageRow(r, rq[r].conversation, rq[r].tenant, "user", rq[r].message)
  <2>2. /\ Rows' \subseteq Rows \cup {row} /\ row \in MessageRows
        /\ \A n \in Rows : n.request # r
    BY <1>1, <2>1, OpenTurnRow
  <2>3. row.sequence = sequence /\ row.request = r
    BY DEF MessageRow
  <2>4. sequence' = sequence + 1 /\ UNCHANGED <<messages, prompt>>
    BY <2>1 DEF OpenTurn, tables
  <2> HIDE DEF row
  <2> QED
    BY <2>2, <2>3, <2>4, OrderExtended
<1>4. CASE \E r \in Requests : FlushAssistant(r)
  <2>1. PICK r \in Requests : FlushAssistant(r)
    BY <1>4
  <2>2. Rows' \subseteq Rows \cup {AssistantRow(r)} /\ AssistantRow(r) \in MessageRows
    BY <1>1, <2>1, FlushAssistantRow
  <2>3. AssistantRow(r).sequence = sequence /\ AssistantRow(r).role = "assistant"
    BY DEF AssistantRow, MessageRow
  <2>4. sequence' = sequence + 1 /\ UNCHANGED <<messages, prompt>>
    BY <2>1 DEF FlushAssistant, tables
  <2> QED
    BY <2>2, <2>3, <2>4, OrderExtended
<1>5. CASE FlushesNothing /\ ~(\E r \in Requests : ReadContext(r))
  <2>1. \A q \in Requests : prompt'[q] = prompt[q]
    BY <1>1, <1>5 DEF Causes
  <2>2. UNCHANGED prompt
    BY <1>1, <2>1, TypeNext DEF AtomicInv, TypeInv, TypeOK
  <2> QED
    BY <1>5, <2>2, OrderKept
<1> QED
  BY <1>1, <1>2, <1>3, <1>4, <1>5 DEF RowCause

\* sequence orders the rows of any number of concurrent turns: no two share a number, a
\* question comes before its answer and after the history its turn was generated from.
THEOREM OrderedSequence == Spec => []SequenceOrder
<1>1. SequenceInv /\ [Next]_vars => SequenceInv'
  BY SequenceNext
<1>2. SequenceInv => SequenceOrder
  BY DEF SequenceInv, OrderedRows, Rows, SequenceOrder
<1> QED
  BY <1>1, <1>2, SequenceInit, PTL DEF Spec

----------------------------------------------------------------------------
(* Replies.  A reply is matched to the prompt it was generated for when the *)
(* handler takes it, not when its row commits; an entry of the cache is one *)
(* generated without evidence, and may be hit without evidence only.        *)

SameQuestion(q, r) ==
    /\ rq[q].tenant = rq[r].tenant
    /\ rq[q].message = rq[r].message
    /\ Fingerprint(prompt[q].history) = Fingerprint(prompt[r].history)
    /\ prompt[q].evidence = prompt[r].evidence

Matching(q, r) == q \in Requests /\ Settled(q) /\ Settled(r) /\ SameQuestion(q, r)

MatchedReplies ==
    /\ \A m \in Rows : m.role = "assistant" => Matching(m.content, m.request)
    /\ \A r \in Requests : HasReply(r) => Matching(reply[r], r)
    /\ \A e \in cache :
          /\ e.reply \in Requests /\ Settled(e.reply)
          /\ e.key = Key(e.reply) /\ prompt[e.reply].evidence = 0
    /\ \A r \in Requests : Working(r) /\ ~augmented => prompt[r].evidence = 0

ReplyInv == AtomicInv /\ MatchedReplies

LEMMA ReplyInit == Init => ReplyInv
<1> SUFFICES ASSUME Init PROVE MatchedReplies
  BY AtomicInit DEF ReplyInv
<1>1. Rows = {}
  BY DEF Init, StoreInit, NoTx, Rows
<1> QED
  BY <1>1 DEF Init, CacheInit, MatchedReplies, HasReply, Working

\* What a request asked does not change once it is settled, so a match lasts.
LEMMA MatchingKept ==
    ASSUME \A q \in Requests : Causes(q), NEW q \in Requests, NEW r \in Requests, Matching(q, r)
    PROVE  Matching(q, r)'
BY DEF Causes, Matching, SameQuestion

\* A reply is its own match, and a hit of the cache is one as long as neither side had evidence.
LEMMA TakenReplyMatches ==
    ASSUME ReplyInv, [Next]_vars, NEW r \in Requests,
           StreamFinishes(r) \/ CacheHit(r) \/ ProviderAnswers(r)
    PROVE  Matching(reply'[r], r)
<1>1. reply \in [Requests -> Requests \cup {None}]
  BY DEF ReplyInv, AtomicInv, TypeInv, TypeOK
<1>2. Settled(r) /\ Working(r)
  BY DEF StreamFinishes, CacheHit, ProviderAnswers, Settled, Working
<1>3. CASE StreamFinishes(r) \/ ProviderAnswers(r)
  <2>1. reply'[r] = r
    BY <1>1, <1>3 DEF StreamFinishes, ProviderAnswers
  <2> QED
    BY <1>2, <2>1 DEF Matching, SameQuestion
<1>4. CASE CacheHit(r)
  <2>1. PICK e \in Hits(Key(r)) : reply' = [reply EXCEPT ![r] = e.reply]
    BY <1>4 DEF CacheHit
  <2>2. e \in cache /\ e.key = Key(r) /\ reply'[r] = e.reply
    BY <1>1, <2>1 DEF Hits
  <2>3. /\ e.reply \in Requests /\ Settled(e.reply)
        /\ Key(e.reply) = Key(r) /\ prompt[e.reply].evidence = 0
    BY <2>2 DEF ReplyInv, MatchedReplies
  <2>4. prompt[r].evidence = 0
    BY <1>2, <1>4 DEF ReplyInv, MatchedReplies, CacheHit
  <2> QED
    BY <1>2, <2>2, <2>3, <2>4 DEF Matching, SameQuestion, Key, CacheKey
<1> QED
  BY <1>3, <1>4

\* An entry is stored with the key of the request that generated its reply.
LEMMA StoredEntryMatches ==
    ASSUME ReplyInv, NEW r \in Requests, StoreReply(r), NEW e \in cache', e \notin cache
    PROVE  e.reply = r /\ e.key = Key(r) /\ Settled(r) /\ prompt[r].evidence = 0
<1>1. reply[r] = r /\ ~augmented /\ Store(Key(r), reply[r])
  BY DEF StoreReply
<1>2. e = [key |-> Key(r), reply |-> r]
  BY <1>1 DEF Store, Hits
<1>3. Settled(r) /\ Working(r)
  BY DEF StoreReply, Settled, Working
<1> QED
  BY <1>1, <1>2, <1>3 DEF ReplyInv, MatchedReplies

LEMMA ReadEvidence ==
    ASSUME AtomicInv, NEW r \in Requests, ReadContext(r)
    PROVE  UNCHANGED augmented /\ (~augmented => prompt'[r].evidence = 0)
<1>1. prompt \in [Requests -> Prompts]
  BY DEF AtomicInv, TypeInv, TypeOK
<1> QED
  BY <1>1 DEF ReadContext, deployVars

LEMMA ReplyNext == ReplyInv /\ [Next]_vars => ReplyInv'
<1> SUFFICES ASSUME ReplyInv, [Next]_vars PROVE MatchedReplies'
  BY AtomicNext DEF ReplyInv
<1>1. AtomicInv /\ CacheCause /\ RowCause /\ \A q \in Requests : Causes(q)
  BY StepCauses DEF ReplyInv
<1>2. ASSUME NEW m \in Rows', m.role = "assistant" PROVE Matching(m.content, m.request)'
  <2>1. ASSUME m \in Rows PROVE Matching(m.content, m.request)'
    <3>1. Matching(m.content, m.request) /\ m.content \in Requests /\ m.request \in Requests
      BY <1>1, <1>2, <2>1, RowsTyped DEF ReplyInv, MatchedReplies, Matching, MessageRows
    <3> QED
      BY <1>1, <3>1, MatchingKept
  <2>2. ASSUME NEW r \in Requests, OpenTurn(r), m \notin Rows PROVE FALSE
    <3> DEFINE row == MessageRow(r, rq[r].conversation, rq[r].tenant, "user", rq[r].message)
    <3>1. Rows' \subseteq Rows \cup {row}
      BY <1>1, <2>2, OpenTurnRow
    <3>2. row.role = "user"
      BY DEF MessageRow
    <3> QED
      BY <1>2, <2>2, <3>1, <3>2
  <2>3. ASSUME NEW r \in Requests, FlushAssistant(r), m \notin Rows
        PROVE  Matching(m.content, m.request)'
    <3>1. m = AssistantRow(r)
      BY <1>1, <2>3, FlushAssistantRow
    <3>2. m.content = reply[r] /\ m.request = r
      BY <3>1 DEF AssistantRow, MessageRow
    <3>3. Matching(m.content, r)
      BY <2>3, <3>2 DEF ReplyInv, MatchedReplies, HasReply, FlushAssistant
    <3>4. m.content \in Requests
      BY <3>3 DEF Matching
    <3> QED
      BY <1>1, <3>2, <3>3, <3>4, MatchingKept
  <2> QED
    BY <1>1, <2>1, <2>2, <2>3, FlushesNothingStep DEF RowCause
<1>3. ASSUME NEW r \in Requests, HasReply(r)' PROVE Matching(reply[r], r)'
  <2>1. CASE HasReply(r) /\ reply'[r] = reply[r]
    <3>1. PICK q \in Requests : q = reply[r] /\ Matching(q, r)
      BY <2>1 DEF ReplyInv, MatchedReplies, Matching
    <3>2. Matching(q, r)'
      BY <1>1, <3>1, MatchingKept
    <3> QED
      BY <2>1, <3>1, <3>2 DEF Matching, SameQuestion
  <2>2. CASE StreamFinishes(r) \/ CacheHit(r) \/ ProviderAnswers(r)
    BY <1>1, <2>2, TakenReplyMatches DEF Causes, Matching, SameQuestion
  <2> QED
    BY <1>1, <1>3, <2>1, <2>2 DEF Causes
<1>4. ASSUME NEW e \in cache'
      PROVE  /\ e.reply \in Requests /\ Settled(e.reply)'
             /\ e.key = Key(e.reply)' /\ prompt'[e.reply].evidence = 0
  <2>1. /\ e.reply \in Requests /\ Settled(e.reply)
        /\ e.key = Key(e.reply) /\ prompt[e.reply].evidence = 0
    BY <1>1, StoredEntryMatches DEF CacheCause, ReplyInv, MatchedReplies
  <2> QED
    BY <1>1, <2>1 DEF Causes, Key
<1>5. ASSUME NEW r \in Requests, Working(r)', ~augmented' PROVE prompt'[r].evidence = 0
  <2>1. CASE Working(r) /\ augmented' = augmented
    BY <1>1, <1>5, <2>1 DEF Causes, Working, Settled, ReplyInv, MatchedReplies
  <2>2. CASE ReadContext(r)
    BY <1>1, <1>5, <2>2, ReadEvidence
  <2> QED
    BY <1>1, <1>5, <2>1, <2>2 DEF Causes
<1> QED
  BY <1>2, <1>3, <1>4, <1>5 DEF MatchedReplies

\* Every reply in the tables was generated for the tenant, the messages and the evidence of
\* the turn it is in, whatever the cache held, expired or outlived.
THEOREM MatchingReplies == Spec => []RepliesMatchPrompts
<1>1. ReplyInv /\ [Next]_vars => ReplyInv'
  BY ReplyNext
<1>2. ReplyInv => RepliesMatchPrompts
  BY DEF ReplyInv, MatchedReplies, Rows, Matching, SameQuestion, RepliesMatchPrompts
<1> QED
  BY <1>1, <1>2, ReplyInit, PTL DEF Spec

----------------------------------------------------------------------------
(* Whole turns.  The rows of one conversation are a line of turns, question *)
(* and answer next to each other, when its clients wait for the answer; the *)
(* windows that are cut out of such a line never cut a turn in two.         *)

OfTurn(rows, q) == {m \in rows : m.request = q}
WholeTurns(rows) == \A m \in rows : {x.role : x \in OfTurn(rows, m.request)} = Roles

\* Rows in sequence order: a question before its answer, and no row of another turn between.
Lined(rows) ==
    /\ rows \subseteq MessageRows /\ IsFiniteSet(rows)
    /\ \A m, n \in rows : m.sequence = n.sequence => m = n
    /\ \A m, n \in rows : m.request = n.request /\ m.role = n.role => m = n
    /\ \A m, n \in rows :
          m.request = n.request /\ m.role = "user" /\ n.role = "assistant"
              => m.sequence < n.sequence
    /\ \A m, n, x \in rows :
          m.request = n.request /\ x.request # m.request
              => ~(m.sequence < x.sequence /\ x.sequence < n.sequence)

After(rows, m) == {x \in rows : x.sequence > m.sequence}

LEMMA LinedSubset ==
    ASSUME NEW rows, Lined(rows), NEW part \in SUBSET rows
    PROVE  Lined(part)
<1>1. IsFiniteSet(part)
  BY FS_Subset DEF Lined
<1> QED
  BY <1>1 DEF Lined

\* The question and the answer of a turn that is whole.
LEMMA TurnOf ==
    ASSUME NEW rows, WholeTurns(rows), NEW m \in rows
    PROVE  \E u, a \in rows :
              /\ u.request = m.request /\ u.role = "user"
              /\ a.request = m.request /\ a.role = "assistant"
<1>1. "user" \in {x.role : x \in OfTurn(rows, m.request)}
  BY DEF WholeTurns, Roles
<1>2. "assistant" \in {x.role : x \in OfTurn(rows, m.request)}
  BY DEF WholeTurns, Roles
<1> QED
  BY <1>1, <1>2 DEF OfTurn

LEMMA WholeWhenPaired ==
    ASSUME NEW rows, rows \subseteq MessageRows,
           \A m \in rows : \E u, a \in rows :
              /\ u.request = m.request /\ u.role = "user"
              /\ a.request = m.request /\ a.role = "assistant"
    PROVE  WholeTurns(rows)
<1> SUFFICES ASSUME NEW m \in rows
             PROVE  {x.role : x \in OfTurn(rows, m.request)} = Roles
  BY DEF WholeTurns
<1>1. {x.role : x \in OfTurn(rows, m.request)} \subseteq Roles
  BY DEF MessageRows, OfTurn
<1>2. PICK u, a \in OfTurn(rows, m.request) : u.role = "user" /\ a.role = "assistant"
  BY DEF OfTurn
<1>3. u.role \in {x.role : x \in OfTurn(rows, m.request)}
  BY <1>2
<1>4. a.role \in {x.role : x \in OfTurn(rows, m.request)}
  BY <1>2
<1> DEFINE roles == {x.role : x \in OfTurn(rows, m.request)}
<1>5. "user" \in roles /\ "assistant" \in roles /\ roles \subseteq Roles
  BY <1>1, <1>2, <1>3, <1>4
<1>6. roles = Roles
  <2> HIDE DEF roles
  <2> QED
    BY <1>5 DEF Roles
<1> QED
  BY <1>6

\* The newest rows are all those from some point on.
LEMMA NewestIsUpClosed ==
    ASSUME NEW rows, Lined(rows), NEW n, n \in Int,
           NEW m \in Newest(rows, n), NEW x \in rows, x.sequence >= m.sequence
    PROVE  x \in Newest(rows, n)
<1>1. m \in rows /\ Cardinality(After(rows, m)) < n
  BY DEF Newest, After
<1>2. m.sequence \in Nat /\ x.sequence \in Nat /\ \A y \in rows : y.sequence \in Nat
  BY <1>1 DEF Lined, MessageRows
<1>3. After(rows, x) \subseteq After(rows, m)
  BY <1>2 DEF After
<1>4. IsFiniteSet(After(rows, m))
  BY FS_Subset DEF Lined, After
<1>5. Cardinality(After(rows, x)) <= Cardinality(After(rows, m))
  BY <1>3, <1>4, FS_Subset
<1>6. Cardinality(After(rows, x)) \in Nat /\ Cardinality(After(rows, m)) \in Nat
  BY <1>3, <1>4, FS_Subset, FS_CardinalityType
<1> QED
  BY <1>1, <1>5, <1>6 DEF Newest, After

\* group_turns pairs a question with its own answer.
LEMMA TurnsAreTurns ==
    ASSUME NEW rows, Lined(rows), WholeTurns(rows), NEW n \in Int,
           NEW t \in Turns(Newest(rows, n))
    PROVE  t[1].request = t[2].request /\ t[1] \in rows /\ t[2] \in rows
<1> DEFINE read == Newest(rows, n)
<1>1. /\ t[1] \in read /\ t[1].role = "user"
      /\ t[2] \in read /\ t[2].role = "assistant"
      /\ Follows(read, t[2], t[1])
  BY DEF Turns
<1>2. read \subseteq rows
  BY DEF Newest
<1>3. PICK a \in rows : a.request = t[1].request /\ a.role = "assistant"
  BY <1>1, <1>2, TurnOf, ZenonT(30)
<1>4. t[1].sequence < a.sequence
  BY <1>1, <1>2, <1>3 DEF Lined
<1>5. /\ t[1].sequence \in Nat /\ t[2].sequence \in Nat /\ a.sequence \in Nat
  BY <1>1, <1>2, <1>3 DEF Lined, MessageRows
<1>6. a \in read
  BY <1>1, <1>3, <1>4, <1>5, NewestIsUpClosed
<1>7. t[1].sequence < t[2].sequence /\ ~(a.sequence < t[2].sequence)
  BY <1>1, <1>4, <1>5, <1>6 DEF Follows
<1>8. CASE a.sequence = t[2].sequence
  BY <1>1, <1>2, <1>3, <1>8 DEF Lined
<1>9. CASE t[2].sequence < a.sequence
  BY <1>1, <1>2, <1>3, <1>7, <1>9 DEF Lined
<1> QED
  BY <1>1, <1>2, <1>5, <1>7, <1>8, <1>9

LEMMA WindowIsWhole ==
    ASSUME NEW rows, Lined(rows), WholeTurns(rows)
    PROVE  WholeTurns(MaterializedWindow(rows))
<1> DEFINE read == Newest(rows, MaxRows)
           kept == {t \in Turns(read) : t[2] \in Newest(read, MaxMessages)}
           window == MaterializedWindow(rows)
<1>1. window = {t[1] : t \in kept} \cup {t[2] : t \in kept}
  BY DEF MaterializedWindow
<1>2. MaxRows \in Int
  BY WindowBounds
<1>3. \A t \in kept : /\ t[1].request = t[2].request
                     /\ t[1].role = "user" /\ t[2].role = "assistant"
                     /\ t[1] \in rows /\ t[2] \in rows
  BY <1>2, TurnsAreTurns DEF Turns
<1>4. ASSUME NEW m \in window
      PROVE  \E u, a \in window : /\ u.request = m.request /\ u.role = "user"
                                 /\ a.request = m.request /\ a.role = "assistant"
  <2>1. PICK t \in kept : m = t[1] \/ m = t[2]
    BY <1>1
  <2>2. t[1] \in window /\ t[2] \in window
    BY <1>1
  <2> QED
    BY <1>3, <2>1, <2>2
<1>5. window \subseteq MessageRows
  BY <1>1, <1>3 DEF Lined
<1>6. WholeTurns(window)
  <2> HIDE DEF window
  <2> QED
    BY <1>4, <1>5, WholeWhenPaired
<1> QED
  BY <1>6

\* A set of whole turns has as many questions as answers.
LEMMA WholeTurnsAreEven ==
    ASSUME NEW rows, Lined(rows), WholeTurns(rows)
    PROVE  \E k \in Nat : Cardinality(rows) = 2 * k
<1> DEFINE users == {m \in rows : m.role = "user"}
           answers == {m \in rows : m.role = "assistant"}
           answerOf == [u \in users |-> CHOOSE a \in answers : a.request = u.request]
<1>1. rows = users \cup answers /\ users \cap answers = {}
  BY DEF Lined, MessageRows, Roles
<1>2. ASSUME NEW u \in users
      PROVE  answerOf[u] \in answers /\ answerOf[u].request = u.request
  <2>1. \E a \in answers : a.request = u.request
    BY TurnOf
  <2> QED
    BY <2>1
<1>3. answerOf \in Bijection(users, answers)
  <2>1. answerOf \in [users -> answers]
    BY <1>2
  <2>2. ASSUME NEW u \in users, NEW v \in users, answerOf[u] = answerOf[v] PROVE u = v
    <3>1. u.request = v.request
      BY <1>2, <2>2
    <3> QED
      BY <3>1 DEF Lined
  <2>3. ASSUME NEW a \in answers PROVE \E u \in users : answerOf[u] = a
    <3>1. PICK u \in users : u.request = a.request
      BY TurnOf
    <3>2. answerOf[u] \in answers /\ answerOf[u].request = a.request
      BY <1>2, <3>1
    <3> HIDE DEF answerOf
    <3> QED
      BY <3>1, <3>2 DEF Lined
  <2> HIDE DEF users, answers, answerOf
  <2> QED
    BY <2>1, <2>2, <2>3 DEF Bijection, Injection, Surjection, IsInjective
<1>4. IsFiniteSet(users) /\ IsFiniteSet(answers)
  BY FS_Subset DEF Lined
<1>5. Cardinality(answers) = Cardinality(users) /\ Cardinality(users) \in Nat
  <2> HIDE DEF users, answers, answerOf
  <2> QED
    BY <1>3, <1>4, FS_Bijection, FS_CardinalityType DEF ExistsBijection
<1>6. Cardinality(rows) =
         Cardinality(users) + Cardinality(answers) - Cardinality(users \cap answers)
  <2> HIDE DEF users, answers
  <2> QED
    BY <1>1, <1>4, FS_Union
<1>7. Cardinality(rows) = 2 * Cardinality(users)
  <2>1. Cardinality(users \cap answers) = 0
    BY <1>1, FS_EmptySet
  <2> HIDE DEF users, answers, answerOf
  <2> QED
    BY <1>5, <1>6, <2>1
<1> QED
  BY <1>5, <1>7

\* What comes after an answer is whole turns, and only the answer comes between.
LEMMA AfterAnswer ==
    ASSUME NEW rows, Lined(rows), WholeTurns(rows), NEW u \in rows, NEW a \in rows,
           u.request = a.request, u.role = "user", a.role = "assistant"
    PROVE  /\ WholeTurns(After(rows, a))
           /\ After(rows, u) = After(rows, a) \cup {a}
<1> DEFINE rest == After(rows, a)
<1>1. u.sequence < a.sequence /\ \A x \in rows : x.sequence \in Nat /\ x.role \in Roles
  BY DEF Lined, MessageRows
<1>2. \A x \in rows : x.request = a.request => x = u \/ x = a
  BY <1>1 DEF Lined, Roles
<1>3. ASSUME NEW m \in rest
      PROVE  \E v, b \in rest : /\ v.request = m.request /\ v.role = "user"
                               /\ b.request = m.request /\ b.role = "assistant"
  <2>1. m \in rows /\ a.sequence < m.sequence
    BY <1>1 DEF After
  <2>2. m.request # a.request
    BY <1>1, <1>2, <2>1
  <2>3. PICK v, b \in rows : /\ v.request = m.request /\ v.role = "user"
                             /\ b.request = m.request /\ b.role = "assistant"
    BY <2>1, TurnOf
  <2>4. v.sequence < b.sequence /\ (m = v \/ m = b)
    BY <1>1, <2>1, <2>3 DEF Lined, Roles
  <2>5. a.sequence < v.sequence
    <3>1. v.sequence # a.sequence
      BY <2>2, <2>3 DEF Lined
    <3>2. ~(v.sequence < a.sequence /\ a.sequence < m.sequence)
      BY <2>1, <2>2, <2>3 DEF Lined
    <3> QED
      BY <1>1, <2>1, <2>3, <3>1, <3>2
  <2> QED
    BY <1>1, <2>3, <2>4, <2>5 DEF After
<1>4. WholeTurns(rest)
  <2>1. rest \subseteq MessageRows
    BY DEF After, Lined
  <2> HIDE DEF rest
  <2> QED
    BY <1>3, <2>1, WholeWhenPaired
<1>5. ASSUME NEW x \in rows, x.sequence > u.sequence PROVE x \in rest \cup {a}
  <2>1. CASE x.request = a.request
    BY <1>1, <1>2, <1>5, <2>1
  <2>2. CASE x.request # a.request
    <3>1. ~(u.sequence < x.sequence /\ x.sequence < a.sequence)
      BY <2>2 DEF Lined
    <3>2. x.sequence # a.sequence
      BY <2>2 DEF Lined
    <3> QED
      BY <1>1, <1>5, <3>1, <3>2 DEF After
  <2> QED
    BY <2>1, <2>2
<1>6. After(rows, u) = rest \cup {a}
  BY <1>1, <1>5 DEF After
<1> QED
  BY <1>4, <1>6

\* The character bounds drop rows two at a time, so they drop whole turns.
LEMMA NewestTurnsAreWhole ==
    ASSUME NEW rows, Lined(rows), WholeTurns(rows), NEW part \in NewestTurns(rows)
    PROVE  WholeTurns(part)
<1>1. CASE part = {}
  BY <1>1 DEF WholeTurns
<1>2. ASSUME NEW k \in 0..(Cardinality(rows) \div 2),
             part = Newest(rows, Cardinality(rows) - 2 * k)
      PROVE  WholeTurns(part)
  <2> DEFINE n == Cardinality(rows) - 2 * k
  <2>1. PICK half \in Nat : Cardinality(rows) = 2 * half
    BY WholeTurnsAreEven
  <2>2. k \in Int /\ n = 2 * (half - k) /\ n \in Int
    BY <2>1
  <2>3. part \subseteq rows
    BY <1>2 DEF Newest
  <2>4. ASSUME NEW m \in part
        PROVE  \E u, a \in part : /\ u.request = m.request /\ u.role = "user"
                                 /\ a.request = m.request /\ a.role = "assistant"
    <3>1. PICK u, a \in rows : /\ u.request = m.request /\ u.role = "user"
                               /\ a.request = m.request /\ a.role = "assistant"
      BY <2>3, TurnOf
    <3>2. u.sequence \in Nat /\ a.sequence \in Nat /\ u.sequence < a.sequence
      BY <3>1 DEF Lined, MessageRows
    <3>3. m = u \/ m = a
      BY <2>3, <3>1 DEF Lined, MessageRows, Roles
    <3>4. a \in part
      BY <1>2, <2>2, <3>2, <3>3, NewestIsUpClosed
    <3>5. WholeTurns(After(rows, a)) /\ After(rows, u) = After(rows, a) \cup {a}
      BY <3>1, AfterAnswer
    <3>6. Lined(After(rows, a))
      BY LinedSubset DEF After
    <3>7. PICK j \in Nat : Cardinality(After(rows, a)) = 2 * j
      BY <3>5, <3>6, WholeTurnsAreEven
    <3>8. Cardinality(After(rows, u)) = 2 * j + 1
      <4>1. a \notin After(rows, a) /\ IsFiniteSet(After(rows, a))
        BY <3>2, <3>6 DEF After, Lined
      <4> QED
        BY <3>5, <3>7, <4>1, FS_AddElement
    <3>9. 2 * j < n
      BY <1>2, <3>4, <3>7 DEF Newest, After
    <3>10. 2 * j + 1 < n
      BY <2>2, <3>9
    <3>11. u \in part
      BY <1>2, <3>1, <3>8, <3>10 DEF Newest, After
    <3> QED
      BY <3>1, <3>4, <3>11
  <2>5. part \subseteq MessageRows
    BY <2>3 DEF Lined
  <2> QED
    BY <2>4, <2>5, WholeWhenPaired
<1> QED
  BY <1>1, <1>2 DEF NewestTurns

\* With clients that wait, at most one request of a conversation is in progress, and its rows
\* are the last of the conversation.
SerialRows ==
    /\ IsFiniteSet(messages) /\ \A q \in Requests : IsFiniteSet(tx[q].messages)
    /\ \A n \in Rows : /\ Settled(n.request)
                       /\ n.conversation = rq[n.request].conversation
                       /\ n.tenant = rq[n.request].tenant
    /\ \A m, n \in Rows : m.request = n.request /\ m.role = n.role => m = n
    /\ \A q, r \in Requests :
          Busy(q) /\ Busy(r) /\ rq[q].conversation = rq[r].conversation => q = r
    /\ \A m, n, x \in Rows :
          m.request = n.request /\ x.request # m.request /\ x.conversation = m.conversation
              => ~(m.sequence < x.sequence /\ x.sequence < n.sequence)
    /\ \A m, x \in Rows :
          Busy(m.request) /\ x.request # m.request /\ x.conversation = m.conversation
              => x.sequence < m.sequence
    /\ \A q \in Requests : WholeTurns(prompt[q].history)

SerialInv == SequenceInv /\ SerialRows

LEMMA SerialInit == Init => SerialInv
<1> SUFFICES ASSUME Init PROVE SerialRows
  BY SequenceInit DEF SerialInv
<1>1. Rows = {}
  BY DEF Init, StoreInit, NoTx, Rows
<1>2. \A q \in Requests : prompt[q].history = {} /\ tx[q].messages = {} /\ ~Busy(q)
  BY DEF Init, StoreInit, NoTx, NoPrompt, Busy
<1>3. IsFiniteSet({})
  BY FS_EmptySet
<1> QED
  BY <1>1, <1>2, <1>3 DEF SerialRows, WholeTurns, Init, StoreInit

\* What a request may read of its conversation is a line of whole turns.
RowsOf(c, t) == {m \in messages : m.conversation = c /\ m.tenant = t}

LEMMA ConversationIsLined ==
    ASSUME SerialInv, NEW c, NEW t
    PROVE  Lined(RowsOf(c, t)) /\ WholeTurns(RowsOf(c, t))
<1> DEFINE rows == RowsOf(c, t)
<1> USE DEF RowsOf
<1>1. rows \subseteq Rows /\ rows \subseteq messages /\ rows \subseteq MessageRows
  BY RowsTyped DEF Rows, SerialInv, SequenceInv
<1>2. IsFiniteSet(rows)
  BY <1>1, FS_Subset DEF SerialInv, SerialRows
<1>3. Lined(rows)
  BY <1>1, <1>2 DEF SerialInv, SerialRows, SequenceInv, OrderedRows, Lined
<1>4. ASSUME NEW m \in rows
      PROVE  \E u, a \in rows : /\ u.request = m.request /\ u.role = "user"
                               /\ a.request = m.request /\ a.role = "assistant"
  <2>1. m.request \in Requests /\ m.role \in RolesOf(m.request)
    BY <1>1 DEF RolesOf, MessageRows
  <2>2. RolesOf(m.request) = Roles
    BY <2>1 DEF SerialInv, SequenceInv, AtomicInv, TurnAtomicity
  <2>3. PICK u, a \in messages : /\ u.request = m.request /\ u.role = "user"
                                 /\ a.request = m.request /\ a.role = "assistant"
    BY <2>2 DEF RolesOf, Roles
  <2>4. \A x \in messages : x.request = m.request =>
           x.conversation = m.conversation /\ x.tenant = m.tenant
    BY <1>1 DEF SerialInv, SerialRows, Rows
  <2> QED
    BY <2>3, <2>4
<1>5. WholeTurns(rows)
  <2> HIDE DEF rows
  <2> QED
    BY <1>1, <1>4, WholeWhenPaired
<1> QED
  BY <1>3, <1>5

LEMMA HistoryIsWhole ==
    ASSUME SerialInv, NEW r \in Requests, NEW history \in NewestTurns(HistoryOf(r))
    PROVE  WholeTurns(history)
<1> DEFINE rows == RowsOf(rq[r].conversation, rq[r].tenant)
<1>1. Lined(rows) /\ WholeTurns(rows)
  BY ConversationIsLined
<1>2. Lined(HistoryOf(r)) /\ WholeTurns(HistoryOf(r))
  <2>1. CASE HistoryOf(r) = {}
    BY <2>1, FS_EmptySet DEF Lined, WholeTurns
  <2>2. CASE HistoryOf(r) = MaterializedWindow(rows)
    BY <1>1, <2>2, WindowIsSubset, WindowIsWhole, LinedSubset
  <2> QED
    BY <2>1, <2>2 DEF HistoryOf, RowsOf
<1> QED
  BY <1>2, NewestTurnsAreWhole

\* A client that waits posts to a conversation that nobody is working in.
LEMMA OneBusyRequest ==
    ASSUME serial, SerialInv, [Next]_vars, NEW q \in Requests, NEW r \in Requests,
           Busy(q)', Busy(r)', rq'[q].conversation = rq'[r].conversation
    PROVE  q = r
<1> SUFFICES ASSUME q # r PROVE FALSE
  OBVIOUS
<1>1. pc \in [Requests -> Points] /\ rq \in [Requests -> Params]
  BY DEF SerialInv, SequenceInv, AtomicInv, TypeInv, TypeOK
<1>2. ASSUME NEW s \in Requests, NEW t \in Requests, s # t, NEW p \in Params, Arrive(s, p),
             Busy(s)', Busy(t)', rq'[s].conversation = rq'[t].conversation
      PROVE  FALSE
  <2>1. rq'[s] = p /\ rq'[t] = rq[t] /\ pc'[t] = pc[t]
    BY <1>1, <1>2 DEF Arrive, Goto
  <2>2. pc[t] \in {"idle", "done"}
    BY <1>2, <2>1 DEF Arrive
  <2> QED
    BY <1>2, <2>1, <2>2 DEF Busy
<1>3. \A s \in Requests : Causes(s)
  BY StepCauses DEF SerialInv, SequenceInv
<1>4. CASE /\ Busy(q) /\ rq'[q] = rq[q]
           /\ Busy(r) /\ rq'[r] = rq[r]
  BY <1>4 DEF SerialInv, SerialRows
<1> QED
  BY <1>2, <1>3, <1>4 DEF Causes

\* The owner of a row keeps its parameters, and is busy only if it was.
LEMMA OwnersKept ==
    ASSUME SerialInv, [Next]_vars, NEW n \in Rows
    PROVE  /\ Settled(n.request)' /\ rq'[n.request] = rq[n.request]
           /\ Busy(n.request)' => Busy(n.request)
<1>1. n.request \in Requests /\ Settled(n.request)
  BY RowsTyped DEF SerialInv, SerialRows, SequenceInv, MessageRows
<1>2. Causes(n.request)
  BY <1>1, StepCauses DEF SerialInv, SequenceInv
<1> QED
  BY <1>1, <1>2 DEF Causes, Settled, Arrive

\* The rows of a step that flushes none, and of one that flushes a row of a busy request.
SerialLines ==
    /\ \A n \in Rows : /\ Settled(n.request)
                       /\ n.conversation = rq[n.request].conversation
                       /\ n.tenant = rq[n.request].tenant
    /\ \A m, n \in Rows : m.request = n.request /\ m.role = n.role => m = n
    /\ \A m, n, x \in Rows :
          m.request = n.request /\ x.request # m.request /\ x.conversation = m.conversation
              => ~(m.sequence < x.sequence /\ x.sequence < n.sequence)
    /\ \A m, x \in Rows :
          Busy(m.request) /\ x.request # m.request /\ x.conversation = m.conversation
              => x.sequence < m.sequence

LEMMA LinesKept ==
    ASSUME SerialInv, [Next]_vars, Rows' \subseteq Rows
    PROVE  SerialLines'
BY OwnersKept DEF SerialInv, SerialRows, SerialLines

LEMMA LinesExtended ==
    ASSUME SerialInv, [Next]_vars, NEW row \in MessageRows, Rows' \subseteq Rows \cup {row},
           row.sequence = sequence, Busy(row.request), Settled(row.request),
           row.conversation = rq[row.request].conversation,
           row.tenant = rq[row.request].tenant,
           \A n \in Rows : n.request = row.request => n.role # row.role
    PROVE  SerialLines'
<1> DEFINE r == row.request
<1>1. r \in Requests /\ Rows \subseteq MessageRows
  BY RowsTyped DEF MessageRows, SerialInv, SequenceInv
<1>2. \A m \in Rows : m.sequence \in Nat /\ m.sequence < row.sequence /\ row.sequence \in Nat
  BY <1>1 DEF SerialInv, SequenceInv, OrderedRows, MessageRows
<1>3. Settled(r)' /\ rq'[r] = rq[r]
  BY <1>1, StepCauses DEF SerialInv, SequenceInv, Causes
<1>4. \A n \in Rows : /\ Settled(n.request)' /\ rq'[n.request] = rq[n.request]
                      /\ Busy(n.request)' => Busy(n.request)
  BY OwnersKept
<1>5. \A n \in Rows' : /\ Settled(n.request)'
                       /\ n.conversation = rq'[n.request].conversation
                       /\ n.tenant = rq'[n.request].tenant
  BY <1>3, <1>4 DEF SerialInv, SerialRows
<1>6. \A m, n \in Rows' : m.request = n.request /\ m.role = n.role => m = n
  BY DEF SerialInv, SerialRows
<1>7. ASSUME NEW m \in Rows, NEW x \in Rows, m.request = r, x.request # r,
             x.conversation = m.conversation
      PROVE  x.sequence < m.sequence
  BY <1>7 DEF SerialInv, SerialRows
<1>8. ASSUME NEW m \in Rows', NEW n \in Rows', NEW x \in Rows',
             m.request = n.request, x.request # m.request, x.conversation = m.conversation,
             m.sequence < x.sequence, x.sequence < n.sequence
      PROVE  FALSE
  <2>1. m \in Rows /\ x \in Rows
    BY <1>2, <1>8
  <2>2. CASE n \in Rows
    BY <1>8, <2>1, <2>2 DEF SerialInv, SerialRows
  <2>3. CASE n = row
    BY <1>2, <1>7, <1>8, <2>1, <2>3
  <2> QED
    BY <2>2, <2>3
<1>9. ASSUME NEW m \in Rows', NEW x \in Rows', Busy(m.request)', x.request # m.request,
             x.conversation = m.conversation
      PROVE  x.sequence < m.sequence
  <2>1. CASE m \in Rows /\ x \in Rows
    BY <1>4, <1>9, <2>1 DEF SerialInv, SerialRows
  <2>2. CASE m = row /\ x \in Rows
    BY <1>2, <2>2
  <2>3. CASE m \in Rows /\ x = row
    <3>1. m.request \in Requests /\ Busy(m.request)
      BY <1>1, <1>4, <1>9, <2>3 DEF MessageRows
    <3>2. rq[m.request].conversation = rq[r].conversation
      BY <1>9, <2>3 DEF SerialInv, SerialRows
    <3>3. m.request = r
      BY <1>1, <3>1, <3>2 DEF SerialInv, SerialRows
    <3> QED
      BY <1>9, <2>3, <3>3
  <2>4. CASE m = row /\ x = row
    BY <1>9, <2>4
  <2> QED
    BY <2>1, <2>2, <2>3, <2>4
<1> QED
  BY <1>5, <1>6, <1>8, <1>9 DEF SerialLines

LEMMA ClientsStay == [Next]_vars => UNCHANGED serial
  BY DEF Next, HandlerStep, Failure, ProviderStreams, vars, deployVars, Arrive, ReadContext,
     StreamFinishes, StreamFails, FailTurn, ProviderFails, DatabaseFails, OpenTurn, NotFound,
     CacheHit, ProviderAnswers, FlushAssistant, CommitTurn, CommitUnacknowledged,
     UsageInsertFails, StoreReply, ErrorTelemetry, SendFrame, SendFrameInTransaction, Finish,
     Disconnect, DisconnectInCommit, CloseSession, Restart, Reingest, CacheExpires

LEMMA SerialNext == serial /\ SerialInv /\ [Next]_vars => SerialInv'
<1> SUFFICES ASSUME serial, SerialInv, [Next]_vars PROVE SerialRows'
  BY SequenceNext DEF SerialInv
<1>1. AtomicInv /\ RowCause /\ \A q \in Requests : Causes(q)
  BY StepCauses DEF SerialInv, SequenceInv
<1>2. \A q \in Requests : WholeTurns(prompt'[q].history)
  <2>1. ASSUME NEW q \in Requests, ReadContext(q) PROVE WholeTurns(prompt'[q].history)
    <3>1. prompt \in [Requests -> Prompts]
      BY <1>1 DEF AtomicInv, TypeInv, TypeOK
    <3> QED
      BY <2>1, <3>1, HistoryIsWhole DEF ReadContext
  <2> QED
    BY <1>1, <2>1 DEF Causes, SerialInv, SerialRows
<1>3. \A q, r \in Requests :
         Busy(q)' /\ Busy(r)' /\ rq'[q].conversation = rq'[r].conversation => q = r
  BY OneBusyRequest
<1>4. ASSUME NEW row, UNCHANGED messages,
             \A q \in Requests : tx'[q].messages \subseteq tx[q].messages \cup {row}
      PROVE  IsFiniteSet(messages') /\ \A q \in Requests : IsFiniteSet(tx'[q].messages)
  <2>1. ASSUME NEW q \in Requests PROVE IsFiniteSet(tx'[q].messages)
    <3>1. IsFiniteSet(tx[q].messages \cup {row})
      BY FS_AddElement DEF SerialInv, SerialRows
    <3> QED
      BY <1>4, <3>1, FS_Subset
  <2> QED
    BY <1>4, <2>1 DEF SerialInv, SerialRows
<1>5. CASE FlushesNothing
  <2>1. SerialLines'
    BY <1>5, FlushesNothingStep, LinesKept
  <2>2. ASSUME NEW q \in Requests PROVE IsFiniteSet(tx'[q].messages)
    <3>1. tx'[q].messages \subseteq tx[q].messages /\ IsFiniteSet(tx[q].messages)
      BY <1>5 DEF FlushesNothing, SerialInv, SerialRows
    <3> QED
      BY <3>1, FS_Subset
  <2>3. IsFiniteSet(messages')
    <3>1. IsFiniteSet(messages)
      BY DEF SerialInv, SerialRows
    <3>2. ASSUME NEW q \in Requests, messages' = messages \cup tx[q].messages
          PROVE  IsFiniteSet(messages')
      <4>1. IsFiniteSet(tx[q].messages)
        BY DEF SerialInv, SerialRows
      <4>2. IsFiniteSet(messages \cup tx[q].messages)
        BY <3>1, <4>1, FS_Union
      <4> QED
        BY <3>2, <4>2
    <3> QED
      BY <1>5, <3>1, <3>2 DEF FlushesNothing
  <2> QED
    BY <1>2, <1>3, <2>1, <2>2, <2>3 DEF SerialLines, SerialRows
<1>6. ASSUME NEW r \in Requests, OpenTurn(r) PROVE SerialRows'
  <2> DEFINE row == MessageRow(r, rq[r].conversation, rq[r].tenant, "user", rq[r].message)
  <2>1. /\ Rows' \subseteq Rows \cup {row}
        /\ \A q \in Requests : tx'[q].messages \subseteq tx[q].messages \cup {row}
        /\ row \in MessageRows
        /\ \A n \in Rows : n.request # r
    BY <1>1, <1>6, OpenTurnRow
  <2>2. /\ row.sequence = sequence /\ row.request = r
        /\ row.conversation = rq[r].conversation /\ row.tenant = rq[r].tenant
    BY DEF MessageRow
  <2>3. Busy(r) /\ Settled(r) /\ UNCHANGED messages
    BY <1>6 DEF OpenTurn, Busy, Settled, tables
  <2> HIDE DEF row
  <2>4. SerialLines'
    BY <2>1, <2>2, <2>3, LinesExtended
  <2>5. IsFiniteSet(messages') /\ \A q \in Requests : IsFiniteSet(tx'[q].messages)
    BY <1>4, <2>1, <2>3
  <2> QED
    BY <1>2, <1>3, <2>4, <2>5 DEF SerialLines, SerialRows
<1>7. ASSUME NEW r \in Requests, FlushAssistant(r) PROVE SerialRows'
  <2> DEFINE row == AssistantRow(r)
  <2>1. /\ Rows' \subseteq Rows \cup {row}
        /\ \A q \in Requests : tx'[q].messages \subseteq tx[q].messages \cup {row}
        /\ row \in MessageRows
        /\ \A n \in Rows : n.request = r => n.role = "user"
    BY <1>1, <1>7, FlushAssistantRow
  <2>2. /\ row.sequence = sequence /\ row.request = r /\ row.role = "assistant"
        /\ row.conversation = rq[r].conversation /\ row.tenant = rq[r].tenant
    BY DEF AssistantRow, MessageRow
  <2>3. Busy(r) /\ Settled(r) /\ UNCHANGED messages
    BY <1>7 DEF FlushAssistant, Busy, Settled, tables
  <2> HIDE DEF row
  <2>4. SerialLines'
    BY <2>1, <2>2, <2>3, LinesExtended
  <2>5. IsFiniteSet(messages') /\ \A q \in Requests : IsFiniteSet(tx'[q].messages)
    BY <1>4, <2>1, <2>3
  <2> QED
    BY <1>2, <1>3, <2>4, <2>5 DEF SerialLines, SerialRows
<1> QED
  BY <1>1, <1>5, <1>6, <1>7 DEF RowCause

\* When clients wait for an answer before they post again, every history that is read is made
\* of whole turns, whatever the LIMIT, the message bound and the character bounds cut.
THEOREM HistoriesAreWhole == Spec => []HistoryHasWholeTurns
<1> DEFINE Inv == serial => SerialInv
<1>1. Init => Inv
  BY SerialInit
<1>2. Inv /\ [Next]_vars => Inv'
  BY SerialNext, ClientsStay
<1>3. Inv => HistoryHasWholeTurns
  BY DEF SerialInv, SerialRows, WholeTurns, OfTurn, HistoryHasWholeTurns
<1> QED
  BY <1>1, <1>2, <1>3, PTL DEF Spec

----------------------------------------------------------------------------
(* What POST /chat promises its clients: what it answers and reports agrees *)
(* with the tables, tenants do not see each other, and the handlers         *)
(* implement the log of whole turns.                                        *)

(* The answers it sends and the metrics rows it writes, against the tables.  *)

NoUsage(q) == \A u \in usage_events : u.request # q

\* Where generation_outcome and the exception of a handler stand at each of its points,
\* and what it has reported.  The answers and the metrics are read from these locals,
\* never from the tables, so the tables have to follow the locals.
OutcomeOf(q) ==
    /\ pc[q] \in BeforeCommit =>
          /\ failure[q] = None /\ told[q] = None /\ metrics[q] = None
          /\ outcome[q] = (IF pc[q] = "commit" THEN "ok" ELSE None)
          /\ NoUsage(q)
    /\ pc[q] \in {"reply", "store"} => ~IsStream(q)
    /\ pc[q] \in {"frame", "frame_in_tx"} => IsStream(q)
    /\ pc[q] = "store" => outcome[q] = "ok" /\ failure[q] = None /\ Durable(q)
    /\ pc[q] = "telemetry" => failure[q] # None
    /\ pc[q] = "frame" => outcome[q] \in {"ok", "error"} /\ (failure[q] = None => Durable(q))
    /\ pc[q] = "frame_in_tx" => outcome[q] = "not_found"
    /\ pc[q] = "metrics" /\ ~IsStream(q) /\ failure[q] = None /\ outcome[q] # "not_found"
          => Durable(q)
    /\ failure[q] # None => outcome[q] \in {"error", "timeout"}
    /\ outcome[q] = "not_found" => NoUsage(q)
    /\ outcome[q] \in {"not_found", "timeout"} => RolesOf(q) = {}
    /\ outcome[q] = None /\ pc[q] # "done" => RolesOf(q) = {}
    /\ told[q] # None => pc[q] = "done" \/ (pc[q] = "metrics" /\ IsStream(q))
    /\ told[q] = "success" => Durable(q)
    /\ told[q] = "not_found" => RolesOf(q) = {} /\ NoUsage(q)
    /\ metrics[q] # None => pc[q] = "done" /\ ~tx[q].open
    /\ metrics[q] \in {"not_found", "timeout", "cancelled"} => RolesOf(q) = {}
    /\ metrics[q] = "ok" /\ ~IsStream(q) => Durable(q)

OutcomeInv == AtomicInv /\ \A q \in Requests : OutcomeOf(q)

\* A row that has been reported on does not change any more.
FinalRow(q) == metrics'[q] # None => ~tx[q].open /\ RolesOf(q)' = RolesOf(q)

LEMMA OutcomeInit == Init => OutcomeInv
<1> SUFFICES ASSUME Init PROVE OutcomeInv
  OBVIOUS
<1>1. AtomicInv
  BY AtomicInit
<1>2. ASSUME NEW q \in Requests PROVE OutcomeOf(q)
  BY DEF Init, StoreInit, OutcomeOf, RolesOf, NoUsage, None, BeforeCommit
<1> QED
  BY <1>1, <1>2 DEF OutcomeInv

\* What a step leaves alone of a request.
Same(q) ==
    /\ pc'[q] = pc[q] /\ rq'[q] = rq[q] /\ tx'[q] = tx[q]
    /\ outcome'[q] = outcome[q] /\ failure'[q] = failure[q]
    /\ told'[q] = told[q] /\ metrics'[q] = metrics[q]

SameTables(q) == RolesOf(q)' = RolesOf(q) /\ (NoUsage(q)' <=> NoUsage(q))

LEMMA OutcomeKept ==
    ASSUME NEW q \in Requests, OutcomeOf(q), Same(q), SameTables(q)
    PROVE  OutcomeOf(q)' /\ FinalRow(q)
<1>1. Durable(q)' <=> Durable(q)
  BY DEF SameTables, Durable
<1>2. IsStream(q)' <=> IsStream(q)
  BY DEF Same, IsStream
<1> QED
  BY <1>1, <1>2 DEF OutcomeOf, Same, SameTables, FinalRow

LEMMA TablesKept ==
    ASSUME UNCHANGED tables, NEW q \in Requests
    PROVE  SameTables(q)
BY RolesKept DEF SameTables, NoUsage, tables

\* A COMMIT of r shows in the tables of r only.
LEMMA TablesPublished ==
    ASSUME AtomicInv, NEW r \in Requests, pc[r] = "commit", Publish(r)
    PROVE  /\ RolesOf(r)' = Roles
           /\ \A q \in Requests \ {r} : SameTables(q)
<1>1. OwnSession(r)
  BY DEF AtomicInv, SessionDiscipline
<1>2. ASSUME NEW q \in Requests \ {r} PROVE NoUsage(q)' <=> NoUsage(q)
  BY <1>1 DEF NoUsage, Publish, OwnSession
<1> QED
  BY <1>2, PublishStep DEF SameTables

\* A step of one request is a step of no other.
LEMMA OneRequest ==
    ASSUME OutcomeInv, NEW r \in Requests,
           \A q \in Requests \ {r} : Same(q) /\ SameTables(q),
           OutcomeOf(r)' /\ FinalRow(r)
    PROVE  \A q \in Requests : OutcomeOf(q)' /\ FinalRow(q)
<1>1. ASSUME NEW q \in Requests \ {r} PROVE OutcomeOf(q)' /\ FinalRow(q)
  BY OutcomeKept DEF OutcomeInv
<1> QED
  BY <1>1

LEMMA OutcomeNext ==
    ASSUME OutcomeInv, [Next]_vars
    PROVE  \A q \in Requests : OutcomeOf(q)' /\ FinalRow(q)
<1> DEFINE Goal == \A q \in Requests : OutcomeOf(q)' /\ FinalRow(q)
<1>0. /\ tx \in [Requests -> Sessions] /\ pc \in [Requests -> Points]
      /\ rq \in [Requests -> Params] /\ outcome \in [Requests -> Outcomes]
      /\ failure \in [Requests -> Failures] /\ told \in [Requests -> Answers]
      /\ metrics \in [Requests -> Outcomes \cup {"cancelled"}]
  BY DEF OutcomeInv, AtomicInv, TypeInv, TypeOK, StoreTypeOK
<1>s. \A q \in Requests : OutcomeOf(q)
  BY DEF OutcomeInv
<1> USE DEF Goto, FailTurn, Rollback, tables, storeVars, BeforeCommit, None
<1>1. ASSUME NEW r \in Requests, NEW p \in Params, Arrive(r, p) PROVE Goal
  <2>1. UNCHANGED tables /\ \A q \in Requests \ {r} : Same(q)
    BY <1>0, <1>1 DEF Arrive, Same
  <2>2. \A q \in Requests : SameTables(q)
    BY <2>1, TablesKept
  <2>3. OutcomeOf(r)' /\ FinalRow(r)
    BY <1>0, <1>1, <1>s, <2>2
    DEF Arrive, OutcomeOf, FinalRow, SameTables, Durable, IsStream
  <2> QED
    BY <2>1, <2>2, <2>3, OneRequest
<1>2. ASSUME NEW r \in Requests, ReadContext(r) PROVE Goal
  <2>1. UNCHANGED tables /\ \A q \in Requests \ {r} : Same(q)
    BY <1>0, <1>2 DEF ReadContext, Same
  <2>2. \A q \in Requests : SameTables(q)
    BY <2>1, TablesKept
  <2>3. OutcomeOf(r)' /\ FinalRow(r)
    BY <1>0, <1>2, <1>s, <2>2
    DEF ReadContext, OutcomeOf, FinalRow, SameTables, Durable, IsStream
  <2> QED
    BY <2>1, <2>2, <2>3, OneRequest
<1>3. ASSUME NEW r \in Requests, StreamFinishes(r) PROVE Goal
  <2>1. UNCHANGED tables /\ \A q \in Requests \ {r} : Same(q)
    BY <1>0, <1>3 DEF StreamFinishes, Same
  <2>2. \A q \in Requests : SameTables(q)
    BY <2>1, TablesKept
  <2>3. OutcomeOf(r)' /\ FinalRow(r)
    BY <1>0, <1>3, <1>s, <2>2
    DEF StreamFinishes, OutcomeOf, FinalRow, SameTables, Durable, IsStream
  <2> QED
    BY <2>1, <2>2, <2>3, OneRequest
<1>4. ASSUME NEW r \in Requests, StreamFails(r) PROVE Goal
  <2>1. UNCHANGED tables /\ \A q \in Requests \ {r} : Same(q)
    BY <1>0, <1>4 DEF StreamFails, Same
  <2>2. \A q \in Requests : SameTables(q)
    BY <2>1, TablesKept
  <2>3. OutcomeOf(r)' /\ FinalRow(r)
    BY <1>0, <1>4, <1>s, <2>2
    DEF StreamFails, OutcomeOf, FinalRow, SameTables, Durable, IsStream
  <2> QED
    BY <2>1, <2>2, <2>3, OneRequest
<1>5. ASSUME NEW r \in Requests, ProviderFails(r) PROVE Goal
  <2>1. UNCHANGED tables /\ \A q \in Requests \ {r} : Same(q)
    BY <1>0, <1>5 DEF ProviderFails, Same
  <2>2. \A q \in Requests : SameTables(q)
    BY <2>1, TablesKept
  <2>3. OutcomeOf(r)' /\ FinalRow(r)
    BY <1>0, <1>5, <1>s, <2>2
    DEF ProviderFails, OutcomeOf, FinalRow, SameTables, Durable, IsStream
  <2> QED
    BY <2>1, <2>2, <2>3, OneRequest
<1>6. ASSUME NEW r \in Requests, DatabaseFails(r) PROVE Goal
  <2>1. UNCHANGED tables /\ \A q \in Requests \ {r} : Same(q)
    BY <1>0, <1>6 DEF DatabaseFails, Same
  <2>2. \A q \in Requests : SameTables(q)
    BY <2>1, TablesKept
  <2>3. OutcomeOf(r)' /\ FinalRow(r)
    BY <1>0, <1>6, <1>s, <2>2
    DEF DatabaseFails, OutcomeOf, FinalRow, SameTables, Durable, IsStream
  <2> QED
    BY <2>1, <2>2, <2>3, OneRequest
<1>7. ASSUME NEW r \in Requests, OpenTurn(r) PROVE Goal
  <2>1. UNCHANGED tables /\ \A q \in Requests \ {r} : Same(q)
    BY <1>0, <1>7 DEF OpenTurn, Begin, Same
  <2>2. \A q \in Requests : SameTables(q)
    BY <2>1, TablesKept
  <2>3. OutcomeOf(r)' /\ FinalRow(r)
    BY <1>0, <1>7, <1>s, <2>2
    DEF OpenTurn, Begin, OutcomeOf, FinalRow, SameTables, Durable, IsStream
  <2> QED
    BY <2>1, <2>2, <2>3, OneRequest
<1>8. ASSUME NEW r \in Requests, NotFound(r) PROVE Goal
  <2>1. UNCHANGED tables /\ \A q \in Requests \ {r} : Same(q)
    BY <1>0, <1>8 DEF NotFound, Begin, Same
  <2>2. \A q \in Requests : SameTables(q)
    BY <2>1, TablesKept
  <2>3. OutcomeOf(r)' /\ FinalRow(r)
    BY <1>0, <1>8, <1>s, <2>2
    DEF NotFound, Begin, OutcomeOf, FinalRow, SameTables, Durable, IsStream
  <2> QED
    BY <2>1, <2>2, <2>3, OneRequest
<1>9. ASSUME NEW r \in Requests, CacheHit(r) PROVE Goal
  <2>1. UNCHANGED tables /\ \A q \in Requests \ {r} : Same(q)
    BY <1>0, <1>9 DEF CacheHit, Same
  <2>2. \A q \in Requests : SameTables(q)
    BY <2>1, TablesKept
  <2>3. OutcomeOf(r)' /\ FinalRow(r)
    BY <1>0, <1>9, <1>s, <2>2
    DEF CacheHit, OutcomeOf, FinalRow, SameTables, Durable, IsStream
  <2> QED
    BY <2>1, <2>2, <2>3, OneRequest
<1>10. ASSUME NEW r \in Requests, ProviderAnswers(r) PROVE Goal
  <2>1. UNCHANGED tables /\ \A q \in Requests \ {r} : Same(q)
    BY <1>0, <1>10 DEF ProviderAnswers, Same
  <2>2. \A q \in Requests : SameTables(q)
    BY <2>1, TablesKept
  <2>3. OutcomeOf(r)' /\ FinalRow(r)
    BY <1>0, <1>10, <1>s, <2>2
    DEF ProviderAnswers, OutcomeOf, FinalRow, SameTables, Durable, IsStream
  <2> QED
    BY <2>1, <2>2, <2>3, OneRequest
<1>11. ASSUME NEW r \in Requests, FlushAssistant(r) PROVE Goal
  <2>1. UNCHANGED tables /\ \A q \in Requests \ {r} : Same(q)
    BY <1>0, <1>11 DEF FlushAssistant, Stage, Same
  <2>2. \A q \in Requests : SameTables(q)
    BY <2>1, TablesKept
  <2>3. OutcomeOf(r)' /\ FinalRow(r)
    BY <1>0, <1>11, <1>s, <2>2
    DEF FlushAssistant, Stage, OutcomeOf, FinalRow, SameTables, Durable, IsStream
  <2> QED
    BY <2>1, <2>2, <2>3, OneRequest
<1>12. ASSUME NEW r \in Requests, UsageInsertFails(r) PROVE Goal
  <2>1. UNCHANGED tables /\ \A q \in Requests \ {r} : Same(q)
    BY <1>0, <1>12 DEF UsageInsertFails, Same
  <2>2. \A q \in Requests : SameTables(q)
    BY <2>1, TablesKept
  <2>3. OutcomeOf(r)' /\ FinalRow(r)
    BY <1>0, <1>12, <1>s, <2>2
    DEF UsageInsertFails, OutcomeOf, FinalRow, SameTables, Durable, IsStream
  <2> QED
    BY <2>1, <2>2, <2>3, OneRequest
<1>13. ASSUME NEW r \in Requests, StoreReply(r) PROVE Goal
  <2>1. UNCHANGED tables /\ \A q \in Requests \ {r} : Same(q)
    BY <1>0, <1>13 DEF StoreReply, Same
  <2>2. \A q \in Requests : SameTables(q)
    BY <2>1, TablesKept
  <2>3. OutcomeOf(r)' /\ FinalRow(r)
    BY <1>0, <1>13, <1>s, <2>2
    DEF StoreReply, OutcomeOf, FinalRow, SameTables, Durable, IsStream
  <2> QED
    BY <2>1, <2>2, <2>3, OneRequest
<1>14. ASSUME NEW r \in Requests, SendFrame(r) PROVE Goal
  <2>1. UNCHANGED tables /\ \A q \in Requests \ {r} : Same(q)
    BY <1>0, <1>14 DEF SendFrame, Answer, Same
  <2>2. \A q \in Requests : SameTables(q)
    BY <2>1, TablesKept
  <2>3. OutcomeOf(r)' /\ FinalRow(r)
    BY <1>0, <1>14, <1>s, <2>2
    DEF SendFrame, Answer, OutcomeOf, FinalRow, SameTables, Durable, IsStream
  <2> QED
    BY <2>1, <2>2, <2>3, OneRequest
<1>15. ASSUME NEW r \in Requests, SendFrameInTransaction(r) PROVE Goal
  <2>1. UNCHANGED tables /\ \A q \in Requests \ {r} : Same(q)
    BY <1>0, <1>15 DEF SendFrameInTransaction, Answer, Same
  <2>2. \A q \in Requests : SameTables(q)
    BY <2>1, TablesKept
  <2>3. OutcomeOf(r)' /\ FinalRow(r)
    BY <1>0, <1>15, <1>s, <2>2
    DEF SendFrameInTransaction, Answer, OutcomeOf, FinalRow, SameTables, Durable, IsStream
  <2> QED
    BY <2>1, <2>2, <2>3, OneRequest
<1>16. ASSUME NEW r \in Requests, CloseSession(r) PROVE Goal
  <2>1. UNCHANGED tables /\ \A q \in Requests \ {r} : Same(q)
    BY <1>0, <1>16 DEF CloseSession, handlerVars, Same
  <2>2. \A q \in Requests : SameTables(q)
    BY <2>1, TablesKept
  <2>3. OutcomeOf(r)' /\ FinalRow(r)
    BY <1>0, <1>16, <1>s, <2>2
    DEF CloseSession, handlerVars, OutcomeOf, FinalRow, SameTables, Durable, IsStream
  <2> QED
    BY <2>1, <2>2, <2>3, OneRequest
<1>17. ASSUME NEW r \in Requests, Disconnect(r) PROVE Goal
  <2>1. UNCHANGED tables /\ \A q \in Requests \ {r} : Same(q)
    BY <1>0, <1>17 DEF Disconnect, Same
  <2>2. \A q \in Requests : SameTables(q)
    BY <2>1, TablesKept
  <2>3. OutcomeOf(r)' /\ FinalRow(r)
    BY <1>0, <1>17, <1>s, <2>2
    DEF Disconnect, OutcomeOf, FinalRow, SameTables, Durable, IsStream
  <2> QED
    BY <2>1, <2>2, <2>3, OneRequest
<1>18. ASSUME NEW r \in Requests, CommitTurn(r) PROVE Goal
  <2>1. pc[r] = "commit" /\ Publish(r) /\ \A q \in Requests \ {r} : Same(q)
    BY <1>0, <1>18 DEF CommitTurn, Commit, Same
  <2>2. RolesOf(r)' = Roles /\ \A q \in Requests \ {r} : SameTables(q)
    BY <2>1, TablesPublished DEF OutcomeInv
  <2>3. OutcomeOf(r)' /\ FinalRow(r)
    BY <1>0, <1>18, <1>s, <2>2
    DEF CommitTurn, Commit, OutcomeOf, FinalRow, SameTables, Durable, IsStream
  <2> QED
    BY <2>1, <2>2, <2>3, OneRequest
<1>19. ASSUME NEW r \in Requests, CommitUnacknowledged(r) PROVE Goal
  <2>1. pc[r] = "commit" /\ Publish(r) /\ \A q \in Requests \ {r} : Same(q)
    BY <1>0, <1>19 DEF CommitUnacknowledged, Commit, Same
  <2>2. RolesOf(r)' = Roles /\ \A q \in Requests \ {r} : SameTables(q)
    BY <2>1, TablesPublished DEF OutcomeInv
  <2>3. OutcomeOf(r)' /\ FinalRow(r)
    BY <1>0, <1>19, <1>s, <2>2
    DEF CommitUnacknowledged, Commit, OutcomeOf, FinalRow, SameTables, Durable, IsStream
  <2> QED
    BY <2>1, <2>2, <2>3, OneRequest
<1>20. ASSUME NEW r \in Requests, DisconnectInCommit(r) PROVE Goal
  <2>1. pc[r] = "commit" /\ \A q \in Requests \ {r} : Same(q)
    BY <1>0, <1>20 DEF DisconnectInCommit, Same
  <2>2. CASE Publish(r)
    <3>1. RolesOf(r)' = Roles /\ \A q \in Requests \ {r} : SameTables(q)
      BY <2>1, <2>2, TablesPublished DEF OutcomeInv
    <3>2. OutcomeOf(r)' /\ FinalRow(r)
      BY <1>0, <1>20, <1>s, <3>1
      DEF DisconnectInCommit, OutcomeOf, FinalRow, SameTables, Durable, IsStream
    <3> QED
      BY <2>1, <3>1, <3>2, OneRequest
  <2>3. CASE UNCHANGED tables
    <3>1. \A q \in Requests : SameTables(q)
      BY <2>3, TablesKept
    <3>2. OutcomeOf(r)' /\ FinalRow(r)
      BY <1>0, <1>20, <1>s, <3>1
      DEF DisconnectInCommit, OutcomeOf, FinalRow, SameTables, Durable, IsStream
    <3> QED
      BY <2>1, <3>1, <3>2, OneRequest
  <2> QED
    BY <1>20, <2>2, <2>3 DEF DisconnectInCommit
<1>21. ASSUME NEW r \in Requests, ErrorTelemetry(r) PROVE Goal
  <2>1. UNCHANGED messages /\ \A q \in Requests \ {r} : Same(q)
    BY <1>0, <1>21 DEF ErrorTelemetry, Same
  <2>2. \A q \in Requests : RolesOf(q)' = RolesOf(q)
    BY <2>1, RolesKept
  <2>3. ASSUME NEW q \in Requests \ {r} PROVE NoUsage(q)' <=> NoUsage(q)
    BY <1>21 DEF ErrorTelemetry, NoUsage
  <2>4. OutcomeOf(r)' /\ FinalRow(r)
    BY <1>0, <1>21, <1>s, <2>2
    DEF ErrorTelemetry, OutcomeOf, FinalRow, SameTables, Durable, IsStream
  <2> QED
    BY <2>1, <2>2, <2>3, <2>4, OneRequest DEF SameTables
<1>22. ASSUME NEW r \in Requests, Finish(r) PROVE Goal
  <2>1. UNCHANGED tables /\ UNCHANGED tx
    BY <1>22 DEF Finish, WriteMetrics
  <2>2. \A q \in Requests \ {r} : Same(q)
    <3>1. ASSUME NEW q \in Requests \ {r} PROVE metrics'[q] = metrics[q] /\ told'[q] = told[q]
      BY <1>0, <1>22 DEF Finish, WriteMetrics
    <3> QED
      BY <1>0, <1>22, <2>1, <3>1 DEF Finish, Same
  <2>3. \A q \in Requests : SameTables(q)
    BY <2>1, TablesKept
  <2>4. pc[r] = "metrics" /\ pc'[r] = "done" /\ rq'[r] = rq[r]
        /\ outcome'[r] = None /\ failure'[r] = None
    BY <1>0, <1>22 DEF Finish
  <2>5. told'[r] = told[r] \/ (~IsStream(r) /\ told'[r] = Answer(r))
    <3>1. told' = told \/ (~IsStream(r) /\ told' = [told EXCEPT ![r] = Answer(r)])
      BY <1>22 DEF Finish
    <3> QED
      BY <1>0, <3>1
  <2>6. metrics'[r] = metrics[r] \/ (~tx[r].open /\ metrics'[r] = MetricsOutcome(r))
    <3>1. UNCHANGED metrics \/ (/\ ~tx[r].open
                               /\ metrics' = [metrics EXCEPT ![r] = MetricsOutcome(r)])
      BY <1>22 DEF Finish, WriteMetrics
    <3> QED
      BY <1>0, <3>1
  <2>7. /\ told'[r] = "success" => Durable(r)'
        /\ told'[r] = "not_found" => RolesOf(r)' = {} /\ NoUsage(r)'
    BY <1>0, <1>s, <2>3, <2>4, <2>5 DEF Answer, OutcomeOf, FinalRow, SameTables, Durable, IsStream
  <2>8. /\ metrics'[r] # None => ~tx'[r].open
        /\ metrics'[r] \in {"not_found", "timeout", "cancelled"} => RolesOf(r)' = {}
        /\ metrics'[r] = "ok" /\ ~IsStream(r)' => Durable(r)'
    <3>1. metrics[r] = None
      BY <1>s, <2>4 DEF OutcomeOf
    <3>2. CASE metrics'[r] = metrics[r]
      BY <3>1, <3>2
    <3>3. CASE ~tx[r].open /\ metrics'[r] = MetricsOutcome(r)
      <4>1. MetricsOutcome(r) \in {"not_found", "timeout", "cancelled"} => RolesOf(r) = {}
        BY <1>0, <1>s, <2>4 DEF MetricsOutcome, OutcomeOf, Outcomes
      <4>2. MetricsOutcome(r) = "ok" /\ ~IsStream(r) => Durable(r)
        BY <1>s, <2>4 DEF MetricsOutcome, OutcomeOf
      <4> QED
        BY <2>1, <2>3, <2>4, <3>3, <4>1, <4>2 DEF SameTables, Durable, IsStream
    <3> QED
      BY <2>6, <3>2, <3>3
  <2>9. OutcomeOf(r)' /\ FinalRow(r)
    BY <1>s, <2>1, <2>3, <2>4, <2>7, <2>8 DEF OutcomeOf, FinalRow, SameTables, Durable, IsStream
  <2> QED
    BY <2>2, <2>3, <2>9, OneRequest
<1>23. CASE Restart
  <2>1. UNCHANGED <<tables, rq, told, metrics>>
    BY <1>23 DEF Restart
  <2>2. ASSUME NEW q \in Requests PROVE OutcomeOf(q)' /\ FinalRow(q)
    <3>1. SameTables(q)
      BY <2>1, TablesKept
    <3>2. /\ pc'[q] = IF pc[q] = "idle" THEN "idle" ELSE "done"
          /\ tx'[q] = NoTx /\ outcome'[q] = None /\ failure'[q] = None
      BY <1>23 DEF Restart
    <3> QED
      BY <1>s, <2>1, <3>1, <3>2 DEF NoTx, OutcomeOf, FinalRow, SameTables, Durable, IsStream
  <2> QED
    BY <2>2
<1>24. CASE Reingest \/ CacheExpires \/ UNCHANGED vars
  <2>1. UNCHANGED <<storeVars, handlerVars>>
    BY <1>24 DEF Reingest, CacheExpires, vars
  <2>2. ASSUME NEW q \in Requests PROVE OutcomeOf(q)' /\ FinalRow(q)
    <3>1. Same(q) /\ UNCHANGED tables
      BY <2>1 DEF Same, handlerVars
    <3> QED
      BY <1>s, <3>1, TablesKept, OutcomeKept
  <2> QED
    BY <2>2
<1> QED
  BY <1>1, <1>2, <1>3, <1>4, <1>5, <1>6, <1>7, <1>8, <1>9, <1>10, <1>11, <1>12, <1>13, <1>14,
     <1>15, <1>16, <1>17, <1>18, <1>19, <1>20, <1>21, <1>22, <1>23, <1>24
  DEF Next, HandlerStep, Failure, ProviderStreams

LEMMA OutcomeCorrect == Spec => []OutcomeInv
<1>1. OutcomeInv /\ [Next]_vars => OutcomeInv'
  BY AtomicNext, OutcomeNext DEF OutcomeInv
<1> QED
  BY <1>1, OutcomeInit, PTL DEF Spec

\* What a client is told holds in the tables, however often others fail: "success" is a
\* durable turn, "not_found" one that left nothing.
THEOREM TrueAnswers == Spec => []AnswersAreTrue
<1>1. OutcomeInv => AnswersAreTrue
  BY DEF OutcomeInv, OutcomeOf, AnswersAreTrue, NoUsage
<1> QED
  BY <1>1, OutcomeCorrect, PTL

\* A metrics row that reports a failure is about a turn that is not in the tables, and a
\* non-streaming "ok" about one that is.
THEOREM TrueMetrics == Spec => []MetricsAreTrue
<1>1. OutcomeInv => MetricsAreTrue
  BY DEF OutcomeInv, OutcomeOf, MetricsAreTrue
<1> QED
  BY <1>1, OutcomeCorrect, PTL

\* AC11 for any number of requests: a metrics row is written after its transaction was
\* released, and nothing of its turn appears any more.
THEOREM FinalMetrics == Spec => MetricsComeLast
<1>1. OutcomeInv /\ [Next]_vars =>
         [\A r \in Requests : metrics'[r] # None => ~tx[r].open /\ RolesOf(r)' = RolesOf(r)]_vars
  BY OutcomeNext DEF FinalRow
<1> QED
  BY <1>1, OutcomeCorrect, PTL DEF Spec, MetricsComeLast

----------------------------------------------------------------------------
(* The conversations of tenants stay apart.                                 *)

\* The conversation of a request, as a row its tenant owns.
ConversationOf(q) == [id |-> rq[q].conversation, tenant |-> rq[q].tenant]

Opens(q) == pc[q] # "idle" /\ rq[q].is_new

\* Every conversation was opened by the one request whose uuid it is, and a transaction
\* that writes messages has checked or staged its conversation.
Ownership ==
    /\ \A c \in conversations : \E q \in Requests : Opens(q) /\ c = ConversationOf(q)
    /\ \A q, r \in Requests :
          Opens(q) /\ Opens(r) /\ q # r => rq[q].conversation # rq[r].conversation
    /\ \A q \in Requests :
          /\ tx[q].conversations # {} => Opens(q)
          /\ pc[q] \in {"reply", "assistant", "commit"} =>
                ConversationOf(q) \in conversations \cup tx[q].conversations
          /\ pc[q] = "idle" => prompt[q].history = {}
          /\ \A m \in prompt[q].history :
                m.tenant = rq[q].tenant /\ m.conversation = rq[q].conversation
    /\ \A m \in messages : [id |-> m.conversation, tenant |-> m.tenant] \in conversations

TenantInv == OutcomeInv /\ Ownership

InTurn == {"reply", "assistant", "commit"}

LEMMA OwnershipInit == Init => TenantInv
<1> SUFFICES ASSUME Init PROVE TenantInv
  OBVIOUS
<1>1. OutcomeInv
  BY OutcomeInit
<1>2. Ownership
  BY DEF Init, StoreInit, Ownership, Opens, NoTx, NoPrompt
<1> QED
  BY <1>1, <1>2 DEF TenantInv

\* A step that arrives, reads, opens and publishes nothing.
LEMMA OwnershipKept ==
    ASSUME TenantInv,
           UNCHANGED <<rq, prompt, conversations, messages>>,
           \A q \in Requests :
              /\ pc'[q] = "idle" <=> pc[q] = "idle"
              /\ tx'[q].conversations \in {{}, tx[q].conversations}
              /\ pc'[q] \in InTurn =>
                    pc[q] \in InTurn /\ tx'[q].conversations = tx[q].conversations
    PROVE  Ownership'
BY DEF TenantInv, Ownership, Opens, ConversationOf, InTurn

\* The uuid of a new conversation is no other request's.
LEMMA ArriveOwnership ==
    ASSUME TenantInv, NEW r \in Requests, NEW p \in Params, Arrive(r, p)
    PROVE  Ownership'
<1>1. pc \in [Requests -> Points] /\ rq \in [Requests -> Params]
  BY DEF TenantInv, OutcomeInv, AtomicInv, TypeInv, TypeOK
<1>2. UNCHANGED <<conversations, messages, tx, prompt>>
  BY DEF Arrive, storeVars
<1>3. pc[r] = "idle" /\ pc'[r] = "context" /\ rq'[r] = p
  BY <1>1 DEF Arrive, Goto
<1>4. \A q \in Requests \ {r} : pc'[q] = pc[q] /\ rq'[q] = rq[q]
  BY <1>1 DEF Arrive, Goto
<1>5. p.is_new => \A q \in Requests : pc[q] # "idle" => rq[q].conversation # p.conversation
  BY DEF Arrive
<1>6. tx[r].conversations = {}
  BY <1>3 DEF TenantInv, Ownership, Opens
<1>7. \A c \in conversations' : \E q \in Requests : Opens(q)' /\ c = ConversationOf(q)'
  BY <1>2, <1>3, <1>4 DEF TenantInv, Ownership, Opens, ConversationOf
<1>8. \A q, s \in Requests :
         Opens(q)' /\ Opens(s)' /\ q # s => rq'[q].conversation # rq'[s].conversation
  BY <1>3, <1>4, <1>5 DEF TenantInv, Ownership, Opens
<1>9. prompt[r].history = {}
  BY <1>3 DEF TenantInv, Ownership
<1> QED
  BY <1>2, <1>3, <1>4, <1>6, <1>7, <1>8, <1>9 DEF TenantInv, Ownership, Opens, ConversationOf

\* The window that is read holds rows of the request's tenant and conversation only.
LEMMA ReadContextOwnership ==
    ASSUME TenantInv, NEW r \in Requests, ReadContext(r)
    PROVE  Ownership'
<1>1. pc \in [Requests -> Points] /\ prompt \in [Requests -> Prompts]
  BY DEF TenantInv, OutcomeInv, AtomicInv, TypeInv, TypeOK
<1>2. UNCHANGED <<conversations, messages, tx, rq>>
  BY DEF ReadContext, storeVars
<1>3. /\ pc[r] = "context" /\ pc'[r] \in {"streaming", "begin"}
      /\ \A q \in Requests \ {r} : pc'[q] = pc[q] /\ prompt'[q] = prompt[q]
  BY <1>1 DEF ReadContext, Goto
<1>4. PICK history \in NewestTurns(HistoryOf(r)) : prompt'[r].history = history
  BY <1>1 DEF ReadContext
<1>5. history \subseteq HistoryOf(r)
  BY DEF NewestTurns, Newest
<1>6. \A m \in HistoryOf(r) : m.tenant = rq[r].tenant /\ m.conversation = rq[r].conversation
  <2> DEFINE rows == {m \in messages : /\ m.conversation = rq[r].conversation
                                      /\ m.tenant = rq[r].tenant}
  <2>1. MaterializedWindow(rows) \subseteq rows
    BY WindowIsSubset
  <2> QED
    BY <2>1 DEF HistoryOf
<1> QED
  BY <1>2, <1>3, <1>4, <1>5, <1>6 DEF TenantInv, Ownership, Opens, ConversationOf

LEMMA OpenTurnOwnership ==
    ASSUME TenantInv, NEW r \in Requests, OpenTurn(r)
    PROVE  Ownership'
<1>1. pc \in [Requests -> Points] /\ tx \in [Requests -> Sessions]
  BY DEF TenantInv, OutcomeInv, AtomicInv, TypeInv, TypeOK, StoreTypeOK
<1>2. UNCHANGED <<conversations, messages, rq, prompt>>
  BY DEF OpenTurn, tables
<1>3. /\ pc[r] = "begin" /\ pc'[r] # "idle"
      /\ \A q \in Requests \ {r} : pc'[q] = pc[q] /\ tx'[q] = tx[q]
  BY <1>1 DEF OpenTurn, Goto, Begin
<1>4. tx'[r].conversations = IF rq[r].is_new THEN {ConversationOf(r)} ELSE {}
  BY <1>1 DEF OpenTurn, Begin, NoTx, ConversationOf
<1>5. ConversationOf(r) \in conversations \cup tx'[r].conversations
  BY <1>4 DEF OpenTurn, Owned, Owns, ConversationOf
<1> QED
  BY <1>2, <1>3, <1>4, <1>5 DEF TenantInv, Ownership, Opens, ConversationOf

\* The COMMIT of r publishes its conversation, if it is new, and rows that belong to it.
LEMMA PublishOwnership ==
    ASSUME TenantInv, NEW r \in Requests, pc[r] = "commit", Publish(r),
           UNCHANGED <<rq, prompt>>,
           tx'[r].conversations = {}, pc'[r] \notin InTurn \cup {"idle"},
           \A q \in Requests \ {r} : tx'[q] = tx[q] /\ pc'[q] = pc[q]
    PROVE  Ownership'
<1>1. OwnSession(r)
  BY DEF TenantInv, OutcomeInv, AtomicInv, SessionDiscipline
<1>2. /\ conversations' = conversations \cup tx[r].conversations
      /\ messages' = messages \cup tx[r].messages
  BY DEF Publish
<1>3. \A c \in tx[r].conversations : c = ConversationOf(r) /\ Opens(r)
  BY <1>1 DEF OwnSession, ConversationOf, TenantInv, Ownership
<1>4. ConversationOf(r) \in conversations'
  BY <1>2 DEF TenantInv, Ownership
<1>5. \A q \in Requests : Opens(q)' = Opens(q) /\ ConversationOf(q)' = ConversationOf(q)
  BY DEF Opens, ConversationOf, InTurn
<1>6. \A m \in messages' : [id |-> m.conversation, tenant |-> m.tenant] \in conversations'
  BY <1>1, <1>2, <1>4 DEF OwnSession, ConversationOf, TenantInv, Ownership
<1>7. \A c \in conversations' : \E q \in Requests : Opens(q)' /\ c = ConversationOf(q)'
  BY <1>2, <1>3, <1>5 DEF TenantInv, Ownership
<1>8. ASSUME NEW q \in Requests
      PROVE  /\ tx'[q].conversations # {} => Opens(q)'
             /\ pc'[q] \in InTurn => ConversationOf(q)' \in conversations' \cup tx'[q].conversations
             /\ pc'[q] = "idle" => prompt'[q].history = {}
             /\ \A m \in prompt'[q].history :
                   m.tenant = rq'[q].tenant /\ m.conversation = rq'[q].conversation
  BY <1>2, <1>5 DEF TenantInv, Ownership, InTurn
<1> QED
  BY <1>5, <1>6, <1>7, <1>8 DEF TenantInv, Ownership, InTurn

LEMMA OwnershipNext ==
    ASSUME TenantInv, [Next]_vars
    PROVE  Ownership'
<1>0. tx \in [Requests -> Sessions] /\ pc \in [Requests -> Points]
  BY DEF TenantInv, OutcomeInv, AtomicInv, TypeInv, TypeOK, StoreTypeOK
<1> USE DEF Goto, FailTurn, Rollback, tables, storeVars, InTurn, NoTx
<1>1. ASSUME NEW r \in Requests, NEW p \in Params, Arrive(r, p) PROVE Ownership'
  BY <1>1, ArriveOwnership
<1>2. ASSUME NEW r \in Requests, ReadContext(r) PROVE Ownership'
  BY <1>2, ReadContextOwnership
<1>3. ASSUME NEW r \in Requests, OpenTurn(r) PROVE Ownership'
  BY <1>3, OpenTurnOwnership
<1>4. ASSUME NEW r \in Requests, CommitTurn(r) PROVE Ownership'
  BY <1>0, <1>4, PublishOwnership DEF CommitTurn, Commit
<1>5. ASSUME NEW r \in Requests, CommitUnacknowledged(r) PROVE Ownership'
  BY <1>0, <1>5, PublishOwnership DEF CommitUnacknowledged, Commit
<1>6. ASSUME NEW r \in Requests, DisconnectInCommit(r) PROVE Ownership'
  <2>1. CASE Publish(r)
    BY <1>0, <1>6, <2>1, PublishOwnership DEF DisconnectInCommit
  <2>2. CASE UNCHANGED tables
    BY <1>0, <1>6, <2>2, OwnershipKept DEF DisconnectInCommit
  <2> QED
    BY <1>6, <2>1, <2>2 DEF DisconnectInCommit
<1>7. ASSUME NEW r \in Requests, StreamFinishes(r) PROVE Ownership'
  BY <1>0, <1>7, OwnershipKept DEF StreamFinishes
<1>8. ASSUME NEW r \in Requests, StreamFails(r) PROVE Ownership'
  BY <1>0, <1>8, OwnershipKept DEF StreamFails
<1>9. ASSUME NEW r \in Requests, ProviderFails(r) PROVE Ownership'
  BY <1>0, <1>9, OwnershipKept DEF ProviderFails
<1>10. ASSUME NEW r \in Requests, DatabaseFails(r) PROVE Ownership'
  BY <1>0, <1>10, OwnershipKept DEF DatabaseFails
<1>11. ASSUME NEW r \in Requests, NotFound(r) PROVE Ownership'
  BY <1>0, <1>11, OwnershipKept DEF NotFound, Begin
<1>12. ASSUME NEW r \in Requests, CacheHit(r) PROVE Ownership'
  BY <1>0, <1>12, OwnershipKept DEF CacheHit
<1>13. ASSUME NEW r \in Requests, ProviderAnswers(r) PROVE Ownership'
  BY <1>0, <1>13, OwnershipKept DEF ProviderAnswers
<1>14. ASSUME NEW r \in Requests, FlushAssistant(r) PROVE Ownership'
  BY <1>0, <1>14, OwnershipKept DEF FlushAssistant, Stage
<1>15. ASSUME NEW r \in Requests, UsageInsertFails(r) PROVE Ownership'
  BY <1>0, <1>15, OwnershipKept DEF UsageInsertFails
<1>16. ASSUME NEW r \in Requests, StoreReply(r) PROVE Ownership'
  BY <1>0, <1>16, OwnershipKept DEF StoreReply
<1>17. ASSUME NEW r \in Requests, ErrorTelemetry(r) PROVE Ownership'
  BY <1>0, <1>17, OwnershipKept DEF ErrorTelemetry
<1>18. ASSUME NEW r \in Requests, SendFrame(r) PROVE Ownership'
  BY <1>0, <1>18, OwnershipKept DEF SendFrame
<1>19. ASSUME NEW r \in Requests, SendFrameInTransaction(r) PROVE Ownership'
  BY <1>0, <1>19, OwnershipKept DEF SendFrameInTransaction
<1>20. ASSUME NEW r \in Requests, Finish(r) PROVE Ownership'
  BY <1>0, <1>20, OwnershipKept DEF Finish, WriteMetrics
<1>21. ASSUME NEW r \in Requests, CloseSession(r) PROVE Ownership'
  BY <1>0, <1>21, OwnershipKept DEF CloseSession, handlerVars
<1>22. ASSUME NEW r \in Requests, Disconnect(r) PROVE Ownership'
  BY <1>0, <1>22, OwnershipKept DEF Disconnect
<1>23. CASE Restart
  BY <1>0, <1>23, OwnershipKept DEF Restart
<1>24. CASE Reingest \/ CacheExpires \/ UNCHANGED vars
  BY <1>0, <1>24, OwnershipKept DEF Reingest, CacheExpires, handlerVars, vars
<1> QED
  BY <1>1, <1>2, <1>3, <1>4, <1>5, <1>6, <1>7, <1>8, <1>9, <1>10, <1>11, <1>12, <1>13, <1>14,
     <1>15, <1>16, <1>17, <1>18, <1>19, <1>20, <1>21, <1>22, <1>23, <1>24
  DEF Next, HandlerStep, Failure, ProviderStreams

LEMMA TenantCorrect == Spec => []TenantInv
<1>1. TenantInv /\ [Next]_vars => TenantInv'
  BY AtomicNext, OutcomeNext, OwnershipNext DEF TenantInv, OutcomeInv
<1> QED
  BY <1>1, OwnershipInit, PTL DEF Spec

LEMMA OneOwner ==
    ASSUME TenantInv, NEW c \in conversations, NEW d \in conversations, c.id = d.id
    PROVE  c = d
<1>1. PICK q \in Requests : Opens(q) /\ c = ConversationOf(q)
  BY DEF TenantInv, Ownership
<1>2. PICK r \in Requests : Opens(r) /\ d = ConversationOf(r)
  BY DEF TenantInv, Ownership
<1>3. q = r
  BY <1>1, <1>2 DEF TenantInv, Ownership, ConversationOf
<1> QED
  BY <1>1, <1>2, <1>3

LEMMA TenantsAreApart == TenantInv => TenantIsolation
BY OneOwner DEF TenantInv, Ownership, TenantIsolation

\* Messages belong to the tenant that owns their conversation, and a prompt has messages of
\* its own conversation and tenant only, on the stream path too, which asks the provider
\* before the route checks the owner.
THEOREM TenantsApart == Spec => []TenantIsolation
BY TenantsAreApart, TenantCorrect, PTL

----------------------------------------------------------------------------
(* The log: every step of a handler, a failure or a restart adds one whole  *)
(* turn, sends one answer, or leaves the log alone.                         *)

\* The turns of the log, as ChatTurn maps them.
LogTurns ==
    {[request |-> m.request, conversation |-> m.conversation,
      tenant |-> m.tenant, roles |-> RolesOf(m.request)] : m \in messages}

LogStutters == UNCHANGED <<LogTurns, told>>

LEMMA LogTurnsKept ==
    ASSUME UNCHANGED messages
    PROVE  LogTurns' = LogTurns
BY DEF LogTurns, RolesOf

\* In a state of the invariant a request is in the log when it has a message.
LEMMA LoggedIffRoles ==
    ASSUME NEW r \in Requests
    PROVE  Log!Logged(r) <=> RolesOf(r) # {}
<1>1. Log!Logged(r) <=> \E t \in LogTurns : t.request = r
  BY DEF Log!Logged, LogTurns
<1>2. ASSUME NEW t \in LogTurns, t.request = r PROVE \E m \in messages : m.request = r
  <2>1. PICK m \in messages : t.request = m.request
    BY DEF LogTurns
  <2> QED
    BY <1>2, <2>1
<1>3. ASSUME NEW m \in messages, m.request = r PROVE \E t \in LogTurns : t.request = r
  <2> DEFINE t == [request |-> m.request, conversation |-> m.conversation,
                   tenant |-> m.tenant, roles |-> RolesOf(m.request)]
  <2>1. t \in LogTurns /\ t.request = r
    BY <1>3 DEF LogTurns
  <2> QED
    BY <2>1
<1> QED
  BY <1>1, <1>2, <1>3 DEF RolesOf

\* A COMMIT adds the turn of its request, with both roles.
LEMMA PublishAddsTurn ==
    ASSUME TenantInv, TenantInv', NEW r \in Requests, pc[r] = "commit", Publish(r),
           UNCHANGED told
    PROVE  Log!Next
<1> DEFINE turn == [request |-> r, conversation |-> rq[r].conversation,
                 tenant |-> rq[r].tenant, roles |-> Roles]
<1>1. OwnSession(r) /\ RolesOf(r) = {} /\ StagedRoles(r) = Roles /\ told[r] = None
  BY DEF TenantInv, OutcomeInv, AtomicInv, SessionDiscipline, OutcomeOf, BeforeCommit
<1>2. messages' = messages \cup tx[r].messages
  BY DEF Publish
<1>3. /\ RolesOf(r)' = Roles
      /\ \A q \in Requests \ {r} : RolesOf(q)' = RolesOf(q)
  BY PublishStep DEF TenantInv, OutcomeInv
<1>4. \A m \in messages : m.request \in Requests \ {r}
  <2>1. messages \subseteq MessageRows
    BY DEF TenantInv, OutcomeInv, AtomicInv, TypeInv, TypeOK, StoreTypeOK
  <2>2. ASSUME NEW m \in messages PROVE m.request \in Requests /\ m.request # r
    <3>1. m.request \in Requests
      BY <2>1 DEF MessageRows
    <3>2. m.request = r => m.role \in RolesOf(r)
      BY DEF RolesOf
    <3> QED
      BY <1>1, <3>1, <3>2
  <2> QED
    BY <2>2
<1>5. LogTurns' = LogTurns \cup {turn}
  <2>1. \A m \in messages : RolesOf(m.request)' = RolesOf(m.request)
    BY <1>3, <1>4
  <2>2. \A m \in tx[r].messages :
           /\ m.request = r /\ m.conversation = rq[r].conversation
           /\ m.tenant = rq[r].tenant /\ RolesOf(m.request)' = Roles
    BY <1>1, <1>3 DEF OwnSession
  <2>3. \E m \in tx[r].messages : TRUE
    BY <1>1 DEF StagedRoles, Roles
  <2>4. LogTurns' =
           {[request |-> m.request, conversation |-> m.conversation,
             tenant |-> m.tenant, roles |-> RolesOf(m.request)'] : m \in messages'}
    BY DEF LogTurns
  <2>5. LogTurns' \subseteq LogTurns \cup {turn}
    BY <1>2, <2>1, <2>2, <2>4 DEF LogTurns
  <2>6. LogTurns \subseteq LogTurns'
    BY <1>2, <2>1, <2>4 DEF LogTurns
  <2>7. turn \in LogTurns'
    BY <1>2, <2>2, <2>3, <2>4
  <2> QED
    BY <2>5, <2>6, <2>7
<1>6. turn \in Log!Turns
  <2>1. rq[r].conversation \in Conversations /\ rq[r].tenant \in Tenants
    BY DEF TenantInv, OutcomeInv, AtomicInv, TypeInv, TypeOK, Params
  <2> QED
    BY <2>1 DEF Log!Turns, Roles
<1>7. ~Log!Logged(r)
  BY <1>1, LoggedIffRoles
<1>8. ASSUME NEW u \in LogTurns, u.conversation = turn.conversation
      PROVE  u.tenant = turn.tenant
  <2>1. u \in LogTurns' /\ turn \in LogTurns'
    BY <1>5
  <2>2. PICK m \in messages' : u.conversation = m.conversation /\ u.tenant = m.tenant
    BY <2>1 DEF LogTurns
  <2>3. PICK n \in messages' : turn.conversation = n.conversation /\ turn.tenant = n.tenant
    BY <2>1 DEF LogTurns
  <2>4. TenantIsolation'
    BY TenantsAreApart, PTL
  <2>5. [id |-> m.conversation, tenant |-> m.tenant]
           = [id |-> n.conversation, tenant |-> n.tenant]
    BY <1>8, <2>2, <2>3, <2>4 DEF TenantIsolation
  <2> QED
    BY <2>2, <2>3, <2>5
<1>9. Log!AddTurn(turn)
  BY <1>1, <1>5, <1>7, <1>8 DEF Log!AddTurn, LogTurns
<1>10. \E u \in Log!Turns : Log!AddTurn(u)
  <2> HIDE DEF turn
  <2> QED
    BY <1>6, <1>9 DEF Log!AddTurn
<1> QED
  BY <1>10 DEF Log!Next

\* An answer that is not sent yet, and that the tables bear out.
LEMMA AnswerIsTold ==
    ASSUME TenantInv, UNCHANGED messages, NEW r \in Requests, told[r] = None,
           NEW a \in {"success", "not_found", "error"},
           told' = [told EXCEPT ![r] = a],
           a = "success" => Durable(r),
           a = "not_found" => RolesOf(r) = {}
    PROVE  Log!Next
<1>1. a = "success" => Log!Logged(r)
  BY LoggedIffRoles DEF Durable, Roles
<1>2. a = "not_found" => ~Log!Logged(r)
  BY LoggedIffRoles
<1>3. Log!Tell(r, a)
  BY <1>1, <1>2, LogTurnsKept DEF Log!Tell, LogTurns
<1>4. a \in Answers \ {None}
  BY DEF Answers, None
<1> QED
  BY <1>3, <1>4 DEF Log!Next

\* The answer that is sent agrees with the tables, at each of the three points it leaves.
LEMMA FrameIsTold ==
    ASSUME TenantInv, NEW r \in Requests, SendFrame(r)
    PROVE  Log!Next
<1>1. UNCHANGED messages /\ pc[r] = "frame" /\ told' = [told EXCEPT ![r] = Answer(r)]
  BY DEF SendFrame, storeVars
<1>2. OutcomeOf(r)
  BY DEF TenantInv, OutcomeInv
<1>3. told[r] = None
  BY <1>1, <1>2 DEF OutcomeOf
<1>4. /\ Answer(r) \in {"success", "not_found", "error"}
      /\ Answer(r) = "success" => Durable(r)
      /\ Answer(r) = "not_found" => RolesOf(r) = {}
  BY <1>1, <1>2 DEF OutcomeOf, Answer
<1> QED
  BY <1>1, <1>3, <1>4, AnswerIsTold

LEMMA NotFoundIsTold ==
    ASSUME TenantInv, NEW r \in Requests, SendFrameInTransaction(r)
    PROVE  Log!Next
<1>1. UNCHANGED messages /\ pc[r] = "frame_in_tx" /\ told' = [told EXCEPT ![r] = Answer(r)]
  BY DEF SendFrameInTransaction, Rollback, tables
<1>2. OutcomeOf(r)
  BY DEF TenantInv, OutcomeInv
<1>3. told[r] = None
  BY <1>1, <1>2 DEF OutcomeOf
<1>4. Answer(r) = "not_found" /\ RolesOf(r) = {}
  BY <1>1, <1>2 DEF OutcomeOf, Answer
<1> QED
  BY <1>1, <1>3, <1>4, AnswerIsTold

LEMMA FinishIsTold ==
    ASSUME TenantInv, NEW r \in Requests, Finish(r), told' # told
    PROVE  Log!Next
<1>1. UNCHANGED messages /\ pc[r] = "metrics"
  BY DEF Finish, WriteMetrics, storeVars
<1>2. ~IsStream(r) /\ told' = [told EXCEPT ![r] = Answer(r)]
  BY DEF Finish
<1>3. OutcomeOf(r)
  BY DEF TenantInv, OutcomeInv
<1>4. told[r] = None
  BY <1>1, <1>2, <1>3 DEF OutcomeOf
<1>5. /\ Answer(r) \in {"success", "not_found", "error"}
      /\ Answer(r) = "success" => Durable(r)
      /\ Answer(r) = "not_found" => RolesOf(r) = {}
  BY <1>1, <1>2, <1>3 DEF OutcomeOf, Answer
<1> QED
  BY <1>1, <1>2, <1>4, <1>5, AnswerIsTold

\* Every step maps to a step of the log or to a stutter.
LEMMA StepMaps ==
    ASSUME TenantInv, TenantInv', [Next]_vars
    PROVE  Log!Next \/ LogStutters
<1> USE DEF FailTurn, Rollback, tables, storeVars
<1>1. ASSUME UNCHANGED <<messages, told>> PROVE LogStutters
  BY <1>1, LogTurnsKept DEF LogStutters
<1>2. ASSUME NEW r \in Requests, NEW p \in Params, Arrive(r, p) PROVE LogStutters
  BY <1>1, <1>2 DEF Arrive
<1>3. ASSUME NEW r \in Requests, ReadContext(r) \/ ProviderStreams(r) PROVE LogStutters
  BY <1>1, <1>3 DEF ReadContext, ProviderStreams, StreamFinishes, StreamFails
<1>4. ASSUME NEW r \in Requests, OpenTurn(r) \/ NotFound(r) PROVE LogStutters
  BY <1>1, <1>4 DEF OpenTurn, NotFound
<1>5. ASSUME NEW r \in Requests, CacheHit(r) \/ ProviderAnswers(r) PROVE LogStutters
  BY <1>1, <1>5 DEF CacheHit, ProviderAnswers
<1>6. ASSUME NEW r \in Requests, FlushAssistant(r) PROVE LogStutters
  BY <1>1, <1>6 DEF FlushAssistant
<1>7. ASSUME NEW r \in Requests, CommitTurn(r) PROVE Log!Next
  BY <1>7, PublishAddsTurn DEF CommitTurn, Commit
<1>8. ASSUME NEW r \in Requests, CommitUnacknowledged(r) PROVE Log!Next
  BY <1>8, PublishAddsTurn DEF CommitUnacknowledged, Commit
<1>9. ASSUME NEW r \in Requests, StoreReply(r) \/ ErrorTelemetry(r) PROVE LogStutters
  BY <1>1, <1>9 DEF StoreReply, ErrorTelemetry
<1>10. ASSUME NEW r \in Requests, SendFrame(r) PROVE Log!Next
  BY <1>10, FrameIsTold
<1>11. ASSUME NEW r \in Requests, SendFrameInTransaction(r) PROVE Log!Next
  BY <1>11, NotFoundIsTold
<1>12. ASSUME NEW r \in Requests, Finish(r) PROVE Log!Next \/ LogStutters
  <2>1. UNCHANGED messages
    BY <1>12 DEF Finish, WriteMetrics
  <2> QED
    BY <1>1, <1>12, <2>1, FinishIsTold
<1>13. ASSUME NEW r \in Requests, CloseSession(r) PROVE LogStutters
  BY <1>1, <1>13 DEF CloseSession, handlerVars
<1>14. ASSUME NEW r \in Requests, ProviderFails(r) \/ DatabaseFails(r) \/ UsageInsertFails(r)
       PROVE  LogStutters
  BY <1>1, <1>14 DEF ProviderFails, DatabaseFails, UsageInsertFails
<1>15. ASSUME NEW r \in Requests, Disconnect(r) PROVE LogStutters
  BY <1>1, <1>15 DEF Disconnect
<1>16. ASSUME NEW r \in Requests, DisconnectInCommit(r) PROVE Log!Next \/ LogStutters
  <2>1. pc[r] = "commit" /\ UNCHANGED told
    BY <1>16 DEF DisconnectInCommit
  <2>2. Publish(r) \/ UNCHANGED tables
    BY <1>16 DEF DisconnectInCommit
  <2> QED
    BY <1>1, <2>1, <2>2, PublishAddsTurn
<1>17. CASE Restart \/ Reingest \/ CacheExpires \/ UNCHANGED vars
  BY <1>1, <1>17 DEF Restart, Reingest, CacheExpires, handlerVars, vars
<1> QED
  BY <1>2, <1>3, <1>4, <1>5, <1>6, <1>7, <1>8, <1>9, <1>10, <1>11, <1>12, <1>13, <1>14, <1>15,
     <1>16, <1>17
  DEF Next, HandlerStep, Failure

\* The handlers implement the log of whole turns: however many requests run, fail, are
\* abandoned or are cut off by a restart, the tables and the answers change as TurnLog says.
THEOREM Implements == Spec => LogSpec
<1>1. Init => Log!Init
  BY DEF Init, StoreInit, Log!Init
<1>2. TenantInv /\ TenantInv' /\ [Next]_vars => [Log!Next]_Log!logVars
  BY StepMaps DEF LogStutters, LogTurns, Log!logVars
<1> QED
  BY <1>1, <1>2, TenantCorrect, PTL DEF Spec, LogSpec, Log!Spec
=============================================================================
