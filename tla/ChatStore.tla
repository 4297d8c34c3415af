----------------------------- MODULE ChatStore -----------------------------
(***************************************************************************)
(* The PostgreSQL tables the /chat write path touches, and the session each *)
(* request holds on them.  A session stages the rows it has flushed (or     *)
(* added, for a usage event); the other sessions see them only once they    *)
(* are committed.  Message.sequence is an Identity column: the number is    *)
(* taken when the row is flushed and is never given back by a rollback.     *)
(***************************************************************************)
EXTENDS Integers, FiniteSets

CONSTANTS
    Requests,       \* the HTTP requests of a behaviour
    Tenants,        \* the tenant ids the tenant middleware resolves
    Conversations,  \* the conversation ids in play
    Texts           \* the texts users send

ASSUME NonEmptyConstants == Tenants # {} /\ Conversations # {} /\ Texts # {}

Roles == {"user", "assistant"}

\* MessageRole has a "system" member; /chat never writes one.
MessageRows ==
    [request      : Requests,
     conversation : Conversations,
     tenant       : Tenants,
     role         : Roles,
     content      : Texts \cup Requests,  \* a reply is named by the request it was generated for
     sequence     : Nat]

ConversationRows == [id : Conversations, tenant : Tenants]

\* message is the request whose assistant row the event references (message_id),
\* or "null" for the foreign-key-free row of the error path.
UsageRows == [request : Requests, status : {"success", "error"}, message : {"assistant", "null"}]

Sessions ==
    [open          : BOOLEAN,
     conversations : SUBSET ConversationRows,
     messages      : SUBSET MessageRows,
     usage         : SUBSET UsageRows]

VARIABLES
    conversations,  \* committed conversation rows
    messages,       \* committed message rows
    usage_events,   \* committed usage_events rows
    sequence,       \* the next value of the Identity column
    tx              \* tx[r]: the transaction of r's AsyncSession

storeVars == <<conversations, messages, usage_events, sequence, tx>>
tables    == <<conversations, messages, usage_events>>

NoTx == [open |-> FALSE, conversations |-> {}, messages |-> {}, usage |-> {}]

StoreInit ==
    /\ conversations = {}
    /\ messages = {}
    /\ usage_events = {}
    /\ sequence = 1
    /\ tx = [r \in Requests |-> NoTx]

StoreTypeOK ==
    /\ conversations \subseteq ConversationRows
    /\ messages \subseteq MessageRows
    /\ usage_events \subseteq UsageRows
    /\ sequence \in Nat \ {0}
    /\ tx \in [Requests -> Sessions]

----------------------------------------------------------------------------
(* The operations of a session.                                             *)

\* db.get(Conversation, id): the row another request committed, if any.
Owns(tenant, c) == [id |-> c, tenant |-> tenant] \in conversations

\* The number is one more than that of the newest committed row.
MessageRowAfterNewest(r, conversation, tenant, role, content) ==
    [request |-> r, conversation |-> conversation, tenant |-> tenant, role |-> role,
     content |-> content,
     sequence |-> 1 + Cardinality(messages)]

\* A row takes the next sequence number when it is flushed.
MessageRow(r, conversation, tenant, role, content) ==
    [request |-> r, conversation |-> conversation, tenant |-> tenant, role |-> role,
     content |-> content, sequence |-> sequence]

\* db.begin() and the rows flushed with it.
Begin(r, convRows, msgRows) ==
    /\ ~tx[r].open
    /\ tx' = [tx EXCEPT ![r] = [NoTx EXCEPT !.open = TRUE,
                                            !.conversations = convRows,
                                            !.messages = msgRows]]

\* db.add() in an open transaction.
Stage(r, msgRows, usageRows) ==
    tx' = [tx EXCEPT ![r].messages = @ \cup msgRows, ![r].usage = @ \cup usageRows]

\* The rows a session staged become visible together.
Publish(r) ==
    /\ conversations' = conversations \cup tx[r].conversations
    /\ messages' = messages \cup tx[r].messages
    /\ usage_events' = usage_events \cup tx[r].usage

Commit(r) ==
    /\ Publish(r)
    /\ tx' = [tx EXCEPT ![r] = NoTx]

Rollback(r) ==
    /\ tx' = [tx EXCEPT ![r] = NoTx]
    /\ UNCHANGED tables
=============================================================================
