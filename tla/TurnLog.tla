------------------------------ MODULE TurnLog ------------------------------
(***************************************************************************)
(* What POST /chat promises: a log of whole turns.  A request adds at most   *)
(* one turn, both of its messages at once, to a conversation of its own      *)
(* tenant, and only before it is answered; it is answered at most once, with *)
(* success only when its turn is in the log and with "not found" only when   *)
(* it is not.                                                                *)
(***************************************************************************)
CONSTANTS Requests, Tenants, Conversations, Answers, None

VARIABLES
    turns,   \* the turns in the log
    told     \* told[r]: the answer the client of r has been sent

logVars == <<turns, told>>

Turns ==
    [request : Requests, conversation : Conversations, tenant : Tenants,
     roles : {{"user", "assistant"}}]

Init ==
    /\ turns = {}
    /\ told = [r \in Requests |-> None]

Logged(r) == \E t \in turns : t.request = r

AddTurn(t) ==
    /\ ~Logged(t.request)
    /\ told[t.request] = None
    /\ \A u \in turns : u.conversation = t.conversation => u.tenant = t.tenant
    /\ turns' = turns \cup {t}
    /\ UNCHANGED told

Tell(r, a) ==
    /\ told[r] = None
    /\ a = "success" => Logged(r)
    /\ a = "not_found" => ~Logged(r)
    /\ told' = [told EXCEPT ![r] = a]
    /\ UNCHANGED turns

Next ==
    \/ \E t \in Turns : AddTurn(t)
    \/ \E r \in Requests, a \in Answers \ {None} : Tell(r, a)

Spec == Init /\ [][Next]_logVars
=============================================================================
