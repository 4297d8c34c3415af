----------------------------- MODULE RequestStack -----------------------------
(***************************************************************************)
(* The middleware a request crosses on its way to a route and back.        *)
(* Starlette runs the middleware added last first.  The access log and the *)
(* size limit run what they wrap in a task of its own, which starts with a *)
(* copy of their context variables: what is set inside a task is not seen  *)
(* outside of it.                                                          *)
(*                                                                         *)
(* One request is followed: requests share no context.  Its tenants and    *)
(* identifiers are told apart by where they come from.                     *)
(***************************************************************************)
EXTENDS Integers, Sequences, SequencesExt

CONSTANTS
    Statuses,      \* what a route may answer
    Guarded        \* whether a staging key is configured

VARIABLES
    request,       \* what the client sent
    depth,         \* the layer it is at: 0 outside of all, Len(Order) + 1 at the route
    inward,        \* whether it is still on its way to the route
    contexts,      \* the context variables of its tasks, the innermost last
    served,        \* what the route saw: none until it runs
    answer,        \* the response: its status is 0 while there is none
    raised,        \* an exception is on its way out
    lines          \* the access log

vars == <<request, depth, inward, contexts, served, answer, raised, lines>>

\* In the order a request meets them.
OrderOfLogs == <<"guard", "cors", "log", "tenant", "size", "context">>

Order == Reverse(<<"context", "size", "log", "tenant", "cors", "guard">>)

NoContext == [tenant |-> "unset", id |-> "none", correlation |-> "none", telemetry |-> "none",
              collector |-> FALSE]
NoAnswer == [status |-> 0, id |-> "none", correlation |-> "none", cors |-> FALSE]

\* An identifier is a UUID, any other text, absent or blank, or two headers with two texts.
Identifiers == {"none", "uuid", "text", "two"}

Requests ==
    [kind : {"preflight", "options", "probe", "api"}, key : BOOLEAN, origin : BOOLEAN,
     tenant : {"none", "good", "bad"}, token : {"none", "good", "bad"},
     id : Identifiers, correlation : {"none", "text"},
     length : {"none", "small", "large", "bad"}, body : {"small", "large"}]

Init ==
    /\ request \in {r \in Requests : /\ r.length = "large" => r.body = "large"
                                     /\ r.length = "small" => r.body = "small"
                                     /\ r.kind # "api" => r.length = "none" /\ r.body = "small"}
    /\ depth = 1 /\ inward = TRUE
    /\ contexts = <<NoContext>>
    /\ served = <<>> /\ answer = NoAnswer /\ raised = FALSE /\ lines = <<>>

Inner == contexts[Len(contexts)]
Set(context) == contexts' = [contexts EXCEPT ![Len(contexts)] = context]
Fork == contexts' = Append(contexts, Inner)

At(layer) == depth \in 1 .. Len(Order) /\ Order[depth] = layer
Arrives(layer) == inward /\ At(layer)
Leaves(layer) == ~inward /\ At(layer)

Onward == depth' = depth + 1 /\ UNCHANGED <<inward, answer>>
Outward == depth' = depth - 1
TurnBack(response) == answer' = response /\ inward' = FALSE /\ depth' = depth - 1

----------------------------------------------------------------------------
(* On the way in.                                                           *)

\* The key is not asked of a preflight, of any other OPTIONS, or of a probe.
Guard ==
    /\ Arrives("guard")
    /\ IF Guarded /\ request.kind = "api" /\ ~request.key
       THEN TurnBack([NoAnswer EXCEPT !.status = 401, !.cors = request.origin])
       ELSE Onward
    /\ UNCHANGED <<request, contexts, served, raised, lines>>

Cors ==
    /\ Arrives("cors")
    /\ IF request.kind = "preflight"
       THEN TurnBack([NoAnswer EXCEPT !.status = IF request.origin THEN 200 ELSE 400,
                                      !.cors = request.origin])
       ELSE Onward
    /\ UNCHANGED <<request, contexts, served, raised, lines>>

\* The header wins over the token; what is not well formed counts as the default.
TenantOf(r) ==
    LET source == IF r.tenant # "none" THEN r.tenant ELSE r.token
    IN  IF source = "good" THEN "named" ELSE "default"

Tenant ==
    /\ Arrives("tenant")
    /\ Set([Inner EXCEPT !.tenant = TenantOf(request)])
    /\ Onward
    /\ UNCHANGED <<request, served, raised, lines>>

CallNext ==
    /\ Arrives("log")
    /\ Fork /\ Onward
    /\ UNCHANGED <<request, served, raised, lines>>

\* A length that is not a number is left to the body.
SizeLimit ==
    /\ Arrives("size")
    /\ IF request.length = "large" \/ request.body = "large"
       THEN TurnBack([NoAnswer EXCEPT !.status = 413]) /\ UNCHANGED contexts
       ELSE Fork /\ Onward
    /\ UNCHANGED <<request, served, raised, lines>>

\* Of two headers the last.
IdOf(r) == IF r.id = "none" THEN "minted" ELSE "sent"
CorrelationOf(r) == IF r.correlation = "none" THEN IdOf(r) ELSE "sent too"

\* Only a UUID is kept for the telemetry, whatever else the client sent.
validate_correlation_id(id) == IF id = "uuid" THEN "sent" ELSE "none"

RequestContext ==
    /\ Arrives("context")
    /\ Set([Inner EXCEPT !.id = IdOf(request), !.correlation = CorrelationOf(request),
                         !.telemetry = validate_correlation_id(request.id), !.collector = TRUE])
    /\ Onward
    /\ UNCHANGED <<request, served, raised, lines>>

\* A refusal of the route is an answer as well; an OPTIONS has no route.
Route ==
    /\ inward /\ depth = Len(Order) + 1
    /\ served' = <<Inner>>
    /\ \/ /\ \E s \in IF request.kind = "options" THEN {405} ELSE Statuses :
                TurnBack([NoAnswer EXCEPT !.status = s])
          /\ UNCHANGED raised
       \/ /\ request.kind # "options"
          /\ raised' = TRUE
          /\ TurnBack(NoAnswer)
    /\ UNCHANGED <<request, contexts, lines>>

----------------------------------------------------------------------------
(* On the way out.                                                          *)

\* The identifiers are written over those of the route, then the variables reset.
LeaveContext ==
    /\ Leaves("context") /\ Outward
    /\ answer' = IF raised THEN answer
                 ELSE [answer EXCEPT !.id = Inner.id, !.correlation = Inner.correlation]
    /\ Set([NoContext EXCEPT !.tenant = Inner.tenant])
    /\ UNCHANGED <<request, inward, served, raised, lines>>

Join == contexts' = Front(contexts)

LeaveSize ==
    /\ Leaves("size") /\ Outward /\ Join
    /\ UNCHANGED <<request, inward, served, answer, raised, lines>>

\* Of two headers the first.
LogIdOf(r) == IF r.id = "two" THEN "sent first" ELSE "sent"

\* One line whatever happened: the identifiers sent, or those of the log's own context.
Log ==
    /\ Leaves("log") /\ Outward /\ Join
    /\ LET own == contexts'[Len(contexts')]
           id == IF request.id # "none" THEN LogIdOf(request)
                 ELSE IF own.id # "none" THEN own.id ELSE "minted by the log"
       IN  lines' = Append(lines,
                [id |-> id,
                 correlation |-> IF request.correlation # "none" THEN "sent too"
                                 ELSE IF own.correlation # "none" THEN own.correlation ELSE id,
                 tenant |-> IF own.tenant = "unset" THEN "default" ELSE own.tenant,
                 status |-> answer.status])
    /\ UNCHANGED <<request, inward, served, answer, raised>>

LeaveTenant ==
    /\ Leaves("tenant") /\ Outward
    /\ Set([Inner EXCEPT !.tenant = "unset"])
    /\ UNCHANGED <<request, inward, served, answer, raised, lines>>

LeaveCors ==
    /\ Leaves("cors") /\ Outward
    /\ answer' = IF raised THEN answer ELSE [answer EXCEPT !.cors = request.origin]
    /\ UNCHANGED <<request, inward, contexts, served, raised, lines>>

LeaveGuard ==
    /\ Leaves("guard") /\ Outward
    /\ UNCHANGED <<request, inward, contexts, served, answer, raised, lines>>

\* What nothing caught is answered by the server, outside of every layer.
ServerError ==
    /\ depth = 0 /\ raised
    /\ answer' = [NoAnswer EXCEPT !.status = 500]
    /\ raised' = FALSE
    /\ UNCHANGED <<request, depth, inward, contexts, served, lines>>

Next ==
    \/ Guard \/ Cors \/ Tenant \/ CallNext \/ SizeLimit \/ RequestContext \/ Route
    \/ LeaveContext \/ LeaveSize \/ Log \/ LeaveTenant \/ LeaveCors \/ LeaveGuard
    \/ ServerError

Spec == Init /\ [][Next]_vars

----------------------------------------------------------------------------

(* Whatever the order of the layers has to get right at once.  A request   *)
(* that is neither a preflight nor turned away by the guard has exactly    *)
(* one line, with the tenant the route worked for and the status the       *)
(* client saw, or none when an exception left the route; a browser of an   *)
(* allowed origin can read every answer but the server's own 500; and no   *)
(* task is left with the variables of the request.  The identifiers of the *)
(* line are those of the answer where the client sent one header and the   *)
(* innermost layer saw the answer: of two headers the log takes the first  *)
(* and the answer the last, without one each makes up its own, and what an *)
(* outer layer answers has none (main.py, structured_logging.py, tenant.py, *)
(* request_context.py).                                                    *)
AnswersAreAccountedFor ==
    depth = 0 /\ ~raised =>
        LET turned == answer.status = 401
            logged == request.kind # "preflight" /\ ~turned
        IN  /\ Len(lines) = IF logged THEN 1 ELSE 0
            /\ \A line \in ToSet(lines) :
                  /\ line.tenant = TenantOf(request)
                  /\ \A seen \in ToSet(served) : line.tenant = seen.tenant
                  /\ line.status \in {0, answer.status}
                  /\ line.status = 0 <=> answer.status = 500 /\ ~answer.cors /\ answer.id = "none"
                  /\ request.id \notin {"none", "two"} /\ answer.id # "none" =>
                        line.id = answer.id /\ line.correlation = answer.correlation
            /\ \A seen \in ToSet(served) :
                  /\ seen.collector
                  /\ seen.telemetry = "sent" => request.id = "uuid"
            /\ answer.cors <=> request.origin /\ (logged => lines[1].status # 0)
            /\ contexts = <<NoContext>>

\* What the docstring of the innermost layer says, here of the requests that crossed it alone:
\* the server's own 500 is made outside of it.
HeadersOnEveryResponse ==
    depth = 0 /\ ~raised /\ served # <<>> =>
        answer.id # "none" /\ answer.correlation # "none"
=============================================================================
