--------------------------- MODULE ExternalReads ---------------------------
(***************************************************************************)
(* The two controlled reads of the outside.  Notion pages are read through  *)
(* one subprocess that the application starts and stops: its client enters  *)
(* a pipe, a session and a handshake, any of which may fail.  Web pages are *)
(* read chunk by chunk up to a limit of bytes and of characters.            *)
(***************************************************************************)
EXTENDS Naturals, Sequences

CONSTANTS
    Reads,                       \* requests to /notion-read/page
    Pages, AllowedPages,
    Urls, AllowedUrls,           \* what _validate_url accepts
    Bodies,                      \* sequences of the lengths of the chunks of a body
    MaxBytes, MaxChars,          \* web_read_max_bytes, web_read_max_chars
    CharsOf(_)                   \* length of the text of so many bytes

VARIABLES
    boot,      \* where start() and stop() are
    proc,      \* the subprocess runs
    loop,      \* the session's receive loop runs
    started,   \* _started
    served,    \* app.state.notion_read_service is set
    stuck,     \* an __aexit__ failed
    read,      \* of a request: where it is, or its HTTP status
    page,      \* the page it asks for
    web        \* the web read in progress, or its result

vars == <<boot, proc, loop, started, served, stuck, read, page, web>>

Idle == [at |-> "idle"]

Init ==
    /\ boot = "off"
    /\ proc = FALSE /\ loop = FALSE /\ started = FALSE /\ served = FALSE /\ stuck = FALSE
    /\ read = [r \in Reads |-> "new"]
    /\ page \in [Reads -> Pages]
    /\ web = Idle

----------------------------------------------------------------------------
(* The client's life.                                                       *)

EnterPipe ==
    /\ boot = "off"
    /\ boot' = "piped" /\ proc' = TRUE
    /\ UNCHANGED <<loop, started, served, stuck, read, page, web>>

EnterSession ==
    /\ boot = "piped"
    /\ boot' = "session" /\ loop' = TRUE
    /\ UNCHANGED <<proc, started, served, stuck, read, page, web>>

\* After the handshake the lifespan sets the service on the application.
Handshake ==
    /\ boot = "session" /\ proc /\ loop
    /\ boot' = "ready" /\ started' = TRUE /\ served' = TRUE
    /\ UNCHANGED <<proc, loop, stuck, read, page, web>>

\* The session alone is closed.
ExitSession ==
    /\ loop' = FALSE
    /\ UNCHANGED <<proc, stuck>>

\* Both contexts are exited, in reverse order; an error of either is swallowed.
ExitContexts ==
    \/ proc' = FALSE /\ loop' = FALSE /\ UNCHANGED stuck
    \/ /\ proc' \in {FALSE, proc} /\ loop' \in {FALSE, loop}
       /\ stuck' = TRUE

\* A step of start() raises: what was entered is exited, and the application starts without.
StartFails ==
    /\ boot \in {"off", "piped", "session"}
    /\ ExitContexts
    /\ boot' = "failed"
    /\ UNCHANGED <<started, served, read, page, web>>

\* stop() marks the client before it exits anything.
Stop ==
    /\ boot = "ready"
    /\ boot' = "stopping" /\ started' = FALSE
    /\ UNCHANGED <<proc, loop, served, stuck, read, page, web>>

Stopped ==
    /\ boot = "stopping"
    /\ ExitContexts
    /\ boot' = "stopped"
    /\ UNCHANGED <<started, served, read, page, web>>

\* The subprocess dies by itself: nobody restarts it, and _started stays.
ProcDies ==
    /\ boot \in {"piped", "session", "ready"} /\ proc
    /\ proc' = FALSE
    /\ UNCHANGED <<boot, loop, started, served, stuck, read, page, web>>

\* The end of its output ends the receive loop; calls that wait are told that the connection is
\* closed.
LoopEnds ==
    /\ boot \in {"session", "ready", "stopping"} /\ ~proc /\ loop
    /\ loop' = FALSE
    /\ UNCHANGED <<boot, proc, started, served, stuck, read, page, web>>

----------------------------------------------------------------------------
(* GET /notion-read/page.                                                   *)

To(r, at) == read' = [read EXCEPT ![r] = at] /\ UNCHANGED <<boot, proc, loop, started, served, stuck, page, web>>

\* No service 503, no entry in the allowlist 403, a client that is not started 502.
Refused(r) ==
    /\ read[r] = "new"
    /\ \/ ~served /\ To(r, "503")
       \/ served /\ page[r] \notin AllowedPages /\ To(r, "403")
       \/ served /\ page[r] \in AllowedPages /\ ~started /\ To(r, "502")

Call(r) ==
    /\ read[r] = "new" /\ served /\ started /\ page[r] \in AllowedPages
    /\ To(r, "calling")

\* The page's metadata.
Reply(r) == read[r] = "calling" /\ proc /\ loop /\ To(r, "200")

\* A reply that is empty or not JSON, a Notion error, a closed pipe.
ReplyIsBad(r) == read[r] = "calling" /\ To(r, "502")

Timeout(r) == read[r] = "calling" /\ To(r, "504")

----------------------------------------------------------------------------
(* WebReadService.read_url.                                                 *)

SumOf(lengths) ==
    LET sum[i \in 0 .. Len(lengths)] == IF i = 0 THEN 0 ELSE sum[i - 1] + lengths[i]
    IN  sum[Len(lengths)]

WebOnly == UNCHANGED <<boot, proc, loop, started, served, stuck, read, page>>

Open(url, final, body) ==
    /\ web.at = "idle" /\ url \in AllowedUrls
    /\ web' = [at |-> "reading", final |-> final, body |-> body, chunks |-> body,
               bytes |-> 0, truncated |-> FALSE]
    /\ WebOnly

Blocked(url) ==
    /\ web.at = "idle" /\ url \notin AllowedUrls
    /\ web' = [at |-> "blocked"]
    /\ WebOnly

\* The loop of _fetch: the chunk that does not fit is cut, and ends the read.
TakeChunk ==
    /\ web.at = "reading" /\ web.chunks # <<>>
    /\ LET remaining == MaxBytes - web.bytes
           chunk == Head(web.chunks)
       IN  web' = IF remaining = 0 \/ chunk > remaining
                  THEN [web EXCEPT !.bytes = MaxBytes, !.truncated = TRUE, !.chunks = <<>>]
                  ELSE [web EXCEPT !.bytes = @ + chunk, !.chunks = Tail(@)]
    /\ WebOnly

\* A status of 400 or more, or a transport error, wherever the read is.
FetchFails ==
    /\ web.at = "reading"
    /\ web' = [at |-> "failed"]
    /\ WebOnly

\* Where the redirects led is checked as the url was, and the text is cut once more.
Read ==
    /\ web.at = "reading" /\ web.chunks = <<>>
    /\ web' = IF web.final \notin AllowedUrls THEN [at |-> "blocked"]
              ELSE LET chars == CharsOf(web.bytes)
                   IN  [at |-> "read", final |-> web.final, body |-> web.body,
                        chars |-> IF chars > MaxChars THEN MaxChars ELSE chars,
                        truncated |-> web.truncated \/ chars > MaxChars]
    /\ WebOnly

Next ==
    \/ EnterPipe \/ EnterSession \/ Handshake \/ StartFails \/ Stop \/ Stopped \/ ProcDies
    \/ LoopEnds
    \/ \E r \in Reads : Refused(r) \/ Call(r) \/ Reply(r) \/ ReplyIsBad(r) \/ Timeout(r)
    \/ \E url, final \in Urls, body \in Bodies : Open(url, final, body)
    \/ \E url \in Urls : Blocked(url)
    \/ TakeChunk \/ FetchFails \/ Read

Spec == Init /\ [][Next]_vars

----------------------------------------------------------------------------
(* Properties.                                                              *)

\* Whichever step of start() failed, whenever the child died, and whatever was entered by then:
\* a client that is not in use leaves no subprocess and no receive loop behind, unless an exit
\* itself failed; the application serves only a client whose start went through, and until
\* stop() a child that runs still has the loop that reads its answers.
NoStrayProcess ==
    /\ boot \in {"failed", "stopped"} /\ ~stuck => ~proc /\ ~loop
    /\ served => boot \in {"ready", "stopping", "stopped"}
    /\ started => served /\ (proc => loop)

=============================================================================
