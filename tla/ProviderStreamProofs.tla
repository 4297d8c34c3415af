------------------------- MODULE ProviderStreamProofs -------------------------
(***************************************************************************)
(* Theorems about one streamed generation: what the client is sent is what  *)
(* one provider sent, over two queues and a fallback, and the one summary   *)
(* of the request agrees with it.                                           *)
(***************************************************************************)
EXTENDS ProviderStream, TLAPS

(* The least and the greatest of a set of positions are in it.              *)
Places == INSTANCE Folding WITH Op <- LAMBDA x, y : x, Base <- 0, Weight <- LAMBDA x : x

Chunk == Providers \X Nat

\* A queue is chunks, and perhaps the end marker after them.
IsQueue(q) == Contents(q) \in Seq(Chunk) /\ (q = Contents(q) \/ q = Append(Contents(q), End))

----------------------------------------------------------------------------
(* Sequences of chunks and queues.                                          *)

LEMMA EndIsNoChunk == End \notin Chunk
  BY DEF End, Chunk, Providers

LEMMA OpenQueue ==
    ASSUME NEW q \in Seq(Chunk)
    PROVE  Contents(q) = q /\ IsQueue(q)
  <1>1. ~(q # <<>> /\ q[Len(q)] = End)
    BY EndIsNoChunk
  <1> QED
    BY <1>1 DEF Contents, IsQueue

LEMMA ClosedQueue ==
    ASSUME NEW q \in Seq(Chunk)
    PROVE  Contents(Append(q, End)) = q /\ IsQueue(Append(q, End))
  <1> DEFINE c == Append(q, End)
  <1>1. /\ c \in Seq(Chunk \cup {End}) /\ Len(c) = Len(q) + 1 /\ c # <<>>
        /\ c[Len(c)] = End /\ \A i \in 1 .. Len(q) : c[i] = q[i]
    OBVIOUS
  <1>2. SubSeq(c, 1, Len(c) - 1) = q
    <2> DEFINE d == SubSeq(c, 1, Len(c) - 1)
    <2> HIDE DEF c
    <2>1. d \in Seq(Chunk \cup {End}) /\ Len(d) = Len(q) /\ \A i \in 1 .. Len(q) : d[i] = c[i]
      BY <1>1
    <2> HIDE DEF d
    <2>2. d = q
      BY <1>1, <2>1
    <2> QED
      BY <2>2 DEF d
  <1>3. Contents(c) = q
    BY <1>1, <1>2 DEF Contents
  <1> QED
    BY <1>3 DEF IsQueue

(* Taking the head of a queue takes the first of its chunks, or its marker. *)
LEMMA TakesChunk ==
    ASSUME NEW q, IsQueue(q), q # <<>>, Head(q) # End
    PROVE  /\ IsQueue(Tail(q)) /\ Contents(q) # <<>>
           /\ Head(q) = Head(Contents(q)) /\ Contents(Tail(q)) = Tail(Contents(q))
           /\ Head(q) \in Chunk
           /\ q \in Seq(Chunk) => Tail(q) \in Seq(Chunk)
  <1> DEFINE t == Contents(q)
  <1>1. t \in Seq(Chunk) /\ (q = t \/ q = Append(t, End))
    BY DEF IsQueue
  <1>2. CASE q = t
    <2>1. Tail(q) \in Seq(Chunk) /\ Head(q) \in Chunk
      BY <1>1, <1>2
    <2> QED
      BY <1>2, <2>1, OpenQueue
  <1>3. CASE q = Append(t, End)
    <2> HIDE DEF t
    <2>1. t # <<>>
      BY <1>1, <1>3
    <2>2. /\ Tail(t) \in Seq(Chunk) /\ Head(t) \in Chunk /\ Head(q) = Head(t)
      BY <1>1, <1>3, <2>1
    <2>3. Tail(q) = Append(Tail(t), End)
      BY <1>1, <1>3, <2>1
    <2>4. Contents(Tail(q)) = Tail(t) /\ IsQueue(Tail(q))
      BY <2>2, <2>3, ClosedQueue
    <2>5. q \notin Seq(Chunk)
      <3>1. Len(q) \in Nat /\ q[Len(q)] = End /\ Len(q) >= 1
        BY <1>1, <1>3
      <3> QED
        BY <3>1, EndIsNoChunk
    <2> QED
      BY <2>1, <2>2, <2>4, <2>5 DEF t
  <1> QED
    BY <1>1, <1>2, <1>3

LEMMA TakesEnd ==
    ASSUME NEW q, IsQueue(q), q # <<>>, Head(q) = End
    PROVE  /\ Contents(q) = <<>> /\ Tail(q) = <<>> /\ q \notin Seq(Chunk)
           /\ IsQueue(<<>>) /\ Contents(<<>>) = <<>>
  <1> DEFINE t == Contents(q)
  <1>1. t \in Seq(Chunk) /\ (q = t \/ q = Append(t, End))
    BY DEF IsQueue
  <1>2. <<>> \in Seq(Chunk)
    OBVIOUS
  <1>3. IsQueue(<<>>) /\ Contents(<<>>) = <<>>
    BY <1>2, OpenQueue
  <1> HIDE DEF t
  <1>4. q # t
    BY <1>1, EndIsNoChunk
  <1>5. t = <<>>
    <2>1. t # <<>> => Head(Append(t, End)) = Head(t) /\ Head(t) \in Chunk
      BY <1>1
    <2> QED
      BY <1>1, <1>4, <2>1, EndIsNoChunk
  <1>6. Tail(q) = <<>>
    <2>1. q = Append(<<>>, End)
      BY <1>1, <1>4, <1>5
    <2>2. q \in Seq({End}) /\ Len(q) = 1
      BY <2>1
    <2>3. Tail(q) \in Seq({End}) /\ Len(Tail(q)) = 0
      BY <2>2
    <2> QED
      BY <2>3
  <1>7. q \notin Seq(Chunk)
    BY EndIsNoChunk
  <1> QED
    BY <1>3, <1>5, <1>6, <1>7 DEF t

(* A chunk moved from the front of one sequence to the end of the one       *)
(* before it leaves the whole as it was.                                    *)
LEMMA Moves ==
    ASSUME NEW a \in Seq(Chunk), NEW b \in Seq(Chunk), b # <<>>
    PROVE  /\ Append(a, Head(b)) \in Seq(Chunk) /\ Tail(b) \in Seq(Chunk)
           /\ Append(a, Head(b)) \o Tail(b) = a \o b
  <1> DEFINE l == Append(a, Head(b)) \o Tail(b)
             r == a \o b
  <1>1. Append(a, Head(b)) \in Seq(Chunk) /\ Tail(b) \in Seq(Chunk)
    OBVIOUS
  <1>2. l \in Seq(Chunk) /\ r \in Seq(Chunk) /\ Len(l) = Len(r)
    BY <1>1
  <1>3. \A i \in 1 .. Len(r) : l[i] = r[i]
    OBVIOUS
  <1> HIDE DEF l, r
  <1>4. l = r
    BY <1>2, <1>3
  <1> QED
    BY <1>1, <1>4 DEF l, r
----------------------------------------------------------------------------
(* What holds of a stream at every step.                                    *)

Sessions ==
    [task : {"none", "reading", "closing", "done"}, parts : Seq(Chunk),
     queue : Seq(Chunk \cup {End}), result : {"none", "ok"} \cup Errors, completed : BOOLEAN]

\* A session's deltas are numbered, and its queue ends when its stream has.
SessionOk(p) ==
    /\ \A i \in 1 .. Len(adapter[p].parts) : adapter[p].parts[i] = <<p, i>>
    /\ IsQueue(adapter[p].queue)
    /\ adapter[p].task \in {"none", "reading"} => adapter[p].queue \in Seq(Chunk)
    /\ adapter[p].task = "none" => adapter[p].parts = <<>> /\ adapter[p].queue = <<>>
    /\ adapter[p].task \in {"closing", "done"} => adapter[p].result # "none"

Drivers ==
    [at : {"none", "open_fallback", "done"} \cup Providers, first_chunk_emitted : BOOLEAN,
     fallback_used : BOOLEAN, error : {"none"} \cup Errors,
     final_result : {"none"} \cup Providers]

\* Where no stream was opened.
Asking ==
    {"open_primary", "open_fallback", "run_primary", "run_fallback", "run_reply", "run_result"}

StreamTypes ==
    /\ resilient \in BOOLEAN
    /\ adapter \in [Providers -> Sessions] /\ \A p \in Providers : SessionOk(p)
    /\ driver \in Drivers
    /\ IsQueue(queue) /\ reply \in Seq(Chunk)
    /\ pc \in Asking \cup {"consume", "consume_direct", "await_task", "done"}
    /\ verdict \in {"none", "final", "error", "cancelled"} /\ (pc = "done" <=> verdict # "none")

\* What each point of the consumer and of the driver knows of the sessions.
PointsAgree ==
    /\ pc \in Asking => driver.at = "none" /\ \A p \in Providers : adapter[p].task = "none"
    /\ pc \in Asking \ {"run_result"} => reply = <<>>
    /\ pc \in {"run_reply", "run_result"} => \E p \in Providers : answer = << <<p, 0>> >>
    /\ pc = "run_result" => reply = answer
    /\ pc \in {"open_fallback", "run_fallback"} => resilient
    /\ pc = "consume" => driver.at # "none"
    /\ pc \in {"consume_direct", "await_task"} =>
          ~resilient /\ adapter["primary"].task # "none"
    /\ pc = "await_task" =>
          adapter["primary"].queue = <<>> /\ adapter["primary"].task # "reading"
    /\ driver.at = "none" => queue = <<>>
    /\ driver.at # "none" => resilient
    /\ driver.at # "done" => queue \in Seq(Chunk) /\ driver.final_result = "none"
    /\ driver.at = "primary" => adapter["fallback"].task = "none"
    /\ driver.at \in {"open_fallback", "fallback"} => driver.fallback_used
    /\ driver.at \in Providers => adapter[driver.at].task # "none"

\* What the route has taken of the one provider's session.
DirectFlow ==
    ~resilient /\ adapter["primary"].task # "none" =>
        reply \o Contents(adapter["primary"].queue) = adapter["primary"].parts

\* What the driver has taken of its session.
DriverFlow ==
    \A p \in Providers :
        driver.at = p => Forwarded \o Contents(adapter[p].queue) = adapter[p].parts

\* The fallback is opened only when nothing came of the primary.
FallbackFlow ==
    driver.at = "open_fallback" =>
        /\ Forwarded = <<>> /\ adapter["fallback"].task = "none"
        /\ adapter["primary"].task = "done" /\ adapter["primary"].parts = <<>>
        /\ adapter["primary"].result \in Errors

DoneFlow ==
    driver.at = "done" =>
        \E p \in Providers : adapter[p].task = "done" /\ Forwarded = adapter[p].parts

ResultFlow ==
    \A p \in Providers :
        driver.final_result = p => adapter[p].task = "done" /\ Forwarded = adapter[p].parts

EmptyFlow == driver.at # "none" /\ ~driver.first_chunk_emitted => Forwarded = <<>>

Flow == DirectFlow /\ DriverFlow /\ FallbackFlow /\ DoneFlow /\ ResultFlow /\ EmptyFlow

StreamInv == StreamTypes /\ PointsAgree /\ Flow

\* The summary is written when the driver ends, or by the request that did not need it.
SummaryInv ==
    resilient =>
        /\ Len(summaries) <= 1
        /\ pc \in {"open_primary", "open_fallback", "run_primary", "run_fallback"} =>
              summaries = <<>>
        /\ driver.at \in {"open_fallback"} \cup Providers =>
              summaries = <<>> /\ verdict \in {"none", "cancelled"}
        /\ driver.at = "done" =>
              /\ Len(summaries) = 1 /\ summaries[1].failure_kind = driver.error
              /\ driver.error = "none" => /\ driver.final_result \in Providers
                                          /\ summaries[1].final_provider = driver.final_result
        /\ pc \in {"run_reply", "run_result"} =>
              /\ Len(summaries) = 1 /\ summaries[1].failure_kind = "none"
              /\ summaries[1].final_provider = answer[1][1]
        /\ SummaryAgrees
----------------------------------------------------------------------------
(* Before the first step.                                                   *)
LEMMA StreamStarts == Init => StreamInv /\ SummaryInv
  <1> SUFFICES ASSUME Init PROVE StreamInv /\ SummaryInv
    OBVIOUS
  <1>1. /\ adapter = [p \in Providers |-> NoAdapter] /\ driver = NoDriver /\ queue = <<>>
        /\ pc = "open_primary" /\ reply = <<>> /\ verdict = "none" /\ answer = <<>>
        /\ span = "none" /\ summaries = <<>> /\ resilient \in BOOLEAN
    BY DEF Init
  <1>2. IsQueue(<<>>) /\ Contents(<<>>) = <<>> /\ <<>> \in Seq(Chunk)
    <2>1. <<>> \in Seq(Chunk)
      OBVIOUS
    <2> QED
      BY <2>1, OpenQueue
  <1>3. NoAdapter \in Sessions /\ NoDriver \in Drivers
    BY DEF NoAdapter, Sessions, NoDriver, Drivers
  <1>4. \A p \in Providers : adapter[p] = NoAdapter
    BY <1>1
  <1>5. \A p \in Providers : SessionOk(p)
    <2> SUFFICES ASSUME NEW p \in Providers PROVE SessionOk(p)
      OBVIOUS
    <2>1. /\ adapter[p].parts = <<>> /\ adapter[p].queue = <<>> /\ adapter[p].task = "none"
      BY <1>4 DEF NoAdapter
    <2>2. 1 .. Len(<<>>) = {}
      OBVIOUS
    <2> QED
      BY <1>2, <2>1, <2>2 DEF SessionOk
  <1>6. StreamTypes
    BY <1>1, <1>2, <1>3, <1>5 DEF StreamTypes, Asking
  <1>7. PointsAgree
    BY <1>1, <1>2, <1>4 DEF PointsAgree, Asking, NoAdapter, NoDriver, Providers
  <1>8. Flow
    BY <1>1, <1>4
    DEF Flow, DirectFlow, DriverFlow, FallbackFlow, DoneFlow, ResultFlow, EmptyFlow, NoAdapter,
        NoDriver, Providers
  <1>9. SummaryInv
    BY <1>1 DEF SummaryInv, SummaryAgrees, NoDriver, Providers
  <1> QED
    BY <1>6, <1>7, <1>8, <1>9 DEF StreamInv

(* What the types say of one session.                                       *)
LEMMA SessionTyped ==
    ASSUME StreamTypes, NEW p \in Providers
    PROVE  /\ adapter[p] \in Sessions
           /\ adapter[p].task \in {"none", "reading", "closing", "done"}
           /\ adapter[p].parts \in Seq(Chunk) /\ adapter[p].queue \in Seq(Chunk \cup {End})
           /\ adapter[p].result \in {"none", "ok"} \cup Errors
           /\ SessionOk(p) /\ Contents(adapter[p].queue) \in Seq(Chunk)
  BY DEF StreamTypes, Sessions, SessionOk, IsQueue

LEMMA ForwardedTyped ==
    ASSUME StreamTypes
    PROVE  /\ reply \in Seq(Chunk) /\ Contents(queue) \in Seq(Chunk) /\ Forwarded \in Seq(Chunk)
  BY DEF StreamTypes, IsQueue, Forwarded

(* A chunk appended to the last of two sequences is appended to both.       *)
LEMMA AppendsLast ==
    ASSUME NEW a \in Seq(Chunk), NEW b \in Seq(Chunk), NEW c \in Chunk
    PROVE  a \o Append(b, c) = Append(a \o b, c)
  <1> DEFINE l == a \o Append(b, c)
             r == Append(a \o b, c)
  <1>1. l \in Seq(Chunk) /\ r \in Seq(Chunk) /\ Len(l) = Len(r)
    OBVIOUS
  <1>2. \A i \in 1 .. Len(r) : l[i] = r[i]
    OBVIOUS
  <1> HIDE DEF l, r
  <1>3. l = r
    BY <1>1, <1>2
  <1> QED
    BY <1>3 DEF l, r

(* A session that reads or ends changes what the driver is given, and       *)
(* nothing that the driver has taken.                                       *)
LEMMA SessionMoves ==
    ASSUME StreamInv, NEW p \in Providers,
           UNCHANGED <<deployment, driver, queue, consumerVars, summaries>>,
           adapter' \in [Providers -> Sessions],
           \A q \in Providers \ {p} : adapter'[q] = adapter[q],
           adapter[p].task \in {"reading", "closing"}, SessionOk(p)',
           adapter'[p].task \in {"reading", "closing", "done"},
           adapter'[p].task = "reading" => adapter[p].task = "reading",
           adapter[p].task = "closing" => adapter'[p].queue = adapter[p].queue,
           \/ /\ adapter'[p].parts = adapter[p].parts
              /\ Contents(adapter'[p].queue) = Contents(adapter[p].queue)
           \/ \E c \in Chunk :
                 /\ adapter'[p].parts = Append(adapter[p].parts, c)
                 /\ Contents(adapter'[p].queue) = Append(Contents(adapter[p].queue), c)
    PROVE  StreamInv'
  <1>1. UNCHANGED <<resilient, disabled, driver, queue, pc, reply, verdict, answer, span>>
    BY DEF deployment, consumerVars
  <1>2. StreamTypes /\ PointsAgree /\ Flow
    BY DEF StreamInv
  <1>3. \A q \in Providers \ {p} : SessionOk(q)' <=> SessionOk(q)
    BY DEF SessionOk
  <1>4. \A q \in Providers : SessionOk(q)'
    BY <1>2, <1>3 DEF StreamTypes
  <1>5. StreamTypes'
    BY <1>1, <1>2, <1>4 DEF StreamTypes, IsQueue
  <1>6. PointsAgree'
    BY <1>1, <1>2 DEF PointsAgree, Providers
  <1>7. Forwarded' = Forwarded /\ Forwarded \in Seq(Chunk) /\ reply \in Seq(Chunk)
    BY <1>1, <1>2, ForwardedTyped DEF Forwarded
  <1>8. \A a \in Seq(Chunk) : a \o Contents(adapter[p].queue) = adapter[p].parts
            => a \o Contents(adapter'[p].queue) = adapter'[p].parts
    BY <1>2, SessionTyped, AppendsLast
  <1>9. adapter[p].task # "done" /\ adapter[p].task # "none"
    OBVIOUS
  <1>10. DirectFlow'
    <2>1. CASE p = "primary"
      BY <1>1, <1>2, <1>7, <1>8, <1>9, <2>1 DEF Flow, DirectFlow
    <2>2. CASE p # "primary"
      BY <1>1, <1>2, <2>2 DEF Flow, DirectFlow, Providers
    <2> QED
      BY <2>1, <2>2
  <1>11. DriverFlow'
    <2> SUFFICES ASSUME NEW q \in Providers, driver.at = q
                 PROVE  Forwarded' \o Contents(adapter'[q].queue) = adapter'[q].parts
      BY <1>1 DEF DriverFlow, Forwarded
    <2>1. Forwarded \o Contents(adapter[q].queue) = adapter[q].parts
      BY <1>2 DEF Flow, DriverFlow
    <2> QED
      BY <1>7, <1>8, <2>1
  <1>12. FallbackFlow' /\ EmptyFlow'
    BY <1>1, <1>2, <1>7, <1>9 DEF Flow, FallbackFlow, EmptyFlow, Providers, Forwarded
  <1>13. DoneFlow' /\ ResultFlow'
    BY <1>1, <1>2, <1>7, <1>9 DEF Flow, DoneFlow, ResultFlow, Forwarded
  <1>14. Flow'
    BY <1>10, <1>11, <1>12, <1>13 DEF Flow
  <1> QED
    BY <1>5, <1>6, <1>14 DEF StreamInv

(* A delta.  openai_provider.py and bedrock_provider.py, the reading task.  *)
LEMMA DeltaKeeps ==
    ASSUME StreamInv, NEW p \in Providers, Delta(p)
    PROVE  StreamInv'
  <1> DEFINE s == adapter[p]
             chunk == <<p, Len(s.parts) + 1>>
             n == [s EXCEPT !.parts = Append(@, chunk), !.queue = Append(@, chunk)]
  <1>1. /\ s.task = "reading" /\ adapter' = [adapter EXCEPT ![p] = n]
        /\ UNCHANGED <<deployment, driver, queue, consumerVars, summaries>>
    BY DEF Delta
  <1>2. /\ s \in Sessions /\ s.parts \in Seq(Chunk) /\ s.queue \in Seq(Chunk)
        /\ \A i \in 1 .. Len(s.parts) : s.parts[i] = <<p, i>>
    BY <1>1, SessionTyped DEF StreamInv, SessionOk
  <1>3. chunk \in Chunk
    BY <1>2 DEF Chunk
  <1> DEFINE parts == Append(s.parts, chunk)
             more == Append(s.queue, chunk)
  <1>4. /\ parts \in Seq(Chunk) /\ more \in Seq(Chunk) /\ Len(parts) = Len(s.parts) + 1
        /\ \A i \in 1 .. Len(parts) : parts[i] = <<p, i>>
    BY <1>2, <1>3
  <1>5. Contents(s.queue) = s.queue /\ Contents(more) = more /\ IsQueue(more)
    BY <1>2, <1>4, OpenQueue
  <1>6. /\ n.task = "reading" /\ n.parts = parts /\ n.queue = more /\ n \in Sessions
    <2> HIDE DEF chunk
    <2>1. more \in Seq(Chunk \cup {End})
      BY <1>4
    <2> QED
      BY <1>1, <1>2, <1>4, <2>1 DEF Sessions
  <1> HIDE DEF n, parts, more
  <1>7. /\ adapter' \in [Providers -> Sessions] /\ adapter'[p] = n
        /\ \A q \in Providers \ {p} : adapter'[q] = adapter[q]
    BY <1>1, <1>6 DEF StreamInv, StreamTypes
  <1>8. SessionOk(p)'
    BY <1>4, <1>5, <1>6, <1>7 DEF SessionOk
  <1>9. /\ adapter'[p].parts = Append(adapter[p].parts, chunk)
        /\ Contents(adapter'[p].queue) = Append(Contents(adapter[p].queue), chunk)
    BY <1>5, <1>6, <1>7 DEF parts, more
  <1> HIDE DEF chunk
  <1> QED
    BY <1>1, <1>3, <1>6, <1>7, <1>8, <1>9, SessionMoves

(* The end of a stream, whatever ended it, is marked in the queue.          *)
LEMMA EndsKeeps ==
    ASSUME StreamInv, NEW p \in Providers, adapter[p].task = "reading",
           NEW result \in {"ok"} \cup Errors, NEW completed \in BOOLEAN,
           Ends(p, result, completed),
           UNCHANGED <<deployment, driver, queue, consumerVars, summaries>>
    PROVE  StreamInv'
  <1> DEFINE s == adapter[p]
             marked == Append(s.queue, End)
             n == [s EXCEPT !.result = result, !.completed = completed,
                            !.queue = marked, !.task = "closing"]
  <1>1. adapter' = [adapter EXCEPT ![p] = n]
    BY DEF Ends
  <1>2. /\ s \in Sessions /\ s.parts \in Seq(Chunk) /\ s.queue \in Seq(Chunk)
        /\ \A i \in 1 .. Len(s.parts) : s.parts[i] = <<p, i>>
    BY SessionTyped DEF StreamInv, SessionOk
  <1>3. Contents(s.queue) = s.queue /\ Contents(marked) = s.queue /\ IsQueue(marked)
    BY <1>2, OpenQueue, ClosedQueue
  <1>4. marked \in Seq(Chunk \cup {End})
    BY <1>2
  <1> HIDE DEF marked
  <1>5. /\ n.task = "closing" /\ n.parts = s.parts /\ n.queue = marked /\ n.result = result
        /\ n \in Sessions
    BY <1>2, <1>4 DEF Sessions
  <1> HIDE DEF n
  <1>6. /\ adapter' \in [Providers -> Sessions] /\ adapter'[p] = n
        /\ \A q \in Providers \ {p} : adapter'[q] = adapter[q]
    BY <1>1, <1>5 DEF StreamInv, StreamTypes
  <1>7. result # "none"
    BY DEF Errors
  <1>8. SessionOk(p)'
    BY <1>2, <1>3, <1>5, <1>6, <1>7 DEF SessionOk
  <1>9. /\ adapter'[p].parts = adapter[p].parts
        /\ Contents(adapter'[p].queue) = Contents(adapter[p].queue)
    BY <1>3, <1>5, <1>6
  <1> QED
    BY <1>5, <1>6, <1>8, <1>9, SessionMoves

(* The connection is closed.                                                *)
LEMMA CloseKeeps ==
    ASSUME StreamInv, NEW p \in Providers, Close(p)
    PROVE  StreamInv'
  <1> DEFINE s == adapter[p]
  <1>1. /\ s.task = "closing" /\ UNCHANGED <<deployment, driver, queue, consumerVars, summaries>>
    BY DEF Close
  <1>2. PICK result \in {s.result, "fatal"} :
            adapter' = [adapter EXCEPT ![p] = [s EXCEPT !.task = "done", !.result = result]]
    BY DEF Close
  <1> DEFINE n == [s EXCEPT !.task = "done", !.result = result]
  <1>3. s \in Sessions /\ SessionOk(p) /\ s.result # "none"
    BY <1>1, SessionTyped DEF StreamInv, SessionOk
  <1>4. /\ n.task = "done" /\ n.parts = s.parts /\ n.queue = s.queue /\ n.result = result
        /\ n \in Sessions /\ result # "none"
    BY <1>3 DEF Sessions, Errors
  <1>5. adapter' = [adapter EXCEPT ![p] = n]
    BY <1>2
  <1> HIDE DEF n
  <1>6. /\ adapter' \in [Providers -> Sessions] /\ adapter'[p] = n
        /\ \A q \in Providers \ {p} : adapter'[q] = adapter[q]
    BY <1>4, <1>5 DEF StreamInv, StreamTypes
  <1>7. SessionOk(p)'
    BY <1>3, <1>4, <1>6 DEF SessionOk
  <1> QED
    BY <1>1, <1>4, <1>6, <1>7, SessionMoves
----------------------------------------------------------------------------
(* The driver task.                                                         *)

(* What holds of a stream whose two queues, sessions and driver stay.       *)
LEMMA FlowStays ==
    ASSUME StreamInv, UNCHANGED <<resilient, adapter, driver, queue, reply>>
    PROVE  Flow'
  BY DEF StreamInv, Flow, DirectFlow, DriverFlow, FallbackFlow, DoneFlow, ResultFlow, EmptyFlow,
         Forwarded

(* A session that is opened has given nothing yet.                          *)
LEMMA Opened ==
    ASSUME StreamTypes, NEW p \in Providers, adapter[p].task = "none", Opens(p)
    PROVE  /\ adapter' \in [Providers -> Sessions] /\ \A q \in Providers : SessionOk(q)'
           /\ adapter'[p].task = "reading" /\ adapter'[p].parts = <<>>
           /\ adapter'[p].queue = <<>> /\ Contents(adapter'[p].queue) = <<>>
           /\ \A q \in Providers \ {p} : adapter'[q] = adapter[q]
  <1> DEFINE s == adapter[p]
             n == [s EXCEPT !.task = "reading"]
  <1>1. adapter' = [adapter EXCEPT ![p] = n]
    BY DEF Opens
  <1>2. s \in Sessions /\ s.parts = <<>> /\ s.queue = <<>>
    BY SessionTyped DEF SessionOk
  <1>3. <<>> \in Seq(Chunk)
    OBVIOUS
  <1>4. IsQueue(<<>>) /\ Contents(<<>>) = <<>>
    BY <1>3, OpenQueue
  <1>5. /\ n \in Sessions /\ n.task = "reading" /\ n.parts = <<>> /\ n.queue = <<>>
    BY <1>2 DEF Sessions
  <1> HIDE DEF n
  <1>6. /\ adapter' \in [Providers -> Sessions] /\ adapter'[p] = n
        /\ \A q \in Providers \ {p} : adapter'[q] = adapter[q]
    BY <1>1, <1>5 DEF StreamTypes
  <1>7. SessionOk(p)'
    <2>1. 1 .. Len(<<>>) = {}
      OBVIOUS
    <2> QED
      BY <1>3, <1>4, <1>5, <1>6, <2>1 DEF SessionOk
  <1>8. \A q \in Providers \ {p} : SessionOk(q)'
    BY <1>6 DEF StreamTypes, SessionOk
  <1> QED
    BY <1>4, <1>5, <1>6, <1>7, <1>8

(* A chunk goes from the session's queue to the driver's.                   *)
LEMMA ForwardKeeps ==
    ASSUME StreamInv, NEW p \in Providers, Forward(p)
    PROVE  StreamInv'
  <1> DEFINE s == adapter[p]
             n == [s EXCEPT !.queue = Tail(@)]
             h == Head(s.queue)
             t == Contents(s.queue)
  <1>1. /\ driver.at = p /\ s.queue # <<>> /\ h # End
        /\ adapter' = [adapter EXCEPT ![p] = n] /\ queue' = Append(queue, h)
        /\ driver' = [driver EXCEPT !.first_chunk_emitted = TRUE]
        /\ UNCHANGED <<resilient, disabled, pc, reply, verdict, answer, span, summaries>>
    BY DEF Forward, Driving, deployment, consumerVars
  <1>2. StreamTypes /\ PointsAgree /\ Flow
    BY DEF StreamInv
  <1>3. s \in Sessions /\ SessionOk(p) /\ s.task # "none" /\ t \in Seq(Chunk)
    BY <1>1, <1>2, SessionTyped DEF PointsAgree
  <1>4. /\ IsQueue(Tail(s.queue)) /\ t # <<>> /\ h = Head(t) /\ h \in Chunk
        /\ Contents(Tail(s.queue)) = Tail(t)
        /\ s.queue \in Seq(Chunk) => Tail(s.queue) \in Seq(Chunk)
    <2>1. IsQueue(s.queue)
      BY <1>3 DEF SessionOk
    <2> QED
      BY <1>1, <2>1, TakesChunk
  <1>5. n \in Sessions /\ n.queue = Tail(s.queue) /\ n.task = s.task /\ n.parts = s.parts
        /\ n.result = s.result
    <2>1. Tail(s.queue) \in Seq(Chunk \cup {End})
      BY <1>1, <1>3 DEF Sessions
    <2> HIDE DEF s
    <2> QED
      BY <1>3, <2>1 DEF Sessions
  <1> HIDE DEF n
  <1>6. /\ adapter' \in [Providers -> Sessions] /\ adapter'[p] = n
        /\ \A q \in Providers \ {p} : adapter'[q] = adapter[q]
    BY <1>1, <1>2, <1>5 DEF StreamTypes
  <1>7. \A q \in Providers : SessionOk(q)'
    <2>1. SessionOk(p)'
      BY <1>3, <1>4, <1>5, <1>6 DEF SessionOk
    <2>2. \A q \in Providers \ {p} : SessionOk(q)'
      BY <1>2, <1>6 DEF StreamTypes, SessionOk
    <2> QED
      BY <2>1, <2>2
  <1>8. /\ queue \in Seq(Chunk) /\ driver.final_result = "none" /\ resilient
        /\ pc \notin Asking /\ pc \notin {"consume_direct", "await_task"}
    BY <1>1, <1>2 DEF PointsAgree, Providers
  <1>9. /\ queue' \in Seq(Chunk) /\ IsQueue(queue') /\ Contents(queue') = Append(Contents(queue), h)
    <2>1. Contents(queue) = queue
      BY <1>8, OpenQueue
    <2>2. Append(queue, h) \in Seq(Chunk)
      <3> HIDE DEF h
      <3> QED
        BY <1>4, <1>8
    <2> QED
      BY <1>1, <2>1, <2>2, OpenQueue
  <1>10. /\ driver' \in Drivers /\ driver'.at = p /\ driver'.first_chunk_emitted
         /\ driver'.final_result = "none" /\ driver'.fallback_used = driver.fallback_used
    BY <1>1, <1>2, <1>8 DEF StreamTypes, Drivers
  <1>11. StreamTypes'
    BY <1>1, <1>2, <1>6, <1>7, <1>9, <1>10 DEF StreamTypes
  <1>12. PointsAgree'
    BY <1>1, <1>2, <1>3, <1>5, <1>6, <1>8, <1>9, <1>10 DEF PointsAgree, Providers
  <1>13. Forwarded' = Append(Forwarded, h) /\ Forwarded \in Seq(Chunk)
    <2>1. reply \in Seq(Chunk) /\ Contents(queue) \in Seq(Chunk) /\ Forwarded \in Seq(Chunk)
      BY <1>2, ForwardedTyped
    <2>2. reply \o Append(Contents(queue), h) = Append(reply \o Contents(queue), h)
      BY <1>4, <2>1, AppendsLast
    <2> QED
      BY <1>1, <1>9, <2>1, <2>2 DEF Forwarded
  <1>14. Forwarded' \o Contents(adapter'[p].queue) = adapter'[p].parts
    <2>1. Forwarded \o t = s.parts
      BY <1>1, <1>2 DEF Flow, DriverFlow
    <2>2. Append(Forwarded, h) \o Tail(t) = Forwarded \o t
      BY <1>3, <1>4, <1>13, Moves
    <2> QED
      BY <1>4, <1>5, <1>6, <1>13, <2>1, <2>2
  <1>15. Flow'
    <2>1. DriverFlow'
      BY <1>10, <1>14 DEF DriverFlow, Forwarded
    <2>2. /\ driver'.at \notin {"done", "open_fallback"} /\ resilient'
          /\ driver'.final_result \notin Providers
      BY <1>1, <1>8, <1>10 DEF Providers
    <2> QED
      BY <1>10, <2>1, <2>2
      DEF Flow, DirectFlow, FallbackFlow, DoneFlow, ResultFlow, EmptyFlow
  <1> QED
    BY <1>11, <1>12, <1>15 DEF StreamInv

(* The driver's finally block, when the session it names has ended.         *)
LEMMA ConcludesKeeps ==
    ASSUME StreamInv, NEW p \in Providers, NEW failure \in {"none"} \cup Errors,
           driver.at \in {p, "open_fallback"}, Concludes(p, failure),
           UNCHANGED <<deployment, adapter, consumerVars>>,
           \E q \in Providers : adapter[q].task = "done" /\ Forwarded = adapter[q].parts,
           failure = "none" => adapter[p].task = "done" /\ Forwarded = adapter[p].parts
    PROVE  StreamInv'
  <1>1. /\ driver' = [driver EXCEPT !.at = "done", !.error = failure,
                          !.final_result = IF failure = "none" THEN p ELSE "none"]
        /\ queue' = Append(queue, End)
        /\ UNCHANGED <<resilient, disabled, adapter, pc, reply, verdict, answer, span>>
    BY DEF Concludes, deployment, consumerVars
  <1>2. StreamTypes /\ PointsAgree /\ Flow
    BY DEF StreamInv
  <1>3. /\ driver' \in Drivers /\ driver'.at = "done"
        /\ driver'.first_chunk_emitted = driver.first_chunk_emitted
        /\ driver'.final_result = IF failure = "none" THEN p ELSE "none"
    BY <1>1, <1>2 DEF StreamTypes, Drivers
  <1>4. /\ queue \in Seq(Chunk) /\ resilient /\ pc \notin Asking
        /\ pc \notin {"consume_direct", "await_task"} /\ driver.at # "none"
    BY <1>2 DEF PointsAgree, Providers
  <1>5. Contents(queue') = Contents(queue) /\ IsQueue(queue')
    BY <1>1, <1>4, OpenQueue, ClosedQueue
  <1>6. Forwarded' = Forwarded
    BY <1>1, <1>5 DEF Forwarded
  <1>7. \A q \in Providers : SessionOk(q)'
    BY <1>1, <1>2 DEF StreamTypes, SessionOk
  <1>8. StreamTypes'
    BY <1>1, <1>2, <1>3, <1>5, <1>7 DEF StreamTypes
  <1>9. PointsAgree'
    BY <1>1, <1>3, <1>4 DEF PointsAgree, Providers, Asking
  <1>10. DoneFlow' /\ ResultFlow'
    BY <1>1, <1>3, <1>6 DEF DoneFlow, ResultFlow, Providers
  <1>11. EmptyFlow'
    BY <1>2, <1>3, <1>4, <1>6 DEF Flow, EmptyFlow
  <1>12. Flow'
    BY <1>1, <1>3, <1>4, <1>10, <1>11 DEF Flow, DirectFlow, DriverFlow, FallbackFlow, Providers
  <1> QED
    BY <1>8, <1>9, <1>12 DEF StreamInv

(* A session is over for the driver: it has taken all of its deltas.        *)
LEMMA SessionOver ==
    ASSUME StreamInv, NEW p \in Providers, SessionEnds(p)
    PROVE  /\ driver.at = p /\ adapter[p].task = "done" /\ Forwarded = adapter[p].parts
           /\ adapter[p].result \in {"ok"} \cup Errors
  <1>1. driver.at = p /\ adapter[p].task = "done" /\ adapter[p].queue = <<End>>
    BY DEF SessionEnds, Driving
  <1>2. SessionOk(p) /\ adapter[p].result \in {"none", "ok"} \cup Errors
    BY SessionTyped DEF StreamInv
  <1>3. adapter[p].result \in {"ok"} \cup Errors
    BY <1>1, <1>2 DEF SessionOk
  <1>4. <<End>> # <<>> /\ Head(<<End>>) = End
    OBVIOUS
  <1>5. Contents(adapter[p].queue) = <<>>
    BY <1>1, <1>2, <1>4, TakesEnd DEF SessionOk
  <1>6. Forwarded \o <<>> = adapter[p].parts
    BY <1>1, <1>5 DEF StreamInv, Flow, DriverFlow
  <1>7. Forwarded \in Seq(Chunk)
    BY ForwardedTyped DEF StreamInv
  <1>8. Forwarded \o <<>> = Forwarded
    BY <1>7
  <1> QED
    BY <1>1, <1>3, <1>6, <1>8

LEMMA SessionSucceedsKeeps ==
    ASSUME StreamInv, NEW p \in Providers, SessionSucceeds(p)
    PROVE  StreamInv'
  <1>1. /\ Concludes(p, "none") /\ UNCHANGED <<deployment, adapter, consumerVars>>
        /\ SessionEnds(p)
    BY DEF SessionSucceeds
  <1>2. driver.at = p /\ adapter[p].task = "done" /\ Forwarded = adapter[p].parts
    BY <1>1, SessionOver
  <1> QED
    BY <1>1, <1>2, ConcludesKeeps

LEMMA SessionFailsKeeps ==
    ASSUME StreamInv, NEW p \in Providers, SessionFails(p)
    PROVE  StreamInv'
  <1>1. /\ Concludes(p, adapter[p].result) /\ UNCHANGED <<deployment, adapter, consumerVars>>
        /\ SessionEnds(p) /\ adapter[p].result # "ok"
    BY DEF SessionFails
  <1>2. /\ driver.at = p /\ adapter[p].task = "done" /\ Forwarded = adapter[p].parts
        /\ adapter[p].result \in Errors
    BY <1>1, SessionOver
  <1>3. adapter[p].result # "none"
    BY <1>2 DEF Errors
  <1> QED
    BY <1>1, <1>2, <1>3, ConcludesKeeps

(* The driver falls back once, from a primary that gave nothing.            *)
LEMMA SessionFallsBackKeeps ==
    ASSUME StreamInv, NEW p \in Providers, SessionFallsBack(p)
    PROVE  StreamInv'
  <1>1. /\ SessionEnds(p) /\ ~driver.first_chunk_emitted /\ ~driver.fallback_used
        /\ adapter[p].result = "retryable"
        /\ driver' = [driver EXCEPT !.at = "open_fallback", !.fallback_used = TRUE]
        /\ UNCHANGED <<resilient, disabled, adapter, queue, pc, reply, verdict, answer, span>>
    BY DEF SessionFallsBack, MayFallBack, deployment, consumerVars
  <1>2. StreamTypes /\ PointsAgree /\ Flow
    BY DEF StreamInv
  <1>3. driver.at = p /\ adapter[p].task = "done" /\ Forwarded = adapter[p].parts
    BY <1>1, SessionOver
  <1>4. p = "primary"
    BY <1>1, <1>2, <1>3 DEF PointsAgree, Providers
  <1>5. /\ driver' \in Drivers /\ driver'.at = "open_fallback"
        /\ driver'.first_chunk_emitted = driver.first_chunk_emitted
        /\ driver'.final_result = driver.final_result
    BY <1>1, <1>2 DEF StreamTypes, Drivers
  <1>6. Forwarded = <<>> /\ Forwarded' = Forwarded
    BY <1>1, <1>2, <1>3, <1>4 DEF Flow, EmptyFlow, Forwarded
  <1>7. \A q \in Providers : SessionOk(q)'
    BY <1>1, <1>2 DEF StreamTypes, SessionOk
  <1>8. StreamTypes'
    BY <1>1, <1>2, <1>5, <1>7 DEF StreamTypes
  <1>9. PointsAgree'
    BY <1>1, <1>2, <1>3, <1>4, <1>5 DEF PointsAgree, Providers
  <1>10. FallbackFlow'
    BY <1>1, <1>2, <1>3, <1>4, <1>6 DEF FallbackFlow, PointsAgree, Errors
  <1>11. resilient' /\ driver'.final_result = "none"
    BY <1>1, <1>2, <1>3, <1>4, <1>5 DEF PointsAgree
  <1>12. Flow'
    BY <1>5, <1>6, <1>10, <1>11
    DEF Flow, DirectFlow, DriverFlow, DoneFlow, ResultFlow, EmptyFlow, Providers
  <1> QED
    BY <1>8, <1>9, <1>12 DEF StreamInv

LEMMA DriverOpensFallbackKeeps ==
    ASSUME StreamInv, DriverOpensFallback
    PROVE  StreamInv'
  <1>1. driver.at = "open_fallback" /\ UNCHANGED <<deployment, consumerVars>>
    BY DEF DriverOpensFallback
  <1>2. StreamTypes /\ PointsAgree /\ Flow
    BY DEF StreamInv
  <1>3. /\ Forwarded = <<>> /\ adapter["fallback"].task = "none"
        /\ adapter["primary"].task = "done" /\ adapter["primary"].parts = <<>>
        /\ adapter["primary"].result \in Errors
    BY <1>1, <1>2 DEF Flow, FallbackFlow
  <1>4. "primary" \in Providers /\ "fallback" \in Providers
    BY DEF Providers
  <1>5. ASSUME Opens("fallback"), driver' = [driver EXCEPT !.at = "fallback"],
               UNCHANGED queue
        PROVE  StreamInv'
    <2>1. UNCHANGED <<resilient, disabled, queue, pc, reply, verdict, answer, span>>
      BY <1>1, <1>5 DEF deployment, consumerVars
    <2>2. /\ adapter' \in [Providers -> Sessions] /\ \A q \in Providers : SessionOk(q)'
          /\ adapter'["fallback"].task = "reading" /\ adapter'["fallback"].parts = <<>>
          /\ Contents(adapter'["fallback"].queue) = <<>>
          /\ adapter'["primary"] = adapter["primary"]
      BY <1>2, <1>3, <1>4, <1>5, Opened
    <2>3. /\ driver' \in Drivers /\ driver'.at = "fallback"
          /\ driver'.first_chunk_emitted = driver.first_chunk_emitted
          /\ driver'.fallback_used = driver.fallback_used
          /\ driver'.final_result = driver.final_result
      BY <1>2, <1>4, <1>5 DEF StreamTypes, Drivers
    <2>4. Forwarded' = <<>>
      BY <1>3, <2>1 DEF Forwarded
    <2>5. StreamTypes'
      BY <1>2, <2>1, <2>2, <2>3 DEF StreamTypes
    <2>6. driver.fallback_used /\ driver.final_result = "none" /\ resilient
      BY <1>1, <1>2 DEF PointsAgree
    <2>7. PointsAgree'
      BY <1>1, <1>2, <2>1, <2>2, <2>3, <2>6 DEF PointsAgree, Providers
    <2>8. <<>> \o <<>> = <<>>
      OBVIOUS
    <2>9. DriverFlow'
      BY <2>2, <2>3, <2>4, <2>8 DEF DriverFlow, Forwarded
    <2>10. Flow'
      BY <2>1, <2>3, <2>4, <2>6, <2>9
      DEF Flow, DirectFlow, FallbackFlow, DoneFlow, ResultFlow, EmptyFlow, Providers
    <2> QED
      BY <2>5, <2>7, <2>10 DEF StreamInv
  <1>6. ASSUME NEW kind \in Errors, Concludes("fallback", kind), UNCHANGED adapter
        PROVE  StreamInv'
    <2>1. kind # "none"
      BY DEF Errors
    <2>2. UNCHANGED <<deployment, adapter, consumerVars>>
      BY <1>1, <1>6
    <2>3. adapter["primary"].task = "done" /\ Forwarded = adapter["primary"].parts
      BY <1>3
    <2> QED
      BY <1>1, <1>4, <1>6, <2>1, <2>2, <2>3, ConcludesKeeps
  <1>7. \/ /\ Opens("fallback") /\ driver' = [driver EXCEPT !.at = "fallback"]
           /\ UNCHANGED queue
        \/ \E kind \in Errors : Concludes("fallback", kind) /\ UNCHANGED adapter
    BY <1>3 DEF DriverOpensFallback
  <1> QED
    BY <1>5, <1>6, <1>7
----------------------------------------------------------------------------
(* The consumer.                                                            *)

(* A step of a consumer that has opened no stream, or has no answer to give *)
(* from one.                                                                *)
LEMMA AskingMoves ==
    ASSUME StreamInv, pc \in Asking, UNCHANGED <<deployment, adapter, driver, queue, reply>>,
           pc' \in Asking \cup {"done"}, verdict' \in {"none", "final", "error", "cancelled"},
           pc' = "done" <=> verdict' # "none",
           pc' \in Asking \ {"run_result"} => reply = <<>>,
           pc' \in {"run_reply", "run_result"} => \E p \in Providers : answer' = << <<p, 0>> >>,
           pc' = "run_result" => reply = answer',
           pc' \in {"open_fallback", "run_fallback"} => resilient
    PROVE  StreamInv'
  <1>1. UNCHANGED <<resilient, disabled>>
    BY DEF deployment
  <1>2. StreamTypes /\ PointsAgree
    BY DEF StreamInv
  <1>3. \A q \in Providers : SessionOk(q)'
    BY <1>2 DEF StreamTypes, SessionOk
  <1>4. StreamTypes'
    BY <1>1, <1>2, <1>3 DEF StreamTypes
  <1>5. driver.at = "none" /\ \A p \in Providers : adapter[p].task = "none"
    BY <1>2 DEF PointsAgree
  <1>6. pc' \notin {"consume", "consume_direct", "await_task"}
    BY DEF Asking
  <1>7. PointsAgree'
    BY <1>1, <1>2, <1>5, <1>6 DEF PointsAgree, Providers
  <1>8. Flow'
    BY <1>1, FlowStays
  <1> QED
    BY <1>4, <1>7, <1>8 DEF StreamInv

(* The first session, given to a driver or to the route.                    *)
LEMMA ConsumeKeeps ==
    ASSUME StreamInv, NEW p \in Providers, pc \in Asking \ {"run_result"}, resilient,
           Consume(p), UNCHANGED <<deployment, queue>>
    PROVE  StreamInv'
  <1>1. /\ Opens(p) /\ driver' = [driver EXCEPT !.at = p, !.fallback_used = (p = "fallback")]
        /\ pc' = "consume" /\ UNCHANGED <<resilient, disabled, queue, reply, verdict, answer>>
    BY DEF Consume, deployment
  <1>2. StreamTypes /\ PointsAgree
    BY DEF StreamInv
  <1>3. /\ driver.at = "none" /\ queue = <<>> /\ reply = <<>> /\ driver.final_result = "none"
        /\ \A q \in Providers : adapter[q].task = "none"
    BY <1>2 DEF PointsAgree
  <1>4. /\ adapter' \in [Providers -> Sessions] /\ \A q \in Providers : SessionOk(q)'
        /\ adapter'[p].task = "reading" /\ adapter'[p].parts = <<>>
        /\ Contents(adapter'[p].queue) = <<>>
        /\ \A q \in Providers \ {p} : adapter'[q] = adapter[q]
    BY <1>1, <1>2, <1>3, Opened
  <1>5. /\ driver' \in Drivers /\ driver'.at = p /\ driver'.fallback_used = (p = "fallback")
        /\ driver'.final_result = "none"
    <2> DEFINE used == (p = "fallback")
    <2>1. used \in BOOLEAN
      OBVIOUS
    <2>2. driver' = [driver EXCEPT !.at = p, !.fallback_used = used]
      BY <1>1
    <2>3. driver \in Drivers
      BY <1>2 DEF StreamTypes
    <2> HIDE DEF used
    <2>4. /\ driver' \in Drivers /\ driver'.at = p /\ driver'.fallback_used = used
          /\ driver'.final_result = driver.final_result
      BY <2>1, <2>2, <2>3 DEF Drivers
    <2> QED
      BY <1>3, <2>4 DEF used
  <1>6. <<>> \in Seq(Chunk) /\ <<>> \o <<>> = <<>>
    OBVIOUS
  <1>7. Contents(queue) = <<>> /\ <<>> \o <<>> = <<>>
    <2>1. Contents(queue) = <<>>
      BY <1>3, <1>6, OpenQueue
    <2> QED
      BY <1>6, <2>1
  <1>8. Forwarded' = <<>>
    BY <1>1, <1>3, <1>7 DEF Forwarded
  <1>9. StreamTypes'
    <2>1. verdict = "none"
      BY <1>2 DEF StreamTypes, Asking
    <2> QED
      BY <1>1, <1>2, <1>4, <1>5, <2>1 DEF StreamTypes
  <1>10. PointsAgree'
    BY <1>1, <1>3, <1>4, <1>5, <1>6 DEF PointsAgree, Asking, Providers
  <1>11. DriverFlow'
    BY <1>4, <1>5, <1>7, <1>8 DEF DriverFlow, Forwarded
  <1>12. Flow'
    BY <1>1, <1>5, <1>8, <1>11
    DEF Flow, DirectFlow, FallbackFlow, DoneFlow, ResultFlow, EmptyFlow, Providers
  <1> QED
    BY <1>9, <1>10, <1>12 DEF StreamInv

LEMMA ConsumeDirectlyKeeps ==
    ASSUME StreamInv, pc \in Asking \ {"run_result"}, ~resilient,
           ConsumeDirectly, UNCHANGED <<deployment, queue>>
    PROVE  StreamInv'
  <1>1. /\ Opens("primary") /\ pc' = "consume_direct"
        /\ UNCHANGED <<resilient, disabled, driver, queue, reply, verdict, answer>>
    BY DEF ConsumeDirectly, deployment
  <1>2. StreamTypes /\ PointsAgree /\ "primary" \in Providers
    BY DEF StreamInv, Providers
  <1>3. /\ driver.at = "none" /\ queue = <<>> /\ reply = <<>> /\ driver.final_result = "none"
        /\ \A q \in Providers : adapter[q].task = "none"
    BY <1>2 DEF PointsAgree
  <1>4. /\ adapter' \in [Providers -> Sessions] /\ \A q \in Providers : SessionOk(q)'
        /\ adapter'["primary"].task = "reading" /\ adapter'["primary"].parts = <<>>
        /\ Contents(adapter'["primary"].queue) = <<>>
        /\ \A q \in Providers \ {"primary"} : adapter'[q] = adapter[q]
    BY <1>1, <1>2, <1>3, Opened
  <1>5. <<>> \in Seq(Chunk) /\ <<>> \o <<>> = <<>>
    OBVIOUS
  <1>6. StreamTypes'
    <2>1. verdict = "none"
      BY <1>2 DEF StreamTypes, Asking
    <2> QED
      BY <1>1, <1>2, <1>4, <2>1 DEF StreamTypes
  <1>7. PointsAgree'
    BY <1>1, <1>2, <1>3, <1>4, <1>5 DEF PointsAgree, Asking, Providers
  <1>8. DirectFlow'
    BY <1>1, <1>3, <1>4, <1>5 DEF DirectFlow
  <1>9. Flow'
    BY <1>1, <1>3, <1>8
    DEF Flow, DriverFlow, FallbackFlow, DoneFlow, ResultFlow, EmptyFlow, Providers
  <1> QED
    BY <1>6, <1>7, <1>9 DEF StreamInv

LEMMA OpensKeep ==
    ASSUME StreamInv, OpenPrimary \/ OpenFallback
    PROVE  StreamInv'
  <1>1. /\ pc \in {"open_primary", "open_fallback"} /\ UNCHANGED <<deployment, queue>>
    BY DEF OpenPrimary, OpenFallback
  <1>2. StreamTypes /\ PointsAgree /\ {"primary", "fallback"} = Providers
    BY DEF StreamInv, Providers
  <1>3. pc \in Asking \ {"run_result"} /\ reply = <<>> /\ verdict = "none"
    BY <1>1, <1>2 DEF StreamTypes, PointsAgree, Asking
  <1>4. ASSUME Run, UNCHANGED <<adapter, driver>>  PROVE StreamInv'
    <2>1. pc' = "run_primary" /\ UNCHANGED <<reply, verdict, answer>>
      BY <1>4 DEF Run
    <2>2. pc' \in Asking
          /\ pc' \notin {"run_reply", "run_result", "run_fallback", "open_fallback", "done"}
      BY <2>1 DEF Asking
    <2> QED
      BY <1>1, <1>3, <1>4, <2>1, <2>2, AskingMoves
  <1>5. ASSUME Fail, UNCHANGED <<adapter, driver>>  PROVE StreamInv'
    <2>1. pc' = "done" /\ verdict' = "error" /\ UNCHANGED <<reply, answer>>
      BY <1>5 DEF Fail
    <2>2. pc' \notin Asking
      BY <2>1 DEF Asking
    <2> QED
      BY <1>1, <1>3, <1>5, <2>1, <2>2, AskingMoves
  <1>6. ASSUME pc' = "open_fallback", resilient,
               UNCHANGED <<adapter, driver, reply, verdict, answer>>
        PROVE  StreamInv'
    <2>1. pc' \in Asking /\ pc' \notin {"run_reply", "run_result", "done"}
      BY <1>6 DEF Asking
    <2> QED
      BY <1>1, <1>3, <1>6, <2>1, AskingMoves
  <1>7. CASE OpenPrimary
    BY <1>1, <1>2, <1>3, <1>4, <1>5, <1>6, <1>7, ConsumeKeeps, ConsumeDirectlyKeeps
    DEF OpenPrimary
  <1>8. CASE OpenFallback
    <2>1. resilient
      BY <1>2, <1>8 DEF OpenFallback, PointsAgree
    <2> QED
      BY <1>1, <1>2, <1>3, <1>4, <1>5, <1>8, <2>1, ConsumeKeeps DEF OpenFallback
  <1> QED
    BY <1>7, <1>8
LEMMA RunsKeep ==
    ASSUME StreamInv, RunPrimary \/ RunFallback \/ RunTimesOut
    PROVE  StreamInv'
  <1>1. /\ pc \in {"run_primary", "run_fallback"}
        /\ UNCHANGED <<deployment, adapter, driver, queue, reply>>
    BY DEF RunPrimary, RunFallback, RunTimesOut, Fail
  <1>2. pc \in Asking \ {"run_result"} /\ reply = <<>> /\ verdict = "none"
    BY <1>1 DEF StreamInv, StreamTypes, PointsAgree, Asking
  <1>3. ASSUME Fail  PROVE StreamInv'
    <2>1. pc' = "done" /\ verdict' = "error" /\ UNCHANGED <<reply, answer>>
      BY <1>3 DEF Fail
    <2>2. pc' \notin Asking
      BY <2>1 DEF Asking
    <2> QED
      BY <1>1, <1>2, <2>1, <2>2, AskingMoves
  <1>4. ASSUME pc' = "run_reply", \E p \in Providers : answer' = << <<p, 0>> >>,
               UNCHANGED verdict
        PROVE  StreamInv'
    <2>1. pc' \in Asking /\ pc' \notin {"run_result", "run_fallback", "open_fallback", "done"}
      BY <1>4 DEF Asking
    <2> QED
      BY <1>1, <1>2, <1>4, <2>1, AskingMoves
  <1>5. ASSUME pc' = "run_fallback", resilient, UNCHANGED <<verdict, answer>>
        PROVE  StreamInv'
    <2>1. pc' \in Asking /\ pc' \notin {"run_result", "run_reply", "done"}
      BY <1>5 DEF Asking
    <2> QED
      BY <1>1, <1>2, <1>5, <2>1, AskingMoves
  <1>6. "primary" \in Providers /\ "fallback" \in Providers
    BY DEF Providers
  <1>7. CASE RunPrimary
    BY <1>3, <1>4, <1>5, <1>6, <1>7 DEF RunPrimary
  <1>8. CASE RunFallback
    BY <1>3, <1>4, <1>6, <1>8 DEF RunFallback
  <1>9. CASE RunTimesOut
    BY <1>3, <1>9 DEF RunTimesOut
  <1> QED
    BY <1>7, <1>8, <1>9

(* The whole answer is one chunk.                                           *)
LEMMA YieldWholeKeeps ==
    ASSUME StreamInv, YieldWhole
    PROVE  StreamInv'
  <1>1. /\ pc = "run_reply" /\ reply' = answer /\ pc' = "run_result"
        /\ UNCHANGED <<resilient, disabled, adapter, driver, queue, verdict, answer>>
    BY DEF YieldWhole, deployment
  <1>2. StreamTypes /\ PointsAgree
    BY DEF StreamInv
  <1>3. /\ driver.at = "none" /\ driver.final_result = "none" /\ verdict = "none"
        /\ \A p \in Providers : adapter[p].task = "none"
    BY <1>1, <1>2 DEF StreamTypes, PointsAgree, Asking
  <1>4. PICK p \in Providers : answer = << <<p, 0>> >>
    BY <1>1, <1>2 DEF PointsAgree
  <1>5. reply' \in Seq(Chunk)
    <2>1. <<p, 0>> \in Chunk
      BY DEF Chunk
    <2> QED
      BY <1>1, <1>4, <2>1
  <1>6. \A q \in Providers : SessionOk(q)'
    BY <1>1, <1>2 DEF StreamTypes, SessionOk
  <1>7. StreamTypes'
    BY <1>1, <1>2, <1>3, <1>5, <1>6 DEF StreamTypes, Asking
  <1>8. PointsAgree'
    BY <1>1, <1>2, <1>3, <1>4 DEF PointsAgree, Asking, Providers
  <1>9. Flow'
    BY <1>1, <1>3
    DEF Flow, DirectFlow, DriverFlow, FallbackFlow, DoneFlow, ResultFlow, EmptyFlow, Providers
  <1> QED
    BY <1>7, <1>8, <1>9 DEF StreamInv

LEMMA ReturnWholeKeeps ==
    ASSUME StreamInv, ReturnWhole
    PROVE  StreamInv'
  <1>1. /\ pc = "run_result" /\ pc' = "done" /\ verdict' = "final"
        /\ UNCHANGED <<deployment, adapter, driver, queue, reply, answer>>
    BY DEF ReturnWhole
  <1>2. pc \in Asking /\ pc' \notin Asking
    BY <1>1 DEF Asking
  <1> QED
    BY <1>1, <1>2, AskingMoves

(* A chunk goes from the driver's queue to the client.                      *)
LEMMA ReceiveKeeps ==
    ASSUME StreamInv, Receive
    PROVE  StreamInv'
  <1> DEFINE h == Head(queue)
             t == Contents(queue)
  <1>1. /\ pc = "consume" /\ queue # <<>> /\ h # End
        /\ reply' = Append(reply, h) /\ queue' = Tail(queue)
        /\ UNCHANGED <<resilient, disabled, adapter, driver, pc, verdict, answer>>
    BY DEF Receive, deployment
  <1>2. StreamTypes /\ PointsAgree /\ Flow
    BY DEF StreamInv
  <1>3. reply \in Seq(Chunk) /\ t \in Seq(Chunk) /\ IsQueue(queue)
    BY <1>2, ForwardedTyped DEF StreamTypes
  <1>4. /\ IsQueue(Tail(queue)) /\ t # <<>> /\ h = Head(t) /\ h \in Chunk
        /\ Contents(Tail(queue)) = Tail(t)
        /\ queue \in Seq(Chunk) => Tail(queue) \in Seq(Chunk)
    BY <1>1, <1>3, TakesChunk
  <1>5. Forwarded' = Forwarded /\ reply' \in Seq(Chunk)
    <2>1. /\ Append(reply, Head(t)) \in Seq(Chunk)
          /\ Append(reply, Head(t)) \o Tail(t) = reply \o t
      BY <1>3, <1>4, Moves
    <2> QED
      BY <1>1, <1>4, <2>1 DEF Forwarded
  <1>6. driver.at # "none" /\ resilient
    BY <1>1, <1>2 DEF PointsAgree
  <1>7. \A q \in Providers : SessionOk(q)'
    BY <1>1, <1>2 DEF StreamTypes, SessionOk
  <1>8. StreamTypes'
    BY <1>1, <1>2, <1>4, <1>5, <1>7 DEF StreamTypes
  <1>9. PointsAgree'
    BY <1>1, <1>2, <1>4, <1>6 DEF PointsAgree, Asking
  <1>10. Flow'
    <2> HIDE DEF h, t
    <2> QED
      BY <1>1, <1>2, <1>5, <1>6
      DEF Flow, DirectFlow, DriverFlow, FallbackFlow, DoneFlow, ResultFlow, EmptyFlow
  <1> QED
    BY <1>8, <1>9, <1>10 DEF StreamInv

LEMMA ReceiveEndKeeps ==
    ASSUME StreamInv, ReceiveEnd
    PROVE  StreamInv'
  <1>1. /\ pc = "consume" /\ queue # <<>> /\ Head(queue) = End /\ queue' = Tail(queue)
        /\ pc' = "done" /\ verdict' \in {"final", "error"}
        /\ UNCHANGED <<resilient, disabled, adapter, driver, reply>>
    BY DEF ReceiveEnd, deployment
  <1>2. StreamTypes /\ PointsAgree /\ Flow
    BY DEF StreamInv
  <1>3. /\ queue' = <<>> /\ queue \notin Seq(Chunk) /\ IsQueue(<<>>)
        /\ Contents(queue) = <<>> /\ Contents(<<>>) = <<>>
    BY <1>1, <1>2, TakesEnd DEF StreamTypes
  <1>4. Forwarded' = Forwarded
    BY <1>1, <1>3 DEF Forwarded
  <1>5. driver.at = "done" /\ resilient
    BY <1>1, <1>2, <1>3 DEF PointsAgree
  <1>6. \A q \in Providers : SessionOk(q)'
    BY <1>1, <1>2 DEF StreamTypes, SessionOk
  <1>7. StreamTypes'
    BY <1>1, <1>2, <1>3, <1>6 DEF StreamTypes
  <1>8. PointsAgree'
    BY <1>1, <1>2, <1>5 DEF PointsAgree, Asking, Providers
  <1>9. Flow'
    BY <1>1, <1>2, <1>4, <1>5
    DEF Flow, DirectFlow, DriverFlow, FallbackFlow, DoneFlow, ResultFlow, EmptyFlow
  <1> QED
    BY <1>7, <1>8, <1>9 DEF StreamInv
(* Without a driver the route takes from the session itself.                *)
LEMMA ReceiveDirectlyKeeps ==
    ASSUME StreamInv, ReceiveDirectly
    PROVE  StreamInv'
  <1> DEFINE s == adapter["primary"]
             n == [s EXCEPT !.queue = Tail(@)]
             h == Head(s.queue)
             t == Contents(s.queue)
  <1>1. /\ pc = "consume_direct" /\ s.queue # <<>>
        /\ reply' = (IF h = End THEN reply ELSE Append(reply, h))
        /\ pc' = (IF h = End THEN "await_task" ELSE pc)
        /\ adapter' = [adapter EXCEPT !["primary"] = n]
        /\ UNCHANGED <<resilient, disabled, driver, queue, verdict, answer>>
    BY DEF ReceiveDirectly, deployment
  <1>2. StreamTypes /\ PointsAgree /\ Flow /\ "primary" \in Providers
    BY DEF StreamInv, Providers
  <1>3. /\ s \in Sessions /\ SessionOk("primary") /\ t \in Seq(Chunk) /\ IsQueue(s.queue)
        /\ s.task # "none" /\ ~resilient /\ reply \in Seq(Chunk) /\ verdict = "none"
    BY <1>1, <1>2, SessionTyped DEF PointsAgree, SessionOk, StreamTypes
  <1>4. driver.at = "none" /\ driver.final_result = "none" /\ queue = <<>>
    BY <1>2, <1>3 DEF PointsAgree
  <1>5. reply \o t = s.parts
    BY <1>2, <1>3 DEF Flow, DirectFlow
  <1>6. /\ n \in Sessions /\ n.queue = Tail(s.queue) /\ n.task = s.task /\ n.parts = s.parts
        /\ n.result = s.result
    <2>1. Tail(s.queue) \in Seq(Chunk \cup {End})
      BY <1>1, <1>3 DEF Sessions
    <2> HIDE DEF s
    <2> QED
      BY <1>3, <2>1 DEF Sessions
  <1> HIDE DEF n
  <1>7. /\ adapter' \in [Providers -> Sessions] /\ adapter'["primary"] = n
        /\ \A q \in Providers \ {"primary"} : adapter'[q] = adapter[q]
    BY <1>1, <1>2, <1>6 DEF StreamTypes
  <1>8. /\ IsQueue(Tail(s.queue)) /\ (s.queue \in Seq(Chunk) => Tail(s.queue) \in Seq(Chunk))
        /\ reply' \in Seq(Chunk) /\ reply' \o Contents(Tail(s.queue)) = reply \o t
        /\ h = End => Tail(s.queue) = <<>> /\ s.task # "reading"
    <2>1. ASSUME h = End
          PROVE  /\ Tail(s.queue) = <<>> /\ s.queue \notin Seq(Chunk) /\ t = <<>>
                 /\ IsQueue(<<>>) /\ Contents(<<>>) = <<>> /\ reply' = reply
      BY <1>1, <1>3, <2>1, TakesEnd
    <2>2. ASSUME h = End  PROVE s.task # "reading"
      BY <1>3, <2>1, <2>2 DEF SessionOk
    <2>3. ASSUME h # End
          PROVE  /\ IsQueue(Tail(s.queue)) /\ t # <<>> /\ h = Head(t)
                 /\ Contents(Tail(s.queue)) = Tail(t)
                 /\ s.queue \in Seq(Chunk) => Tail(s.queue) \in Seq(Chunk)
      BY <1>1, <1>3, <2>3, TakesChunk
    <2>4. ASSUME t # <<>>
          PROVE  /\ Append(reply, Head(t)) \in Seq(Chunk)
                 /\ Append(reply, Head(t)) \o Tail(t) = reply \o t
      BY <1>3, <2>4, Moves
    <2>5. CASE h = End
      <3> HIDE DEF t, h, s
      <3> QED
        BY <1>3, <2>1, <2>2, <2>5
    <2>6. CASE h # End
      <3>1. reply' = Append(reply, Head(t))
        BY <1>1, <2>3, <2>6
      <3> HIDE DEF t, h, s
      <3> QED
        BY <2>3, <2>4, <2>6, <3>1
    <2> QED
      BY <2>5, <2>6
  <1>9. \A q \in Providers : SessionOk(q)'
    <2>1. SessionOk("primary")'
      BY <1>3, <1>6, <1>7, <1>8 DEF SessionOk
    <2>2. \A q \in Providers \ {"primary"} : SessionOk(q)'
      BY <1>2, <1>7 DEF StreamTypes, SessionOk
    <2> QED
      BY <2>1, <2>2
  <1>10. pc' \in {"consume_direct", "await_task"} /\ (pc' = "await_task" <=> h = End)
    BY <1>1
  <1>11. StreamTypes'
    BY <1>1, <1>2, <1>3, <1>7, <1>8, <1>9, <1>10 DEF StreamTypes
  <1>12. PointsAgree'
    BY <1>1, <1>3, <1>4, <1>6, <1>7, <1>8, <1>10, <1>2 DEF PointsAgree, Asking, Providers
  <1>13. DirectFlow'
    BY <1>5, <1>6, <1>7, <1>8 DEF DirectFlow
  <1>14. Flow'
    BY <1>1, <1>4, <1>13
    DEF Flow, DriverFlow, FallbackFlow, DoneFlow, ResultFlow, EmptyFlow, Providers
  <1> QED
    BY <1>11, <1>12, <1>14 DEF StreamInv

LEMMA TaskAwaitedKeeps ==
    ASSUME StreamInv, TaskAwaited
    PROVE  StreamInv'
  <1>1. /\ pc = "await_task" /\ pc' = "done" /\ verdict' \in {"final", "error"}
        /\ UNCHANGED <<resilient, disabled, adapter, driver, queue, reply>>
    BY DEF TaskAwaited, deployment
  <1>2. StreamTypes /\ PointsAgree
    BY DEF StreamInv
  <1>3. \A q \in Providers : SessionOk(q)'
    BY <1>1, <1>2 DEF StreamTypes, SessionOk
  <1>4. StreamTypes'
    BY <1>1, <1>2, <1>3 DEF StreamTypes
  <1>5. PointsAgree'
    BY <1>1, <1>2 DEF PointsAgree, Asking, Providers
  <1>6. Flow'
    BY <1>1, FlowStays
  <1> QED
    BY <1>4, <1>5, <1>6 DEF StreamInv

(* The client leaves, and takes with it the task it was waiting for.        *)
LEMMA DisconnectKeeps ==
    ASSUME StreamInv, Disconnect
    PROVE  StreamInv'
  <1>1. /\ pc # "done" /\ pc' = "done" /\ verdict' = "cancelled"
        /\ adapter' = IF pc = "await_task"
                      THEN [adapter EXCEPT !["primary"].task = "done"] ELSE adapter
        /\ UNCHANGED <<resilient, disabled, driver, queue, reply, answer>>
    BY DEF Disconnect, deployment
  <1>2. StreamTypes /\ PointsAgree /\ Flow /\ "primary" \in Providers
    BY DEF StreamInv, Providers
  <1>3. CASE pc # "await_task"
    <2>1. adapter' = adapter
      BY <1>1, <1>3
    <2>2. \A q \in Providers : SessionOk(q)'
      BY <1>2, <2>1 DEF StreamTypes, SessionOk
    <2>3. StreamTypes'
      BY <1>1, <1>2, <2>1, <2>2 DEF StreamTypes
    <2>4. PointsAgree'
      BY <1>1, <1>2, <2>1 DEF PointsAgree, Asking, Providers
    <2>5. Flow'
      BY <1>1, <2>1, FlowStays
    <2> QED
      BY <2>3, <2>4, <2>5 DEF StreamInv
  <1>4. CASE pc = "await_task"
    <2> DEFINE s == adapter["primary"]
               n == [s EXCEPT !.task = "done"]
    <2>1. adapter' = [adapter EXCEPT !["primary"] = n]
      BY <1>1, <1>4
    <2>2. /\ s \in Sessions /\ SessionOk("primary") /\ s.task \in {"closing", "done"}
          /\ ~resilient
      BY <1>2, <1>4, SessionTyped DEF PointsAgree
    <2>3. /\ n \in Sessions /\ n.task = "done" /\ n.parts = s.parts /\ n.queue = s.queue
          /\ n.result = s.result
      BY <2>2 DEF Sessions
    <2> HIDE DEF n
    <2>4. /\ adapter' \in [Providers -> Sessions] /\ adapter'["primary"] = n
          /\ \A q \in Providers \ {"primary"} : adapter'[q] = adapter[q]
      BY <1>2, <2>1, <2>3 DEF StreamTypes
    <2>5. \A q \in Providers : SessionOk(q)'
      <3>1. SessionOk("primary")'
        BY <2>2, <2>3, <2>4 DEF SessionOk
      <3>2. \A q \in Providers \ {"primary"} : SessionOk(q)'
        BY <1>2, <2>4 DEF StreamTypes, SessionOk
      <3> QED
        BY <3>1, <3>2
    <2>6. StreamTypes'
      BY <1>1, <1>2, <2>4, <2>5 DEF StreamTypes
    <2>7. driver.at = "none" /\ driver.final_result = "none" /\ queue = <<>>
      BY <1>2, <2>2 DEF PointsAgree
    <2>8. PointsAgree'
      BY <1>1, <2>2, <2>7 DEF PointsAgree, Asking, Providers
    <2>9. DirectFlow'
      BY <1>1, <1>2, <2>2, <2>3, <2>4 DEF Flow, DirectFlow
    <2>10. Flow'
      BY <1>1, <2>7, <2>9
      DEF Flow, DriverFlow, FallbackFlow, DoneFlow, ResultFlow, EmptyFlow, Providers
    <2> QED
      BY <2>6, <2>8, <2>10 DEF StreamInv
  <1> QED
    BY <1>3, <1>4
----------------------------------------------------------------------------
(* The invariant, and what the run checks of it.                            *)
LEMMA StreamStep == StreamInv /\ [Next]_vars => StreamInv'
  <1> SUFFICES ASSUME StreamInv, [Next]_vars PROVE StreamInv'
    OBVIOUS
  <1>1. ASSUME NEW p \in Providers, ProviderStep(p) \/ Close(p)  PROVE StreamInv'
    <2>1. ASSUME EndOfStream(p)  PROVE StreamInv'
      <3>1. /\ adapter[p].task = "reading"
            /\ UNCHANGED <<deployment, driver, queue, consumerVars, summaries>>
        BY <2>1 DEF EndOfStream
      <3>2. PICK completed \in BOOLEAN : Ends(p, "ok", completed)
        BY <2>1 DEF EndOfStream
      <3> QED
        BY <3>1, <3>2, EndsKeeps
    <2>2. ASSUME StreamBreaks(p)  PROVE StreamInv'
      <3>1. /\ adapter[p].task = "reading"
            /\ UNCHANGED <<deployment, driver, queue, consumerVars, summaries>>
        BY <2>2 DEF StreamBreaks
      <3>2. PICK kind \in Errors : Ends(p, kind, FALSE)
        BY <2>2 DEF StreamBreaks
      <3> QED
        BY <3>1, <3>2, EndsKeeps
    <2> QED
      BY <1>1, <2>1, <2>2, DeltaKeeps, CloseKeeps DEF ProviderStep
  <1>2. CASE DriverStep
    BY <1>2, ForwardKeeps, SessionSucceedsKeeps, SessionFallsBackKeeps, SessionFailsKeeps,
       DriverOpensFallbackKeeps DEF DriverStep
  <1>3. CASE ConsumerStep
    BY <1>3, OpensKeep, RunsKeep, YieldWholeKeeps, ReturnWholeKeeps, ReceiveKeeps,
       ReceiveEndKeeps, ReceiveDirectlyKeeps, TaskAwaitedKeeps DEF ConsumerStep
  <1>4. CASE UNCHANGED vars
    <2>1. UNCHANGED <<resilient, disabled, adapter, driver, queue, pc, reply, verdict, answer>>
      BY <1>4 DEF vars, deployment
    <2>2. \A q \in Providers : SessionOk(q)'
      BY <2>1 DEF StreamInv, StreamTypes, SessionOk
    <2>3. StreamTypes' /\ PointsAgree'
      BY <2>1, <2>2 DEF StreamInv, StreamTypes, PointsAgree
    <2> QED
      BY <2>1, <2>3, FlowStays DEF StreamInv
  <1> QED
    BY <1>1, <1>2, <1>3, <1>4, DisconnectKeeps DEF Next

LEMMA FlowIsPipeline == StreamInv => Pipeline
  <1> SUFFICES ASSUME StreamInv PROVE Pipeline
    OBVIOUS
  <1>1. driver.final_result \in {"none"} \cup Providers
    BY DEF StreamInv, StreamTypes, Drivers
  <1> QED
    BY <1>1
    DEF StreamInv, Flow, Pipeline, DirectFlow, DriverFlow, FallbackFlow, DoneFlow, ResultFlow

(* openai_provider.py, bedrock_provider.py, resilient_provider.py and       *)
(* chat_service.py: whatever two providers send, however their streams end, *)
(* and whether or not the client stays, the chunks in the two queues and at *)
(* the client are the deltas of one provider, each once and in its order.   *)
THEOREM ChunksArriveInOrder == Spec => []Pipeline
  <1>1. Init => StreamInv
    BY StreamStarts
  <1> QED
    BY <1>1, StreamStep, FlowIsPipeline, PTL DEF Spec
----------------------------------------------------------------------------
(* The one summary of a request.                                            *)

LEMMA OneSummary ==
    ASSUME NEW p, NEW failure, NEW used, resilient, summaries = <<>>,
           LogFinal(p, failure, used)
    PROVE  /\ Len(summaries') = 1 /\ Len(summaries') <= 1
           /\ summaries'[1].failure_kind = failure /\ summaries'[1].final_provider = p
  <1> DEFINE record == [final_provider |-> p, failure_kind |-> failure, fallback_used |-> used]
  <1>1. summaries' = Append(<<>>, record)
    BY DEF LogFinal
  <1>2. record.failure_kind = failure /\ record.final_provider = p
    OBVIOUS
  <1> HIDE DEF record
  <1>3. summaries' = <<record>>
    BY <1>1
  <1>4. Len(summaries') = 1 /\ Len(summaries') <= 1 /\ summaries'[1] = record
    BY <1>3
  <1> QED
    BY <1>2, <1>4

(* A step that changes nothing the summary is about.                        *)
LEMMA SummaryStays ==
    ASSUME SummaryInv, UNCHANGED <<resilient, driver, pc, verdict, answer, span, summaries>>
    PROVE  SummaryInv'
  BY DEF SummaryInv, SummaryAgrees

\* Before a stream or an answer is there.
Unanswered == {"open_primary", "open_fallback", "run_primary", "run_fallback"}

LEMMA NothingLoggedYet ==
    ASSUME StreamInv, SummaryInv, pc \in Unanswered
    PROVE  driver.at = "none" /\ verdict = "none" /\ (resilient => summaries = <<>>)
  BY DEF StreamInv, StreamTypes, PointsAgree, Asking, SummaryInv, Unanswered

LEMMA StillUnanswered ==
    ASSUME StreamInv, SummaryInv, pc \in Unanswered, pc' \in Unanswered,
           UNCHANGED <<deployment, driver, verdict, summaries>>
    PROVE  SummaryInv'
  <1>1. UNCHANGED resilient
    BY DEF deployment
  <1>2. Len(<<>>) = 0
    OBVIOUS
  <1> QED
    BY <1>1, <1>2, NothingLoggedYet DEF SummaryInv, SummaryAgrees, Unanswered, Providers

(* A request without a driver ends with its one summary.                    *)
LEMMA OneSummaryAgrees ==
    ASSUME driver'.at = "none", pc' \in {"run_reply", "done"}, verdict' \in {"none", "error"},
           resilient' =>
               /\ Len(summaries') = 1 /\ Len(summaries') <= 1
               /\ verdict' = "error" => summaries'[1].failure_kind # "none"
               /\ pc' = "run_reply" => /\ summaries'[1].failure_kind = "none"
                                       /\ summaries'[1].final_provider = answer'[1][1]
    PROVE  SummaryInv'
  <1>1. SummaryAgrees'
    BY DEF SummaryAgrees
  <1> QED
    BY <1>1 DEF SummaryInv, Providers

LEMMA FailureLogged ==
    ASSUME StreamInv, SummaryInv, pc \in Unanswered, NEW p \in Providers, NEW kind \in Errors,
           NEW used, LogFinal(p, kind, used), Fail, UNCHANGED <<deployment, driver>>
    PROVE  SummaryInv'
  <1>1. UNCHANGED resilient
    BY DEF deployment
  <1>2. driver.at = "none" /\ verdict = "none" /\ (resilient => summaries = <<>>)
    BY NothingLoggedYet
  <1>3. resilient => /\ Len(summaries') = 1 /\ Len(summaries') <= 1
                     /\ summaries'[1].failure_kind = kind
    BY <1>2, OneSummary
  <1>4. pc' = "done" /\ verdict' = "error" /\ kind # "none" /\ driver'.at = "none"
    BY <1>2 DEF Fail, Errors
  <1> QED
    BY <1>1, <1>3, <1>4, OneSummaryAgrees

LEMMA AnswerLogged ==
    ASSUME StreamInv, SummaryInv, pc \in Unanswered, NEW p \in Providers, NEW used,
           LogFinal(p, "none", used), answer' = << <<p, 0>> >>, pc' = "run_reply",
           UNCHANGED <<deployment, driver, verdict>>
    PROVE  SummaryInv'
  <1>1. UNCHANGED resilient
    BY DEF deployment
  <1>2. driver.at = "none" /\ verdict = "none" /\ (resilient => summaries = <<>>)
    BY NothingLoggedYet
  <1>3. resilient => /\ Len(summaries') = 1 /\ Len(summaries') <= 1
                     /\ summaries'[1].failure_kind = "none"
                     /\ summaries'[1].final_provider = p
    BY <1>2, OneSummary
  <1>4. answer'[1][1] = p /\ verdict' = "none" /\ driver'.at = "none"
    BY <1>2
  <1> QED
    BY <1>1, <1>3, <1>4, OneSummaryAgrees

(* The consumer opens a stream, or fails to.                                *)
LEMMA OpensSummed ==
    ASSUME StreamInv, SummaryInv, OpenPrimary \/ OpenFallback
    PROVE  SummaryInv'
  <1>1. pc \in Unanswered /\ UNCHANGED deployment /\ UNCHANGED resilient
    BY DEF OpenPrimary, OpenFallback, Unanswered, deployment
  <1>2. /\ "primary" \in Providers /\ "fallback" \in Providers /\ "fatal" \in Errors
        /\ "primary" \notin {"done", "open_fallback"}
        /\ "fallback" \notin {"done", "open_fallback"}
    BY DEF Providers, Errors
  <1>3. driver.at = "none" /\ verdict = "none" /\ (resilient => summaries = <<>>)
    BY <1>1, NothingLoggedYet
  <1>4. ASSUME Run, UNCHANGED <<adapter, driver, summaries>>  PROVE SummaryInv'
    <2>1. pc' \in Unanswered /\ UNCHANGED verdict
      BY <1>4 DEF Run, Unanswered
    <2> QED
      BY <1>1, <1>4, <2>1, StillUnanswered
  <1>5. ASSUME NEW p \in Providers, Consume(p), UNCHANGED summaries  PROVE SummaryInv'
    <2>1. /\ driver' = [driver EXCEPT !.at = p, !.fallback_used = (p = "fallback")]
          /\ pc' = "consume" /\ UNCHANGED verdict
      BY <1>5 DEF Consume
    <2>2. driver'.at = p
      BY <2>1 DEF StreamInv, StreamTypes, Drivers
    <2>3. Len(<<>>) = 0 /\ p # "done"
      BY DEF Providers
    <2> QED
      BY <1>1, <1>3, <1>5, <2>1, <2>2, <2>3 DEF SummaryInv, SummaryAgrees
  <1>6. ASSUME ~resilient  PROVE SummaryInv'
    BY <1>1, <1>6 DEF SummaryInv
  <1>7. ASSUME NEW p \in Providers, NEW kind \in Errors, NEW used, Fail,
               LogFinal(p, kind, used), UNCHANGED <<adapter, driver, span>>
        PROVE  SummaryInv'
    BY <1>1, <1>7, FailureLogged
  <1>8. ASSUME pc' = "open_fallback", UNCHANGED <<adapter, driver, verdict, summaries>>
        PROVE  SummaryInv'
    <2>1. pc' \in Unanswered
      BY <1>8 DEF Unanswered
    <2> QED
      BY <1>1, <1>8, <2>1, StillUnanswered
  <1>9. CASE OpenPrimary
    BY <1>2, <1>4, <1>5, <1>6, <1>7, <1>8, <1>9 DEF OpenPrimary
  <1>10. CASE OpenFallback
    BY <1>2, <1>4, <1>5, <1>7, <1>10 DEF OpenFallback
  <1> QED
    BY <1>9, <1>10

LEMMA RunsSummed ==
    ASSUME StreamInv, SummaryInv, RunPrimary \/ RunFallback \/ RunTimesOut
    PROVE  SummaryInv'
  <1>1. /\ pc \in Unanswered /\ UNCHANGED <<deployment, driver>> /\ UNCHANGED resilient
    BY DEF RunPrimary, RunFallback, RunTimesOut, Unanswered, deployment
  <1>2. "primary" \in Providers /\ "fallback" \in Providers /\ "fatal" \in Errors
    BY DEF Providers, Errors
  <1>3. driver.at = "none" /\ verdict = "none" /\ (resilient => summaries = <<>>)
    BY <1>1, NothingLoggedYet
  <1>4. ASSUME NEW p \in Providers, NEW used, LogFinal(p, "none", used),
               answer' = << <<p, 0>> >>, pc' = "run_reply", UNCHANGED <<reply, verdict>>
        PROVE  SummaryInv'
    BY <1>1, <1>4, AnswerLogged
  <1>5. ASSUME NEW p \in Providers, NEW kind \in Errors, NEW used, Fail,
               LogFinal(p, kind, used)
        PROVE  SummaryInv'
    BY <1>1, <1>5, FailureLogged
  <1>6. CASE RunPrimary
    <2>1. ASSUME pc' = "run_fallback", UNCHANGED <<reply, verdict, answer, span, summaries>>
          PROVE  SummaryInv'
      <3>1. pc' \in Unanswered
        BY <2>1 DEF Unanswered
      <3> QED
        BY <1>1, <2>1, <3>1, StillUnanswered
    <2> QED
      BY <1>2, <1>4, <1>5, <1>6, <2>1 DEF RunPrimary
  <1>7. CASE RunFallback
    BY <1>2, <1>4, <1>5, <1>7 DEF RunFallback
  <1>8. CASE RunTimesOut
    <2>1. /\ pc' = "done" /\ verdict' = "error" /\ span' = "timeout" /\ UNCHANGED summaries
      BY <1>8 DEF RunTimesOut, Fail
    <2>2. Len(<<>>) = 0
      OBVIOUS
    <2> QED
      BY <1>1, <1>3, <2>1, <2>2 DEF SummaryInv, SummaryAgrees, Providers
  <1> QED
    BY <1>6, <1>7, <1>8

LEMMA WholeSummed ==
    ASSUME StreamInv, SummaryInv, YieldWhole \/ ReturnWhole
    PROVE  SummaryInv'
  <1>1. /\ pc \in {"run_reply", "run_result"} /\ pc' \in {"run_result", "done"}
        /\ verdict' \in {verdict, "final"} /\ UNCHANGED <<resilient, driver, answer, summaries>>
    BY DEF YieldWhole, ReturnWhole, deployment
  <1>2. driver.at = "none" /\ verdict = "none"
    BY <1>1 DEF StreamInv, StreamTypes, PointsAgree, Asking
  <1> QED
    BY <1>1, <1>2 DEF SummaryInv, SummaryAgrees, Providers

(* The driver's last act is the summary.                                    *)
LEMMA ConcludesSummed ==
    ASSUME StreamInv, SummaryInv, NEW p \in Providers, NEW failure \in {"none"} \cup Errors,
           driver.at \in {p, "open_fallback"}, Concludes(p, failure),
           UNCHANGED <<deployment, consumerVars>>
    PROVE  SummaryInv'
  <1>1. /\ driver' = [driver EXCEPT !.at = "done", !.error = failure,
                          !.final_result = IF failure = "none" THEN p ELSE "none"]
        /\ LogFinal(p, failure, driver.fallback_used)
        /\ UNCHANGED <<resilient, pc, verdict, answer, span>>
    BY DEF Concludes, deployment, consumerVars
  <1>2. /\ driver'.at = "done" /\ driver'.error = failure
        /\ driver'.final_result = IF failure = "none" THEN p ELSE "none"
    BY <1>1 DEF StreamInv, StreamTypes, Drivers
  <1>3. pc \notin Asking /\ resilient
    BY DEF StreamInv, PointsAgree, Providers
  <1>4. summaries = <<>> /\ verdict \in {"none", "cancelled"}
    BY <1>3 DEF SummaryInv
  <1>5. /\ Len(summaries') = 1 /\ summaries'[1].failure_kind = failure
        /\ summaries'[1].final_provider = p
    BY <1>1, <1>3, <1>4, OneSummary
  <1> QED
    BY <1>1, <1>2, <1>3, <1>4, <1>5 DEF SummaryInv, SummaryAgrees, Asking, Providers

(* The driver goes on.                                                      *)
LEMMA DrivesOn ==
    ASSUME SummaryInv, driver.at \in {"open_fallback"} \cup Providers,
           driver'.at \in {"open_fallback"} \cup Providers,
           UNCHANGED <<deployment, consumerVars, summaries>>
    PROVE  SummaryInv'
  <1>1. UNCHANGED <<resilient, pc, verdict, answer, span>>
    BY DEF deployment, consumerVars
  <1> QED
    BY <1>1 DEF SummaryInv, SummaryAgrees, Providers

LEMMA DriverSummed ==
    ASSUME StreamInv, SummaryInv, DriverStep
    PROVE  SummaryInv'
  <1>1. driver \in Drivers /\ "fallback" \in Providers
    BY DEF StreamInv, StreamTypes, Providers
  <1>2. ASSUME NEW p \in Providers, Forward(p)  PROVE SummaryInv'
    <2>1. /\ driver.at = p /\ driver' = [driver EXCEPT !.first_chunk_emitted = TRUE]
          /\ UNCHANGED <<deployment, consumerVars, summaries>>
      BY <1>2 DEF Forward, Driving
    <2>2. driver'.at = p
      BY <1>1, <2>1 DEF Drivers
    <2> QED
      BY <2>1, <2>2, DrivesOn
  <1>3. ASSUME NEW p \in Providers, SessionFallsBack(p)  PROVE SummaryInv'
    <2>1. /\ driver.at = p
          /\ driver' = [driver EXCEPT !.at = "open_fallback", !.fallback_used = TRUE]
          /\ UNCHANGED <<deployment, consumerVars, summaries>>
      BY <1>3 DEF SessionFallsBack, SessionEnds, Driving
    <2>2. driver'.at = "open_fallback"
      BY <1>1, <2>1 DEF Drivers
    <2> QED
      BY <2>1, <2>2, DrivesOn
  <1>4. ASSUME NEW p \in Providers, SessionSucceeds(p)  PROVE SummaryInv'
    BY <1>4, ConcludesSummed DEF SessionSucceeds, SessionEnds, Driving
  <1>5. ASSUME NEW p \in Providers, SessionFails(p)  PROVE SummaryInv'
    <2>1. /\ SessionEnds(p) /\ Concludes(p, adapter[p].result)
          /\ UNCHANGED <<deployment, consumerVars>>
      BY <1>5 DEF SessionFails
    <2>2. driver.at = p /\ adapter[p].result \in {"none"} \cup Errors
      BY <1>5, <2>1, SessionOver DEF SessionFails
    <2> QED
      BY <2>1, <2>2, ConcludesSummed
  <1>6. ASSUME DriverOpensFallback  PROVE SummaryInv'
    <2>1. driver.at = "open_fallback" /\ UNCHANGED <<deployment, consumerVars>>
      BY <1>6 DEF DriverOpensFallback
    <2>2. ASSUME driver' = [driver EXCEPT !.at = "fallback"], UNCHANGED summaries
          PROVE  SummaryInv'
      <3>1. driver'.at = "fallback"
        BY <1>1, <2>2 DEF Drivers
      <3> QED
        BY <1>1, <2>1, <2>2, <3>1, DrivesOn
    <2>3. ASSUME NEW kind \in Errors, Concludes("fallback", kind)  PROVE SummaryInv'
      BY <1>1, <2>1, <2>3, ConcludesSummed
    <2>4. adapter["primary"].result \in Errors
      BY <2>1 DEF StreamInv, Flow, FallbackFlow
    <2> QED
      BY <1>6, <2>2, <2>3, <2>4 DEF DriverOpensFallback
  <1> QED
    BY <1>2, <1>3, <1>4, <1>5, <1>6 DEF DriverStep

(* What is left of a sequence that is stripped.                             *)
LEMMA Stripped ==
    ASSUME NEW s \in Seq(Chunk)
    PROVE  \/ Strip(s) = <<>> /\ \A i \in 1 .. Len(s) : s[i] \in blank
           \/ \E first, last \in 1 .. Len(s) :
                 /\ first <= last
                 /\ \A i \in 1 .. Len(s) : i \notin first .. last => s[i] \in blank
                 /\ Strip(s) = SubSeq(s, first, last)
  <1> DEFINE solid == {i \in 1 .. Len(s) : s[i] \notin blank}
  <1>1. CASE solid = {}
    BY <1>1 DEF Strip
  <1>2. CASE solid # {}
    <2>1. Len(s) \in Nat /\ solid \in SUBSET Int /\ \A n \in solid : 1 <= n /\ n <= Len(s)
      <3>1. Len(s) \in Nat /\ \A n \in 1 .. Len(s) : n \in Int /\ 1 <= n /\ n <= Len(s)
        OBVIOUS
      <3>2. \A n \in solid : n \in 1 .. Len(s)
        OBVIOUS
      <3> HIDE DEF solid
      <3> QED
        BY <3>1, <3>2
    <2> HIDE DEF solid
    <2>2. Min(solid) = Places!Min(solid) /\ Max(solid) = Places!Max(solid)
      BY Zenon DEF Min, Max, Places!Min, Places!Max
    <2>3. Min(solid) \in solid /\ \A n \in solid : Min(solid) <= n
      BY <1>2, <2>1, <2>2, Places!LeastIsThere
    <2>4. Max(solid) \in solid /\ \A n \in solid : n <= Max(solid)
      <3>1. solid \in SUBSET Int /\ Len(s) \in Int /\ \A n \in solid : n <= Len(s)
        BY <2>1
      <3>2. Places!Max(solid) \in solid /\ \A n \in solid : n <= Places!Max(solid)
        BY <1>2, <3>1, Places!GreatestIsThere
      <3> QED
        BY <2>2, <3>2
    <2>5. Min(solid) \in 1 .. Len(s) /\ Max(solid) \in 1 .. Len(s) /\ Min(solid) <= Max(solid)
      BY <2>3, <2>4 DEF solid
    <2>6. \A i \in 1 .. Len(s) : i \notin Min(solid) .. Max(solid) => s[i] \in blank
      BY <2>1, <2>3, <2>4, <2>5 DEF solid
    <2>7. Strip(s) = SubSeq(s, Min(solid), Max(solid))
      BY <1>2 DEF Strip, solid
    <2> QED
      BY <2>5, <2>6, <2>7
  <1> QED
    BY <1>1, <1>2

(* The content of a final result is what the provider sent, but for white   *)
(* space at its ends, or stands for an answer without words.                *)
LEMMA ContentIs ==
    ASSUME StreamTypes, NEW p \in Providers
    PROVE  LET parts == adapter[p].parts
           IN  \/ /\ Content(p) = << <<p, 0>> >>
                  /\ \A i \in 1 .. Len(parts) : parts[i] \in blank /\ parts[i][1] = p
               \/ \E first, last \in 1 .. Len(parts) :
                     /\ first <= last
                     /\ \A i \in 1 .. Len(parts) : i \notin first .. last => parts[i] \in blank
                     /\ Content(p) = SubSeq(parts, first, last)
  <1> DEFINE parts == adapter[p].parts
  <1>1. parts \in Seq(Chunk) /\ \A i \in 1 .. Len(parts) : parts[i] = <<p, i>>
    BY SessionTyped DEF SessionOk
  <1>2. \A i \in 1 .. Len(parts) : parts[i][1] = p
    BY <1>1
  <1> HIDE DEF parts
  <1>3. CASE p \in strips
    <2>1. Content(p) = IF Strip(parts) = <<>> THEN << <<p, 0>> >> ELSE Strip(parts)
      BY <1>3 DEF Content, parts
    <2>2. CASE Strip(parts) = <<>> /\ \A i \in 1 .. Len(parts) : parts[i] \in blank
      BY <1>2, <2>1, <2>2 DEF parts
    <2>3. ASSUME NEW first \in 1 .. Len(parts), NEW last \in 1 .. Len(parts), first <= last,
                 \A i \in 1 .. Len(parts) : i \notin first .. last => parts[i] \in blank,
                 Strip(parts) = SubSeq(parts, first, last)
          PROVE  Content(p) = SubSeq(parts, first, last)
      <3>1. Len(SubSeq(parts, first, last)) # 0
        BY <1>1, <2>3
      <3>2. Strip(parts) # <<>>
        BY <2>3, <3>1
      <3> QED
        BY <2>1, <2>3, <3>2, Zenon
    <2> QED
      BY <1>1, <2>2, <2>3, Stripped DEF parts
  <1>4. CASE p \notin strips /\ parts = <<>>
    BY <1>2, <1>4 DEF Content, parts
  <1>5. CASE p \notin strips /\ parts # <<>>
    <2>1. Content(p) = parts
      BY <1>5 DEF Content, parts
    <2>2. 1 \in 1 .. Len(parts) /\ Len(parts) \in 1 .. Len(parts)
          /\ SubSeq(parts, 1, Len(parts)) = parts
      BY <1>1, <1>5
    <2> QED
      BY <2>1, <2>2 DEF parts
  <1> QED
    BY <1>3, <1>4, <1>5

(* What a client is given names the provider it came from.                  *)
LEMMA ContentNames ==
    ASSUME StreamTypes, NEW p \in Providers
    PROVE  Content(p)[1][1] = p
  <1> DEFINE parts == adapter[p].parts
  <1>1. parts \in Seq(Chunk) /\ \A i \in 1 .. Len(parts) : parts[i] = <<p, i>>
    BY SessionTyped DEF SessionOk
  <1> HIDE DEF parts
  <1>2. ASSUME NEW first \in 1 .. Len(parts), NEW last \in 1 .. Len(parts), first <= last,
               Content(p) = SubSeq(parts, first, last)
        PROVE  Content(p)[1][1] = p
    <2>1. Content(p)[1] = parts[first]
      BY <1>1, <1>2
    <2> QED
      BY <1>1, <2>1
  <1>3. CASE Content(p) = << <<p, 0>> >>
    BY <1>3
  <1> QED
    BY <1>2, <1>3, ContentIs DEF parts

LEMMA ReceiveEndSummed ==
    ASSUME StreamInv, SummaryInv, ReceiveEnd
    PROVE  SummaryInv'
  <1>1. /\ pc = "consume" /\ queue # <<>> /\ Head(queue) = End
        /\ pc' = "done" /\ UNCHANGED <<resilient, driver, summaries>>
        /\ \/ /\ driver.error = "none" /\ verdict' = "final"
              /\ answer' = Content(driver.final_result)
           \/ driver.error # "none" /\ verdict' = "error"
    BY DEF ReceiveEnd, deployment
  <1>2. queue \notin Seq(Chunk)
    BY <1>1, TakesEnd DEF StreamInv, StreamTypes
  <1>3. driver.at = "done" /\ resilient
    BY <1>1, <1>2 DEF StreamInv, PointsAgree
  <1>4. /\ Len(summaries) = 1 /\ summaries[1].failure_kind = driver.error
        /\ driver.error = "none" => /\ driver.final_result \in Providers
                                    /\ summaries[1].final_provider = driver.final_result
    BY <1>3 DEF SummaryInv
  <1>5. verdict' = "final" => summaries[1].final_provider = answer'[1][1]
    BY <1>1, <1>4, ContentNames DEF StreamInv
  <1> QED
    BY <1>1, <1>3, <1>4, <1>5 DEF SummaryInv, SummaryAgrees, Providers

LEMMA SummaryStep == StreamInv /\ SummaryInv /\ [Next]_vars => SummaryInv'
  <1> SUFFICES ASSUME StreamInv, SummaryInv, [Next]_vars PROVE SummaryInv'
    OBVIOUS
  <1>1. ASSUME NEW p \in Providers, ProviderStep(p) \/ Close(p)  PROVE SummaryInv'
    <2>1. UNCHANGED <<deployment, driver, consumerVars, summaries>>
      BY <1>1 DEF ProviderStep, Delta, EndOfStream, StreamBreaks, Close
    <2>2. UNCHANGED <<resilient, driver, pc, verdict, answer, span, summaries>>
      BY <2>1 DEF deployment, consumerVars
    <2> QED
      BY <2>2, SummaryStays
  <1>2. CASE DriverStep
    BY <1>2, DriverSummed
  <1>3. CASE Receive \/ UNCHANGED vars
    <2>1. UNCHANGED <<resilient, driver, pc, verdict, answer, span, summaries>>
      BY <1>3 DEF Receive, vars, deployment
    <2> QED
      BY <2>1, SummaryStays
  <1>4. CASE ReceiveDirectly \/ TaskAwaited
    <2>1. pc \in {"consume_direct", "await_task"} /\ UNCHANGED resilient
      BY <1>4 DEF ReceiveDirectly, TaskAwaited, deployment
    <2>2. ~resilient
      BY <2>1 DEF StreamInv, PointsAgree
    <2> QED
      BY <2>1, <2>2 DEF SummaryInv
  <1>5. CASE Disconnect
    <2>1. /\ pc' = "done" /\ verdict' = "cancelled" /\ UNCHANGED <<resilient, driver, summaries>>
      BY <1>5 DEF Disconnect, deployment
    <2> QED
      BY <2>1 DEF SummaryInv, SummaryAgrees, Providers
  <1> QED
    BY <1>1, <1>2, <1>3, <1>4, <1>5, OpensSummed, RunsSummed, WholeSummed, ReceiveEndSummed
    DEF Next, ConsumerStep

(* resilient_provider.py, _log_final: a request has at most one summary, it *)
(* names the provider whose answer the client was given, and reports a      *)
(* failure when the client was given an error; only a timeout has none.     *)
THEOREM SummariesTellTheTruth == Spec => []SummaryAgrees
  <1>1. Init => StreamInv /\ SummaryInv
    BY StreamStarts
  <1>2. StreamInv /\ SummaryInv /\ [Next]_vars => StreamInv' /\ SummaryInv'
    BY StreamStep, SummaryStep
  <1>3. SummaryInv => SummaryAgrees
    BY DEF SummaryInv, SummaryAgrees
  <1> QED
    BY <1>1, <1>2, <1>3, PTL DEF Spec
----------------------------------------------------------------------------
(* The stream a client sees.                                                *)

(* What precedes in a numbered sequence is numbered, and what follows goes  *)
(* on from there.                                                           *)
LEMMA NumberedPrefix ==
    ASSUME NEW p, NEW a \in Seq(Chunk), NEW b \in Seq(Chunk),
           \A i \in 1 .. Len(a \o b) : (a \o b)[i] = <<p, i>>
    PROVE  /\ \A i \in 1 .. Len(a) : a[i] = <<p, i>>
           /\ b # <<>> => Head(b) = <<p, Len(a) + 1>>
  <1> DEFINE c == a \o b
  <1>1. /\ Len(c) = Len(a) + Len(b) /\ \A i \in 1 .. Len(a) : c[i] = a[i]
        /\ b # <<>> => c[Len(a) + 1] = Head(b) /\ Len(b) >= 1
        /\ Len(a) \in Nat /\ Len(b) \in Nat
    OBVIOUS
  <1>2. \A i \in 1 .. Len(c) : c[i] = <<p, i>>
    OBVIOUS
  <1> HIDE DEF c
  <1> QED
    BY <1>1, <1>2

(* Whatever point the driver has reached, what it has taken is the          *)
(* beginning of one provider's deltas.                                      *)
LEMMA ForwardedIsNumbered ==
    ASSUME StreamInv, driver.at # "none"
    PROVE  \E p \in Providers : \A i \in 1 .. Len(Forwarded) : Forwarded[i] = <<p, i>>
  <1>1. StreamTypes /\ Flow
    BY DEF StreamInv
  <1>2. Forwarded \in Seq(Chunk)
    BY <1>1, ForwardedTyped
  <1>3. \A p \in Providers : /\ Contents(adapter[p].queue) \in Seq(Chunk)
                             /\ \A i \in 1 .. Len(adapter[p].parts) :
                                    adapter[p].parts[i] = <<p, i>>
    BY <1>1, SessionTyped DEF SessionOk
  <1>4. ASSUME driver.at = "open_fallback"
        PROVE  \A i \in 1 .. Len(Forwarded) : Forwarded[i] = <<"primary", i>>
    <2>1. Forwarded = <<>>
      BY <1>1, <1>4 DEF Flow, FallbackFlow
    <2>2. 1 .. Len(Forwarded) = {}
      BY <2>1
    <2> QED
      BY <2>2
  <1>5. ASSUME NEW p \in Providers, driver.at = p
        PROVE  \A i \in 1 .. Len(Forwarded) : Forwarded[i] = <<p, i>>
    <2> DEFINE rest == Contents(adapter[p].queue)
    <2>1. Forwarded \o rest = adapter[p].parts
      BY <1>1, <1>5 DEF Flow, DriverFlow
    <2>2. rest \in Seq(Chunk) /\ \A i \in 1 .. Len(Forwarded \o rest) :
                                     (Forwarded \o rest)[i] = <<p, i>>
      BY <1>3, <2>1
    <2> QED
      BY <1>2, <2>2, NumberedPrefix
  <1>6. ASSUME driver.at = "done"
        PROVE  \E p \in Providers : \A i \in 1 .. Len(Forwarded) : Forwarded[i] = <<p, i>>
    BY <1>1, <1>3, <1>6 DEF Flow, DoneFlow
  <1>7. driver.at \in {"open_fallback", "done"} \cup Providers
    BY <1>1 DEF StreamTypes, Drivers
  <1> QED
    BY <1>4, <1>5, <1>6, <1>7 DEF Providers

LEMMA NextChunk ==
    ASSUME NEW p \in Providers, NEW t \in Seq(Chunk), t # <<>>, reply \in Seq(Chunk),
           \A i \in 1 .. Len(reply \o t) : (reply \o t)[i] = <<p, i>>,
           verdict = "none", UNCHANGED <<blank, verdict, answer>>, reply' = Append(reply, Head(t))
    PROVE  Reply!Deliver(p)
  <1>1. /\ \A i \in 1 .. Len(reply) : reply[i] = <<p, i>>
        /\ Head(t) = <<p, Len(reply) + 1>>
    BY NumberedPrefix
  <1>2. reply' = Append(reply, <<p, Len(reply) + 1>>)
    BY <1>1
  <1> QED
    BY <1>1, <1>2 DEF Reply!Deliver

LEMMA Unseen ==
    ASSUME UNCHANGED <<blank, reply, verdict>>, verdict # "final" \/ UNCHANGED answer
    PROVE  UNCHANGED Reply!streamVars
  BY DEF Reply!streamVars

LEMMA Aborts ==
    ASSUME verdict = "none", verdict' \in {"error", "cancelled"}, UNCHANGED <<blank, reply>>
    PROVE  Reply!Next
  <1>1. Reply!Abort
    BY DEF Reply!Abort
  <1> QED
    BY <1>1 DEF Reply!Next

LEMMA FinishesWordless ==
    ASSUME verdict = "none", verdict' = "final", UNCHANGED <<blank, reply>>,
           NEW p \in Providers, answer' = << <<p, 0>> >>,
           \A i \in 1 .. Len(reply) : reply[i] \in blank /\ reply[i][1] = p
    PROVE  Reply!Next
  <1>1. Reply!Wordless
    BY DEF Reply!Wordless
  <1>2. Reply!Finish
    BY <1>1 DEF Reply!Finish
  <1> QED
    BY <1>2 DEF Reply!Next

LEMMA FinishesTrimmed ==
    ASSUME verdict = "none", verdict' = "final", UNCHANGED <<blank, reply>>,
           NEW first \in 1 .. Len(reply), NEW last \in 1 .. Len(reply), first <= last,
           \A i \in 1 .. Len(reply) : i \notin first .. last => reply[i] \in blank,
           answer' = SubSeq(reply, first, last)
    PROVE  Reply!Next
  <1>1. Reply!Trimmed
    BY DEF Reply!Trimmed
  <1>2. Reply!Finish
    BY <1>1 DEF Reply!Finish
  <1> QED
    BY <1>2 DEF Reply!Next

LEMMA FinishesWithContent ==
    ASSUME StreamTypes, verdict = "none", verdict' = "final", UNCHANGED <<blank, reply>>,
           NEW p \in Providers, reply = adapter[p].parts, answer' = Content(p)
    PROVE  Reply!Next
  <1>1. CASE /\ answer' = << <<p, 0>> >>
             /\ \A i \in 1 .. Len(reply) : reply[i] \in blank /\ reply[i][1] = p
    BY <1>1, FinishesWordless
  <1>2. ASSUME NEW first \in 1 .. Len(reply), NEW last \in 1 .. Len(reply), first <= last,
               \A i \in 1 .. Len(reply) : i \notin first .. last => reply[i] \in blank,
               answer' = SubSeq(reply, first, last)
        PROVE  Reply!Next
    BY <1>2, FinishesTrimmed
  <1> QED
    BY <1>1, <1>2, ContentIs

LEMMA Delivers ==
    ASSUME NEW p \in Providers, Reply!Deliver(p)
    PROVE  Reply!Next
  BY DEF Reply!Next

LEMMA WholeIsPlain ==
    ASSUME NEW s \in Seq(Chunk)
    PROVE  s \o <<>> = s
  OBVIOUS

LEMMA ReceiveDelivers ==
    ASSUME StreamInv, Receive
    PROVE  Reply!Next
  <1> DEFINE t == Contents(queue)
  <1>1. /\ pc = "consume" /\ queue # <<>> /\ Head(queue) # End
        /\ reply' = Append(reply, Head(queue)) /\ UNCHANGED <<blank, verdict, answer>>
    BY DEF Receive, deployment
  <1>2. StreamTypes /\ PointsAgree
    BY DEF StreamInv
  <1>3. /\ reply \in Seq(Chunk) /\ t \in Seq(Chunk) /\ t # <<>> /\ Head(queue) = Head(t)
        /\ verdict = "none" /\ driver.at # "none"
    BY <1>1, <1>2, ForwardedTyped, TakesChunk DEF StreamTypes, PointsAgree
  <1>4. PICK p \in Providers : \A i \in 1 .. Len(reply \o t) : (reply \o t)[i] = <<p, i>>
    BY <1>3, ForwardedIsNumbered DEF Forwarded
  <1>5. reply' = Append(reply, Head(t))
    BY <1>1, <1>3
  <1> HIDE DEF t
  <1>6. Reply!Deliver(p)
    BY <1>1, <1>3, <1>4, <1>5, NextChunk
  <1> QED
    BY <1>6, Delivers

LEMMA ReceiveEndFinishes ==
    ASSUME StreamInv, SummaryInv, ReceiveEnd
    PROVE  Reply!Next
  <1>1. /\ pc = "consume" /\ queue # <<>> /\ Head(queue) = End /\ UNCHANGED <<blank, reply>>
        /\ \/ /\ driver.error = "none" /\ verdict' = "final"
              /\ answer' = Content(driver.final_result)
           \/ verdict' = "error"
    BY DEF ReceiveEnd, deployment
  <1>2. StreamTypes /\ PointsAgree /\ Flow
    BY DEF StreamInv
  <1>3. Contents(queue) = <<>> /\ queue \notin Seq(Chunk) /\ verdict = "none"
    BY <1>1, <1>2, TakesEnd DEF StreamTypes
  <1>4. driver.at = "done" /\ resilient
    BY <1>1, <1>2, <1>3 DEF PointsAgree
  <1>5. Forwarded = reply
    BY <1>2, <1>3, ForwardedTyped, WholeIsPlain DEF Forwarded
  <1>6. CASE driver.error = "none" /\ verdict' = "final"
             /\ answer' = Content(driver.final_result)
    <2> DEFINE p == driver.final_result
    <2>1. p \in Providers
      BY <1>4, <1>6 DEF SummaryInv
    <2>2. reply = adapter[p].parts
      BY <1>2, <1>5, <2>1 DEF Flow, ResultFlow
    <2> QED
      BY <1>1, <1>2, <1>3, <1>6, <2>1, <2>2, FinishesWithContent
  <1>7. CASE verdict' = "error"
    BY <1>1, <1>3, <1>7, Aborts
  <1> QED
    BY <1>1, <1>6, <1>7

LEMMA ReceiveDirectlyDelivers ==
    ASSUME StreamInv, ReceiveDirectly
    PROVE  Reply!Next \/ UNCHANGED Reply!streamVars
  <1> DEFINE q == adapter["primary"].queue
             t == Contents(q)
  <1>1. /\ pc = "consume_direct" /\ q # <<>> /\ UNCHANGED <<blank, verdict, answer>>
        /\ reply' = IF Head(q) = End THEN reply ELSE Append(reply, Head(q))
    BY DEF ReceiveDirectly, deployment
  <1>2. StreamTypes /\ PointsAgree /\ Flow /\ "primary" \in Providers
    BY DEF StreamInv, Providers
  <1>3. /\ IsQueue(q) /\ t \in Seq(Chunk) /\ reply \in Seq(Chunk)
        /\ \A i \in 1 .. Len(adapter["primary"].parts) :
              adapter["primary"].parts[i] = <<"primary", i>>
    BY <1>2, SessionTyped, ForwardedTyped DEF SessionOk
  <1>4. reply \o t = adapter["primary"].parts /\ verdict = "none"
    BY <1>1, <1>2 DEF Flow, DirectFlow, PointsAgree, StreamTypes
  <1>5. CASE Head(q) = End
    BY <1>1, <1>4, <1>5, Unseen
  <1>6. CASE Head(q) # End
    <2>1. t # <<>> /\ Head(q) = Head(t)
      BY <1>1, <1>3, <1>6, TakesChunk
    <2>2. reply' = Append(reply, Head(t))
      BY <1>1, <1>6, <2>1
    <2>3. \A i \in 1 .. Len(reply \o t) : (reply \o t)[i] = <<"primary", i>>
      BY <1>3, <1>4
    <2> HIDE DEF t
    <2>4. Reply!Deliver("primary")
      BY <1>1, <1>2, <1>3, <1>4, <2>1, <2>2, <2>3, NextChunk
    <2> QED
      BY <1>2, <2>4, Delivers
  <1> QED
    BY <1>5, <1>6

LEMMA TaskAwaitedFinishes ==
    ASSUME StreamInv, TaskAwaited
    PROVE  Reply!Next
  <1>1. /\ pc = "await_task" /\ UNCHANGED <<blank, reply>>
        /\ \/ verdict' = "final" /\ answer' = Content("primary")
           \/ verdict' = "error"
    BY DEF TaskAwaited, deployment
  <1>2. StreamTypes /\ PointsAgree /\ Flow /\ "primary" \in Providers
    BY DEF StreamInv, Providers
  <1>3. /\ verdict = "none" /\ reply \in Seq(Chunk) /\ adapter["primary"].queue = <<>>
        /\ reply \o Contents(adapter["primary"].queue) = adapter["primary"].parts
    BY <1>1, <1>2 DEF StreamTypes, PointsAgree, Flow, DirectFlow
  <1>4. Contents(<<>>) = <<>>
    <2>1. <<>> \in Seq(Chunk)
      OBVIOUS
    <2> QED
      BY <2>1, OpenQueue
  <1>5. reply = adapter["primary"].parts
    BY <1>3, <1>4, WholeIsPlain
  <1>6. CASE verdict' = "final" /\ answer' = Content("primary")
    BY <1>1, <1>2, <1>3, <1>5, <1>6, FinishesWithContent
  <1>7. CASE verdict' = "error"
    BY <1>1, <1>3, <1>7, Aborts
  <1> QED
    BY <1>1, <1>6, <1>7

LEMMA WholeDelivers ==
    ASSUME StreamInv, YieldWhole \/ ReturnWhole
    PROVE  Reply!Next
  <1>1. StreamTypes /\ PointsAgree
    BY DEF StreamInv
  <1>2. CASE YieldWhole
    <2>1. /\ pc = "run_reply" /\ reply' = answer /\ UNCHANGED <<blank, verdict, answer>>
      BY <1>2 DEF YieldWhole, deployment
    <2>2. reply = <<>> /\ verdict = "none"
      BY <1>1, <2>1 DEF StreamTypes, PointsAgree, Asking
    <2>3. PICK p \in Providers : answer = << <<p, 0>> >>
      BY <1>1, <2>1 DEF PointsAgree
    <2>4. Reply!Deliver(p)
      BY <2>1, <2>2, <2>3 DEF Reply!Deliver
    <2> QED
      BY <2>4, Delivers
  <1>3. CASE ReturnWhole
    <2>1. /\ pc = "run_result" /\ verdict' = "final" /\ UNCHANGED <<blank, reply, answer>>
      BY <1>3 DEF ReturnWhole, deployment
    <2>2. reply = answer /\ verdict = "none"
      BY <1>1, <2>1 DEF StreamTypes, PointsAgree
    <2>3. PICK p \in Providers : answer = << <<p, 0>> >>
      BY <1>1, <2>1 DEF PointsAgree
    <2>4. /\ 1 \in 1 .. Len(reply) /\ Len(reply) = 1 /\ reply = SubSeq(reply, 1, 1)
          /\ \A i \in 1 .. Len(reply) : i \in 1 .. 1
      BY <2>2, <2>3
    <2> QED
      BY <2>1, <2>2, <2>4, FinishesTrimmed
  <1> QED
    BY <1>2, <1>3

LEMMA OpensAndRunsAreUnseen ==
    ASSUME StreamInv, OpenPrimary \/ OpenFallback \/ RunPrimary \/ RunFallback \/ RunTimesOut
    PROVE  Reply!Next \/ UNCHANGED Reply!streamVars
  <1>1. pc # "done"
    BY DEF OpenPrimary, OpenFallback, RunPrimary, RunFallback, RunTimesOut
  <1>2. verdict = "none"
    BY <1>1 DEF StreamInv, StreamTypes
  <1>3. UNCHANGED <<blank, reply>> /\ verdict' \in {verdict, "error"}
    BY DEF OpenPrimary, OpenFallback, RunPrimary, RunFallback, RunTimesOut, Run, Fail, Consume,
           ConsumeDirectly, deployment
  <1> QED
    BY <1>2, <1>3, Unseen, Aborts

LEMMA DisconnectAborts ==
    ASSUME StreamInv, Disconnect
    PROVE  Reply!Next
  <1>1. verdict = "none" /\ verdict' = "cancelled" /\ UNCHANGED <<blank, reply>>
    BY DEF Disconnect, StreamInv, StreamTypes, deployment
  <1> QED
    BY <1>1, Aborts

(* The rest of a stream's steps are of the provider and of the driver.      *)
LEMMA ReplyStep == StreamInv /\ SummaryInv /\ [Next]_vars => [Reply!Next]_(Reply!streamVars)
  <1> SUFFICES ASSUME StreamInv, SummaryInv, [Next]_vars
               PROVE  Reply!Next \/ UNCHANGED Reply!streamVars
    OBVIOUS
  <1>1. ASSUME NEW p \in Providers, ProviderStep(p) \/ Close(p)
        PROVE  UNCHANGED Reply!streamVars
    <2>1. UNCHANGED <<blank, consumerVars>>
      BY <1>1 DEF ProviderStep, Delta, EndOfStream, StreamBreaks, Close, deployment
    <2> QED
      BY <2>1, Unseen DEF consumerVars
  <1>2. CASE DriverStep
    <2>1. UNCHANGED <<blank, consumerVars>>
      BY <1>2
      DEF DriverStep, Forward, SessionSucceeds, SessionFallsBack, SessionFails,
          DriverOpensFallback, deployment
    <2> QED
      BY <2>1, Unseen DEF consumerVars
  <1>3. CASE ConsumerStep
    BY <1>3, OpensAndRunsAreUnseen, WholeDelivers, ReceiveDelivers, ReceiveEndFinishes,
       ReceiveDirectlyDelivers, TaskAwaitedFinishes DEF ConsumerStep
  <1>4. CASE UNCHANGED vars
    BY <1>4, Unseen DEF vars, deployment
  <1> QED
    BY <1>1, <1>2, <1>3, <1>4, DisconnectAborts DEF Next

(* chat_service.py, stream_chat, over any two providers: the client of a    *)
(* stream is sent the deltas of one provider in their order, or one whole   *)
(* answer, and then has one verdict; a final result is what it was sent but *)
(* for white space at its ends, that Bedrock's adapter strips.              *)
THEOREM StreamRefinesReply == Spec => ReplySpec
  <1>1. Init => StreamInv /\ SummaryInv
    BY StreamStarts
  <1>2. StreamInv /\ SummaryInv /\ [Next]_vars => StreamInv' /\ SummaryInv'
    BY StreamStep, SummaryStep
  <1>3. Init => Reply!Init
    BY DEF Init, Reply!Init
  <1> QED
    BY <1>1, <1>2, <1>3, ReplyStep, PTL DEF Spec, ReplySpec, Reply!Spec
=============================================================================
