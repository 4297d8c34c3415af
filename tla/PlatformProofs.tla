--------------------------- MODULE PlatformProofs ---------------------------
(***************************************************************************)
(* What the parts of the platform promise, for all values of the constants: *)
(* each part has an inductive invariant of its own, and the character       *)
(* budget of a prompt has one.                                              *)
(***************************************************************************)
EXTENDS Platform, FiniteSetTheorems, SequenceTheorems, TLAPS

(* A step of the platform is a step of its part, or leaves it alone.        *)
LEMMA Continues ==
    ASSUME [AnyNext]_anyVars
    PROVE  /\ part' = part
           /\ part = "notion" => [Notion!Next]_notionVars
           /\ part = "reads" => [Reading!Next]_readsVars
           /\ part = "retrieval" => [Retrieving!Next]_retrievalVars
           /\ part = "calls" => [Calling!Next]_callsVars
           /\ part = "stack" => [Stack!Next]_stackVars
           /\ part = "feedback" => [Rating!Next]_feedbackVars
  <1>1. CASE AnyNext
    BY <1>1 DEF AnyNext
  <1>2. CASE UNCHANGED anyVars
    BY <1>2 DEF anyVars
  <1> QED
    BY <1>1, <1>2

----------------------------------------------------------------------------
(* The rating of an answer: put_chat_feedback.                              *)

RatingRows == [rating : Ratings \cup {"none"}, at : Nat]

\* What a request decided.
Decided(p) == [rating |-> wants[p], at |-> stamped[p]]

RatingTypes ==
    /\ row \in RatingRows
    /\ wants \in [Puts -> Ratings]
    /\ spot \in [Puts -> {"start", "commit", "answered"}]
    /\ seen \in [Puts -> RatingRows] /\ stamped \in [Puts -> Nat]
    /\ answers \in [Puts -> [status : Nat, row : RatingRows]]
    /\ clock \in Nat

\* Nothing was rated later than now, and only a row without a rating has no time.
RatedInTime(r) == r.at <= clock /\ (r.at = 0 <=> r.rating = "none")

\* The stored row is one whose request has ended.
RatingWhole == row = Rating!Unrated \/ \E p \in Puts : spot[p] = "answered" /\ row = Decided(p)

\* A request that goes on to write saw another rating, of an earlier time.
RatingDecided ==
    \A p \in Puts : spot[p] = "commit" =>
        seen[p].rating # wants[p] /\ seen[p].at < stamped[p] /\ stamped[p] <= clock

RatingsTold == row \in stored
    /\ \A p \in Puts : answers[p].status = 200 => answers[p].row \in stored

RatingInv == RatingTypes /\ RatedInTime(row) /\ RatingWhole /\ RatingDecided /\ RatingsTold

----------------------------------------------------------------------------

(* The row is unrated at first.                                             *)
LEMMA RatingStarts == Rating!Init => RatingInv
  BY PlatformBounds DEF PlatformBounds, Rating!Init, RatingInv, RatingTypes, RatingRows,
      Rating!Unrated, Rating!NoAnswer, RatedInTime, RatingWhole, RatingDecided, RatingsTold

(* A request that writes writes both columns.  put_chat_feedback.           *)
LEMMA RatingWritesBoth ==
    ASSUME RatingInv, NEW p \in Puts, spot[p] = "commit"
    PROVE  Rating!Updated(p) = Decided(p)
  BY DEF RatingInv, RatingDecided, RatingTypes, RatingRows, Rating!Updated, Decided

(* A SELECT writes nothing; it goes on to write only what it would change.  *)
LEMMA RatingSelectKeeps ==
    ASSUME RatingInv, NEW p \in Puts, Rating!Select(p)
    PROVE  RatingInv'
  <1>1. /\ spot[p] = "start" /\ clock' = clock + 1 /\ clock \in Nat
        /\ UNCHANGED <<events, row, wants, own, stored>>
    BY DEF Rating!Select, Rating!Tick, RatingInv, RatingTypes
  <1>2. row \in RatingRows /\ wants[p] \in Ratings /\ row \in stored /\ RatedInTime(row)
    BY DEF RatingInv, RatingTypes, RatingsTold
  <1> "none" \notin Ratings
    BY PlatformBounds DEF PlatformBounds
  <1>3. CASE \E status \in {404, 409} :
               Rating!Answer(p, status, Rating!Unrated) /\ UNCHANGED <<seen, stamped>>
    <2>1. PICK status \in {404, 409} :
               Rating!Answer(p, status, Rating!Unrated) /\ UNCHANGED <<seen, stamped>>
      BY <1>3
    <2>2. Rating!Unrated \in RatingRows
      BY DEF Rating!Unrated, RatingRows
    <2>3. RatingTypes'
      BY <1>1, <2>1, <2>2 DEF RatingInv, RatingTypes, Rating!Answer, Rating!Goto
    <2>4. RatedInTime(row)'
      BY <1>1, <1>2 DEF RatedInTime, RatingRows
    <2>5. RatingWhole' /\ RatingDecided' /\ RatingsTold'
      BY <1>1, <2>1 DEF RatingInv, RatingTypes, RatingWhole, RatingDecided, RatingsTold,
          Rating!Answer, Rating!Goto, Decided
    <2> QED
      BY <2>3, <2>4, <2>5 DEF RatingInv
  <1>4. CASE Rating!Answer(p, 200, row) /\ UNCHANGED <<seen, stamped>>
    <2>1. RatingTypes'
      BY <1>1, <1>2, <1>4 DEF RatingInv, RatingTypes, Rating!Answer, Rating!Goto
    <2>2. RatedInTime(row)'
      BY <1>1, <1>2 DEF RatedInTime, RatingRows
    <2>3. RatingWhole' /\ RatingDecided' /\ RatingsTold'
      BY <1>1, <1>2, <1>4 DEF RatingInv, RatingTypes, RatingWhole, RatingDecided, RatingsTold,
          Rating!Answer, Rating!Goto, Decided
    <2> QED
      BY <2>1, <2>2, <2>3 DEF RatingInv
  <1>5. CASE /\ ~Rating!SameRating(p)
             /\ seen' = [seen EXCEPT ![p] = row]
             /\ stamped' = [stamped EXCEPT ![p] = Rating!Changes(p, clock')]
             /\ Rating!Goto(p, "commit")
             /\ UNCHANGED answers
    <2>1. row.rating # wants[p]
      BY <1>2, <1>5 DEF Rating!SameRating, RatedInTime, RatingRows
    <2>2. RatingTypes'
      BY <1>1, <1>2, <1>5 DEF RatingInv, RatingTypes, Rating!Goto, Rating!Changes
    <2>3. RatedInTime(row)'
      BY <1>1, <1>2 DEF RatedInTime, RatingRows
    <2>4. RatingWhole'
      BY <1>1, <1>5 DEF RatingInv, RatingTypes, RatingWhole, Rating!Goto, Decided
    <2>5. RatingDecided'
      BY <1>1, <1>2, <1>5, <2>1 DEF RatingInv, RatingTypes, RatingDecided, Rating!Goto,
          Rating!Changes, RatedInTime, RatingRows
    <2>6. RatingsTold'
      BY <1>1, <1>5 DEF RatingInv, RatingsTold
    <2> QED
      BY <2>2, <2>3, <2>4, <2>5, <2>6 DEF RatingInv
  <1> QED
    BY <1>3, <1>4, <1>5 DEF Rating!Select

(* A COMMIT writes what its request decided, whether or not the client      *)
(* hears of it.  put_chat_feedback.                                         *)
LEMMA RatingCommitKeeps ==
    ASSUME RatingInv, NEW p \in Puts, Rating!Commit(p)
    PROVE  RatingInv'
  <1>1. /\ spot[p] = "commit" /\ row' = Decided(p) /\ stored' = stored \cup {Decided(p)}
        /\ UNCHANGED <<events, wants, own, seen, stamped, clock>>
    BY RatingWritesBoth DEF Rating!Commit
  <1>2. /\ wants[p] \in Ratings /\ stamped[p] \in Nat /\ stamped[p] <= clock
        /\ seen[p].at \in Nat /\ seen[p].at < stamped[p] /\ clock \in Nat
    BY <1>1 DEF RatingInv, RatingTypes, RatingDecided, RatingRows
  <1>3. Decided(p) \in RatingRows /\ Rating!Unrated \in RatingRows
    BY <1>2 DEF Decided, RatingRows, Rating!Unrated
  <1>4. PICK status \in {200, 500}, shown \in {Decided(p), Rating!Unrated} :
            Rating!Answer(p, status, shown) /\ (status = 200 => shown = Decided(p))
    BY DEF Rating!Commit, Decided
  <1>5. RatingTypes'
    BY <1>1, <1>3, <1>4 DEF RatingInv, RatingTypes, Rating!Answer, Rating!Goto
  <1>6. RatedInTime(row)'
    BY <1>1, <1>2, PlatformBounds DEF PlatformBounds, RatedInTime, Decided
  <1>7. RatingWhole'
    BY <1>1, <1>4 DEF RatingInv, RatingTypes, RatingWhole, Rating!Answer, Rating!Goto, Decided
  <1>8. RatingDecided'
    BY <1>1, <1>4 DEF RatingInv, RatingTypes, RatingDecided, Rating!Answer, Rating!Goto
  <1>9. RatingsTold'
    BY <1>1, <1>4 DEF RatingInv, RatingTypes, RatingsTold, Rating!Answer
  <1> QED
    BY <1>5, <1>6, <1>7, <1>8, <1>9 DEF RatingInv

(* A COMMIT that fails leaves the row alone.                                *)
LEMMA RatingCommitFailsKeeps ==
    ASSUME RatingInv, NEW p \in Puts, Rating!CommitFails(p)
    PROVE  RatingInv'
  <1>1. /\ Rating!Answer(p, 500, Rating!Unrated)
        /\ UNCHANGED <<events, row, wants, own, seen, stamped, clock, stored>>
    BY DEF Rating!CommitFails
  <1>2. RatingTypes'
    BY <1>1 DEF RatingInv, RatingTypes, Rating!Answer, Rating!Goto, Rating!Unrated, RatingRows
  <1>3. RatedInTime(row)' /\ RatingWhole' /\ RatingDecided' /\ RatingsTold'
    BY <1>1 DEF RatingInv, RatingTypes, RatedInTime, RatingWhole, RatingDecided, RatingsTold,
        Rating!Answer, Rating!Goto, Decided
  <1> QED
    BY <1>2, <1>3 DEF RatingInv

(* Every step keeps the invariant.  put_chat_feedback.                      *)
LEMMA RatingKept == RatingInv /\ [Rating!Next]_feedbackVars => RatingInv'
  <1> SUFFICES ASSUME RatingInv, [Rating!Next]_feedbackVars PROVE RatingInv'
    OBVIOUS
  <1>1. CASE UNCHANGED feedbackVars
    BY <1>1 DEF feedbackVars, RatingInv, RatingTypes, RatedInTime, RatingWhole, RatingDecided,
        RatingsTold, Decided
  <1>2. CASE Rating!Next
    BY <1>2, RatingSelectKeeps, RatingCommitKeeps, RatingCommitFailsKeeps DEF Rating!Next
  <1> QED
    BY <1>1, <1>2

(* However requests interleave, the row is what one of them decided, and a  *)
(* request told 200 was told of a row that was stored.  put_chat_feedback.  *)
THEOREM RatingsStayWhole == AnySpec => []RatingsAreWhole
  <1> DEFINE Inv == part = "feedback" => RatingInv
  <1>1. AnyInit => Inv
    BY RatingStarts DEF AnyInit
  <1>2. Inv /\ [AnyNext]_anyVars => Inv'
    BY RatingKept, Continues DEF AnyNext, RatingInv
  <1>3. Inv => RatingsAreWhole
    BY DEF RatingInv, RatingWhole, RatingsTold, Decided, RatingsAreWhole, Rating!RatingsAreWhole
  <1> QED
    BY <1>1, <1>2, <1>3, PTL DEF AnySpec
----------------------------------------------------------------------------
(* The Notion reader: ControlledNotionReadClient and the lifespan of the    *)
(* application.                                                             *)

\* Before the handshake nobody has the client, and nothing runs that was not entered; a receive
\* loop ends only after its process, and what was left is not used.
ReaderInv ==
    /\ boot \in {"off", "piped", "session", "ready", "failed", "stopping", "stopped"}
    /\ boot \in {"off", "piped", "session", "failed"} => ~started /\ ~served
    /\ proc \in BOOLEAN /\ loop \in BOOLEAN /\ stuck \in BOOLEAN
    /\ started \in BOOLEAN /\ served \in BOOLEAN
    /\ boot \in {"session", "ready"} => (proc => loop)
    /\ boot = "ready" => started /\ served
    /\ boot \in {"stopping", "stopped"} => ~started
    /\ boot \in {"failed", "stopped"} /\ ~stuck => ~proc /\ ~loop

(* However starting the Notion reader failed, whatever was entered by then, *)
(* and whenever its subprocess died and its receive loop ended after it, no *)
(* process and no loop is left behind but by an exit that failed itself, no *)
(* client that did not start is served, and a running child has its reader. *)
(* ControlledNotionReadClient.start and stop.                               *)
THEOREM ReaderCleansUp == AnySpec => []NoStrayProcess
  <1> DEFINE Inv == part = "reads" => ReaderInv
  <1>1. AnyInit => Inv
    BY DEF AnyInit, Reading!Init, ReaderInv
  <1>2. Inv /\ [AnyNext]_anyVars => Inv'
    <2> SUFFICES ASSUME ReaderInv, part = "reads", [AnyNext]_anyVars
                 PROVE  ReaderInv'
      BY Continues
    <2> [Reading!Next]_readsVars
      BY Continues
    <2>1. CASE UNCHANGED readsVars
      BY <2>1 DEF readsVars, ReaderInv
    <2>2. CASE Reading!EnterPipe
      BY <2>2 DEF Reading!EnterPipe, ReaderInv
    <2>3. CASE Reading!EnterSession
      BY <2>3 DEF Reading!EnterSession, ReaderInv
    <2>4. CASE Reading!Handshake
      BY <2>4 DEF Reading!Handshake, ReaderInv
    <2>5. CASE Reading!Stop
      BY <2>5 DEF Reading!Stop, ReaderInv
    <2>6. CASE Reading!StartFails
      BY <2>6 DEF Reading!StartFails, Reading!ExitContexts, ReaderInv
    <2>7. CASE Reading!Stopped
      BY <2>7 DEF Reading!Stopped, Reading!ExitContexts, ReaderInv
    <2>8. CASE Reading!ProcDies
      BY <2>8 DEF Reading!ProcDies, ReaderInv
    <2>13. CASE Reading!LoopEnds
      BY <2>13 DEF Reading!LoopEnds, ReaderInv
    <2>9. ASSUME NEW r \in Reads, \/ Reading!Refused(r) \/ Reading!Call(r) \/ Reading!Reply(r)
                                  \/ Reading!ReplyIsBad(r) \/ Reading!Timeout(r)
          PROVE  ReaderInv'
      BY <2>9 DEF Reading!Refused, Reading!Call, Reading!Reply, Reading!ReplyIsBad,
          Reading!Timeout, Reading!To, ReaderInv
    <2>10. ASSUME NEW url \in Urls, NEW final \in Urls, NEW body \in Bodies,
                  Reading!Open(url, final, body)
           PROVE  ReaderInv'
      BY <2>10 DEF Reading!Open, Reading!WebOnly, ReaderInv
    <2>11. ASSUME NEW url \in Urls, Reading!Blocked(url) PROVE ReaderInv'
      BY <2>11 DEF Reading!Blocked, Reading!WebOnly, ReaderInv
    <2>12. CASE Reading!TakeChunk \/ Reading!FetchFails \/ Reading!Read
      BY <2>12 DEF Reading!TakeChunk, Reading!FetchFails, Reading!Read, Reading!WebOnly, ReaderInv
    <2> QED
      BY <2>1, <2>2, <2>3, <2>4, <2>5, <2>6, <2>7, <2>8, <2>9, <2>10, <2>11, <2>12, <2>13
      DEF Reading!Next
  <1>3. Inv => NoStrayProcess
    BY DEF ReaderInv, NoStrayProcess, Reading!NoStrayProcess
  <1> QED
    BY <1>1, <1>2, <1>3, PTL DEF AnySpec

----------------------------------------------------------------------------
(* One answer that is not streamed: ResilientProvider.generate.             *)

Providers == Calling!Adapters \cup {Calling!NoProvider}
Models == {"openai_model", "bedrock_model", "none"}

CallsTypes ==
    /\ config \in [policy : {"static", "heuristic"}, primary : Calling!Adapters,
                   fallback : Providers, configured : SUBSET Calling!Adapters]
    /\ decision \in [provider : Providers, model : Models,
                     fallback : Providers, fallback_model : Models]
    /\ calls \in Seq(Calling!Adapters \X Models)
    /\ place \in {"resolve", "primary", "fallback", "done"}
    /\ flying \in BOOLEAN /\ tried \in Nat /\ threads \in Nat

\* Where the request is says which calls it has made, and how many of them are those of the
\* adapter at work; nothing runs on before the request is over.
CallsSoFar ==
    /\ place = "resolve" => calls = <<>> /\ tried = 0 /\ threads = 0 /\ ended = "none"
    /\ place = "primary" => calls = Calling!Schedule(tried, 0)
    /\ place = "fallback" => calls = Calling!Schedule(CallAttempts, tried) /\ Calling!HasFallback
    /\ place \in {"primary", "fallback"} =>
          /\ tried <= CallAttempts /\ threads = 0 /\ ended = "none"
          /\ IF flying THEN tried > 0 ELSE tried < CallAttempts

CallsInv ==
    /\ CallsTypes /\ CallsSoFar
    /\ flying => place \in {"primary", "fallback"}
    /\ place = "done" => Calling!CallsFollowTheSchedule

(* A sequence that goes on with one element is the other with it appended.  *)
LEMMA GoesOnWith ==
    ASSUME NEW S, NEW s \in Seq(S), NEW t \in Seq(S), NEW x \in S,
           Len(t) = Len(s) + 1, \A n \in 1 .. Len(s) : t[n] = s[n], t[Len(s) + 1] = x
    PROVE  t = Append(s, x)
  <1>1. Append(s, x) \in Seq(S) /\ Len(Append(s, x)) = Len(t)
    OBVIOUS
  <1>2. \A n \in 1 .. Len(t) : t[n] = Append(s, x)[n]
    OBVIOUS
  <1> QED
    BY <1>1, <1>2, SeqEqual

(* A schedule is a sequence that grows by the call of the adapter at work.  *)
LEMMA ScheduleGrows ==
    ASSUME NEW m \in Nat, NEW k \in Nat
    PROVE  /\ Calling!Schedule(0, 0) = <<>>
           /\ Calling!Schedule(m + 1, 0)
                = Append(Calling!Schedule(m, 0), <<decision.provider, decision.model>>)
           /\ Calling!Schedule(m, k + 1)
                = Append(Calling!Schedule(m, k), <<decision.fallback, decision.fallback_model>>)
  <1> DEFINE p == <<decision.provider, decision.model>>
             f == <<decision.fallback, decision.fallback_model>>
  <1>1. Calling!Schedule(0, 0) = <<>>
    BY DEF Calling!Schedule
  <1>2. ASSUME NEW i \in Nat, NEW j \in Nat
        PROVE  /\ Calling!Schedule(i, j) \in Seq({p, f})
               /\ Len(Calling!Schedule(i, j)) = i + j
               /\ \A n \in 1 .. i + j :
                     Calling!Schedule(i, j)[n] = IF n <= i THEN p ELSE f
               /\ Calling!Schedule(i, j) = [n \in 1 .. i + j |-> IF n <= i THEN p ELSE f]
    <2>1. Calling!Schedule(i, j) = [n \in 1 .. i + j |-> IF n <= i THEN p ELSE f]
      BY DEF Calling!Schedule
    <2> HIDE DEF p, f
    <2>2. Calling!Schedule(i, j) \in [1 .. i + j -> {p, f}]
      BY <2>1
    <2> QED
      BY <2>1, <2>2
  <1> HIDE DEF p, f
  <1>3. Calling!Schedule(m + 1, 0) = Append(Calling!Schedule(m, 0), p)
    <2>1. /\ Calling!Schedule(m, 0) \in Seq({p, f}) /\ Len(Calling!Schedule(m, 0)) = m
          /\ \A n \in 1 .. m : Calling!Schedule(m, 0)[n] = p
      BY <1>2
    <2>2. /\ Calling!Schedule(m + 1, 0) \in Seq({p, f}) /\ Len(Calling!Schedule(m + 1, 0)) = m + 1
          /\ \A n \in 1 .. m + 1 : Calling!Schedule(m + 1, 0)[n] = p
      BY <1>2
    <2> QED
      BY <2>1, <2>2, GoesOnWith
  <1>4. Calling!Schedule(m, k + 1) = Append(Calling!Schedule(m, k), f)
    <2>1. /\ Calling!Schedule(m, k) \in Seq({p, f}) /\ Len(Calling!Schedule(m, k)) = m + k
          /\ \A n \in 1 .. m + k : Calling!Schedule(m, k)[n] = IF n <= m THEN p ELSE f
      BY <1>2
    <2>2. /\ Calling!Schedule(m, k + 1) \in Seq({p, f})
          /\ Len(Calling!Schedule(m, k + 1)) = m + k + 1
          /\ \A n \in 1 .. m + k + 1 :
                Calling!Schedule(m, k + 1)[n] = IF n <= m THEN p ELSE f
      <3>1. k + 1 \in Nat /\ m + (k + 1) = m + k + 1
        OBVIOUS
      <3> QED
        BY <1>2, <3>1
    <2> QED
      BY <2>1, <2>2, GoesOnWith
  <1> QED
    BY <1>1, <1>3, <1>4 DEF p, f

(* The call under way is the last of the schedule.                          *)
LEMMA LastCall ==
    ASSUME CallsInv, flying
    PROVE  Len(calls) > 0 /\ calls[Len(calls)] = <<Calling!Asked, Calling!AskedModel>>
  <1>1. tried \in Nat /\ tried > 0 /\ CallAttempts \in Nat
    BY PlatformBounds DEF PlatformBounds, CallsInv, CallsTypes, CallsSoFar
  <1>2. CASE place = "primary"
    <2>1. calls = [i \in 1 .. tried |-> <<decision.provider, decision.model>>]
      BY <1>1, <1>2 DEF CallsInv, CallsSoFar, Calling!Schedule
    <2>2. Len(calls) = tried /\ calls[tried] = <<decision.provider, decision.model>>
      BY <1>1, <2>1
    <2> QED
      BY <1>1, <1>2, <2>2 DEF Calling!Asked, Calling!AskedModel
  <1>3. CASE place = "fallback"
    <2> DEFINE n == CallAttempts + tried
    <2>1. /\ DOMAIN calls = 1 .. n
          /\ calls[n] = <<decision.fallback, decision.fallback_model>>
      BY <1>1, <1>3 DEF CallsInv, CallsSoFar, Calling!Schedule
    <2>2. Len(calls) = n
      BY <1>1, <2>1 DEF CallsInv, CallsTypes
    <2> QED
      BY <1>1, <1>3, <2>1, <2>2 DEF Calling!Asked, Calling!AskedModel
  <1> QED
    BY <1>2, <1>3 DEF CallsInv

(* Before a request is over, its calls keep to the schedule by where it is.  *)
LEMMA OnSchedule == ASSUME CallsInv PROVE Calling!CallsFollowTheSchedule
  <1>1. CallAttempts \in Nat \ {0} /\ tried \in Nat
    BY PlatformBounds DEF PlatformBounds, CallsInv, CallsTypes
  <1>2. CASE place = "resolve"
    <2>1. calls = Calling!Schedule(0, 0) /\ 0 \in 0 .. CallAttempts /\ ~(0 > 0)
      BY <1>1, <1>2, ScheduleGrows DEF CallsInv, CallsSoFar
    <2> QED
      BY <1>2, <2>1 DEF CallsInv, CallsSoFar, Calling!CallsFollowTheSchedule
  <1>3. CASE place = "primary"
    <2>1. /\ calls = Calling!Schedule(tried, 0) /\ tried \in 0 .. CallAttempts
          /\ 0 \in 0 .. CallAttempts /\ ~(0 > 0)
      BY <1>1, <1>3 DEF CallsInv, CallsSoFar
    <2> QED
      BY <1>3, <2>1 DEF CallsInv, CallsSoFar, Calling!CallsFollowTheSchedule
  <1>4. CASE place = "fallback"
    <2>1. /\ calls = Calling!Schedule(CallAttempts, tried) /\ Calling!HasFallback
          /\ CallAttempts \in 0 .. CallAttempts /\ tried \in 0 .. CallAttempts
      BY <1>1, <1>4 DEF CallsInv, CallsSoFar
    <2> QED
      BY <1>4, <2>1 DEF CallsInv, CallsSoFar, Calling!CallsFollowTheSchedule
  <1> QED
    BY <1>2, <1>3, <1>4 DEF CallsInv, CallsTypes

(* A request that ends leaves the calls that it made: with an answer one at *)
(* least, with a transient error all of them, cut off a thread at most.     *)
LEMMA EndsOnSchedule ==
    ASSUME CallsInv, place \in {"primary", "fallback"}, place' = "done", flying' = FALSE,
           UNCHANGED <<config, decision, calls, tried>>, threads' \in Nat,
           ended' = "answer" => flying,
           ended' = "error" /\ error'.kind \in Calling!Transient =>
               tried = CallAttempts /\ (Calling!HasFallback => place = "fallback"),
           threads' > 0 => ended' = "deadline" /\ threads' = 1 /\ flying /\ Calling!Asked = "bedrock"
    PROVE  CallsInv'
  <1>1. /\ CallAttempts \in Nat \ {0} /\ tried \in Nat /\ tried <= CallAttempts
        /\ flying => tried > 0
    BY PlatformBounds DEF PlatformBounds, CallsInv, CallsTypes, CallsSoFar
  <1>2. CallsTypes' /\ CallsSoFar'
    BY DEF CallsInv, CallsTypes, CallsSoFar
  <1>3. threads' > 0 => calls'[Len(calls')][1] = "bedrock"
    BY LastCall
  <1>4. Calling!HasFallback' <=> Calling!HasFallback
    BY DEF Calling!HasFallback
  <1>5. ASSUME NEW m, NEW k PROVE Calling!Schedule(m, k)' = Calling!Schedule(m, k)
    BY DEF Calling!Schedule
  <1>6. CASE place = "primary"
    <2>1. /\ calls' = Calling!Schedule(tried, 0)' /\ tried \in 0 .. CallAttempts
          /\ 0 \in 0 .. CallAttempts /\ ~(0 > 0)
      BY <1>1, <1>5, <1>6 DEF CallsInv, CallsSoFar
    <2> QED
      BY <1>1, <1>2, <1>3, <1>4, <1>6, <2>1 DEF CallsInv, Calling!CallsFollowTheSchedule
  <1>7. CASE place = "fallback"
    <2>1. /\ calls' = Calling!Schedule(CallAttempts, tried)' /\ Calling!HasFallback
          /\ CallAttempts \in 0 .. CallAttempts /\ tried \in 0 .. CallAttempts
          /\ CallAttempts > 0
      BY <1>1, <1>5, <1>7 DEF CallsInv, CallsSoFar
    <2> QED
      BY <1>1, <1>2, <1>3, <1>4, <1>7, <2>1 DEF CallsInv, Calling!CallsFollowTheSchedule
  <1> QED
    BY <1>6, <1>7

(* The policy has chosen nothing and no call is made at first.              *)
LEMMA CallsStart == Calling!Init => CallsInv
  <1> SUFFICES ASSUME Calling!Init PROVE CallsInv
    OBVIOUS
  <1>1. /\ calls = <<>> /\ place = "resolve" /\ flying = FALSE /\ ended = "none"
        /\ tried = 0 /\ threads = 0
    BY DEF Calling!Init
  <1>2. calls \in Seq(Calling!Adapters \X Models)
    BY <1>1
  <1>3. /\ config \in [policy : {"static", "heuristic"}, primary : Calling!Adapters,
                      fallback : Providers, configured : SUBSET Calling!Adapters]
        /\ decision \in [provider : Providers, model : Models,
                        fallback : Providers, fallback_model : Models]
    BY DEF Calling!Init, Providers, Models, Calling!NoDecision, Calling!NoProvider
  <1>4. CallsTypes
    BY <1>1, <1>2, <1>3 DEF CallsTypes
  <1> QED
    BY <1>1, <1>4 DEF CallsInv, CallsSoFar

(* The policy decides.  HeuristicRoutingPolicy.resolve, StaticRoutingPolicy. *)
LEMMA ResolveKeeps == ASSUME CallsInv, Calling!Resolve PROVE CallsInv'
  <1>1. /\ decision' \in [provider : Providers, model : Models,
                          fallback : Providers, fallback_model : Models]
        /\ place' = "primary" /\ UNCHANGED <<config, flying, calls, tried, ended, threads>>
        /\ place = "resolve"
    BY DEF Calling!Resolve, Calling!Swapped, Calling!Static, CallsInv, CallsTypes, Providers,
        Models, Calling!Model, Calling!Adapters, Calling!NoProvider
  <1>2. calls' = <<>> /\ tried' = 0 /\ threads' = 0 /\ ended' = "none" /\ flying' = FALSE
    BY <1>1 DEF CallsInv, CallsTypes, CallsSoFar
  <1>3. calls' = Calling!Schedule(0, 0)'
    BY <1>2 DEF Calling!Schedule
  <1>4. CallsTypes'
    BY <1>1, <1>2 DEF CallsInv, CallsTypes
  <1> QED
    BY <1>1, <1>2, <1>3, <1>4, PlatformBounds DEF PlatformBounds, CallsInv, CallsSoFar

(* A call goes to the adapter whose turn it is.                             *)
LEMMA StartCallKeeps == ASSUME CallsInv, Calling!StartCall PROVE CallsInv'
  <1>1. /\ place \in {"primary", "fallback"} /\ ~flying
        /\ calls' = Append(calls, <<Calling!Asked, Calling!AskedModel>>)
        /\ flying' = TRUE /\ tried' = tried + 1
        /\ UNCHANGED <<config, decision, place, ended, threads>>
        /\ Calling!Asked \in Calling!Adapters
    BY DEF Calling!StartCall, CallsInv, CallsTypes
  <1>2. Calling!AskedModel \in Models
    BY DEF Calling!AskedModel, CallsInv, CallsTypes
  <1>3. tried \in Nat /\ CallAttempts \in Nat /\ tried < CallAttempts
    BY <1>1, PlatformBounds DEF PlatformBounds, CallsInv, CallsTypes, CallsSoFar
  <1>4. CallsTypes'
    BY <1>1, <1>2, <1>3 DEF CallsInv, CallsTypes
  <1>5. ASSUME NEW m, NEW k PROVE Calling!Schedule(m, k)' = Calling!Schedule(m, k)
    BY <1>1 DEF Calling!Schedule
  <1>6. place = "primary" => calls' = Calling!Schedule(tried, 0)'
    <2>1. place = "primary" => calls' = Calling!Schedule(tried + 1, 0)
      BY <1>1, <1>3, ScheduleGrows DEF CallsInv, CallsSoFar, Calling!Asked, Calling!AskedModel
    <2> QED
      BY <1>1, <1>5, <2>1
  <1>7. place = "fallback" => calls' = Calling!Schedule(CallAttempts, tried)'
    <2>1. place = "fallback" => calls' = Calling!Schedule(CallAttempts, tried + 1)
      BY <1>1, <1>3, ScheduleGrows DEF CallsInv, CallsSoFar, Calling!Asked, Calling!AskedModel
    <2> QED
      BY <1>1, <1>5, <2>1
  <1>8. CallsSoFar'
    BY <1>1, <1>3, <1>6, <1>7 DEF CallsInv, CallsSoFar, Calling!HasFallback
  <1> QED
    BY <1>1, <1>4, <1>8 DEF CallsInv

(* An error ends the request or passes it to the fallback, whose calls are  *)
(* none yet.                                                                *)
LEMMA RaisesKeeps ==
    ASSUME CallsInv, NEW e, Calling!Raises(e), flying' = FALSE,
           place \in {"primary", "fallback"},
           Calling!FallsBack(e) => tried = CallAttempts,
           UNCHANGED <<config, decision, calls, threads>>
    PROVE  CallsInv'
  <1>1. CASE place = "primary" /\ Calling!HasFallback /\ Calling!FallsBack(e)
    <2>1. place' = "fallback" /\ tried' = 0 /\ tried = CallAttempts /\ ended' = ended
      BY <1>1 DEF Calling!Raises
    <2>2. calls' = Calling!Schedule(CallAttempts, tried)'
      BY <1>1, <2>1 DEF CallsInv, CallsSoFar, Calling!Schedule
    <2>3. CallsTypes'
      BY <2>1 DEF CallsInv, CallsTypes
    <2> QED
      BY <1>1, <2>1, <2>2, <2>3, PlatformBounds
      DEF PlatformBounds, CallsInv, CallsSoFar, Calling!HasFallback
  <1>2. CASE ~(place = "primary" /\ Calling!HasFallback /\ Calling!FallsBack(e))
    <2>1. /\ place' = "done" /\ ended' = "error" /\ tried' = tried /\ error' = e
          /\ threads' \in Nat /\ ~(threads' > 0)
      BY <1>2 DEF Calling!Raises, Calling!Ends, CallsInv, CallsTypes, CallsSoFar
    <2>2. error'.kind \in Calling!Transient =>
              tried = CallAttempts /\ (Calling!HasFallback => place = "fallback")
      BY <1>2, <2>1 DEF Calling!FallsBack
    <2> QED
      BY <2>1, <2>2, EndsOnSchedule
  <1> QED
    BY <1>1, <1>2

(* A call fails: the adapter tries again, or has tried a transient error    *)
(* often enough and raises.                                                 *)
LEMMA CallFailsKeeps ==
    ASSUME CallsInv, NEW kind \in Calling!Kinds, Calling!CallFails(kind)
    PROVE  CallsInv'
  <1> DEFINE e == Calling!ErrorOf(Calling!Asked, kind)
  <1>1. /\ flying /\ flying' = FALSE /\ place \in {"primary", "fallback"}
        /\ UNCHANGED <<config, decision, calls, threads>>
    BY DEF Calling!CallFails, CallsInv
  <1>2. CASE tried < CallAttempts /\ error' = e /\ UNCHANGED <<place, ended, tried>>
    <2>1. CallsTypes' /\ CallsSoFar'
      BY <1>1, <1>2 DEF CallsInv, CallsTypes, CallsSoFar, Calling!Schedule, Calling!HasFallback
    <2> QED
      BY <1>1, <1>2, <2>1 DEF CallsInv
  <1>3. CASE Calling!Raises(e) /\ ~(Calling!ShouldRetry(Calling!Asked, e) /\ tried < CallAttempts)
    <2>1. Calling!FallsBack(e) => Calling!ShouldRetry(Calling!Asked, e)
      BY DEF Calling!FallsBack, Calling!ShouldRetry, Calling!ErrorOf
    <2>2. Calling!FallsBack(e) => tried = CallAttempts
      BY <1>1, <1>3, <2>1, PlatformBounds DEF PlatformBounds, CallsInv, CallsTypes, CallsSoFar
    <2> HIDE DEF e
    <2> QED
      BY <1>1, <1>3, <2>2, RaisesKeeps
  <1> QED
    BY <1>2, <1>3 DEF Calling!CallFails

(* Whatever the policy, the configuration, the attempts and the message, and *)
(* wherever the deadline falls: a request asks the fallback after all of the *)
(* primary's attempts, and fails of a transient error after all of both.    *)
(* ResilientProvider.generate, ChatService.run.                             *)
THEOREM CallsKeepToTheSchedule == AnySpec => []CallsFollowTheSchedule
  <1> DEFINE Inv == part = "calls" => CallsInv
  <1>1. AnyInit => Inv
    BY CallsStart DEF AnyInit
  <1>2. Inv /\ [AnyNext]_anyVars => Inv'
    <2> SUFFICES ASSUME CallsInv, part = "calls", [AnyNext]_anyVars
                 PROVE  CallsInv'
      BY Continues
    <2> [Calling!Next]_callsVars
      BY Continues
    <2>1. CASE UNCHANGED callsVars
      BY <2>1 DEF callsVars, CallsInv, CallsTypes, CallsSoFar, Calling!Schedule,
          Calling!HasFallback, Calling!CallsFollowTheSchedule
    <2>2. CASE Calling!CallDisabled
      <3> DEFINE e == [kind |-> "auth", retryable |-> FALSE]
      <3>1. /\ Calling!Raises(e) /\ ~flying /\ flying' = flying
            /\ place \in {"primary", "fallback"}
            /\ UNCHANGED <<config, decision, calls, threads>>
        BY <2>2 DEF Calling!CallDisabled
      <3>2. e.retryable = FALSE /\ e.kind \notin Calling!Transient
        BY DEF Calling!Transient
      <3>3. flying' = FALSE
        BY <3>1 DEF CallsInv, CallsTypes
      <3> HIDE DEF e
      <3> QED
        BY <3>1, <3>2, <3>3, RaisesKeeps DEF Calling!FallsBack
    <2>3. CASE Calling!CallAnswers
      <3>1. /\ place' = "done" /\ ended' = "answer" /\ flying /\ flying' = FALSE
            /\ UNCHANGED <<config, decision, calls, tried, threads>>
        BY <2>3 DEF Calling!CallAnswers, Calling!Ends
      <3>2. place \in {"primary", "fallback"} /\ threads' \in Nat /\ ~(threads' > 0)
        BY <3>1 DEF CallsInv, CallsTypes, CallsSoFar
      <3> QED
        BY <3>1, <3>2, EndsOnSchedule
    <2>4. CASE Calling!Deadline
      <3>1. /\ place' = "done" /\ ended' = "deadline" /\ flying' = FALSE
            /\ place \in {"primary", "fallback"}
            /\ UNCHANGED <<config, decision, calls, tried>>
            /\ threads' = IF flying /\ Calling!Asked = "bedrock" THEN threads + 1 ELSE threads
        BY <2>4 DEF Calling!Deadline, Calling!Ends
      <3>2. /\ threads' \in Nat
            /\ threads' > 0 => threads' = 1 /\ flying /\ Calling!Asked = "bedrock"
        BY <3>1 DEF CallsInv, CallsTypes, CallsSoFar
      <3> QED
        BY <3>1, <3>2, EndsOnSchedule
    <2>5. CASE Calling!ThreadEnds
      <3>1. place = "done"
        BY <2>5 DEF Calling!ThreadEnds, CallsInv, CallsTypes, CallsSoFar
      <3> QED
        BY <2>5, <3>1 DEF Calling!ThreadEnds, CallsInv, CallsTypes, CallsSoFar,
            Calling!CallsFollowTheSchedule, Calling!Schedule, Calling!HasFallback
    <2> QED
      BY <2>1, <2>2, <2>3, <2>4, <2>5, ResolveKeeps, StartCallKeeps, CallFailsKeeps
      DEF Calling!Next
  <1>3. Inv => CallsFollowTheSchedule
    BY OnSchedule DEF CallsFollowTheSchedule
  <1> QED
    BY <1>1, <1>2, <1>3, PTL DEF AnySpec

----------------------------------------------------------------------------
(* Writes to Notion: NotionWriteService and NotionWriteClient._request.     *)

Ended == {"noop", "success", "error"}
Audits == Ended \cup {"attempt"}

\* A call that Notion has yet to see has changed nothing, one that it saw has changed one thing,
\* and what was never sent is neither; the audit of a request follows its stage.
NotionTypes ==
    /\ audit \in Seq(Writes \X Audits)
    /\ notion \in Seq(Writes \X {Notion!Properties(op) : op \in Operations})
    /\ stage \in [Writes -> {"new", "disabled", "refused", "calling", "gone"} \cup Ended]
    /\ inflight \subseteq Writes
    /\ asked \in [Writes -> Operations \cup {Notion!NoOperation}]

WrittenOnce(r) ==
    /\ Notion!Effects(r) = {} \/ \E i \in DOMAIN notion : Notion!Effects(r) = {i}
    /\ r \in inflight => Notion!Effects(r) = {} /\ asked[r] \in Operations
    /\ stage[r] \in {"new", "disabled", "refused", "noop"} =>
          Notion!Effects(r) = {} /\ r \notin inflight
    /\ stage[r] = "success" => Notion!Effects(r) # {}

AuditFollows(r) ==
    /\ stage[r] \in {"new", "disabled"} => Notion!Audited(r, <<>>)
    /\ stage[r] \in {"calling", "gone", "refused"} => Notion!Audited(r, <<"attempt">>)
    /\ \A s \in Ended : stage[r] = s => Notion!Audited(r, <<"attempt", s>>)

NotionInv == NotionTypes /\ \A r \in Writes : WrittenOnce(r) /\ AuditFollows(r)

(* What a concatenation is, index by index.                                 *)
LEMMA Appended ==
    ASSUME NEW S, NEW s \in Seq(S), NEW t \in Seq(S)
    PROVE  /\ s \o t \in Seq(S) /\ DOMAIN (s \o t) = 1 .. Len(s) + Len(t)
           /\ \A i \in 1 .. Len(s) : (s \o t)[i] = s[i]
           /\ \A i \in 1 .. Len(t) : (s \o t)[Len(s) + i] = t[i]
           /\ \A i \in 1 .. Len(s) + Len(t) :
                 i > Len(s) => i - Len(s) \in 1 .. Len(t) /\ (s \o t)[i] = t[i - Len(s)]
  OBVIOUS

(* Lines appended for a request come after its own.                         *)
LEMMA AuditGrows ==
    ASSUME NotionTypes, NEW r \in Writes, NEW ss \in Seq(Audits), NEW ts \in Seq(Audits),
           Notion!Audited(r, ss), Notion!Log(r, ts)
    PROVE  Notion!Audited(r, ss \o ts)' /\ audit' \in Seq(Writes \X Audits)
  <1> DEFINE more == [i \in DOMAIN ts |-> <<r, ts[i]>>]
             n == Len(audit)
             m == Len(ss)
  <1>1. /\ audit \in Seq(Writes \X Audits) /\ n \in Nat /\ m \in Nat
        /\ DOMAIN audit = 1 .. n /\ DOMAIN ss = 1 .. m /\ DOMAIN ts = 1 .. Len(ts)
        /\ Len(ts) \in Nat
    BY DEF NotionTypes
  <1>2. more \in Seq(Writes \X Audits) /\ Len(more) = Len(ts)
    BY <1>1
  <1>3. audit' = audit \o more
    BY DEF Notion!Log
  <1>4. /\ audit' \in Seq(Writes \X Audits) /\ DOMAIN audit' = 1 .. n + Len(ts)
        /\ \A i \in 1 .. n : audit'[i] = audit[i]
        /\ \A k \in 1 .. Len(ts) : audit'[n + k] = <<r, ts[k]>>
    <2> HIDE DEF more
    <2>1. \A k \in 1 .. Len(ts) : more[k] = <<r, ts[k]>>
      BY <1>1 DEF more
    <2> DEFINE S == Writes \X Audits
    <2>2. audit \in Seq(S) /\ more \in Seq(S)
      BY <1>1, <1>2
    <2> HIDE DEF S
    <2>3. /\ audit \o more \in Seq(S)
          /\ DOMAIN (audit \o more) = 1 .. Len(audit) + Len(more)
          /\ \A i \in 1 .. Len(audit) : (audit \o more)[i] = audit[i]
          /\ \A i \in 1 .. Len(more) : (audit \o more)[Len(audit) + i] = more[i]
      BY <2>2, Appended
    <2> QED
      BY <1>2, <1>3, <2>1, <2>3 DEF S
  <1>5. /\ DOMAIN (ss \o ts) = 1 .. m + Len(ts)
        /\ \A k \in 1 .. m : (ss \o ts)[k] = ss[k]
        /\ \A k \in 1 .. Len(ts) : (ss \o ts)[m + k] = ts[k]
    BY Appended
  <1>6. PICK f \in [1 .. m -> 1 .. n] :
            /\ {i \in 1 .. n : audit[i][1] = r} = {f[k] : k \in 1 .. m}
            /\ \A j, k \in 1 .. m : j < k => f[j] < f[k]
            /\ \A k \in 1 .. m : audit[f[k]] = <<r, ss[k]>>
    BY <1>1 DEF Notion!Audited
  <1> DEFINE g == [k \in 1 .. m + Len(ts) |-> IF k <= m THEN f[k] ELSE n + (k - m)]
  <1>7. g \in [1 .. m + Len(ts) -> 1 .. n + Len(ts)]
    BY <1>1, <1>6
  <1>8. \A j, k \in 1 .. m + Len(ts) : j < k => g[j] < g[k]
    BY <1>1, <1>6
  <1>9. \A k \in 1 .. m + Len(ts) : audit'[g[k]] = <<r, (ss \o ts)[k]>>
    <2> TAKE k \in 1 .. m + Len(ts)
    <2>1. CASE k <= m
      BY <1>1, <1>4, <1>5, <1>6, <2>1
    <2>2. CASE k > m
      <3>1. k - m \in 1 .. Len(ts) /\ g[k] = n + (k - m) /\ k = m + (k - m)
        BY <1>1, <2>2
      <3>2. audit'[n + (k - m)] = <<r, ts[k - m]>> /\ (ss \o ts)[m + (k - m)] = ts[k - m]
        BY <3>1, <1>4, <1>5
      <3> QED
        BY <3>1, <3>2
    <2> QED
      BY <1>1, <2>1, <2>2
  <1>10. {i \in 1 .. n + Len(ts) : audit'[i][1] = r} = {g[k] : k \in 1 .. m + Len(ts)}
    <2>1. ASSUME NEW i \in 1 .. n + Len(ts), audit'[i][1] = r
          PROVE  \E k \in 1 .. m + Len(ts) : i = g[k]
      <3>1. CASE i <= n
        <4>1. i \in {k \in 1 .. n : audit[k][1] = r}
          BY <1>1, <1>4, <2>1, <3>1
        <4>2. i \in {f[k] : k \in 1 .. m}
          BY <4>1, <1>6
        <4>3. \E k \in 1 .. m : i = f[k]
          BY <4>2
        <4> QED
          BY <4>3, <1>1
      <3>2. CASE i > n
        <4>1. m + (i - n) \in 1 .. m + Len(ts) /\ g[m + (i - n)] = i
          BY <1>1, <3>2
        <4> QED
          BY <4>1
      <3> QED
        BY <1>1, <3>1, <3>2
    <2>2. ASSUME NEW k \in 1 .. m + Len(ts)
          PROVE  g[k] \in 1 .. n + Len(ts) /\ audit'[g[k]][1] = r
      BY <1>7, <1>9
    <2> HIDE DEF g
    <2> QED
      BY <2>1, <2>2
  <1>11. DOMAIN audit' = 1 .. n + Len(ts) /\ DOMAIN (ss \o ts) = 1 .. m + Len(ts)
    BY <1>4, <1>5
  <1> HIDE DEF g, n, m
  <1>12. \E line \in [DOMAIN (ss \o ts) -> DOMAIN audit'] :
            /\ {i \in DOMAIN audit' : audit'[i][1] = r} = {line[k] : k \in DOMAIN (ss \o ts)}
            /\ \A j, k \in DOMAIN (ss \o ts) : j < k => line[j] < line[k]
            /\ \A k \in DOMAIN (ss \o ts) : audit'[line[k]] = <<r, (ss \o ts)[k]>>
    BY <1>7, <1>8, <1>9, <1>10, <1>11
  <1> QED
    BY <1>4, <1>12 DEF Notion!Audited

(* They are not those of another request.                                   *)
LEMMA AuditOfOthers ==
    ASSUME NotionTypes, NEW r \in Writes, NEW ts \in Seq(Audits), Notion!Log(r, ts),
           NEW q \in Writes, q # r, NEW ss \in Seq(Audits), Notion!Audited(q, ss)
    PROVE  Notion!Audited(q, ss)'
  <1> DEFINE more == [i \in DOMAIN ts |-> <<r, ts[i]>>]
             n == Len(audit)
  <1>1. audit \in Seq(Writes \X Audits) /\ n \in Nat /\ Len(ts) \in Nat /\ DOMAIN audit = 1 .. n
    BY DEF NotionTypes
  <1>2. more \in Seq(Writes \X Audits) /\ Len(more) = Len(ts)
    BY <1>1
  <1>3. audit' = audit \o more
    BY DEF Notion!Log
  <1>4. \A i \in 1 .. Len(ts) : more[i][1] = r
    BY <1>1
  <1>5. /\ DOMAIN audit' = 1 .. n + Len(ts)
        /\ \A i \in 1 .. n : audit'[i] = audit[i]
        /\ \A i \in 1 .. n + Len(ts) : i > n => audit'[i][1] = r
    <2> HIDE DEF more
    <2> QED
      BY <1>1, <1>2, <1>3, <1>4, Appended
  <1>6. PICK f \in [DOMAIN ss -> 1 .. n] :
            /\ {i \in 1 .. n : audit[i][1] = q} = {f[k] : k \in DOMAIN ss}
            /\ \A j, k \in DOMAIN ss : j < k => f[j] < f[k]
            /\ \A k \in DOMAIN ss : audit[f[k]] = <<q, ss[k]>>
    BY <1>1 DEF Notion!Audited
  <1>7. f \in [DOMAIN ss -> DOMAIN audit']
    BY <1>1, <1>5
  <1>8. {i \in DOMAIN audit' : audit'[i][1] = q} = {i \in 1 .. n : audit[i][1] = q}
    BY <1>1, <1>5
  <1>9. \A k \in DOMAIN ss : audit'[f[k]] = <<q, ss[k]>>
    BY <1>5, <1>6
  <1> QED
    BY <1>6, <1>7, <1>8, <1>9 DEF Notion!Audited
(* What does not touch the audit leaves the lines of a request as they are. *)
LEMMA AuditStays ==
    ASSUME NEW r, NEW ss, Notion!Audited(r, ss), UNCHANGED audit
    PROVE  Notion!Audited(r, ss)'
  BY DEF Notion!Audited

(* A concatenation of short sequences of statuses.                          *)
LEMMA ShortAudits ==
    ASSUME NEW s \in Audits
    PROVE  /\ <<>> \in Seq(Audits) /\ <<"attempt">> \in Seq(Audits) /\ <<s>> \in Seq(Audits)
           /\ <<"attempt", s>> \in Seq(Audits)
           /\ <<>> \o <<"attempt">> = <<"attempt">>
           /\ <<>> \o <<"attempt", s>> = <<"attempt", s>>
           /\ <<"attempt">> \o <<s>> = <<"attempt", s>>
  <1>1. "attempt" \in Audits
    BY DEF Audits
  <1>2. /\ <<>> \in Seq(Audits) /\ <<"attempt">> \in Seq(Audits) /\ <<s>> \in Seq(Audits)
        /\ <<"attempt", s>> \in Seq(Audits)
    BY <1>1
  <1>3. <<>> \o <<"attempt">> = <<"attempt">> /\ <<>> \o <<"attempt", s>> = <<"attempt", s>>
    BY <1>2
  <1>4. <<"attempt">> \o <<s>> = <<"attempt", s>>
    <2> DEFINE both == <<"attempt">> \o <<s>>
    <2>1. /\ both \in Seq(Audits) /\ Len(both) = 2
          /\ both[1] = "attempt" /\ both[2] = s
      BY <1>2
    <2> HIDE DEF both
    <2>2. both = <<"attempt", s>>
      BY <2>1
    <2> QED
      BY <2>2 DEF both
  <1> QED
    BY <1>2, <1>3, <1>4

(* A step that logs ts for r, whose lines were ss: those of r are ss and ts, *)
(* those of others are unchanged.                                           *)
LEMMA AuditSteps ==
    ASSUME NotionInv, NEW r \in Writes, NEW ss \in Seq(Audits), NEW ts \in Seq(Audits),
           NEW to \in {"refused", "calling"} \cup Ended,
           Notion!Audited(r, ss), Notion!Log(r, ts), stage' = [stage EXCEPT ![r] = to],
           ss \o ts = IF to \in Ended THEN <<"attempt", to>> ELSE <<"attempt">>
    PROVE  audit' \in Seq(Writes \X Audits) /\ \A q \in Writes : AuditFollows(q)'
  <1>1. /\ NotionTypes /\ \A q \in Writes : AuditFollows(q)
        /\ stage \in [Writes -> {"new", "disabled", "refused", "calling", "gone"} \cup Ended]
    BY DEF NotionInv, NotionTypes
  <1>2. Notion!Audited(r, ss \o ts)' /\ audit' \in Seq(Writes \X Audits)
    BY <1>1, AuditGrows
  <1>3. AuditFollows(r)'
    <2>1. stage'[r] = to
      BY <1>1
    <2>2. CASE to \in Ended
      <3>1. Notion!Audited(r, <<"attempt", to>>)'
        BY <1>2, <2>2
      <3> QED
        BY <2>1, <2>2, <3>1 DEF AuditFollows, Ended
    <2>3. CASE to \notin Ended
      <3>1. Notion!Audited(r, <<"attempt">>)'
        BY <1>2, <2>3
      <3> QED
        BY <2>1, <2>3, <3>1 DEF AuditFollows, Ended
    <2> QED
      BY <2>2, <2>3
  <1>4. ASSUME NEW q \in Writes, q # r PROVE AuditFollows(q)'
    <2>1. AuditFollows(q) /\ stage'[q] = stage[q]
      BY <1>1, <1>4
    <2>2. \A us \in Seq(Audits) : Notion!Audited(q, us) => Notion!Audited(q, us)'
      BY <1>1, <1>4, AuditOfOthers
    <2>3. \A s \in Audits : <<"attempt", s>> \in Seq(Audits)
      BY ShortAudits
    <2>4. <<>> \in Seq(Audits) /\ <<"attempt">> \in Seq(Audits) /\ Ended \subseteq Audits
      BY ShortAudits DEF Audits
    <2> QED
      BY <2>1, <2>2, <2>3, <2>4 DEF AuditFollows
  <1> QED
    BY <1>2, <1>3, <1>4

(* What leaves Notion and the calls on their way alone.                     *)
LEMMA EffectsStay ==
    ASSUME NEW r, UNCHANGED notion
    PROVE  Notion!Effects(r)' = Notion!Effects(r)
  BY DEF Notion!Effects

(* A request is answered without a call: disabled, refused, or a noop.      *)
LEMMA UnsentKeeps ==
    ASSUME NotionInv, NEW r \in Writes, NEW op \in Operations,
           Notion!Disabled(r, op) \/ Notion!Refuse(r, op) \/ Notion!Noop(r, op)
    PROVE  NotionInv'
  <1>1. /\ NotionTypes /\ stage[r] = "new" /\ UNCHANGED <<inflight, notion>>
        /\ asked' = [asked EXCEPT ![r] = op]
        /\ \A q \in Writes : WrittenOnce(q) /\ AuditFollows(q)
    BY DEF NotionInv, Notion!Disabled, Notion!Refuse, Notion!Noop, Notion!Turn, Notion!Ask
  <1>2. Notion!Audited(r, <<>>)
    BY <1>1 DEF AuditFollows
  <1>3. PICK to \in {"disabled", "refused", "noop"} : stage' = [stage EXCEPT ![r] = to]
    BY DEF Notion!Disabled, Notion!Refuse, Notion!Noop, Notion!Turn
  <1>4. audit' \in Seq(Writes \X Audits) /\ \A q \in Writes : AuditFollows(q)'
    <2>1. CASE Notion!Disabled(r, op)
      <3>1. UNCHANGED audit /\ stage' = [stage EXCEPT ![r] = "disabled"]
        BY <2>1 DEF Notion!Disabled, Notion!Turn
      <3>2. ASSUME NEW q \in Writes PROVE AuditFollows(q)'
        BY <1>1, <1>2, <3>1, AuditStays DEF AuditFollows, NotionTypes, Ended
      <3> QED
        BY <1>1, <3>1, <3>2 DEF NotionTypes
    <2>2. CASE Notion!Refuse(r, op)
      <3>1. Notion!Log(r, <<"attempt">>) /\ stage' = [stage EXCEPT ![r] = "refused"]
        BY <2>2 DEF Notion!Refuse, Notion!Turn
      <3> QED
        BY <1>2, <3>1, AuditSteps, ShortAudits DEF Audits, Ended
    <2>3. CASE Notion!Noop(r, op)
      <3>1. Notion!Log(r, <<"attempt", "noop">>) /\ stage' = [stage EXCEPT ![r] = "noop"]
        BY <2>3 DEF Notion!Noop, Notion!Turn
      <3>2. "noop" \in Ended /\ "noop" \in Audits
        BY DEF Ended, Audits
      <3> QED
        BY <1>2, <3>1, <3>2, AuditSteps, ShortAudits
    <2> QED
      BY <2>1, <2>2, <2>3
  <1>5. ASSUME NEW q \in Writes PROVE WrittenOnce(q)'
    BY <1>1, <1>3, EffectsStay DEF WrittenOnce, NotionTypes
  <1>6. NotionTypes'
    BY <1>1, <1>3, <1>4 DEF NotionTypes, Ended
  <1> QED
    BY <1>4, <1>5, <1>6 DEF NotionInv

(* A request is sent.                                                       *)
LEMMA SendKeeps ==
    ASSUME NotionInv, NEW r \in Writes, NEW op \in Operations, Notion!Send(r, op)
    PROVE  NotionInv'
  <1>1. /\ NotionTypes /\ stage[r] = "new" /\ UNCHANGED notion
        /\ inflight' = inflight \cup {r} /\ asked' = [asked EXCEPT ![r] = op]
        /\ stage' = [stage EXCEPT ![r] = "calling"]
        /\ Notion!Log(r, <<"attempt">>)
        /\ \A q \in Writes : WrittenOnce(q) /\ AuditFollows(q)
    BY DEF NotionInv, Notion!Send, Notion!Turn, Notion!Ask
  <1>2. Notion!Audited(r, <<>>)
    BY <1>1 DEF AuditFollows
  <1>3. audit' \in Seq(Writes \X Audits) /\ \A q \in Writes : AuditFollows(q)'
    BY <1>1, <1>2, AuditSteps, ShortAudits DEF Audits, Ended
  <1>4. ASSUME NEW q \in Writes PROVE WrittenOnce(q)'
    BY <1>1, EffectsStay DEF WrittenOnce, NotionTypes
  <1>5. NotionTypes'
    BY <1>1, <1>3 DEF NotionTypes
  <1> QED
    BY <1>3, <1>4, <1>5 DEF NotionInv

(* A call is answered, or fails, whatever became of it.                     *)
LEMMA ReplyKeeps ==
    ASSUME NotionInv, NEW r \in Writes, Notion!Succeed(r) \/ Notion!CallFails(r)
    PROVE  NotionInv'
  <1>1. /\ NotionTypes /\ stage[r] = "calling" /\ UNCHANGED <<asked, notion>>
        /\ inflight' \subseteq inflight
        /\ \A q \in Writes : WrittenOnce(q) /\ AuditFollows(q)
    BY DEF NotionInv, Notion!Succeed, Notion!CallFails, Notion!Turn
  <1>2. PICK to \in {"success", "error"} :
            /\ stage' = [stage EXCEPT ![r] = to] /\ Notion!Log(r, <<to>>)
            /\ to = "success" => Notion!Effects(r) # {}
    <2>1. CASE Notion!Succeed(r)
      BY <2>1 DEF Notion!Succeed, Notion!Turn
    <2>2. CASE Notion!CallFails(r)
      BY <2>2 DEF Notion!CallFails, Notion!Turn
    <2> QED
      BY <2>1, <2>2
  <1>3. Notion!Audited(r, <<"attempt">>) /\ to \in Ended /\ to \in Audits
    BY <1>1 DEF AuditFollows, Ended, Audits
  <1>4. audit' \in Seq(Writes \X Audits) /\ \A q \in Writes : AuditFollows(q)'
    <2>1. /\ <<"attempt">> \in Seq(Audits) /\ <<to>> \in Seq(Audits)
          /\ <<"attempt">> \o <<to>> = <<"attempt", to>>
      BY <1>3, ShortAudits
    <2> QED
      BY <1>2, <1>3, <2>1, AuditSteps
  <1>5. ASSUME NEW q \in Writes PROVE WrittenOnce(q)'
    <2>1. Notion!Effects(q)' = Notion!Effects(q) /\ notion' = notion
      BY <1>1, EffectsStay
    <2>2. stage'[q] = IF q = r THEN to ELSE stage[q]
      BY <1>1, <1>2 DEF NotionTypes
    <2>3. WrittenOnce(q)
      BY <1>1
    <2> QED
      BY <1>1, <1>2, <2>1, <2>2, <2>3 DEF WrittenOnce
  <1>6. NotionTypes'
    BY <1>1, <1>2, <1>3, <1>4 DEF NotionTypes
  <1> QED
    BY <1>4, <1>5, <1>6 DEF NotionInv

(* Notion applies a call: once, as it leaves those on their way.            *)
LEMMA ApplyKeeps ==
    ASSUME NotionInv, NEW r \in Writes, Notion!Apply(r)
    PROVE  NotionInv'
  <1> DEFINE effect == <<r, Notion!Properties(asked[r])>>
             Effect == Writes \X {Notion!Properties(op) : op \in Operations}
  <1>1. /\ NotionTypes /\ r \in inflight /\ inflight' = inflight \ {r}
        /\ notion' = Append(notion, effect) /\ UNCHANGED <<asked, stage, audit>>
        /\ \A q \in Writes : WrittenOnce(q) /\ AuditFollows(q)
    BY DEF NotionInv, Notion!Apply
  <1>2. asked[r] \in Operations /\ Notion!Effects(r) = {}
    BY <1>1 DEF WrittenOnce
  <1>3. effect \in Effect /\ effect[1] = r /\ notion \in Seq(Effect)
    BY <1>1, <1>2 DEF NotionTypes
  <1> HIDE DEF effect, Effect
  <1>4. /\ notion' \in Seq(Effect) /\ Len(notion) \in Nat /\ DOMAIN notion = 1 .. Len(notion)
        /\ DOMAIN notion' = 1 .. Len(notion) + 1
        /\ \A i \in DOMAIN notion : notion'[i] = notion[i]
        /\ notion'[Len(notion) + 1] = effect
    BY <1>1, <1>3
  <1>5. Notion!Effects(r)' = {Len(notion) + 1}
    BY <1>2, <1>3, <1>4 DEF Notion!Effects
  <1>6. ASSUME NEW q \in Writes, q # r PROVE Notion!Effects(q)' = Notion!Effects(q)
    BY <1>3, <1>4, <1>6 DEF Notion!Effects
  <1>7. ASSUME NEW q \in Writes PROVE WrittenOnce(q)'
    BY <1>1, <1>4, <1>5, <1>6 DEF WrittenOnce
  <1>8. ASSUME NEW q \in Writes PROVE AuditFollows(q)'
    BY <1>1, AuditStays DEF AuditFollows
  <1>9. NotionTypes'
    BY <1>1, <1>4 DEF NotionTypes, Effect
  <1> QED
    BY <1>7, <1>8, <1>9 DEF NotionInv

(* The process ends: its calls are on their way.                            *)
LEMMA CrashKeeps == ASSUME NotionInv, Notion!Crash PROVE NotionInv'
  <1>1. /\ NotionTypes /\ UNCHANGED <<asked, inflight, notion, audit>>
        /\ stage' = [r \in Writes |-> IF stage[r] = "calling" THEN "gone" ELSE stage[r]]
        /\ \A q \in Writes : WrittenOnce(q) /\ AuditFollows(q)
    BY DEF NotionInv, Notion!Crash
  <1>2. ASSUME NEW q \in Writes PROVE WrittenOnce(q)'
    BY <1>1, EffectsStay DEF WrittenOnce
  <1>3. ASSUME NEW q \in Writes PROVE AuditFollows(q)'
    BY <1>1, AuditStays DEF AuditFollows, Ended
  <1>4. NotionTypes'
    BY <1>1 DEF NotionTypes
  <1> QED
    BY <1>2, <1>3, <1>4 DEF NotionInv

(* Nothing is asked, sent or audited at first.                              *)
LEMMA NotionStarts == Notion!Init => NotionInv
  <1> SUFFICES ASSUME Notion!Init PROVE NotionInv
    OBVIOUS
  <1>1. /\ audit = <<>> /\ notion = <<>> /\ inflight = {}
        /\ stage = [r \in Writes |-> "new"] /\ asked = [r \in Writes |-> Notion!NoOperation]
    BY DEF Notion!Init
  <1>2. NotionTypes
    BY <1>1 DEF NotionTypes
  <1>3. ASSUME NEW r \in Writes PROVE Notion!Effects(r) = {} /\ Notion!Audited(r, <<>>)
    <2>1. DOMAIN audit = {} /\ DOMAIN notion = {} /\ DOMAIN <<>> = {}
      BY <1>1
    <2>2. <<>> \in [{} -> {}]
      OBVIOUS
    <2> QED
      BY <2>1, <2>2 DEF Notion!Effects, Notion!Audited
  <1>4. ASSUME NEW r \in Writes PROVE WrittenOnce(r) /\ AuditFollows(r)
    BY <1>1, <1>3 DEF WrittenOnce, AuditFollows, Ended
  <1> QED
    BY <1>2, <1>4 DEF NotionInv

(* The invariant says what the property does.                               *)
LEMMA NotionSafe == NotionInv => Notion!EffectsMatchAnswers
  <1> SUFFICES ASSUME NotionInv, NEW r \in Writes
               PROVE  /\ Notion!Cardinality(Notion!Effects(r)) <= 1
                      /\ stage[r] = "success" => Notion!Cardinality(Notion!Effects(r)) = 1
                      /\ stage[r] \in {"disabled", "refused", "noop"} =>
                            Notion!Effects(r) = {} /\ r \notin inflight
                      /\ Notion!Effects(r) # {} =>
                            <<r, "attempt">> \in {audit[i] : i \in DOMAIN audit}
                      /\ Notion!Audited(r, Notion!AuditOf(stage[r]))
    BY DEF Notion!EffectsMatchAnswers
  <1>1. /\ WrittenOnce(r) /\ AuditFollows(r)
        /\ stage[r] \in {"new", "disabled", "refused", "calling", "gone"} \cup Ended
    BY DEF NotionInv, NotionTypes
  <1>2. Notion!Cardinality({}) = 0
    BY FS_EmptySet DEF Notion!Cardinality, Cardinality
  <1>3. \A i : Notion!Cardinality({i}) = 1
    BY FS_Singleton DEF Notion!Cardinality, Cardinality
  <1>4. /\ Notion!Cardinality(Notion!Effects(r)) <= 1
        /\ Notion!Effects(r) # {} => Notion!Cardinality(Notion!Effects(r)) = 1
    <2> DEFINE e == Notion!Effects(r)
    <2>1. e = {} \/ \E i : e = {i}
      BY <1>1 DEF WrittenOnce
    <2> HIDE DEF e
    <2>2. ASSUME e = {} PROVE Notion!Cardinality(e) = 0
      BY <1>2, <2>2
    <2>3. ASSUME NEW i, e = {i} PROVE Notion!Cardinality(e) = 1
      BY <1>3, <2>3, Zenon
    <2>4. Notion!Cardinality(e) <= 1 /\ (e # {} => Notion!Cardinality(e) = 1)
      BY <2>1, <2>2, <2>3
    <2> QED
      BY <2>4 DEF e
  <1>5. ASSUME NEW s \in Ended PROVE Notion!Audited(r, <<"attempt", s>>) =>
            <<r, "attempt">> \in {audit[i] : i \in DOMAIN audit}
    <2>1. DOMAIN <<"attempt", s>> = {1, 2} /\ <<"attempt", s>>[1] = "attempt"
      OBVIOUS
    <2> QED
      BY <2>1 DEF Notion!Audited
  <1>6. Notion!Audited(r, <<"attempt">>) => <<r, "attempt">> \in {audit[i] : i \in DOMAIN audit}
    <2>1. DOMAIN <<"attempt">> = {1} /\ <<"attempt">>[1] = "attempt"
      OBVIOUS
    <2> QED
      BY <2>1 DEF Notion!Audited
  <1>7. CASE stage[r] \in {"new", "disabled"}
    <2>1. Notion!AuditOf(stage[r]) = <<>>
      BY <1>7 DEF Notion!AuditOf
    <2> QED
      BY <1>1, <1>4, <1>7, <2>1 DEF WrittenOnce, AuditFollows
  <1>8. CASE stage[r] \in {"calling", "gone", "refused"}
    <2>1. Notion!AuditOf(stage[r]) = <<"attempt">>
      BY <1>8 DEF Notion!AuditOf
    <2> QED
      BY <1>1, <1>4, <1>6, <1>8, <2>1 DEF WrittenOnce, AuditFollows
  <1>9. CASE stage[r] \in Ended
    <2>1. Notion!AuditOf(stage[r]) = <<"attempt", stage[r]>>
      BY <1>9 DEF Notion!AuditOf, Ended
    <2>2. Notion!Audited(r, <<"attempt", stage[r]>>)
      BY <1>1, <1>9 DEF AuditFollows
    <2> QED
      BY <1>1, <1>4, <1>5, <1>9, <2>1, <2>2 DEF WrittenOnce, Ended
  <1> QED
    BY <1>1, <1>7, <1>8, <1>9

(* A write to Notion is applied once at most, and the audit and the answer  *)
(* never say more than was done, whatever is lost, late or refused, for any *)
(* settings and any number of requests.  NotionWriteService.                *)
THEOREM WritesMatchAnswers == AnySpec => []EffectsMatchAnswers
  <1> DEFINE Inv == part = "notion" => NotionInv
  <1>1. AnyInit => Inv
    BY NotionStarts DEF AnyInit
  <1>2. Inv /\ [AnyNext]_anyVars => Inv'
    <2> SUFFICES ASSUME NotionInv, part = "notion", [AnyNext]_anyVars
                 PROVE  NotionInv'
      BY Continues
    <2>1. [Notion!Next]_notionVars
      BY Continues
    <2>2. CASE UNCHANGED notionVars
      BY <2>2, EffectsStay, AuditStays
      DEF notionVars, NotionInv, NotionTypes, WrittenOnce, AuditFollows
    <2> QED
      BY <2>1, <2>2, UnsentKeeps, SendKeeps, ReplyKeeps, ApplyKeeps, CrashKeeps DEF Notion!Next
  <1>3. Inv => EffectsMatchAnswers
    BY NotionSafe DEF EffectsMatchAnswers
  <1> QED
    BY <1>1, <1>2, <1>3, PTL DEF AnySpec
----------------------------------------------------------------------------
(* The middleware: main.py, structured_logging.py, tenant.py,               *)
(* request_context.py.                                                      *)

NoContext == Stack!NoContext
TenantContext == [NoContext EXCEPT !.tenant = Stack!TenantOf(sent)]
RouteContext ==
    [TenantContext EXCEPT !.id = Stack!IdOf(sent), !.correlation = Stack!CorrelationOf(sent),
                          !.telemetry = Stack!validate_correlation_id(sent.id),
                          !.collector = TRUE]

Codes == Statuses \cup {0, 200, 400, 401, 405, 413, 500}

Names == {"none", "minted", "sent", "sent too"}
ResponseType == [status : Codes, id : Names, correlation : Names, cors : BOOLEAN]

Responds(status, id, correlation, cors) ==
    /\ response.status = status /\ response.id = id /\ response.correlation = correlation
    /\ response.cors = cors

\* The line of a request that was answered so.
LineOf(status) ==
    [id |-> IF sent.id # "none" THEN Stack!LogIdOf(sent) ELSE "minted by the log",
     correlation |-> IF sent.correlation # "none" THEN "sent too"
                     ELSE IF sent.id # "none" THEN Stack!LogIdOf(sent) ELSE "minted by the log",
     tenant |-> Stack!TenantOf(sent), status |-> status]

\* What comes back of a request that passed the guard and was no preflight: the route raised, it
\* answered, or the body was too large for it; the identifiers and the header come on the way.
Answered(id, correlation, cors) ==
    \/ raised /\ handled = <<RouteContext>> /\ Responds(0, "none", "none", FALSE)
    \/ /\ ~raised /\ handled = <<RouteContext>>
       /\ \E s \in Statuses \cup {405} : Responds(s, id, correlation, cors)

TooLarge(cors) ==
    ~raised /\ handled = <<>> /\ Responds(413, "none", "none", cors)

\* As the route left it, with the identifiers of the request, and with the header as well.
FromRoute == Answered("none", "none", FALSE)
Named == Answered(Stack!IdOf(sent), Stack!CorrelationOf(sent), FALSE) \/ TooLarge(FALSE)
Readable ==
    Answered(Stack!IdOf(sent), Stack!CorrelationOf(sent), sent.origin) \/ TooLarge(sent.origin)

Logged == sent.kind # "preflight" /\ lines = <<LineOf(response.status)>>

WayIn ==
    /\ depth \in 1 .. 7 /\ ~raised /\ lines = <<>> /\ handled = <<>>
    /\ Responds(0, "none", "none", FALSE)
    /\ depth \in {1, 2, 3} => contexts = <<NoContext>>
    /\ depth = 4 => contexts = <<TenantContext>>
    /\ depth = 5 => contexts = <<TenantContext, TenantContext>>
    /\ depth = 6 => contexts = <<TenantContext, TenantContext, TenantContext>>
    /\ depth = 7 => contexts = <<TenantContext, TenantContext, RouteContext>>
    /\ depth >= 3 => sent.kind # "preflight"

\* The ends of those that never reach the log: turned away by the guard, or a preflight.
Unlogged ==
    /\ ~raised /\ handled = <<>> /\ lines = <<>>
    /\ \/ /\ sent.kind = "preflight"
          /\ \E s \in {200, 400} : Responds(s, "none", "none", sent.origin)
       \/ depth = 0 /\ Responds(401, "none", "none", sent.origin)

\* The end of one that nothing caught.
Unhandled ==
    /\ ~raised /\ handled = <<RouteContext>> /\ Responds(500, "none", "none", FALSE)
    /\ sent.kind # "preflight" /\ lines = <<LineOf(0)>>

WayOut ==
    /\ depth \in 0 .. 6
    /\ depth = 6 =>
          /\ contexts = <<TenantContext, TenantContext, RouteContext>>
          /\ lines = <<>> /\ sent.kind # "preflight" /\ FromRoute
    /\ depth = 5 =>
          /\ contexts = <<TenantContext, TenantContext, TenantContext>>
          /\ lines = <<>> /\ sent.kind # "preflight" /\ Named
    /\ depth = 4 =>
          /\ contexts = <<TenantContext, TenantContext>>
          /\ lines = <<>> /\ sent.kind # "preflight" /\ Named
    /\ depth = 3 => contexts = <<TenantContext>> /\ Logged /\ Named
    /\ depth \in {0, 1, 2} => contexts = <<NoContext>>
    /\ depth = 2 => Logged /\ Named
    /\ depth = 1 => Unlogged \/ (Logged /\ Readable)
    /\ depth = 0 => Unlogged \/ Unhandled \/ (Logged /\ Readable)

\* A request and its response are as far on their way as the contexts and the log.
StackInv ==
    /\ sent \in Stack!Requests /\ inward \in BOOLEAN /\ raised \in BOOLEAN
    /\ response \in ResponseType
    /\ IF inward THEN WayIn ELSE WayOut
(* The order of the layers.                                                 *)
LEMMA Layers ==
    /\ Len(Stack!Order) = 6
    /\ Stack!At("guard") <=> depth = 1
    /\ Stack!At("cors") <=> depth = 2
    /\ Stack!At("tenant") <=> depth = 3
    /\ Stack!At("log") <=> depth = 4
    /\ Stack!At("size") <=> depth = 5
    /\ Stack!At("context") <=> depth = 6
  <1> DEFINE added == <<"context", "size", "log", "tenant", "cors", "guard">>
  <1>1. Len(added) = 6 /\ Stack!Order = [i \in 1 .. 6 |-> added[(6 - i) + 1]]
    BY DEF Stack!Order, Stack!Reverse
  <1>2. /\ added[1] = "context" /\ added[2] = "size" /\ added[3] = "log"
        /\ added[4] = "tenant" /\ added[5] = "cors" /\ added[6] = "guard"
    OBVIOUS
  <1> HIDE DEF added
  <1>3. /\ Len(Stack!Order) = 6
        /\ Stack!Order[1] = "guard" /\ Stack!Order[2] = "cors" /\ Stack!Order[3] = "tenant"
        /\ Stack!Order[4] = "log" /\ Stack!Order[5] = "size" /\ Stack!Order[6] = "context"
    BY <1>1, <1>2
  <1> QED
    BY <1>3 DEF Stack!At

(* A short sequence is the tuple of its elements.                           *)
LEMMA Short ==
    ASSUME NEW S, NEW f \in Seq(S)
    PROVE  /\ Len(f) = 1 => f = <<f[1]>>
           /\ Len(f) = 2 => f = <<f[1], f[2]>>
           /\ Len(f) = 3 => f = <<f[1], f[2], f[3]>>
  OBVIOUS

(* A third task comes after the second.                                     *)
LEMMA Third ==
    ASSUME NEW a, NEW b, NEW c
    PROVE  Append(<<a, b>>, c) = <<a, b, c>>
  <1> DEFINE S == {a, b, c}
  <1> DEFINE f == Append(<<a, b>>, c)
  <1>1. f \in Seq(S) /\ Len(f) = 3 /\ f[1] = a /\ f[2] = b /\ f[3] = c
    OBVIOUS
  <1> HIDE DEF f, S
  <1>2. f = <<a, b, c>>
    BY <1>1, Short
  <1> QED
    BY <1>2 DEF f

(* The tasks of a request are three at most.                                *)
LEMMA Tasks ==
    ASSUME NEW a, NEW b, NEW c, NEW d
    PROVE  /\ <<a>>[Len(<<a>>)] = a /\ <<a, b, c>>[Len(<<a, b, c>>)] = c
           /\ <<a, b>>[Len(<<a, b>>)] = b
           /\ [<<a>> EXCEPT ![Len(<<a>>)] = d] = <<d>>
           /\ [<<a, b, c>> EXCEPT ![Len(<<a, b, c>>)] = d] = <<a, b, d>>
           /\ Append(<<a>>, b) = <<a, b>>
  <1> DEFINE S == {a, b, c, d}
  <1>1. /\ <<a>> \in Seq(S) /\ <<a, b>> \in Seq(S) /\ <<a, b, c>> \in Seq(S)
        /\ Len(<<a>>) = 1 /\ Len(<<a, b>>) = 2 /\ Len(<<a, b, c>>) = 3
    OBVIOUS
  <1>2. /\ [<<a>> EXCEPT ![Len(<<a>>)] = d] = <<d>>
        /\ [<<a, b, c>> EXCEPT ![Len(<<a, b, c>>)] = d] = <<a, b, d>>
    BY <1>1
  <1>3. Append(<<a>>, b) = <<a, b>>
    <2> DEFINE f == Append(<<a>>, b)
    <2>1. f \in Seq(S) /\ Len(f) = 2 /\ f[1] = a /\ f[2] = b
      BY <1>1
    <2> HIDE DEF f, S
    <2>2. f = <<a, b>>
      BY <2>1, Short
    <2> QED
      BY <2>2 DEF f
  <1> QED
    BY <1>1, <1>2, <1>3

(* The innermost task ends.                                                 *)
LEMMA Joined ==
    ASSUME NEW a, NEW b, NEW c
    PROVE  Stack!Front(<<a, b>>) = <<a>> /\ Stack!Front(<<a, b, c>>) = <<a, b>>
  <1> DEFINE S == {a, b, c}
  <1>1. /\ <<a, b>> \in Seq(S) /\ <<a, b, c>> \in Seq(S)
        /\ Len(<<a, b>>) = 2 /\ Len(<<a, b, c>>) = 3
    OBVIOUS
  <1>2. Stack!Front(<<a, b>>) = <<a>>
    <2> DEFINE f == Stack!Front(<<a, b>>)
    <2>1. f \in Seq(S) /\ Len(f) = 1 /\ f[1] = a
      BY <1>1 DEF Stack!Front
    <2> HIDE DEF f, S
    <2>2. f = <<a>>
      BY <2>1, Short
    <2> QED
      BY <2>2 DEF f
  <1>3. Stack!Front(<<a, b, c>>) = <<a, b>>
    <2> DEFINE f == Stack!Front(<<a, b, c>>)
    <2>1. f \in Seq(S) /\ Len(f) = 2 /\ f[1] = a /\ f[2] = b
      BY <1>1 DEF Stack!Front
    <2> HIDE DEF f, S
    <2>2. f = <<a, b>>
      BY <2>1, Short
    <2> QED
      BY <2>2 DEF f
  <1> QED
    BY <1>2, <1>3

(* What a request has made of its contexts follows from what was sent.      *)
LEMMA SentStays ==
    ASSUME UNCHANGED sent
    PROVE  /\ TenantContext' = TenantContext /\ RouteContext' = RouteContext
           /\ \A s : LineOf(s)' = LineOf(s)
  BY DEF TenantContext, RouteContext, LineOf, Stack!TenantOf, Stack!IdOf, Stack!CorrelationOf

(* What the middleware does to a response.                                  *)
LEMMA Blank ==
    /\ Stack!NoAnswer \in ResponseType
    /\ Stack!NoAnswer.id = "none" /\ Stack!NoAnswer.correlation = "none"
    /\ Stack!NoAnswer.cors = FALSE /\ Stack!NoAnswer.status = 0
  <1>1. 0 \in Codes
    BY DEF Codes
  <1>2. Stack!NoAnswer \in ResponseType
    BY <1>1 DEF Stack!NoAnswer, Names, ResponseType
  <1>3. /\ Stack!NoAnswer.id = "none" /\ Stack!NoAnswer.correlation = "none"
        /\ Stack!NoAnswer.status = 0
    BY DEF Stack!NoAnswer
  <1>4. Stack!NoAnswer.cors = FALSE
    BY DEF Stack!NoAnswer
  <1> QED
    BY <1>2, <1>3, <1>4

LEMMA NewStatus ==
    ASSUME NEW s \in Codes, response' = [Stack!NoAnswer EXCEPT !.status = s]
    PROVE  response' \in ResponseType /\ Responds(s, "none", "none", FALSE)'
  <1> DEFINE n == Stack!NoAnswer
  <1>1. n \in ResponseType /\ n.id = "none" /\ n.correlation = "none" /\ n.cors = FALSE
    BY Blank
  <1>2. response' = [n EXCEPT !.status = s]
    OBVIOUS
  <1> HIDE DEF n
  <1> QED
    BY <1>1, <1>2 DEF Responds, ResponseType

LEMMA NewAnswer ==
    ASSUME NEW s \in Codes, NEW o \in BOOLEAN,
           response' = [Stack!NoAnswer EXCEPT !.status = s, !.cors = o]
    PROVE  response' \in ResponseType /\ Responds(s, "none", "none", o)'
  <1> DEFINE n == Stack!NoAnswer
  <1>1. n \in ResponseType /\ n.id = "none" /\ n.correlation = "none" /\ n.cors = FALSE
    BY Blank
  <1>2. response' = [n EXCEPT !.status = s, !.cors = o]
    OBVIOUS
  <1> HIDE DEF n
  <1> QED
    BY <1>1, <1>2 DEF Responds, ResponseType

LEMMA NewHeader ==
    ASSUME StackInv, NEW o \in BOOLEAN, response' = [response EXCEPT !.cors = o],
           NEW s, NEW i, NEW c, NEW p, Responds(s, i, c, p)
    PROVE  /\ Responds(s, i, c, o)'
           /\ response' \in ResponseType
  BY DEF StackInv, Responds, ResponseType

LEMMA NewNames ==
    ASSUME StackInv, NEW j \in Names, NEW d \in Names,
           response' = [response EXCEPT !.id = j, !.correlation = d],
           NEW s, NEW i, NEW c, NEW p, Responds(s, i, c, p)
    PROVE  /\ Responds(s, j, d, p)'
           /\ response' \in ResponseType
  BY DEF StackInv, Responds, ResponseType

(* What the invariant says of a request on its way in.                      *)
LEMMA Inward ==
    ASSUME StackInv, inward
    PROVE  /\ WayIn /\ response \in ResponseType /\ sent \in Stack!Requests
           /\ sent.origin \in BOOLEAN /\ depth \in 1 .. 7
  BY DEF StackInv, WayIn, Stack!Requests

(* The guard.  staging_guard in main.py.                                    *)
LEMMA GuardKeeps == ASSUME StackInv, Stack!Guard PROVE StackInv'
  <1>1. /\ inward = TRUE /\ depth = 1 /\ WayIn /\ response \in ResponseType
        /\ sent \in Stack!Requests /\ sent.origin \in BOOLEAN
        /\ UNCHANGED <<sent, contexts, handled, raised, lines>>
    BY Inward, Layers DEF Stack!Guard, Stack!Arrives, StackInv
  <1>2. CASE Stack!TurnBack([Stack!NoAnswer EXCEPT !.status = 401, !.cors = sent.origin])
    <2>1. /\ response' = [Stack!NoAnswer EXCEPT !.status = 401, !.cors = sent.origin]
          /\ inward' = FALSE /\ depth' = 0
      BY <1>1, <1>2 DEF Stack!TurnBack
    <2>2. PICK o \in BOOLEAN : o = sent.origin
      BY <1>1
    <2>3. 401 \in Codes
      BY DEF Codes
    <2>4. response' = [Stack!NoAnswer EXCEPT !.status = 401, !.cors = o]
      BY <2>1, <2>2
    <2>5. Responds(401, "none", "none", o)' /\ response' \in ResponseType
      BY <2>3, <2>4, NewAnswer, ZenonT(30)
    <2>6. Unlogged'
      BY <1>1, <2>1, <2>2, <2>5 DEF Unlogged, WayIn, Responds
    <2>7. contexts' = <<NoContext>>
      BY <1>1 DEF WayIn
    <2>8. WayOut'
      BY <2>1, <2>6, <2>7 DEF WayOut
    <2> QED
      BY <1>1, <2>1, <2>5, <2>8 DEF StackInv, WayIn
  <1>3. CASE Stack!Onward
    <2>1. depth' = 2 /\ UNCHANGED <<inward, response>>
      BY <1>1, <1>3 DEF Stack!Onward
    <2> QED
      BY <1>1, <2>1 DEF StackInv, WayIn, Responds
  <1> QED
    BY <1>2, <1>3 DEF Stack!Guard
(* CORS answers a preflight itself.  CORSMiddleware in main.py.             *)
LEMMA CorsKeeps == ASSUME StackInv, Stack!Cors PROVE StackInv'
  <1>1. /\ inward = TRUE /\ depth = 2 /\ WayIn /\ response \in ResponseType
        /\ sent \in Stack!Requests /\ sent.origin \in BOOLEAN
        /\ UNCHANGED <<sent, contexts, handled, raised, lines>>
    BY Inward, Layers DEF Stack!Cors, Stack!Arrives, StackInv
  <1>2. CASE sent.kind = "preflight"
    <2>1. PICK s \in {200, 400} : s = IF sent.origin THEN 200 ELSE 400
      BY <1>1
    <2>2. /\ response' = [Stack!NoAnswer EXCEPT !.status = s, !.cors = sent.origin]
          /\ inward' = FALSE /\ depth' = 1
      BY <1>1, <1>2, <2>1 DEF Stack!Cors, Stack!TurnBack
    <2>3. PICK o \in BOOLEAN : o = sent.origin
      BY <1>1
    <2>4. s \in Codes
      BY DEF Codes
    <2>5. response' = [Stack!NoAnswer EXCEPT !.status = s, !.cors = o]
      BY <2>2, <2>3
    <2>6. Responds(s, "none", "none", o)' /\ response' \in ResponseType
      BY <2>4, <2>5, NewAnswer, ZenonT(30)
    <2>7. Unlogged'
      BY <1>1, <1>2, <2>2, <2>3, <2>6 DEF Unlogged, WayIn, Responds
    <2>8. contexts' = <<NoContext>>
      BY <1>1 DEF WayIn
    <2>9. WayOut'
      BY <2>2, <2>7, <2>8 DEF WayOut
    <2> QED
      BY <1>1, <2>2, <2>6, <2>9 DEF StackInv, WayIn
  <1>3. CASE sent.kind # "preflight"
    <2>1. depth' = 3 /\ UNCHANGED <<inward, response>>
      BY <1>1, <1>3 DEF Stack!Cors, Stack!Onward
    <2> QED
      BY <1>1, <1>3, <2>1 DEF StackInv, WayIn, Responds
  <1> QED
    BY <1>2, <1>3

(* The tenant of a request is set in the server's own task.                 *)
(* TenantMiddleware.                                                        *)
LEMMA TenantKeeps == ASSUME StackInv, Stack!Tenant PROVE StackInv'
  <1>1. /\ inward = TRUE /\ depth = 3 /\ WayIn /\ response \in ResponseType
        /\ sent \in Stack!Requests /\ depth' = 4
        /\ UNCHANGED <<inward, response, sent, handled, raised, lines>>
    BY Inward, Layers DEF Stack!Tenant, Stack!Arrives, Stack!Onward, StackInv
  <1>2. contexts = <<NoContext>>
    BY <1>1 DEF WayIn
  <1>3. contexts' = <<TenantContext>>
    BY <1>2, Tasks DEF Stack!Tenant, Stack!Set, Stack!Inner, TenantContext, NoContext
  <1>4. contexts' = <<TenantContext>>'
    BY <1>1, <1>3, SentStays
  <1> QED
    BY <1>1, <1>4 DEF StackInv, WayIn, Responds

(* The access log starts a task.  StructuredJsonLoggingMiddleware.          *)
LEMMA CallNextKeeps == ASSUME StackInv, Stack!CallNext PROVE StackInv'
  <1>1. /\ inward = TRUE /\ depth = 4 /\ WayIn /\ response \in ResponseType
        /\ sent \in Stack!Requests /\ depth' = 5
        /\ UNCHANGED <<inward, response, sent, handled, raised, lines>>
    BY Inward, Layers DEF Stack!CallNext, Stack!Arrives, Stack!Onward, StackInv
  <1>2. contexts = <<TenantContext>>
    BY <1>1 DEF WayIn
  <1>3. contexts' = <<TenantContext, TenantContext>>
    BY <1>2, Tasks DEF Stack!CallNext, Stack!Fork, Stack!Inner
  <1>4. contexts' = <<TenantContext, TenantContext>>'
    BY <1>1, <1>3, SentStays
  <1> QED
    BY <1>1, <1>4 DEF StackInv, WayIn, Responds

(* So does the limit of the size, unless it turns the request back.         *)
(* RequestSizeLimitMiddleware.                                              *)
LEMMA SizeLimitKeeps == ASSUME StackInv, Stack!SizeLimit PROVE StackInv'
  <1>1. /\ inward = TRUE /\ depth = 5 /\ WayIn /\ response \in ResponseType
        /\ sent \in Stack!Requests /\ UNCHANGED <<sent, handled, raised, lines>>
    BY Inward, Layers DEF Stack!SizeLimit, Stack!Arrives, StackInv
  <1>2. contexts = <<TenantContext, TenantContext>>
    BY <1>1 DEF WayIn
  <1>3. CASE sent.length = "large" \/ sent.body = "large"
    <2>1. /\ response' = [Stack!NoAnswer EXCEPT !.status = 413]
          /\ inward' = FALSE /\ depth' = 4 /\ UNCHANGED contexts
      BY <1>1, <1>3 DEF Stack!SizeLimit, Stack!TurnBack
    <2>2. 413 \in Codes
      BY DEF Codes
    <2>3. Responds(413, "none", "none", FALSE)' /\ response' \in ResponseType
      BY <2>1, <2>2, NewStatus, ZenonT(30)
    <2>4. Named'
      BY <1>1, <2>3 DEF Named, TooLarge, WayIn, Responds
    <2>5. contexts' = <<TenantContext, TenantContext>>'
      BY <1>1, <1>2, <2>1, SentStays
    <2>6. lines' = <<>> /\ sent'.kind # "preflight"
      BY <1>1 DEF WayIn
    <2>7. WayOut'
      BY <2>1, <2>4, <2>5, <2>6 DEF WayOut
    <2> QED
      BY <1>1, <2>1, <2>3, <2>7 DEF StackInv, WayIn
  <1>4. CASE ~(sent.length = "large" \/ sent.body = "large")
    <2>1. depth' = 6 /\ UNCHANGED <<inward, response>> /\ contexts' = Append(contexts, Stack!Inner)
      BY <1>1, <1>4 DEF Stack!SizeLimit, Stack!Onward, Stack!Fork
    <2>2. contexts' = <<TenantContext, TenantContext, TenantContext>>
      <3> DEFINE t == TenantContext
      <3>1. contexts = <<t, t>> /\ contexts' = Append(contexts, contexts[Len(contexts)])
        BY <1>2, <2>1 DEF Stack!Inner
      <3> HIDE DEF t
      <3>2. Append(<<t, t>>, t) = <<t, t, t>>
        BY Third, Zenon
      <3>3. <<t, t>>[Len(<<t, t>>)] = t
        OBVIOUS
      <3>4. contexts' = <<t, t, t>>
        BY <3>1, <3>2, <3>3
      <3> QED
        BY <3>4 DEF t
    <2>3. contexts' = <<TenantContext, TenantContext, TenantContext>>'
      BY <1>1, <2>2, SentStays
    <2> QED
      BY <1>1, <2>1, <2>3 DEF StackInv, WayIn, Responds
  <1> QED
    BY <1>3, <1>4

(* The identifiers are set in the innermost task.  RequestContextMiddleware. *)
LEMMA RequestContextKeeps == ASSUME StackInv, Stack!RequestContext PROVE StackInv'
  <1>1. /\ inward = TRUE /\ depth = 6 /\ WayIn /\ response \in ResponseType
        /\ sent \in Stack!Requests /\ depth' = 7
        /\ UNCHANGED <<inward, response, sent, handled, raised, lines>>
    BY Inward, Layers DEF Stack!RequestContext, Stack!Arrives, Stack!Onward, StackInv
  <1>2. contexts = <<TenantContext, TenantContext, TenantContext>>
    BY <1>1 DEF WayIn
  <1>3. contexts' = <<TenantContext, TenantContext, RouteContext>>
    BY <1>2, Tasks DEF Stack!RequestContext, Stack!Set, Stack!Inner, RouteContext
  <1>4. contexts' = <<TenantContext, TenantContext, RouteContext>>'
    BY <1>1, <1>3, SentStays
  <1> QED
    BY <1>1, <1>4 DEF StackInv, WayIn, Responds

(* The route answers, or raises.                                            *)
LEMMA RouteKeeps == ASSUME StackInv, Stack!Route PROVE StackInv'
  <1>1. /\ inward = TRUE /\ depth = 7 /\ WayIn /\ response \in ResponseType
        /\ sent \in Stack!Requests /\ UNCHANGED <<sent, contexts, lines>>
        /\ handled' = <<Stack!Inner>> /\ inward' = FALSE /\ depth' = 6
    BY Inward, Layers DEF Stack!Route, Stack!TurnBack, StackInv
  <1>2. contexts = <<TenantContext, TenantContext, RouteContext>>
    BY <1>1 DEF WayIn
  <1>3. Stack!Inner = RouteContext
    BY <1>2, Tasks DEF Stack!Inner
  <1>4. /\ contexts' = <<TenantContext, TenantContext, RouteContext>>'
        /\ handled' = <<RouteContext>>'
    BY <1>1, <1>2, <1>3, SentStays
  <1>5. FromRoute' /\ response' \in ResponseType /\ raised' \in BOOLEAN
    <2>1. CASE \E s \in Statuses \cup {405} :
                  response' = [Stack!NoAnswer EXCEPT !.status = s] /\ UNCHANGED raised
      <3>1. PICK s \in Statuses \cup {405} :
                  response' = [Stack!NoAnswer EXCEPT !.status = s] /\ UNCHANGED raised
        BY <2>1
      <3>2. s \in Codes
        BY DEF Codes
      <3>3. Responds(s, "none", "none", FALSE)' /\ response' \in ResponseType
        BY <3>1, <3>2, NewStatus, ZenonT(30)
      <3>4. raised' = FALSE
        BY <1>1, <3>1 DEF WayIn
      <3>5. Answered("none", "none", FALSE)'
        BY <1>4, <3>3, <3>4 DEF Answered, Responds
      <3> QED
        BY <3>3, <3>4, <3>5 DEF FromRoute
    <2>2. CASE raised' = TRUE /\ response' = Stack!NoAnswer
      <3>1. Responds(0, "none", "none", FALSE)' /\ response' \in ResponseType
        BY <2>2, Blank DEF Responds, ResponseType
      <3> QED
        BY <1>4, <2>2, <3>1 DEF FromRoute, Answered, Responds
    <2> QED
      BY <2>1, <2>2 DEF Stack!Route, Stack!TurnBack
  <1>6. lines' = <<>> /\ sent'.kind # "preflight"
    BY <1>1 DEF WayIn
  <1>7. WayOut'
    BY <1>1, <1>4, <1>5, <1>6 DEF WayOut
  <1> QED
    BY <1>1, <1>5, <1>7 DEF StackInv
(* What the contexts of a request hold.                                     *)
LEMMA Contexts ==
    /\ TenantContext.tenant = Stack!TenantOf(sent) /\ TenantContext.id = "none"
    /\ TenantContext.correlation = "none"
    /\ RouteContext.tenant = Stack!TenantOf(sent) /\ RouteContext.id = Stack!IdOf(sent)
    /\ RouteContext.correlation = Stack!CorrelationOf(sent)
    /\ RouteContext.telemetry = Stack!validate_correlation_id(sent.id)
    /\ RouteContext.collector = TRUE
    /\ [Stack!NoContext EXCEPT !.tenant = RouteContext.tenant] = TenantContext
    /\ [TenantContext EXCEPT !.tenant = "unset"] = NoContext
    /\ Stack!TenantOf(sent) \in {"named", "default"}
    /\ Stack!IdOf(sent) \in Names \ {"none"} /\ Stack!CorrelationOf(sent) \in Names
  <1>1. /\ TenantContext.tenant = Stack!TenantOf(sent) /\ TenantContext.id = "none"
        /\ TenantContext.correlation = "none"
    BY DEF TenantContext, NoContext, Stack!NoContext
  <1>2. /\ RouteContext.tenant = Stack!TenantOf(sent) /\ RouteContext.id = Stack!IdOf(sent)
        /\ RouteContext.correlation = Stack!CorrelationOf(sent)
        /\ RouteContext.telemetry = Stack!validate_correlation_id(sent.id)
        /\ RouteContext.collector = TRUE
    BY DEF RouteContext, TenantContext, NoContext, Stack!NoContext
  <1>3. [Stack!NoContext EXCEPT !.tenant = RouteContext.tenant] = TenantContext
    BY <1>2 DEF TenantContext, NoContext
  <1>4. [TenantContext EXCEPT !.tenant = "unset"] = NoContext
    <2> DEFINE n == NoContext
    <2>1. n = [n EXCEPT !.tenant = "unset"]
      BY DEF NoContext, Stack!NoContext
    <2>2. TenantContext = [n EXCEPT !.tenant = Stack!TenantOf(sent)]
      BY DEF TenantContext
    <2> HIDE DEF n
    <2>3. [TenantContext EXCEPT !.tenant = "unset"] = [n EXCEPT !.tenant = "unset"]
      BY <2>2
    <2> QED
      BY <2>1, <2>3 DEF n
  <1>5. /\ Stack!TenantOf(sent) \in {"named", "default"}
        /\ Stack!IdOf(sent) \in Names \ {"none"} /\ Stack!CorrelationOf(sent) \in Names
    BY DEF Stack!TenantOf, Stack!IdOf, Stack!CorrelationOf, Names
  <1> QED
    BY <1>1, <1>2, <1>3, <1>4, <1>5

(* What the invariant says of a request on its way out.                     *)
LEMMA Outbound ==
    ASSUME StackInv, ~inward
    PROVE  /\ WayOut /\ response \in ResponseType /\ sent \in Stack!Requests
           /\ sent.origin \in BOOLEAN /\ raised \in BOOLEAN /\ depth \in 0 .. 6 /\ inward = FALSE
  BY DEF StackInv, WayOut, Stack!Requests

(* An answer is still accounted for when nothing of it changes.             *)
LEMMA NamedStays ==
    ASSUME Named, UNCHANGED <<response, sent, handled, raised>>
    PROVE  Named'
  <1>1. /\ Stack!IdOf(sent)' = Stack!IdOf(sent)
        /\ Stack!CorrelationOf(sent)' = Stack!CorrelationOf(sent)
        /\ RouteContext' = RouteContext
    BY SentStays DEF Stack!IdOf, Stack!CorrelationOf
  <1> QED
    BY <1>1 DEF Named, Answered, TooLarge, Responds

LEMMA LoggedStays ==
    ASSUME Logged, UNCHANGED <<sent, lines>>, response'.status = response.status
    PROVE  Logged'
  BY SentStays DEF Logged, LineOf, Stack!TenantOf
(* The identifiers are written on the answer, and the variables reset.      *)
(* RequestContextMiddleware.                                                *)
LEMMA LeaveContextKeeps == ASSUME StackInv, Stack!LeaveContext PROVE StackInv'
  <1>1. /\ inward = FALSE /\ raised \in BOOLEAN /\ depth = 6 /\ WayOut
        /\ response \in ResponseType /\ sent \in Stack!Requests /\ depth' = 5
        /\ UNCHANGED <<inward, sent, handled, raised, lines>>
    BY Outbound, Layers DEF Stack!LeaveContext, Stack!Leaves, Stack!Outward
  <1>2. /\ contexts = <<TenantContext, TenantContext, RouteContext>>
        /\ lines = <<>> /\ sent.kind # "preflight" /\ FromRoute
    BY <1>1 DEF WayOut
  <1>3. Stack!Inner = RouteContext
    BY <1>2, Tasks DEF Stack!Inner
  <1>4. contexts' = <<TenantContext, TenantContext, TenantContext>>
    BY <1>2, <1>3, Contexts, Tasks DEF Stack!LeaveContext, Stack!Set
  <1>5. contexts' = <<TenantContext, TenantContext, TenantContext>>'
    BY <1>1, <1>4, SentStays
  <1>6. CASE raised
    <2>1. UNCHANGED response
      BY <1>6 DEF Stack!LeaveContext
    <2>2. handled = <<RouteContext>> /\ Responds(0, "none", "none", FALSE)
      BY <1>2, <1>6 DEF FromRoute, Answered
    <2>3. Named
      BY <1>6, <2>2 DEF Named, Answered
    <2>4. Named'
      BY <1>1, <2>1, <2>3, NamedStays
    <2>5. WayOut'
      BY <1>1, <1>2, <1>5, <2>4 DEF WayOut
    <2> QED
      BY <1>1, <2>1, <2>5 DEF StackInv
  <1>7. CASE ~raised
    <2>1. PICK j \in Names, d \in Names :
              j = Stack!IdOf(sent) /\ d = Stack!CorrelationOf(sent)
      BY Contexts
    <2>2. response' = [response EXCEPT !.id = j, !.correlation = d]
      BY <1>3, <1>7, <2>1, Contexts DEF Stack!LeaveContext
    <2>3. /\ handled = <<RouteContext>>
          /\ \E s \in Statuses \cup {405} : Responds(s, "none", "none", FALSE)
      BY <1>2, <1>7 DEF FromRoute, Answered
    <2>4. PICK s \in Statuses \cup {405} : Responds(s, "none", "none", FALSE)
      BY <2>3
    <2>5. Responds(s, j, d, FALSE)' /\ response' \in ResponseType
      BY <2>2, <2>4, NewNames, ZenonT(30)
    <2>6. /\ j = Stack!IdOf(sent)' /\ d = Stack!CorrelationOf(sent)'
          /\ handled' = <<RouteContext>>' /\ raised' = FALSE
      BY <1>1, <1>7, <2>1, <2>3, SentStays DEF Stack!IdOf, Stack!CorrelationOf
    <2>7. Named'
      BY <2>5, <2>6, ZenonT(30) DEF Named, Answered, Responds
    <2>8. WayOut'
      BY <1>1, <1>2, <1>5, <2>7 DEF WayOut
    <2> QED
      BY <1>1, <2>5, <2>8 DEF StackInv
  <1> QED
    BY <1>1, <1>6, <1>7

(* The task of the route ends.  RequestSizeLimitMiddleware.                 *)
LEMMA LeaveSizeKeeps == ASSUME StackInv, Stack!LeaveSize PROVE StackInv'
  <1>1. /\ inward = FALSE /\ raised \in BOOLEAN /\ depth = 5 /\ WayOut
        /\ response \in ResponseType /\ sent \in Stack!Requests /\ depth' = 4
        /\ UNCHANGED <<inward, sent, handled, raised, lines, response>>
    BY Outbound, Layers DEF Stack!LeaveSize, Stack!Leaves, Stack!Outward
  <1>2. /\ contexts = <<TenantContext, TenantContext, TenantContext>>
        /\ lines = <<>> /\ sent.kind # "preflight" /\ Named
    BY <1>1 DEF WayOut
  <1>3. contexts' = <<TenantContext, TenantContext>>
    <2>1. contexts' = Stack!Front(<<TenantContext, TenantContext, TenantContext>>)
      BY <1>2 DEF Stack!LeaveSize, Stack!Join
    <2> QED
      BY <2>1, Joined, Zenon
  <1>4. contexts' = <<TenantContext, TenantContext>>'
    BY <1>1, <1>3, SentStays
  <1>5. Named'
    BY <1>1, <1>2, NamedStays
  <1>6. WayOut'
    BY <1>1, <1>2, <1>4, <1>5 DEF WayOut
  <1> QED
    BY <1>1, <1>6 DEF StackInv
(* The access log writes its line.  StructuredJsonLoggingMiddleware.        *)
LEMMA LogKeeps == ASSUME StackInv, Stack!Log PROVE StackInv'
  <1>1. /\ inward = FALSE /\ raised \in BOOLEAN /\ depth = 4 /\ WayOut
        /\ response \in ResponseType /\ sent \in Stack!Requests /\ depth' = 3
        /\ UNCHANGED <<inward, sent, handled, raised, response>>
    <2>1. Stack!Leaves("log") /\ Stack!Outward
      BY DEF Stack!Log
    <2>2. UNCHANGED <<sent, inward, handled, response, raised>>
      BY DEF Stack!Log
    <2>3. inward = FALSE /\ depth = 4 /\ depth' = 3
      BY <2>1, Layers, Outbound DEF Stack!Leaves, Stack!Outward
    <2> QED
      BY <2>2, <2>3, Outbound
  <1>2. /\ contexts = <<TenantContext, TenantContext>>
        /\ lines = <<>> /\ sent.kind # "preflight" /\ Named
    BY <1>1 DEF WayOut
  <1>3. contexts' = <<TenantContext>>
    <2>1. contexts' = Stack!Front(<<TenantContext, TenantContext>>)
      BY <1>2 DEF Stack!Log, Stack!Join
    <2> QED
      BY <2>1, Joined, Zenon
  <1>4. contexts' = <<TenantContext>>'
    BY <1>1, <1>3, SentStays
  <1>5. lines' = <<LineOf(response.status)>>
    <2> DEFINE t == TenantContext
    <2>1. /\ t.id = "none" /\ t.correlation = "none" /\ t.tenant = Stack!TenantOf(sent)
          /\ t.tenant # "unset"
      BY Contexts
    <2>2. contexts'[Len(contexts')] = t
      BY <1>3
    <2> HIDE DEF t
    <2>3. lines' = Append(<<>>, LineOf(response.status))
      BY <1>2, <2>1, <2>2 DEF Stack!Log, LineOf
    <2> QED
      BY <2>3
  <1>6. Logged'
    BY <1>1, <1>2, <1>5 DEF Logged, LineOf, Stack!TenantOf
  <1>7. Named'
    BY <1>1, <1>2, NamedStays
  <1>8. WayOut'
    BY <1>1, <1>4, <1>6, <1>7 DEF WayOut
  <1> QED
    BY <1>1, <1>8 DEF StackInv

(* The tenant of the server's own task is reset.  TenantMiddleware.         *)
LEMMA LeaveTenantKeeps == ASSUME StackInv, Stack!LeaveTenant PROVE StackInv'
  <1>1. /\ inward = FALSE /\ raised \in BOOLEAN /\ depth = 3 /\ WayOut
        /\ response \in ResponseType /\ sent \in Stack!Requests /\ depth' = 2
        /\ UNCHANGED <<inward, sent, handled, raised, response, lines>>
    BY Outbound, Layers DEF Stack!LeaveTenant, Stack!Leaves, Stack!Outward
  <1>2. contexts = <<TenantContext>> /\ Logged /\ Named
    BY <1>1 DEF WayOut
  <1>3. contexts' = <<NoContext>>
    BY <1>2, Contexts, Tasks DEF Stack!LeaveTenant, Stack!Set, Stack!Inner
  <1>4. Named' /\ Logged'
    BY <1>1, <1>2, NamedStays, LoggedStays
  <1>5. WayOut'
    BY <1>1, <1>3, <1>4 DEF WayOut, NoContext
  <1> QED
    BY <1>1, <1>5 DEF StackInv

(* What the route and the size limit answered can be read by the browser.   *)
(* CORSMiddleware in main.py.                                               *)
LEMMA LeaveCorsKeeps == ASSUME StackInv, Stack!LeaveCors PROVE StackInv'
  <1>1. /\ inward = FALSE /\ raised \in BOOLEAN /\ depth = 2 /\ WayOut
        /\ response \in ResponseType /\ sent \in Stack!Requests /\ depth' = 1
        /\ UNCHANGED <<inward, sent, handled, raised, contexts, lines>>
    BY Outbound, Layers DEF Stack!LeaveCors, Stack!Leaves, Stack!Outward
  <1>2. contexts = <<NoContext>> /\ Logged /\ Named
    BY <1>1 DEF WayOut
  <1>3. PICK o \in BOOLEAN : o = sent.origin
    BY Outbound, <1>1
  <1>4. /\ Stack!IdOf(sent)' = Stack!IdOf(sent)
        /\ Stack!CorrelationOf(sent)' = Stack!CorrelationOf(sent)
        /\ RouteContext' = RouteContext /\ sent'.origin = o
    BY <1>1, <1>3, SentStays DEF Stack!IdOf, Stack!CorrelationOf
  <1>5. Readable' /\ response' \in ResponseType /\ response'.status = response.status
    <2>1. CASE raised
      <3>1. UNCHANGED response
        BY <2>1 DEF Stack!LeaveCors
      <3>2. handled = <<RouteContext>> /\ Responds(0, "none", "none", FALSE)
        BY <1>2, <2>1 DEF Named, Answered, TooLarge
      <3>3. Readable'
        BY <1>1, <1>4, <2>1, <3>1, <3>2 DEF Readable, Answered, Responds
      <3> QED
        BY <1>1, <3>1, <3>3
    <2>2. CASE ~raised
      <3>1. response' = [response EXCEPT !.cors = o]
        BY <1>3, <2>2 DEF Stack!LeaveCors
      <3>2. CASE TooLarge(FALSE)
        <4>1. handled = <<>> /\ Responds(413, "none", "none", FALSE)
          BY <3>2 DEF TooLarge
        <4>2. Responds(413, "none", "none", o)' /\ response' \in ResponseType
          BY <3>1, <4>1, NewHeader, ZenonT(30)
        <4>3. Readable'
          BY <1>1, <1>4, <2>2, <4>1, <4>2 DEF Readable, TooLarge, Responds
        <4> QED
          BY <4>1, <4>2, <4>3 DEF Responds
      <3>3. CASE Answered(Stack!IdOf(sent), Stack!CorrelationOf(sent), FALSE)
        <4>1. /\ handled = <<RouteContext>>
              /\ \E s \in Statuses \cup {405} :
                     Responds(s, Stack!IdOf(sent), Stack!CorrelationOf(sent), FALSE)
          BY <2>2, <3>3 DEF Answered
        <4>2. PICK s \in Statuses \cup {405} :
                       Responds(s, Stack!IdOf(sent), Stack!CorrelationOf(sent), FALSE)
          BY <4>1
        <4>3. PICK j, d : j = Stack!IdOf(sent) /\ d = Stack!CorrelationOf(sent)
          OBVIOUS
        <4>4. Responds(s, j, d, FALSE)
          BY <4>2, <4>3
        <4>5. Responds(s, j, d, o)' /\ response' \in ResponseType
          BY <3>1, <4>4, NewHeader, ZenonT(30)
        <4>6. Readable'
          BY <1>1, <1>4, <2>2, <4>1, <4>3, <4>5 DEF Readable, Answered, Responds
        <4> QED
          BY <4>4, <4>5, <4>6 DEF Responds
      <3> QED
        BY <1>2, <2>2, <3>2, <3>3 DEF Named
    <2> QED
      BY <1>1, <2>1, <2>2
  <1>6. Logged'
    BY <1>1, <1>2, <1>5, LoggedStays
  <1>7. WayOut'
    BY <1>1, <1>2, <1>5, <1>6 DEF WayOut, NoContext
  <1> QED
    BY <1>1, <1>5, <1>7 DEF StackInv

(* The guard lets answers through.  staging_guard in main.py.               *)
LEMMA LeaveGuardKeeps == ASSUME StackInv, Stack!LeaveGuard PROVE StackInv'
  <1>1. /\ inward = FALSE /\ raised \in BOOLEAN /\ depth = 1 /\ WayOut
        /\ response \in ResponseType /\ sent \in Stack!Requests /\ depth' = 0
        /\ UNCHANGED <<inward, sent, handled, raised, contexts, lines, response>>
    BY Outbound, Layers DEF Stack!LeaveGuard, Stack!Leaves, Stack!Outward
  <1>2. contexts = <<NoContext>> /\ (Unlogged \/ (Logged /\ Readable))
    BY <1>1 DEF WayOut
  <1>3. CASE Unlogged
    <2>1. Unlogged'
      BY <1>1, <1>3 DEF Unlogged, Responds
    <2> QED
      BY <1>1, <1>2, <2>1 DEF StackInv, WayOut, NoContext
  <1>4. CASE Logged /\ Readable
    <2>1. Logged'
      BY <1>1, <1>4, LoggedStays
    <2>2. /\ Stack!IdOf(sent)' = Stack!IdOf(sent)
          /\ Stack!CorrelationOf(sent)' = Stack!CorrelationOf(sent)
          /\ RouteContext' = RouteContext
      BY <1>1, SentStays DEF Stack!IdOf, Stack!CorrelationOf
    <2>3. Readable'
      BY <1>1, <1>4, <2>2 DEF Readable, Answered, TooLarge, Responds
    <2> QED
      BY <1>1, <1>2, <2>1, <2>3 DEF StackInv, WayOut, NoContext
  <1> QED
    BY <1>2, <1>3, <1>4
(* What nothing caught is answered by the server.                           *)
LEMMA ServerErrorKeeps == ASSUME StackInv, Stack!ServerError PROVE StackInv'
  <1>1. /\ depth = 0 /\ raised = TRUE /\ raised' = FALSE /\ sent \in Stack!Requests
        /\ response' = [Stack!NoAnswer EXCEPT !.status = 500]
        /\ UNCHANGED <<sent, depth, inward, contexts, handled, lines>>
    BY DEF Stack!ServerError, StackInv
  <1>2. inward = FALSE /\ WayOut
    BY <1>1 DEF StackInv, WayIn
  <1>3. contexts = <<NoContext>> /\ Logged /\ Readable
    BY <1>1, <1>2 DEF WayOut, Unlogged, Unhandled
  <1>4. handled = <<RouteContext>> /\ Responds(0, "none", "none", FALSE)
    BY <1>1, <1>3 DEF Readable, Answered, TooLarge
  <1>5. 500 \in Codes
    BY DEF Codes
  <1>6. Responds(500, "none", "none", FALSE)' /\ response' \in ResponseType
    BY <1>1, <1>5, NewStatus, ZenonT(30)
  <1>7. sent.kind # "preflight" /\ lines = <<LineOf(0)>>
    BY <1>3, <1>4 DEF Logged, Responds
  <1>8. Unhandled'
    BY <1>1, <1>4, <1>6, <1>7, SentStays
    DEF Unhandled, Responds, LineOf, Stack!TenantOf
  <1>9. WayOut'
    BY <1>1, <1>2, <1>3, <1>8 DEF WayOut, NoContext
  <1> QED
    BY <1>1, <1>2, <1>6, <1>9 DEF StackInv

(* A request starts outside of every layer.                                 *)
LEMMA StackStarts == ASSUME Stack!Init PROVE StackInv
  <1>1. /\ sent \in Stack!Requests /\ inward = TRUE /\ raised = FALSE /\ depth = 1
        /\ response = Stack!NoAnswer /\ contexts = <<NoContext>> /\ handled = <<>> /\ lines = <<>>
    BY DEF Stack!Init, NoContext
  <1>2. response \in ResponseType /\ Responds(0, "none", "none", FALSE)
    BY <1>1, Blank DEF Responds
  <1>3. WayIn
    <2>1. depth \in 1 .. 7 /\ depth \notin {4, 5, 6, 7} /\ ~(depth >= 3) /\ ~raised
      BY <1>1
    <2>2. depth # 4 /\ depth # 5 /\ depth # 6 /\ depth # 7
      BY <2>1
    <2> QED
      BY <1>1, <1>2, <2>1, <2>2, Zenon DEF WayIn
  <1> QED
    BY <1>1, <1>2, <1>3 DEF StackInv

(* Nothing of it is lost while nothing happens.                             *)
LEMMA StackStays == ASSUME StackInv, UNCHANGED stackVars PROVE StackInv'
  <1>1. /\ UNCHANGED <<sent, depth, inward, contexts, handled, response, raised, lines>>
        /\ TenantContext' = TenantContext /\ RouteContext' = RouteContext
        /\ NoContext' = NoContext
        /\ Stack!IdOf(sent)' = Stack!IdOf(sent)
        /\ Stack!CorrelationOf(sent)' = Stack!CorrelationOf(sent)
    BY SentStays DEF stackVars, NoContext, Stack!IdOf, Stack!CorrelationOf
  <1>2. WayIn => WayIn'
    BY <1>1 DEF WayIn, Responds
  <1>3. Unlogged => Unlogged'
    BY <1>1 DEF Unlogged, Responds
  <1>4. Unhandled => Unhandled'
    BY <1>1 DEF Unhandled, Responds, LineOf, Stack!TenantOf
  <1>5. /\ Named => Named'
        /\ Logged => Logged'
    BY <1>1, NamedStays, LoggedStays
  <1>6. Readable => Readable'
    BY <1>1 DEF Readable, Answered, TooLarge, Responds
  <1>7. FromRoute => FromRoute'
    BY <1>1 DEF FromRoute, Answered, Responds
  <1>8. WayOut => WayOut'
    BY <1>1, <1>3, <1>4, <1>5, <1>6, <1>7 DEF WayOut
  <1> QED
    BY <1>1, <1>2, <1>8 DEF StackInv

LEMMA StackKeeps == ASSUME StackInv, [Stack!Next]_stackVars PROVE StackInv'
  BY StackStays, GuardKeeps, CorsKeeps, TenantKeeps, CallNextKeeps, SizeLimitKeeps,
     RequestContextKeeps, RouteKeeps, LeaveContextKeeps, LeaveSizeKeeps, LogKeeps,
     LeaveTenantKeeps, LeaveCorsKeeps, LeaveGuardKeeps, ServerErrorKeeps
  DEF Stack!Next
(* What an ended request shows, whichever end it had.                       *)
LEMMA One ==
    ASSUME NEW a
    PROVE  Len(<<a>>) = 1 /\ <<a>>[1] = a /\ Stack!ToSet(<<a>>) = {a}
  BY DEF Stack!ToSet

LEMMA Zero == Len(<<>>) = 0 /\ Stack!ToSet(<<>>) = {}
  BY DEF Stack!ToSet

\* The account of a request, of what its line and its route say.
LineAccounts(line) ==
    /\ line.tenant = Stack!TenantOf(sent)
    /\ line.status \in {0, response.status}
    /\ line.status = 0 <=> response.status = 500 /\ ~response.cors /\ response.id = "none"
    /\ sent.id \notin {"none", "two"} /\ response.id # "none" =>
          line.id = response.id /\ line.correlation = response.correlation

RouteAccounts(context) ==
    /\ context.tenant = Stack!TenantOf(sent) /\ context.collector
    /\ context.telemetry = "sent" => sent.id = "uuid"

LEMMA RouteSaw == RouteAccounts(RouteContext)
  BY Contexts DEF RouteAccounts, Stack!validate_correlation_id

LEMMA LineFields ==
    ASSUME NEW s
    PROVE  /\ LineOf(s).tenant = Stack!TenantOf(sent) /\ LineOf(s).status = s
           /\ sent.id \notin {"none", "two"} =>
                 /\ LineOf(s).id = Stack!IdOf(sent)
                 /\ LineOf(s).correlation = Stack!CorrelationOf(sent)
  BY DEF LineOf, Stack!IdOf, Stack!LogIdOf, Stack!CorrelationOf

LEMMA AccountedFor ==
    ASSUME sent.kind # "preflight", response.status # 401, contexts = <<NoContext>>,
           handled \in {<<>>, <<RouteContext>>}, NEW s, lines = <<LineOf(s)>>,
           LineAccounts(LineOf(s)), response.cors <=> sent.origin /\ s # 0
    PROVE  Stack!AnswersAreAccountedFor
  <1> DEFINE line == LineOf(s)
  <1>1. Len(lines) = 1 /\ Stack!ToSet(lines) = {line} /\ lines[1] = line /\ line.status = s
    BY One, LineFields
  <1>2. \A saw \in Stack!ToSet(handled) : RouteAccounts(saw)
    BY RouteSaw, One, Zero
  <1> HIDE DEF line
  <1>3. LineAccounts(line)
    BY DEF line
  <1> QED
    BY <1>1, <1>2, <1>3
    DEF Stack!AnswersAreAccountedFor, LineAccounts, RouteAccounts, NoContext
LEMMA StackSafe ==
    ASSUME StackInv, PlatformBounds
    PROVE  Stack!AnswersAreAccountedFor
  <1> SUFFICES ASSUME depth = 0, ~raised
               PROVE  Stack!AnswersAreAccountedFor
    BY DEF Stack!AnswersAreAccountedFor
  <1>1. inward = FALSE /\ WayOut /\ sent.origin \in BOOLEAN
    BY DEF StackInv, WayIn, Stack!Requests
  <1>2. contexts = <<NoContext>> /\ (Unlogged \/ Unhandled \/ (Logged /\ Readable))
    BY <1>1 DEF WayOut
  <1>3. CASE Unlogged
    <2>1. handled = <<>> /\ lines = <<>> /\ Len(lines) = 0
      BY <1>3 DEF Unlogged
    <2>2. Stack!ToSet(handled) = {} /\ Stack!ToSet(lines) = {}
      BY <2>1, Zero
    <2>3. response.cors = sent.origin
      BY <1>3 DEF Unlogged, Responds
    <2>4. response.status = 401 \/ sent.kind = "preflight"
      BY <1>3 DEF Unlogged, Responds
    <2> QED
      BY <1>1, <1>2, <2>1, <2>2, <2>3, <2>4 DEF Stack!AnswersAreAccountedFor, NoContext
  <1>4. CASE Unhandled
    <2>1. /\ sent.kind # "preflight" /\ handled = <<RouteContext>> /\ lines = <<LineOf(0)>>
          /\ response.status = 500 /\ response.id = "none" /\ response.cors = FALSE
      BY <1>4 DEF Unhandled, Responds
    <2>2. LineAccounts(LineOf(0))
      BY <2>1, LineFields DEF LineAccounts
    <2> QED
      BY <1>2, <2>1, <2>2, AccountedFor
  <1>5. CASE Logged /\ Answered(Stack!IdOf(sent), Stack!CorrelationOf(sent), sent.origin)
    <2>1. PICK s \in Statuses \cup {405} :
              Responds(s, Stack!IdOf(sent), Stack!CorrelationOf(sent), sent.origin)
      BY <1>5 DEF Answered
    <2>2. /\ sent.kind # "preflight" /\ handled = <<RouteContext>> /\ lines = <<LineOf(s)>>
          /\ response.status = s /\ s # 0 /\ s # 401 /\ response.id = Stack!IdOf(sent)
          /\ response.correlation = Stack!CorrelationOf(sent) /\ response.cors = sent.origin
      BY <1>5, <2>1 DEF Logged, Answered, Responds, PlatformBounds
    <2>3. response.id # "none"
      BY <2>2, Contexts
    <2>4. LineAccounts(LineOf(s))
      BY <2>2, <2>3, LineFields DEF LineAccounts
    <2>5. response.cors <=> sent.origin /\ s # 0
      BY <1>1, <2>2
    <2> QED
      BY <1>2, <2>2, <2>4, <2>5, AccountedFor
  <1>6. CASE Logged /\ TooLarge(sent.origin)
    <2>1. /\ sent.kind # "preflight" /\ handled = <<>> /\ lines = <<LineOf(413)>>
          /\ response.status = 413 /\ response.id = "none" /\ response.cors = sent.origin
      BY <1>6 DEF Logged, TooLarge, Responds
    <2>2. LineAccounts(LineOf(413))
      BY <2>1, LineFields DEF LineAccounts
    <2>3. response.cors <=> sent.origin /\ 413 # 0
      BY <1>1, <2>1
    <2> QED
      BY <1>2, <2>1, <2>2, <2>3, AccountedFor
  <1> QED
    BY <1>2, <1>3, <1>4, <1>5, <1>6 DEF Readable

(* Whatever a client sends and a route answers or raises, the log, the      *)
(* answer and the route agree on who asked and what became of it, and no    *)
(* variable outlives the request, in any deployment whose routes leave 401  *)
(* to the guard; the log and the answer name the same request where the     *)
(* client sent one identifier and the innermost layer saw the answer.       *)
(* main.py, structured_logging.py, tenant.py, request_context.py.           *)
THEOREM RequestsAreAccountedFor == AnySpec => []AnswersAreAccountedFor
  <1> DEFINE Inv == part = "stack" => StackInv
  <1>1. AnyInit => Inv
    BY StackStarts DEF AnyInit
  <1>2. Inv /\ [AnyNext]_anyVars => Inv'
    BY Continues, StackKeeps
  <1>3. Inv => AnswersAreAccountedFor
    BY StackSafe, PlatformBounds DEF AnswersAreAccountedFor
  <1> QED
    BY <1>1, <1>2, <1>3, PTL DEF AnySpec

----------------------------------------------------------------------------
(* A retrieval: RetrievalPipeline, hybrid_search, RerankingPipeline.        *)

\* What the search found, in some order.
IsRanking(s) == \E S : s \in Seq(S)

Searching == {"rewrite", "embed", "search"}
Reranking == {"rerank", "token", "rank", "aws"}

\* The result is an answer of a reranker, or the beginning of what the search found.
ComesFromSearch ==
    \/ /\ ~result.fallback
       /\ \E a \in answer : result.chunks = [i \in DOMAIN a |-> candidates[a[i] + 1]]
    \/ /\ result.fallback /\ answer = {} /\ result.chunks # <<>>
       /\ result.chunks = SubSeq(candidates, 1, Len(result.chunks))

\* The search is over before a reranker is asked, and a reranker decides once.
RetrievalInv ==
    /\ semantic \in Seq(ChunkIds) /\ keyword \in Seq(ChunkIds)
    /\ step \in Searching \cup Reranking \cup {"evaluate", "done"}
    /\ IsRanking(candidates) /\ DOMAIN result = {"chunks", "fallback", "verdict"}
    /\ step \in Searching => candidates = <<>> /\ answer = {}
    /\ step \in Reranking => candidates # <<>> /\ answer = {}
    /\ step = "evaluate" => ComesFromSearch
    /\ step = "done" /\ candidates # <<>> =>
          /\ verdict.kind = "error" => ~buildable /\ answer = {}
          /\ verdict.kind \notin {"error", "timeout"} => ComesFromSearch

(* A beginning of a ranking is one, and its own beginning.                  *)
LEMMA CutOfRanking ==
    ASSUME NEW S, NEW s \in Seq(S), NEW n \in Nat
    PROVE  /\ Retrieving!Cut(s, n) \in Seq(S)
           /\ \A i \in DOMAIN Retrieving!Cut(s, n) : Retrieving!Cut(s, n)[i] \in S
           /\ Retrieving!Cut(s, n) = SubSeq(s, 1, Len(Retrieving!Cut(s, n)))
           /\ s # <<>> /\ n # 0 => Retrieving!Cut(s, n) # <<>>
  <1> DEFINE m == IF Len(s) < n THEN Len(s) ELSE n
  <1>1. m \in 0 .. Len(s) /\ Retrieving!Cut(s, n) = SubSeq(s, 1, m)
    BY DEF Retrieving!Cut
  <1>2. s # <<>> /\ n # 0 => m # 0
    OBVIOUS
  <1> HIDE DEF m
  <1>3. SubSeq(s, 1, m) \in Seq(S) /\ Len(SubSeq(s, 1, m)) = m
    BY <1>1
  <1>4. \A i \in DOMAIN SubSeq(s, 1, m) : SubSeq(s, 1, m)[i] \in S
    BY <1>3
  <1>5. m # 0 => SubSeq(s, 1, m) # <<>>
    BY <1>3
  <1> QED
    BY <1>1, <1>2, <1>3, <1>4, <1>5

(* The search returns a ranking.  hybrid_search.                            *)
LEMMA SearchRanks ==
    ASSUME RetrievalInv
    PROVE  IsRanking(Retrieving!HybridSearch)
  <1> DEFINE s == Retrieving!Cut(semantic, RetrievedK)
             k == Retrieving!Cut(keyword, RetrievedK)
             found == Retrieving!ToSet(s) \cup Retrieving!ToSet(k)
             f == Retrieving!Fused(s, k)
  <1>1. RetrievedK \in Nat /\ IsFiniteSet(ChunkIds)
    BY PlatformBounds DEF PlatformBounds
  <1>2. found \subseteq ChunkIds
    <2>1. \A i \in DOMAIN s : s[i] \in ChunkIds
      BY <1>1, CutOfRanking DEF RetrievalInv
    <2>2. \A i \in DOMAIN k : k[i] \in ChunkIds
      BY <1>1, CutOfRanking DEF RetrievalInv
    <2> QED
      BY <2>1, <2>2 DEF Retrieving!ToSet
  <1>3. Retrieving!Cardinality(found) \in Nat
    <2>1. IsFiniteSet(found)
      BY <1>1, <1>2, FS_Subset
    <2>2. Cardinality(found) \in Nat
      BY <2>1, FS_CardinalityType
    <2> QED
      BY <2>2 DEF Retrieving!Cardinality, Cardinality
  <1>4. DOMAIN f = 1 .. Retrieving!Cardinality(found) /\ f = [i \in DOMAIN f |-> f[i]]
    BY DEF Retrieving!Fused
  <1>5. Retrieving!HybridSearch = Retrieving!Cut(f, RetrievedK)
    BY DEF Retrieving!HybridSearch
  <1> DEFINE S == {f[i] : i \in DOMAIN f}
  <1> HIDE DEF f, found
  <1>6. f \in [1 .. Retrieving!Cardinality(found) -> S]
    BY <1>4
  <1>7. f \in Seq(S)
    <2> DEFINE n == Retrieving!Cardinality(found)
    <2> HIDE DEF n
    <2>1. n \in Nat /\ f \in [1 .. n -> S]
      BY <1>3, <1>6 DEF n
    <2> QED
      BY <2>1
  <1> HIDE DEF S
  <1>8. Retrieving!Cut(f, RetrievedK) \in Seq(S)
    BY <1>1, <1>7, CutOfRanking
  <1> QED
    BY <1>5, <1>8 DEF IsRanking
(* The corpus is a set of chunks, each in a ranking once.                   *)
LEMMA RetrievalStarts == ASSUME Retrieving!Init PROVE RetrievalInv
  <1>1. IsFiniteSet(ChunkIds)
    BY PlatformBounds DEF PlatformBounds
  <1>2. ASSUME NEW S \in SUBSET ChunkIds, NEW f \in Retrieving!SetToSeqs(S)
        PROVE  f \in Seq(S)
    <2>1. Cardinality(S) \in Nat
      BY <1>1, FS_Subset, FS_CardinalityType
    <2>2. Retrieving!Cardinality(S) \in Nat
      BY <2>1 DEF Retrieving!Cardinality, Cardinality
    <2>3. f \in [1 .. Retrieving!Cardinality(S) -> S]
      BY DEF Retrieving!SetToSeqs
    <2> QED
      BY <2>2, <2>3
  <1>3. PICK S \in SUBSET ChunkIds : semantic \in Retrieving!SetToSeqs(S)
    BY DEF Retrieving!Init
  <1>4. semantic \in Seq(S)
    BY <1>2, <1>3
  <1>5. semantic \in Seq(ChunkIds) /\ Retrieving!ToSet(semantic) \subseteq ChunkIds
    BY <1>3, <1>4 DEF Retrieving!ToSet
  <1>6. PICK T \in SUBSET Retrieving!ToSet(semantic) : keyword \in Retrieving!SetToSeqs(T)
    BY DEF Retrieving!Init, Retrieving!SetToAllKPermutations
  <1>7. T \in SUBSET ChunkIds
    BY <1>5
  <1>8. keyword \in Seq(T)
    BY <1>2, <1>6, <1>7
  <1>9. keyword \in Seq(ChunkIds)
    BY <1>7, <1>8
  <1>10. /\ step = "rewrite" /\ candidates = <<>> /\ answer = {}
         /\ DOMAIN result = {"chunks", "fallback", "verdict"}
    BY DEF Retrieving!Init, Retrieving!NoResult
  <1>11. IsRanking(candidates)
    BY <1>10 DEF IsRanking
  <1> QED
    BY <1>5, <1>9, <1>10, <1>11 DEF RetrievalInv, Searching, Reranking

(* What stays of a ranking.                                                 *)
LEMMA RankingStays ==
    ASSUME IsRanking(candidates), UNCHANGED candidates
    PROVE  IsRanking(candidates)'
  BY DEF IsRanking

(* A retrieval that ends with a result does not fail.                       *)
LEMMA Finishes ==
    ASSUME NEW r, Retrieving!Finish(r)
    PROVE  step' = "done" /\ result' = r /\ verdict'.kind \notin {"error", "timeout"}
  <1>1. verdict'.kind \in {"empty", "ok"}
    BY DEF Retrieving!Finish
  <1> QED
    BY <1>1 DEF Retrieving!Finish

(* A reranking ends with its chunks, at once or after the evaluator.        *)
LEMMA RanksChunks ==
    ASSUME NEW chunks, NEW fallback, Retrieving!Ranked(chunks, fallback)
    PROVE  /\ step' \in {"evaluate", "done"}
           /\ DOMAIN result' = {"chunks", "fallback", "verdict"}
           /\ result'.chunks = chunks /\ result'.fallback = fallback
           /\ step' = "done" => verdict'.kind \notin {"error", "timeout"}
  <1> DEFINE r == [chunks |-> chunks, fallback |-> fallback, verdict |-> "none"]
  <1>1. /\ DOMAIN r = {"chunks", "fallback", "verdict"}
        /\ r.chunks = chunks /\ r.fallback = fallback
    OBVIOUS
  <1>2. (step' = "evaluate" /\ result' = r) \/ Retrieving!Finish(r)
    BY DEF Retrieving!Ranked
  <1> HIDE DEF r
  <1> QED
    BY <1>1, <1>2, Finishes

LEMMA RankedKeeps ==
    ASSUME RetrievalInv, step \in Reranking, UNCHANGED <<semantic, keyword, candidates>>,
           NEW chunks, NEW fallback, Retrieving!Ranked(chunks, fallback), ComesFromSearch'
    PROVE  RetrievalInv'
  BY RanksChunks, RankingStays DEF RetrievalInv, Searching, Reranking

(* The search's own order is what is left when no reranker answers.         *)
LEMMA FallBackKeeps ==
    ASSUME RetrievalInv, step \in Reranking, UNCHANGED <<semantic, keyword, candidates>>,
           Retrieving!FallBack
    PROVE  RetrievalInv'
  <1> DEFINE cut == Retrieving!Cut(candidates, TopN)
  <1>1. PICK S : candidates \in Seq(S)
    BY DEF RetrievalInv, IsRanking
  <1>2. candidates # <<>> /\ answer = {} /\ TopN \in Nat /\ TopN # 0
    BY PlatformBounds DEF RetrievalInv, PlatformBounds
  <1>3. cut # <<>> /\ cut = SubSeq(candidates, 1, Len(cut))
    BY <1>1, <1>2, CutOfRanking
  <1>4. Retrieving!Ranked(cut, TRUE) /\ UNCHANGED answer
    BY DEF Retrieving!FallBack
  <1> HIDE DEF cut
  <1>5. result'.chunks = cut /\ result'.fallback = TRUE
    BY <1>4, RanksChunks, Zenon
  <1>6. ComesFromSearch'
    BY <1>2, <1>3, <1>4, <1>5 DEF ComesFromSearch
  <1> QED
    BY <1>4, <1>6, RankedKeeps

(* So is it when an answer names a chunk there is not.                      *)
LEMMA TakeAnswerKeeps ==
    ASSUME RetrievalInv, step \in Reranking, UNCHANGED <<semantic, keyword, candidates>>,
           NEW a, Retrieving!TakeAnswer(a)
    PROVE  RetrievalInv'
  <1>1. CASE Retrieving!IndicesAreValid(a)
    <2> DEFINE ranked == [i \in DOMAIN a |-> candidates[a[i] + 1]]
    <2>1. answer' = {a} /\ Retrieving!Ranked(ranked, FALSE)
      BY <1>1 DEF Retrieving!TakeAnswer
    <2>2. ranked = [i \in DOMAIN a |-> candidates'[a[i] + 1]]
      OBVIOUS
    <2> HIDE DEF ranked
    <2>3. result'.chunks = ranked /\ result'.fallback = FALSE
      BY <2>1, RanksChunks, Zenon
    <2>4. ComesFromSearch'
      BY <2>1, <2>2, <2>3 DEF ComesFromSearch
    <2> QED
      BY <2>1, <2>4, RankedKeeps
  <1>2. CASE ~Retrieving!IndicesAreValid(a)
    BY <1>2, FallBackKeeps DEF Retrieving!TakeAnswer
  <1> QED
    BY <1>1, <1>2
(* The stages before a reranker decides.                                    *)
LEMMA EarlyKeeps ==
    ASSUME RetrievalInv,
           \/ Retrieving!Rewrite \/ Retrieving!Embed \/ Retrieving!SearchFails
           \/ Retrieving!GcpToken
    PROVE  RetrievalInv'
  <1>1. CASE Retrieving!Rewrite
    BY <1>1, RankingStays
    DEF Retrieving!Rewrite, Retrieving!corpus, RetrievalInv, Searching, Reranking
  <1>2. CASE Retrieving!Embed
    BY <1>2, RankingStays
    DEF Retrieving!Embed, Retrieving!corpus, RetrievalInv, Searching, Reranking
  <1>3. CASE Retrieving!SearchFails
    BY <1>3, RankingStays
    DEF Retrieving!SearchFails, Retrieving!Raise, Retrieving!corpus, RetrievalInv, Searching,
        Reranking
  <1>4. CASE Retrieving!GcpToken
    BY <1>4, RankingStays
    DEF Retrieving!GcpToken, Retrieving!corpus, RetrievalInv, Searching, Reranking
  <1> QED
    BY <1>1, <1>2, <1>3, <1>4

LEMMA EmbedFailsKeeps ==
    ASSUME RetrievalInv, NEW retryable \in BOOLEAN, Retrieving!EmbedFails(retryable)
    PROVE  RetrievalInv'
  <1>1. /\ step = "embed" /\ UNCHANGED <<semantic, keyword, candidates, answer, result>>
        /\ step' \in {"embed", "done"}
    BY DEF Retrieving!EmbedFails, Retrieving!Raise, Retrieving!corpus
  <1> QED
    BY <1>1, RankingStays DEF RetrievalInv, Searching, Reranking

LEMMA SearchKeeps == ASSUME RetrievalInv, Retrieving!Search PROVE RetrievalInv'
  <1>1. /\ step = "search" /\ UNCHANGED <<semantic, keyword, answer>>
        /\ candidates' = Retrieving!HybridSearch
    BY DEF Retrieving!Search, Retrieving!corpus
  <1>2. IsRanking(candidates)'
    BY <1>1, SearchRanks DEF IsRanking
  <1>3. CASE candidates' = <<>>
    <2>1. step' = "done" /\ result' = Retrieving!NoResult
      BY <1>1, <1>3, Finishes DEF Retrieving!Search
    <2> QED
      BY <1>1, <1>2, <1>3, <2>1
      DEF RetrievalInv, Searching, Reranking, Retrieving!NoResult
  <1>4. CASE candidates' # <<>>
    <2>1. step' = "rerank" /\ result' = result
      BY <1>1, <1>4 DEF Retrieving!Search
    <2> QED
      BY <1>1, <1>2, <1>4, <2>1 DEF RetrievalInv, Searching, Reranking
  <1> QED
    BY <1>3, <1>4

(* A deadline leaves what was found; what was late is not used.             *)
LEMMA DeadlineKeeps == ASSUME RetrievalInv, Retrieving!Deadline PROVE RetrievalInv'
  <1>1. /\ UNCHANGED <<semantic, keyword, candidates, answer, result>> /\ step' = "done"
        /\ verdict'.kind = "timeout"
    BY DEF Retrieving!Deadline, Retrieving!corpus
  <1> QED
    BY <1>1, RankingStays DEF RetrievalInv, Searching, Reranking

(* The rerankers, one after the other, and the evaluator.                   *)
LEMMA ValidateKeeps ==
    ASSUME RetrievalInv, NEW blank \in BOOLEAN, Retrieving!Validate(blank)
    PROVE  RetrievalInv'
  <1>1. step = "rerank" /\ UNCHANGED <<semantic, keyword, candidates>>
    BY DEF Retrieving!Validate, Retrieving!corpus
  <1>2. CASE step' = "token" /\ UNCHANGED <<answer, result>>
    BY <1>1, <1>2, RankingStays DEF RetrievalInv, Searching, Reranking
  <1>3. CASE Retrieving!FallBack
    BY <1>1, <1>3, FallBackKeeps DEF Reranking
  <1> QED
    BY <1>2, <1>3 DEF Retrieving!Validate

LEMMA GcpFailsKeeps ==
    ASSUME RetrievalInv, NEW failure \in {"transient", "terminal", "unnormalized"},
           Retrieving!GcpFails(failure)
    PROVE  RetrievalInv'
  <1>1. step \in {"token", "rank"} /\ UNCHANGED <<semantic, keyword, candidates>>
    BY DEF Retrieving!GcpFails, Retrieving!corpus
  <1>2. CASE Retrieving!Cascades(failure)
    <2>1. step' = "aws" /\ UNCHANGED <<answer, result>>
      BY <1>2 DEF Retrieving!GcpFails
    <2> QED
      BY <1>1, <2>1, RankingStays DEF RetrievalInv, Searching, Reranking
  <1>3. CASE ~Retrieving!Cascades(failure)
    <2>1. failure = "terminal"
      BY <1>3 DEF Retrieving!Cascades
    <2>2. Retrieving!FallBack
      BY <1>3, <2>1 DEF Retrieving!GcpFails
    <2> QED
      BY <1>1, <2>2, FallBackKeeps DEF Reranking
  <1> QED
    BY <1>2, <1>3

LEMMA AwsFailsKeeps == ASSUME RetrievalInv, Retrieving!AwsFails PROVE RetrievalInv'
  BY FallBackKeeps DEF Retrieving!AwsFails, Retrieving!corpus, Reranking

(* A client that cannot be built is the one failure that nobody catches.    *)
LEMMA AwsIsNotBuiltKeeps ==
    ASSUME RetrievalInv, Retrieving!AwsIsNotBuilt
    PROVE  RetrievalInv'
  <1>1. /\ step = "aws" /\ step' = "done" /\ ~buildable /\ verdict'.kind = "error"
        /\ UNCHANGED <<semantic, keyword, buildable, candidates, answer, result>>
    BY DEF Retrieving!AwsIsNotBuilt, Retrieving!Raise, Retrieving!corpus
  <1> QED
    BY <1>1, RankingStays DEF RetrievalInv, Searching, Reranking

LEMMA AnswersKeep ==
    ASSUME RetrievalInv, NEW a, Retrieving!GcpAnswers(a) \/ Retrieving!AwsAnswers(a)
    PROVE  RetrievalInv'
  <1>1. /\ step \in {"rank", "aws"} /\ UNCHANGED <<semantic, keyword, candidates>>
        /\ Retrieving!TakeAnswer(a)
    BY DEF Retrieving!GcpAnswers, Retrieving!AwsAnswers, Retrieving!corpus
  <1> QED
    BY <1>1, TakeAnswerKeeps DEF Reranking

LEMMA EvaluateKeeps ==
    ASSUME RetrievalInv, NEW v, Retrieving!Evaluate(v)
    PROVE  RetrievalInv'
  <1> DEFINE r == [result EXCEPT !.verdict = v]
  <1>1. /\ step = "evaluate" /\ UNCHANGED <<semantic, keyword, candidates, answer>>
        /\ Retrieving!Finish(r)
    BY DEF Retrieving!Evaluate, Retrieving!corpus
  <1>2. DOMAIN r = DOMAIN result /\ r.chunks = result.chunks /\ r.fallback = result.fallback
    BY DEF RetrievalInv
  <1> HIDE DEF r
  <1>3. result' = r /\ step' = "done" /\ verdict'.kind \notin {"error", "timeout"}
    BY <1>1, Finishes
  <1>4. ComesFromSearch'
    BY <1>1, <1>2, <1>3 DEF RetrievalInv, ComesFromSearch
  <1> QED
    BY <1>1, <1>2, <1>3, <1>4, RankingStays DEF RetrievalInv, Searching, Reranking

LEMMA RetrievalKeeps ==
    ASSUME RetrievalInv, [Retrieving!Next]_retrievalVars
    PROVE  RetrievalInv'
  <1>1. CASE UNCHANGED retrievalVars
    BY <1>1, RankingStays DEF retrievalVars, RetrievalInv, ComesFromSearch
  <1>2. ASSUME NEW retryable \in BOOLEAN, Retrieving!EmbedFails(retryable) PROVE RetrievalInv'
    BY <1>2, EmbedFailsKeeps
  <1>3. ASSUME NEW blank \in BOOLEAN, Retrieving!Validate(blank) PROVE RetrievalInv'
    BY <1>3, ValidateKeeps
  <1>4. ASSUME NEW failure \in {"transient", "terminal", "unnormalized"},
               Retrieving!GcpFails(failure)
        PROVE  RetrievalInv'
    BY <1>4, GcpFailsKeeps
  <1>5. ASSUME NEW a \in Retrieving!Answers, Retrieving!GcpAnswers(a) \/ Retrieving!AwsAnswers(a)
        PROVE  RetrievalInv'
    BY <1>5, AnswersKeep
  <1>6. ASSUME NEW v \in {"none", "SUFFICIENT", "INSUFFICIENT"}, Retrieving!Evaluate(v)
        PROVE  RetrievalInv'
    BY <1>6, EvaluateKeeps
  <1> QED
    BY <1>1, <1>2, <1>3, <1>4, <1>5, <1>6, DeadlineKeeps, EarlyKeeps, SearchKeeps, AwsFailsKeeps,
       AwsIsNotBuiltKeeps
    DEF Retrieving!Next

(* Once the search found something, the one failure of a reranker that      *)
(* fails the retrieval is that the AWS client cannot be built after GCP     *)
(* failed.  Otherwise what it returns are the chunks that an accepted       *)
(* answer named or the search's first ones, for any corpus and any settings *)
(* that ask for a chunk.  RetrievalPipeline._rerank, CascadingReranker.     *)
THEOREM RerankingFallsBack == AnySpec => []RerankersFallBack
  <1> DEFINE Inv == part = "retrieval" => RetrievalInv
  <1>1. AnyInit => Inv
    BY RetrievalStarts DEF AnyInit
  <1>2. Inv /\ [AnyNext]_anyVars => Inv'
    BY Continues, RetrievalKeeps
  <1>3. Inv => RerankersFallBack
    BY DEF RetrievalInv, ComesFromSearch, RerankersFallBack, Retrieving!RerankersFallBack
  <1> QED
    BY <1>1, <1>2, <1>3, PTL DEF AnySpec

----------------------------------------------------------------------------
(* The character budget of a prompt: context_packer, the memory, Mode B and *)
(* the route.  The measures of a prompt are folds, and what a proof needs of*)
(* them is in Folding.                                                      *)

(* A step of the platform is a step of the budget, or leaves it alone.      *)
LEMMA BudgetSteps ==
    ASSUME [AnyNext]_anyVars
    PROVE  /\ part' = part
           /\ part = "budget" => [Next]_vars
           /\ part # "budget" => UNCHANGED vars
  <1>1. CASE AnyNext
    BY <1>1 DEF AnyNext
  <1>2. CASE UNCHANGED anyVars
    BY <1>2 DEF anyVars
  <1> QED
    BY <1>1, <1>2

(* The measures are folds.                                                  *)
Adding == INSTANCE Folding WITH
    Op <- LAMBDA a, b : a + b, Base <- 0, Weight <- LAMBDA x : 0

Measuring == INSTANCE Folding WITH
    Op <- LAMBDA a, t : a + t[1] + t[2], Base <- 0, Weight <- LAMBDA x : 0

Choosing == INSTANCE Folding WITH
    Op <- LAMBDA accepted, size :
            IF Len(accepted) < TopK /\ size <= input.cap - Chars(window) - Total(accepted)
            THEN Append(accepted, size) ELSE accepted,
    Base <- <<>>, Weight <- LAMBDA x : 0

Positive == Nat \ {0}

\* A turn keeps at least the beginning of its question, and may lose its answer.
Windows == Seq(Positive \X Nat)

LEMMA TotalIsFold == ASSUME NEW s PROVE Adding!Fold(s) = Total(s)
  BY Zenon DEF Adding!Fold, Adding!FoldLeft, FoldLeft, Adding!MapThenFoldSet, MapThenFoldSet,
    Adding!Max, Max, Total

LEMMA CharsIsFold == ASSUME NEW s PROVE Measuring!Fold(s) = Chars(s)
  BY Zenon DEF Measuring!Fold, Measuring!FoldLeft, FoldLeft, Measuring!MapThenFoldSet,
    MapThenFoldSet, Measuring!Max, Max, Chars

LEMMA SelectIsFold ==
    ASSUME NEW s PROVE Choosing!Fold(s) = Select(s, input.cap - Chars(window))
  BY Zenon DEF Choosing!Fold, Choosing!FoldLeft, FoldLeft, Choosing!MapThenFoldSet,
    MapThenFoldSet, Choosing!Max, Max, Select

(* They count what there is, an element at a time.                          *)
LEMMA TotalGrows ==
    ASSUME NEW s \in Seq(Positive)
    PROVE  /\ Total(s) \in Nat /\ Total(<<>>) = 0
           /\ \A n \in 0 .. Len(s) - 1 : Total(SubSeq(s, 1, n + 1)) = Total(SubSeq(s, 1, n)) + s[n + 1]
  <1>1. Adding!Fold(s) \in Nat
    <2>1. 0 \in Nat /\ \A a \in Nat, b \in Positive : a + b \in Nat
      BY DEF Positive
    <2> QED
      BY <2>1, Adding!FoldWithin
  <1>2. Adding!Fold(<<>>) = 0
    BY Adding!FoldEmpty
  <1>3. \A n \in 0 .. Len(s) - 1 :
           Adding!Fold(SubSeq(s, 1, n + 1)) = Adding!Fold(SubSeq(s, 1, n)) + s[n + 1]
    BY Adding!FoldOfPrefix
  <1> QED
    BY <1>1, <1>2, <1>3, TotalIsFold

LEMMA CharsGrow ==
    ASSUME NEW w \in Windows
    PROVE  /\ Chars(w) \in Nat /\ Chars(<<>>) = 0
           /\ \A t \in Positive \X Nat : Chars(Append(w, t)) = Chars(w) + t[1] + t[2]
  <1>1. Measuring!Fold(w) \in Nat
    <2>1. 0 \in Nat /\ \A a \in Nat, t \in Positive \X Nat : a + t[1] + t[2] \in Nat
      BY DEF Positive
    <2> QED
      BY <2>1, Measuring!FoldWithin DEF Windows
  <1>2. Measuring!Fold(<<>>) = 0
    BY Measuring!FoldEmpty
  <1>3. \A t \in Positive \X Nat : Measuring!Fold(Append(w, t)) = Measuring!Fold(w) + t[1] + t[2]
    BY Measuring!FoldAppend DEF Windows
  <1> QED
    BY <1>1, <1>2, <1>3, CharsIsFold

(* A prefix of items has less in it.                                        *)
LEMMA TotalShorter ==
    ASSUME NEW s \in Seq(Positive), NEW n \in 0 .. Len(s)
    PROVE  Total(SubSeq(s, 1, n)) + (Len(s) - n) <= Total(s)
  <1> DEFINE P(m) == Total(SubSeq(s, 1, m))
             S == {k \in Nat : n + k <= Len(s) => P(n) + k <= P(n + k)}
  <1>1. \A m \in 0 .. Len(s) : P(m) \in Nat
    <2> TAKE m \in 0 .. Len(s)
    <2>1. SubSeq(s, 1, m) \in Seq(Positive)
      OBVIOUS
    <2> QED
      BY <2>1, TotalGrows
  <1>2. \A m \in 0 .. Len(s) - 1 : P(m + 1) = P(m) + s[m + 1] /\ s[m + 1] \in Nat /\ s[m + 1] >= 1
    BY TotalGrows DEF Positive
  <1>3. P(Len(s)) = Total(s)
    <2>1. SubSeq(s, 1, Len(s)) = s
      OBVIOUS
    <2> QED
      BY <2>1
  <1> HIDE DEF P
  <1>4. 0 \in S
    BY <1>1
  <1>5. ASSUME NEW k \in Nat, k \in S PROVE k + 1 \in S
    <2> SUFFICES ASSUME n + (k + 1) <= Len(s) PROVE P(n) + (k + 1) <= P(n + (k + 1))
      OBVIOUS
    <2>1. n + k \in 0 .. Len(s) - 1 /\ n + k \in 0 .. Len(s) /\ (n + k) + 1 = n + (k + 1)
      OBVIOUS
    <2>2. P(n) + k <= P(n + k)
      BY <1>5, <2>1
    <2>3. P(n + (k + 1)) = P(n + k) + s[(n + k) + 1] /\ s[(n + k) + 1] \in Nat /\ s[(n + k) + 1] >= 1
      BY <1>2, <2>1
    <2>4. P(n) \in Nat /\ P(n + k) \in Nat
      BY <1>1, <2>1
    <2> QED
      BY <2>2, <2>3, <2>4
  <1>6. Len(s) - n \in Nat /\ n + (Len(s) - n) = Len(s)
    OBVIOUS
  <1>7. Len(s) - n \in S
    <2> HIDE DEF S
    <2> QED
      BY <1>4, <1>5, <1>6, Adding!Induction
  <1> QED
    BY <1>3, <1>6, <1>7 DEF P

LEMMA RenderedShorter ==
    ASSUME NEW s \in Seq(Positive), NEW n \in 0 .. Len(s)
    PROVE  /\ Rendered(SubSeq(s, 1, n)) \in Nat /\ Rendered(s) \in Nat
           /\ Rendered(SubSeq(s, 1, n)) <= Rendered(s)
           /\ n < Len(s) => Rendered(SubSeq(s, 1, n)) < Rendered(s)
           /\ Rendered(<<>>) = 0
           /\ Rendered(s) = 0 => s = <<>>
  <1> DEFINE r == SubSeq(s, 1, n)
  <1>1. r \in Seq(Positive) /\ Len(r) = n /\ (r = <<>> <=> n = 0) /\ (s = <<>> <=> Len(s) = 0)
    OBVIOUS
  <1>2. Total(r) \in Nat /\ Total(s) \in Nat /\ Total(r) + (Len(s) - n) <= Total(s)
    BY <1>1, TotalGrows, TotalShorter
  <1>3. Len(s) \in Nat /\ n \in Nat /\ Envelope \in Nat /\ PerItem \in Nat
    BY BudgetBounds
  <1>4. PerItem * n \in Nat /\ PerItem * Len(s) \in Nat /\ PerItem * n <= PerItem * Len(s)
    <2>1. PerItem * (Len(s) - n) >= 0 /\ PerItem * Len(s) = PerItem * n + PerItem * (Len(s) - n)
      BY <1>3
    <2> QED
      BY <2>1, <1>3
  <1>5. Rendered(r) = (IF n = 0 THEN 0 ELSE Envelope + Total(r) + PerItem * n)
    BY <1>1 DEF Rendered
  <1>6. Rendered(s) = (IF Len(s) = 0 THEN 0 ELSE Envelope + Total(s) + PerItem * Len(s))
    BY <1>1 DEF Rendered
  <1>7. Rendered(<<>>) = 0
    BY DEF Rendered
  <1>8. Total(s) >= Len(s)
    <2>1. SubSeq(s, 1, 0) = <<>> /\ 0 \in 0 .. Len(s)
      OBVIOUS
    <2>2. Total(<<>>) + (Len(s) - 0) <= Total(s) /\ Total(<<>>) = 0
      BY <2>1, TotalShorter, TotalGrows
    <2> QED
      BY <2>2, <1>2
  <1> DEFINE p == PerItem * n  q == PerItem * Len(s)
  <1>9. p \in Nat /\ q \in Nat /\ p <= q
    BY <1>4
  <1>10. /\ Rendered(r) = (IF n = 0 THEN 0 ELSE Envelope + Total(r) + p)
         /\ Rendered(s) = (IF Len(s) = 0 THEN 0 ELSE Envelope + Total(s) + q)
    BY <1>5, <1>6
  <1> HIDE DEF r, p, q
  <1>11. /\ Rendered(r) \in Nat /\ Rendered(s) \in Nat
    BY <1>2, <1>3, <1>9, <1>10
  <1>12. Rendered(r) <= Rendered(s) /\ (n < Len(s) => Rendered(r) < Rendered(s))
    BY <1>2, <1>3, <1>8, <1>9, <1>10
  <1>13. Rendered(s) = 0 => s = <<>>
    BY <1>1, <1>2, <1>3, <1>8, <1>9, <1>10
  <1> QED
    BY <1>7, <1>11, <1>12, <1>13 DEF r

(* So has a suffix of a window.                                             *)
LEMMA CharsSplit ==
    ASSUME NEW w \in Windows, NEW n \in 1 .. Len(w)
    PROVE  /\ Chars(w) = Chars(SubSeq(w, 1, n - 1)) + Chars(SubSeq(w, n, Len(w)))
           /\ Chars(SubSeq(w, 1, n - 1)) \in Nat
           /\ Chars(SubSeq(w, n, Len(w))) \in Nat
  <1> DEFINE A(m) == Chars(SubSeq(w, 1, m))
             B(m) == Chars(SubSeq(w, n, m))
             S == {k \in Nat : (n - 1) + k <= Len(w) =>
                                  A((n - 1) + k) = A(n - 1) + B((n - 1) + k)}
  <1>1. \A m \in 0 .. Len(w) : A(m) \in Nat /\ B(m) \in Nat
    <2> TAKE m \in 0 .. Len(w)
    <2>1. SubSeq(w, 1, m) \in Windows /\ SubSeq(w, n, m) \in Windows
      BY DEF Windows
    <2> QED
      BY <2>1, CharsGrow
  <1>2. B(n - 1) = 0
    <2>1. SubSeq(w, n, n - 1) = <<>>
      BY DEF Windows
    <2> QED
      BY <2>1, CharsGrow
  <1>3. \A m \in n - 1 .. Len(w) - 1 :
            /\ A(m + 1) = A(m) + w[m + 1][1] + w[m + 1][2]
            /\ B(m + 1) = B(m) + w[m + 1][1] + w[m + 1][2]
            /\ w[m + 1][1] \in Nat /\ w[m + 1][2] \in Nat
    <2> TAKE m \in n - 1 .. Len(w) - 1
    <2>1. /\ SubSeq(w, 1, m) \in Windows /\ SubSeq(w, n, m) \in Windows
          /\ w[m + 1] \in Positive \X Nat
          /\ SubSeq(w, 1, m + 1) = Append(SubSeq(w, 1, m), w[m + 1])
          /\ SubSeq(w, n, m + 1) = Append(SubSeq(w, n, m), w[m + 1])
      BY DEF Windows
    <2>2. w[m + 1][1] \in Nat /\ w[m + 1][2] \in Nat
      BY <2>1 DEF Positive
    <2> QED
      BY <2>1, <2>2, CharsGrow
  <1>4. n - 1 \in Nat /\ Len(w) \in Nat /\ n <= Len(w)
    BY DEF Windows
  <1>5. A(Len(w)) = Chars(w)
    <2>1. SubSeq(w, 1, Len(w)) = w
      BY DEF Windows
    <2> QED
      BY <2>1
  <1> HIDE DEF A, B
  <1>6. 0 \in S
    BY <1>1, <1>2, <1>4
  <1>7. ASSUME NEW k \in Nat, k \in S PROVE k + 1 \in S
    <2> SUFFICES ASSUME (n - 1) + (k + 1) <= Len(w)
                 PROVE  A((n - 1) + (k + 1)) = A(n - 1) + B((n - 1) + (k + 1))
      OBVIOUS
    <2>1. /\ (n - 1) + k \in n - 1 .. Len(w) - 1 /\ (n - 1) + k \in 0 .. Len(w)
          /\ ((n - 1) + k) + 1 = (n - 1) + (k + 1) /\ n - 1 \in 0 .. Len(w)
      BY <1>4
    <2>2. A((n - 1) + k) = A(n - 1) + B((n - 1) + k)
      BY <1>7, <2>1
    <2> DEFINE q == ((n - 1) + k) + 1
    <2>3. /\ A(q) = A((n - 1) + k) + w[q][1] + w[q][2]
          /\ B(q) = B((n - 1) + k) + w[q][1] + w[q][2]
          /\ w[q][1] \in Nat /\ w[q][2] \in Nat
      BY <1>3, <2>1
    <2>4. A(n - 1) \in Nat /\ A((n - 1) + k) \in Nat /\ B((n - 1) + k) \in Nat
      BY <1>1, <2>1
    <2>5. q = (n - 1) + (k + 1)
      BY <2>1
    <2> HIDE DEF q
    <2>6. A(q) = A(n - 1) + B(q)
      BY <2>2, <2>3, <2>4
    <2> QED
      BY <2>5, <2>6
  <1>8. Len(w) - (n - 1) \in Nat /\ (n - 1) + (Len(w) - (n - 1)) = Len(w)
    BY <1>4
  <1>9. Len(w) - (n - 1) \in S
    <2> HIDE DEF S
    <2> QED
      BY <1>6, <1>7, <1>8, Measuring!Induction
  <1>10. A(Len(w)) = A(n - 1) + B(Len(w))
    BY <1>8, <1>9
  <1>11. A(n - 1) \in Nat /\ B(Len(w)) \in Nat
    BY <1>1, <1>4
  <1> QED
    BY <1>5, <1>10, <1>11 DEF A, B

LEMMA CharsOfSome ==
    ASSUME NEW w \in Windows, w # <<>> PROVE Chars(w) >= 1
  <1>1. SubSeq(w, 1, Len(w) - 1) \in Windows /\ w[Len(w)] \in Positive \X Nat
        /\ w = Append(SubSeq(w, 1, Len(w) - 1), w[Len(w)])
    BY DEF Windows
  <1>2. w[Len(w)][1] \in Nat /\ w[Len(w)][1] >= 1 /\ w[Len(w)][2] \in Nat
    BY <1>1 DEF Positive
  <1>3. Chars(w) = Chars(SubSeq(w, 1, Len(w) - 1)) + w[Len(w)][1] + w[Len(w)][2]
    BY <1>1, CharsGrow
  <1>4. Chars(SubSeq(w, 1, Len(w) - 1)) \in Nat
    BY <1>1, CharsGrow
  <1> QED
    BY <1>2, <1>3, <1>4

----------------------------------------------------------------------------
(* pack_recent_window: nothing, the newest turns, or the beginning of the   *)
(* last one.                                                                *)
Newest(w, v) == \E n \in 1 .. Len(w) : v = SubSeq(w, n, Len(w))

LEMMA PackIsOneOf ==
    ASSUME NEW w \in Windows, NEW b \in Int
    PROVE  \/ Pack(w, b) = <<>>
           \/ \E n \in 1 .. Len(w) : /\ Pack(w, b) = SubSeq(w, n, Len(w))
                                     /\ Chars(SubSeq(w, n, Len(w))) <= b
           \/ /\ b > 0 /\ w # <<>> /\ Pack(w, b) = <<TruncateTurn(Last(w), b)>>
              /\ Chars(SubSeq(w, Len(w), Len(w))) > b
  <1> DEFINE fitting == {n \in 1 .. Len(w) : Chars(SubSeq(w, n, Len(w))) <= b}
  <1>0. Len(w) \in Nat /\ (w # <<>> => Len(w) \in 1 .. Len(w))
    BY DEF Windows
  <1>1. CASE b <= 0 \/ w = <<>>
    BY <1>1 DEF Pack
  <1>2. CASE b > 0 /\ w # <<>> /\ fitting = {}
    <2>1. Pack(w, b) = <<TruncateTurn(Last(w), b)>>
      BY <1>2 DEF Pack
    <2>2. ~(Chars(SubSeq(w, Len(w), Len(w))) <= b)
      BY <1>0, <1>2
    <2>3. Chars(SubSeq(w, Len(w), Len(w))) \in Nat
      BY <1>0, <1>2, CharsSplit
    <2> QED
      BY <1>2, <2>1, <2>2, <2>3
  <1>3. CASE b > 0 /\ w # <<>> /\ fitting # {}
    <2>0. ~(b <= 0 \/ w = <<>>) /\ fitting # {}
      BY <1>3
    <2>1. Pack(w, b) = SubSeq(w, Min(fitting), Len(w))
      BY <2>0, Zenon DEF Pack
    <2>2. fitting \in SUBSET Int /\ \A n \in fitting : 1 <= n
      BY <1>0
    <2>3. Min(fitting) = Adding!Min(fitting)
      BY Zenon DEF Min, Adding!Min
    <2>4. Adding!Min(fitting) \in fitting
      <3> HIDE DEF fitting
      <3> QED
        BY <1>3, <2>2, Adding!LeastIsThere
    <2>5. Min(fitting) \in fitting
      BY <2>3, <2>4
    <2> QED
      BY <2>1, <2>5
  <1> QED
    BY <1>1, <1>2, <1>3

LEMMA Truncates ==
    ASSUME NEW t \in Positive \X Nat, NEW b \in Nat, b > 0
    PROVE  /\ TruncateTurn(t, b) \in Positive \X Nat
           /\ TruncateTurn(t, b)[1] <= t[1] /\ TruncateTurn(t, b)[2] <= t[2]
           /\ TruncateTurn(t, b)[1] + TruncateTurn(t, b)[2] <= b
           /\ TruncateTurn(t, b)[1] < t[1] => TruncateTurn(t, b)[2] = 0
  <1>1. t[1] \in Nat /\ t[1] > 0 /\ t[2] \in Nat
    BY DEF Positive
  <1> DEFINE u == Smaller(t[1], b)  v == Smaller(t[2], b - u)
  <1>2. u \in Nat /\ u > 0 /\ u <= t[1] /\ u <= b /\ (u < t[1] => u = b)
    BY <1>1 DEF Smaller
  <1> HIDE DEF u
  <1>3. v \in Nat /\ v <= t[2] /\ v <= b - u /\ (u = b => v = 0)
    BY <1>1, <1>2 DEF Smaller
  <1>4. TruncateTurn(t, b) = <<u, v>>
    BY DEF TruncateTurn, u
  <1> HIDE DEF v
  <1> QED
    BY <1>2, <1>3, <1>4 DEF Positive

LEMMA CharsOfOne ==
    ASSUME NEW t \in Positive \X Nat PROVE Chars(<<t>>) = t[1] + t[2] /\ <<t>> \in Windows
  <1>1. <<>> \in Windows /\ Append(<<>>, t) = <<t>> /\ <<t>> \in Windows
    BY DEF Windows
  <1>2. Chars(Append(<<>>, t)) = Chars(<<>>) + t[1] + t[2] /\ Chars(<<>>) = 0
    BY <1>1, CharsGrow
  <1>3. t[1] \in Nat
    BY DEF Positive
  <1> QED
    BY <1>1, <1>2, <1>3

(* It fits, and it is shorter unless it is what was given.                  *)
LEMMA PackFits ==
    ASSUME NEW w \in Windows, NEW b \in Int
    PROVE  /\ Pack(w, b) \in Windows
           /\ Pack(w, b) # <<>> => Chars(Pack(w, b)) <= b
           /\ Pack(w, b) # w => Chars(Pack(w, b)) < Chars(w)
           /\ Chars(Pack(w, b)) \in Nat /\ Chars(w) \in Nat
  <1>0. Chars(w) \in Nat /\ Chars(<<>>) = 0 /\ <<>> \in Windows /\ (w # <<>> => Chars(w) >= 1)
    BY CharsGrow, CharsOfSome DEF Windows
  <1>1. CASE Pack(w, b) = <<>>
    BY <1>0, <1>1
  <1>2. ASSUME NEW n \in 1 .. Len(w), Pack(w, b) = SubSeq(w, n, Len(w)),
               Chars(SubSeq(w, n, Len(w))) <= b
        PROVE  /\ Pack(w, b) \in Windows /\ Chars(Pack(w, b)) <= b /\ Chars(Pack(w, b)) \in Nat
               /\ Pack(w, b) # w => Chars(Pack(w, b)) < Chars(w)
    <2>1. /\ Chars(w) = Chars(SubSeq(w, 1, n - 1)) + Chars(Pack(w, b))
          /\ Chars(SubSeq(w, 1, n - 1)) \in Nat /\ Chars(Pack(w, b)) \in Nat
      BY <1>2, CharsSplit
    <2>2. SubSeq(w, n, Len(w)) \in Windows /\ SubSeq(w, 1, n - 1) \in Windows
      BY DEF Windows
    <2>3. n = 1 => Pack(w, b) = w
      BY <1>2 DEF Windows
    <2>4. n # 1 => SubSeq(w, 1, n - 1) # <<>>
      BY DEF Windows
    <2>5. n # 1 => Chars(SubSeq(w, 1, n - 1)) >= 1
      BY <2>2, <2>4, CharsOfSome
    <2> QED
      BY <1>2, <2>1, <2>2, <2>3, <2>5
  <1>3. CASE /\ b > 0 /\ w # <<>> /\ Pack(w, b) = <<TruncateTurn(Last(w), b)>>
             /\ Chars(SubSeq(w, Len(w), Len(w))) > b
    <2> DEFINE t == TruncateTurn(Last(w), b)
    <2>1. Last(w) \in Positive \X Nat /\ Len(w) \in 1 .. Len(w)
      BY <1>3 DEF Windows, Last
    <2>2. t \in Positive \X Nat /\ t[1] + t[2] <= b
      BY <1>3, <2>1, Truncates
    <2>3. Chars(<<t>>) = t[1] + t[2] /\ <<t>> \in Windows
      BY <2>2, CharsOfOne
    <2>4. /\ Chars(w) = Chars(SubSeq(w, 1, Len(w) - 1)) + Chars(SubSeq(w, Len(w), Len(w)))
          /\ Chars(SubSeq(w, 1, Len(w) - 1)) \in Nat /\ Chars(SubSeq(w, Len(w), Len(w))) \in Nat
      BY <2>1, CharsSplit
    <2>5. Pack(w, b) = <<t>> /\ Chars(<<t>>) \in Nat
      BY <1>3, <2>3, CharsGrow
    <2> HIDE DEF t
    <2>6. Chars(<<t>>) <= b /\ Chars(<<t>>) < Chars(w)
      <3> DEFINE c == Chars(<<t>>)  d == Chars(SubSeq(w, Len(w), Len(w)))
                 f == Chars(SubSeq(w, 1, Len(w) - 1))
      <3>1. c <= b /\ c \in Nat /\ d > b /\ d \in Nat /\ f \in Nat /\ Chars(w) = f + d
        BY <1>3, <2>2, <2>3, <2>4, <2>5
      <3> HIDE DEF c, d, f
      <3>2. c < Chars(w)
        BY <3>1
      <3> QED
        BY <3>1, <3>2 DEF c
    <2> QED
      BY <2>3, <2>5, <2>6, <1>0
  <1> QED
    BY <1>0, <1>1, <1>2, <1>3, PackIsOneOf

(* Items are kept from the first one on.                                    *)
LEMMA PrefixKeeps ==
    ASSUME NEW s \in Seq(Positive), NEW lengths \in SUBSET (1 .. Len(s))
    PROVE  \E n \in {0} \cup lengths : /\ n \in 0 .. Len(s) /\ Prefix(s, lengths) = SubSeq(s, 1, n)
                                     /\ \A m \in lengths : m <= n
  <1> DEFINE S == {0} \cup lengths
  <1>1. S \in SUBSET Int /\ S # {} /\ Len(s) \in Int /\ \A n \in S : n <= Len(s) /\ n \in 0 .. Len(s)
    OBVIOUS
  <1> HIDE DEF S
  <1>2. Adding!Max(S) \in S /\ \A n \in S : n <= Adding!Max(S)
    BY <1>1, Adding!GreatestIsThere
  <1>3. Max(S) = Adding!Max(S)
    BY Zenon DEF Max, Adding!Max
  <1>4. Prefix(s, lengths) = SubSeq(s, 1, Max(S))
    BY DEF Prefix, S
  <1> QED
    BY <1>1, <1>2, <1>3, <1>4 DEF S

----------------------------------------------------------------------------
(* The added context of a prompt: get_chat_memory_context, and              *)
(* enforce_added_context_cap with the route around it.                      *)

BudgetTypes ==
    /\ at \in {"memory", "mode_b", "cap", "sent"}
    /\ input.cap \in Positive /\ input.message \in Positive
    /\ input.read \in BOOLEAN /\ input.cut \in BOOLEAN /\ truncated \in BOOLEAN
    /\ input.turns \in Windows /\ window \in Windows
    /\ input.corpus \in Seq(Positive) /\ input.docs \in Seq(Positive)
    /\ evidence \in Seq(Positive) /\ sources \in Seq(Positive)

\* What a packing may leave of the last turn.
CutTurn(turn, v) ==
    /\ Len(v) = 1 /\ v[1][1] <= turn[1] /\ v[1][2] <= turn[2]
    /\ v[1][1] < turn[1] => v[1][2] = 0

PackedTurns(turns, v) ==
    v = <<>> \/ Newest(turns, v) \/ (turns # <<>> /\ CutTurn(Last(turns), v))

\* Until the cap, the channels have what their own dependencies left in them.
Unbounded ==
    /\ at # "sent" => sources = input.docs
    /\ at \in {"memory", "mode_b"} => evidence = <<>> /\ selected_count = -1
    /\ at = "memory" \/ (at = "cap" /\ ~input.read) =>
         window = <<>> /\ evidence = <<>> /\ selected_count = -1
    /\ at = "mode_b" => input.read
    /\ at \in {"mode_b", "cap"} /\ input.read => window = Pack(input.turns, input.cap)

\* The count is the evidence's until the cap, and the outcome is true of that.
Reported ==
    at = "cap" =>
      /\ outcome # "current_message_oversized"
      /\ selected_count = Len(evidence) \/ (selected_count = -1 /\ evidence = <<>>)
      /\ evidence # <<>> => input.corpus # <<>>
      /\ outcome = "budget_starved" =>
            input.read /\ (window # input.turns \/ SelectionLost)
      /\ outcome # "budget_starved" /\ input.read => window = input.turns

\* Once a turn is cut, no window is the conversation's again.
Flagged ==
    at # "memory" /\ input.read => (truncated <=> input.cut \/ window # input.turns)

BudgetInv ==
    /\ BudgetTypes /\ PackedTurns(input.turns, window)
    /\ Unbounded /\ Reported /\ Flagged
    /\ HardCap /\ DropOrder /\ OutcomeIsTrue

LEMMA BoundedIsSeq ==
    ASSUME NEW S, NEW n, NEW s \in BoundedSeq(S, n) PROVE s \in Seq(S)
  BY DEF BoundedSeq, SeqOf

LEMMA BudgetStarts == Init => BudgetInv
  <1> SUFFICES ASSUME Init PROVE BudgetInv
    OBVIOUS
  <1>1. /\ input.cap \in Positive /\ input.message \in Positive
        /\ input.read \in BOOLEAN /\ input.cut \in BOOLEAN
    BY BudgetBounds DEF Init, Inputs, Positive
  <1>2. /\ input.turns \in Seq(Lengths \X Lengths) /\ input.corpus \in Seq(Lengths)
        /\ input.docs \in Seq(Lengths)
    BY BoundedIsSeq DEF Init, Inputs, Turns, Items
  <1>3. /\ input.turns \in Windows /\ input.corpus \in Seq(Positive)
        /\ input.docs \in Seq(Positive)
    <2>1. Lengths \subseteq Positive /\ Lengths \X Lengths \subseteq Positive \X Nat
      BY BudgetBounds DEF Positive
    <2>2. \A S, T : S \subseteq T => Seq(S) \subseteq Seq(T)
      OBVIOUS
    <2> QED
      BY <1>2, <2>1, <2>2 DEF Windows
  <1>4. BudgetTypes
    <2>1. <<>> \in Windows /\ <<>> \in Seq(Positive)
      BY DEF Windows
    <2> QED
      BY <1>1, <1>3, <2>1 DEF Init, BudgetTypes
  <1> QED
    BY <1>4 DEF Init, BudgetInv, PackedTurns, Unbounded, Reported, Flagged, HardCap, DropOrder,
        OutcomeIsTrue, Sent

(* What enforce_added_context_cap leaves: prefixes of the evidence and of   *)
(* the sources and a packed window, that fit together.                      *)
LEMMA CapDrops ==
    ASSUME BudgetTypes, NEW e, NEW w, NEW s,
           e = KeptEvidence, w = KeptWindow(e), s = KeptSources(w, e)
    PROVE  /\ \E n \in 0 .. Len(evidence) : e = SubSeq(evidence, 1, n)
           /\ \E n \in 0 .. Len(sources) : s = SubSeq(sources, 1, n)
           /\ w = window \/ \E b \in Int : w = Pack(window, b)
           /\ w # window => e = <<>>
           /\ s # sources => w = <<>> /\ e = <<>>
           /\ AddedContext(s, w, e) <= input.cap
  <1> DEFINE cap == input.cap
  <1>0. cap \in Nat /\ cap > 0 /\ window \in Windows
        /\ evidence \in Seq(Positive) /\ sources \in Seq(Positive)
    BY DEF BudgetTypes, Positive
  <1>1. PICK n \in 0 .. Len(evidence) :
           /\ e = SubSeq(evidence, 1, n)
           /\ n # 0 => AddedContext(sources, window, e) <= cap
    <2> DEFINE lengths == {m \in 1 .. Len(evidence) :
                             AddedContext(sources, window, SubSeq(evidence, 1, m)) <= cap}
    <2>1. e = Prefix(evidence, lengths) /\ lengths \in SUBSET (1 .. Len(evidence))
      BY DEF KeptEvidence
    <2>2. PICK m \in {0} \cup lengths : m \in 0 .. Len(evidence) /\ e = SubSeq(evidence, 1, m)
      <3> HIDE DEF lengths
      <3> QED
        BY <1>0, <2>1, PrefixKeeps
    <2> QED
      BY <2>2
  <1>2. e \in Seq(Positive) /\ (e # <<>> => n # 0)
    BY <1>0, <1>1
  <1>3. /\ Rendered(sources) \in Nat /\ Rendered(e) \in Nat /\ Rendered(<<>>) = 0
    <2>1. 0 \in 0 .. Len(sources) /\ 0 \in 0 .. Len(e)
      BY <1>0, <1>2
    <2> QED
      BY <1>0, <1>2, <2>1, RenderedShorter
  <1>4. w = window \/ (e = <<>> /\ \E b \in Int : b = cap - Rendered(sources) /\ w = Pack(window, b))
    <2>1. CASE AddedContext(sources, window, e) <= cap
      BY <2>1 DEF KeptWindow
    <2>2. CASE ~(AddedContext(sources, window, e) <= cap)
      <3>1. e = <<>> /\ w = Pack(window, cap - (Rendered(sources) + Rendered(e)))
        BY <2>2, <1>1, <1>2 DEF KeptWindow
      <3>2. cap - (Rendered(sources) + Rendered(e)) = cap - Rendered(sources)
              /\ cap - Rendered(sources) \in Int
        BY <1>0, <1>3, <3>1
      <3> QED
        BY <3>1, <3>2
    <2> QED
      BY <2>1, <2>2
  <1>5. w \in Windows /\ Chars(w) \in Nat /\ Chars(<<>>) = 0
    BY <1>0, <1>4, PackFits, CharsGrow
  <1>6. AddedContext(sources, w, e) <= cap \/ (w = <<>> /\ e = <<>>)
    <2>1. CASE AddedContext(sources, window, e) <= cap
      BY <2>1 DEF KeptWindow
    <2>2. CASE ~(AddedContext(sources, window, e) <= cap) /\ w # <<>>
      <3>1. e = <<>> /\ w = Pack(window, cap - (Rendered(sources) + Rendered(e)))
        BY <2>2, <1>1, <1>2 DEF KeptWindow
      <3>2. Rendered(e) = 0 /\ cap - (Rendered(sources) + Rendered(e)) \in Int
        BY <1>0, <1>3, <3>1
      <3>3. Chars(w) <= cap - (Rendered(sources) + Rendered(e))
        BY <1>0, <3>1, <3>2, <2>2, PackFits
      <3> QED
        BY <3>2, <3>3, <1>0, <1>3, <1>5 DEF AddedContext
    <2>3. CASE ~(AddedContext(sources, window, e) <= cap) /\ w = <<>>
      BY <2>3, <1>1, <1>2
    <2> QED
      BY <2>1, <2>2, <2>3
  <1>7. PICK k \in 0 .. Len(sources) :
           /\ s = SubSeq(sources, 1, k)
           /\ k # 0 => AddedContext(s, w, e) <= cap
           /\ AddedContext(sources, w, e) <= cap => k = Len(sources)
    <2> DEFINE lengths == {m \in 1 .. Len(sources) :
                             AddedContext(SubSeq(sources, 1, m), w, e) <= cap}
    <2>1. s = Prefix(sources, lengths) /\ lengths \in SUBSET (1 .. Len(sources))
      BY DEF KeptSources
    <2>2. PICK m \in {0} \cup lengths : /\ m \in 0 .. Len(sources) /\ s = SubSeq(sources, 1, m)
                                      /\ \A l \in lengths : l <= m
      <3> HIDE DEF lengths
      <3> QED
        BY <1>0, <2>1, PrefixKeeps
    <2>3. AddedContext(sources, w, e) <= cap /\ Len(sources) # 0 => Len(sources) \in lengths
      <3> SUFFICES ASSUME AddedContext(sources, w, e) <= cap, Len(sources) # 0
                   PROVE  Len(sources) \in lengths
        OBVIOUS
      <3>1. SubSeq(sources, 1, Len(sources)) = sources /\ Len(sources) \in 1 .. Len(sources)
        BY <1>0
      <3>2. AddedContext(SubSeq(sources, 1, Len(sources)), w, e) <= cap
        BY <3>1
      <3> QED
        BY <3>1, <3>2
    <2>4. AddedContext(sources, w, e) <= cap => m = Len(sources)
      <3> HIDE DEF lengths
      <3>1. Len(sources) \in Nat
        BY <1>0
      <3> QED
        BY <2>2, <2>3, <3>1
    <2> QED
      BY <2>2, <2>4
  <1>8. k = Len(sources) => s = sources
    BY <1>0, <1>7
  <1>9. s # sources => w = <<>> /\ e = <<>>
    BY <1>6, <1>7, <1>8
  <1>10. AddedContext(s, w, e) <= cap
    <2>1. CASE k # 0
      BY <2>1, <1>7
    <2>2. CASE k = 0 /\ s = sources
      <3>1. s = <<>>
        BY <1>0, <2>2, <1>7
      <3>2. AddedContext(sources, w, e) <= cap \/ AddedContext(s, w, e) = 0
        BY <3>1, <1>3, <1>5, <1>6 DEF AddedContext
      <3> QED
        BY <2>2, <3>2, <1>0
    <2>3. CASE k = 0 /\ s # sources
      <3>1. s = <<>> /\ w = <<>> /\ e = <<>>
        BY <1>0, <2>3, <1>7, <1>9
      <3>2. AddedContext(s, w, e) = 0
        BY <3>1, <1>3, <1>5 DEF AddedContext
      <3> QED
        BY <3>2, <1>0
    <2> QED
      BY <2>1, <2>2, <2>3
  <1> QED
    BY <1>1, <1>4, <1>7, <1>9, <1>10

(* A window that is packed again is of the same turns.                      *)
LEMMA PacksAgain ==
    ASSUME NEW turns \in Windows, NEW v \in Windows, PackedTurns(turns, v), NEW b \in Int
    PROVE  PackedTurns(turns, Pack(v, b))
  <1>1. CASE Pack(v, b) = <<>>
    BY <1>1 DEF PackedTurns
  <1>2. ASSUME NEW n \in 1 .. Len(v), Pack(v, b) = SubSeq(v, n, Len(v))
        PROVE  PackedTurns(turns, Pack(v, b))
    <2>1. CASE Newest(turns, v)
      <3>1. PICK m \in 1 .. Len(turns) : v = SubSeq(turns, m, Len(turns))
        BY <2>1 DEF Newest
      <3>2. /\ Len(v) = Len(turns) - m + 1 /\ m + n - 1 \in 1 .. Len(turns)
            /\ SubSeq(v, n, Len(v)) = SubSeq(turns, m + n - 1, Len(turns))
        BY <3>1 DEF Windows
      <3> QED
        BY <1>2, <3>2 DEF PackedTurns, Newest
    <2>2. CASE turns # <<>> /\ CutTurn(Last(turns), v)
      <3>1. Len(v) = 1 /\ n = 1
        BY <2>2 DEF CutTurn
      <3>2. SubSeq(v, 1, Len(v)) = v
        BY DEF Windows
      <3> QED
        BY <1>2, <3>1, <3>2
    <2>3. CASE v = <<>>
      BY <2>3
    <2> QED
      BY <2>1, <2>2, <2>3 DEF PackedTurns
  <1>3. CASE b > 0 /\ v # <<>> /\ Pack(v, b) = <<TruncateTurn(Last(v), b)>>
    <2> DEFINE u == TruncateTurn(Last(v), b)
    <2>1. Last(v) \in Positive \X Nat /\ b \in Nat
      BY <1>3 DEF Windows, Last
    <2>2. /\ u \in Positive \X Nat /\ u[1] <= Last(v)[1] /\ u[2] <= Last(v)[2]
          /\ u[1] < Last(v)[1] => u[2] = 0
      BY <1>3, <2>1, Truncates
    <2> HIDE DEF u
    <2>3. CASE Newest(turns, v)
      <3>1. PICK m \in 1 .. Len(turns) : v = SubSeq(turns, m, Len(turns))
        BY <2>3 DEF Newest
      <3>2. Last(v) = Last(turns) /\ turns # <<>>
        BY <3>1 DEF Windows, Last
      <3>3. CutTurn(Last(turns), <<u>>)
        BY <2>2, <3>2 DEF CutTurn
      <3> QED
        BY <1>3, <3>2, <3>3 DEF PackedTurns, u
    <2>4. CASE turns # <<>> /\ CutTurn(Last(turns), v)
      <3> DEFINE t == Last(turns)
      <3>1. Last(v) = v[1] /\ t \in Positive \X Nat
        BY <2>4 DEF CutTurn, Last, Windows
      <3>2. /\ u[1] \in Nat /\ u[2] \in Nat /\ t[1] \in Nat /\ t[2] \in Nat
            /\ v[1][1] \in Nat /\ v[1][2] \in Nat
        BY <2>1, <2>2, <3>1 DEF Positive
      <3>3. u[1] <= t[1] /\ u[2] <= t[2] /\ (u[1] < t[1] => u[2] = 0)
        BY <2>2, <2>4, <3>1, <3>2 DEF CutTurn
      <3>4. CutTurn(t, <<u>>)
        BY <3>3 DEF CutTurn
      <3> QED
        BY <1>3, <2>4, <3>4 DEF PackedTurns, u
    <2> QED
      BY <1>3, <2>3, <2>4 DEF PackedTurns
  <1> QED
    BY <1>1, <1>2, <1>3, PackIsOneOf

LEMMA AllTurns == ASSUME NEW turns \in Windows PROVE PackedTurns(turns, turns)
  <1>1. SubSeq(turns, 1, Len(turns)) = turns /\ (turns # <<>> => 1 \in 1 .. Len(turns))
    BY DEF Windows
  <1> QED
    BY <1>1 DEF PackedTurns, Newest

LEMMA SuffixOf ==
    ASSUME NEW turns \in Windows, NEW v, Newest(turns, v) PROVE IsSuffix(v, turns)
  <1> PICK n \in 1 .. Len(turns) : v = SubSeq(turns, n, Len(turns))
    BY DEF Newest
  <1> DEFINE T == Positive \X Nat
  <1>1. turns \in Seq(T)
    BY DEF Windows
  <1> HIDE DEF T
  <1>2. /\ v \in Seq(T) /\ Len(v) = Len(turns) - n + 1 /\ Len(v) \in 1 .. Len(turns)
        /\ \A i \in 1 .. Len(v) : v[i] = turns[n + i - 1]
    BY <1>1
  <1> DEFINE r == Reverse(v)  q == Reverse(turns)
  <1>3. /\ r \in Seq(T) /\ Len(r) = Len(v)
        /\ \A i \in 1 .. Len(v) : r[i] = v[(Len(v) - i) + 1]
    BY <1>2 DEF Reverse
  <1>4. /\ q \in Seq(T) /\ Len(q) = Len(turns)
        /\ \A i \in 1 .. Len(turns) : q[i] = turns[(Len(turns) - i) + 1]
    BY <1>1 DEF Reverse
  <1>5. \A i \in 1 .. Len(v) : r[i] = q[i]
    <2> TAKE i \in 1 .. Len(v)
    <2>1. (Len(v) - i) + 1 \in 1 .. Len(v) /\ i \in 1 .. Len(turns)
      BY <1>2
    <2>2. n + ((Len(v) - i) + 1) - 1 = (Len(turns) - i) + 1
      BY <1>1, <1>2
    <2> QED
      BY <1>2, <1>3, <1>4, <2>1, <2>2
  <1> HIDE DEF r, q
  <1>6. SubSeq(r, 1, Len(r)) = SubSeq(q, 1, Len(r)) /\ Len(r) <= Len(q)
    BY <1>1, <1>2, <1>3, <1>4, <1>5
  <1> QED
    BY <1>6 DEF IsSuffix, IsPrefix, r, q

LEMMA SelectionIsSeq ==
    ASSUME BudgetTypes PROVE Select(input.corpus, input.cap - Chars(window)) \in Seq(Positive)
  <1> DEFINE S == Seq(Positive)
  <1>1. <<>> \in S /\ \A accepted \in S, size \in Positive :
           (IF Len(accepted) < TopK /\ size <= input.cap - Chars(window) - Total(accepted)
            THEN Append(accepted, size) ELSE accepted) \in S
    OBVIOUS
  <1>2. input.corpus \in Seq(Positive)
    BY DEF BudgetTypes
  <1>3. Choosing!Fold(input.corpus) \in S
    <2> HIDE DEF S
    <2> QED
      BY <1>1, <1>2, Choosing!FoldWithin
  <1> QED
    BY <1>3, SelectIsFold

(* One step for each action.                                                *)
LEMMA BudgetStays == BudgetInv /\ UNCHANGED vars => BudgetInv'
  BY DEF BudgetInv, BudgetTypes, PackedTurns, CutTurn, Unbounded, Reported, Flagged, HardCap,
    DropOrder, OutcomeIsTrue, Sent, SelectionLost, MemoryIsWhole, AddedContext, vars

LEMMA NoMemoryKeeps == ASSUME BudgetInv, NoMemory PROVE BudgetInv'
  <1>1. /\ at = "memory" /\ ~input.read /\ at' = "cap"
        /\ UNCHANGED <<input, window, evidence, sources, truncated, selected_count>>
        /\ outcome' \notin {"budget_starved", "current_message_oversized"}
    BY DEF NoMemory
  <1>2. BudgetTypes' /\ PackedTurns(input.turns, window)'
    BY <1>1 DEF BudgetInv, BudgetTypes, PackedTurns
  <1>3. Unbounded' /\ Flagged' /\ HardCap' /\ DropOrder' /\ OutcomeIsTrue'
    BY <1>1 DEF BudgetInv, Unbounded, Flagged, HardCap, DropOrder, OutcomeIsTrue, Sent
  <1>4. Reported'
    BY <1>1 DEF BudgetInv, Unbounded, Reported
  <1> QED
    BY <1>2, <1>3, <1>4 DEF BudgetInv

LEMMA AssembleWindowKeeps == ASSUME BudgetInv, AssembleWindow PROVE BudgetInv'
  <1>1. /\ at = "memory" /\ input.read /\ at' = "mode_b"
        /\ window' = Pack(input.turns, input.cap)
        /\ truncated' = (input.cut \/ window' # input.turns)
        /\ UNCHANGED <<input, evidence, sources, outcome, selected_count>>
    BY DEF AssembleWindow
  <1>2. input.turns \in Windows /\ input.cap \in Int
    BY DEF BudgetInv, BudgetTypes, Positive
  <1>3. Pack(input.turns, input.cap) \in Windows
    BY <1>2, PackFits
  <1>4. BudgetTypes'
    BY <1>1, <1>3 DEF BudgetInv, BudgetTypes
  <1>5. PackedTurns(input.turns, window')
    BY <1>1, <1>2, AllTurns, PacksAgain
  <1>6. Unbounded' /\ Flagged' /\ Reported' /\ HardCap' /\ DropOrder' /\ OutcomeIsTrue'
    BY <1>1 DEF BudgetInv, Unbounded, Flagged, Reported, HardCap, DropOrder, OutcomeIsTrue, Sent
  <1> QED
    BY <1>1, <1>4, <1>5, <1>6 DEF BudgetInv

(* Mode B, on or off, adds evidence to a window that stays.                 *)
LEMMA ModeBKeeps ==
    ASSUME BudgetInv, WithoutModeB \/ ModeBFindsNothing \/ ModeBSelects PROVE BudgetInv'
  <1>1. /\ at = "mode_b" /\ at' = "cap" /\ UNCHANGED <<input, window, sources, truncated>>
    BY DEF WithoutModeB, ModeBFindsNothing, ModeBSelects
  <1>2. /\ evidence = <<>> /\ selected_count = -1 /\ input.read /\ <<>> \in Seq(Positive)
    BY <1>1 DEF BudgetInv, Unbounded
  <1>3. evidence' \in Seq(Positive)
    BY <1>2, SelectionIsSeq DEF BudgetInv, WithoutModeB, ModeBFindsNothing, ModeBSelects
  <1>4. BudgetTypes' /\ PackedTurns(input.turns, window)'
    BY <1>1, <1>3 DEF BudgetInv, BudgetTypes, PackedTurns
  <1>5. Unbounded' /\ Flagged' /\ HardCap' /\ DropOrder' /\ OutcomeIsTrue'
    BY <1>1, <1>2 DEF BudgetInv, Unbounded, Flagged, HardCap, DropOrder, OutcomeIsTrue, Sent
  <1>6. Reported'
    <2>1. CASE WithoutModeB
      BY <1>1, <1>2, <2>1 DEF WithoutModeB, MemoryOutcome, Reported
    <2>2. CASE ModeBFindsNothing
      <3>1. evidence' = <<>> /\ Len(<<>>) = 0 /\ selected_count' = 0
        BY <1>2, <2>2 DEF ModeBFindsNothing
      <3> QED
        BY <1>1, <1>2, <2>2, <3>1 DEF ModeBFindsNothing, MemoryOutcome, Reported
    <2>3. CASE ModeBSelects
      <3>1. /\ input.corpus # <<>> /\ selected_count' = Len(evidence')
            /\ outcome' = MemoryOutcome(IF evidence' = <<>> THEN "budget_starved" ELSE "none")
        BY <2>3 DEF ModeBSelects
      <3>2. Len(evidence') \in Nat
        BY <1>3
      <3>3. evidence' = <<>> => SelectionLost'
        BY <1>1, <3>1, <3>2 DEF SelectionLost
      <3> QED
        BY <1>1, <1>2, <3>1, <3>3 DEF MemoryOutcome, Reported
    <2> QED
      BY <2>1, <2>2, <2>3
  <1> QED
    BY <1>4, <1>5, <1>6 DEF BudgetInv

LEMMA OversizedKeeps == ASSUME BudgetInv, Oversized PROVE BudgetInv'
  <1>1. /\ at = "cap" /\ input.message >= input.cap /\ at' = "sent"
        /\ window' = <<>> /\ evidence' = <<>> /\ sources' = <<>>
        /\ truncated' = (truncated \/ window # <<>>)
        /\ outcome' = "current_message_oversized"
        /\ UNCHANGED <<input, selected_count>>
    BY DEF Oversized
  <1>2. <<>> \in Windows /\ <<>> \in Seq(Positive)
    BY DEF Windows
  <1>3. BudgetTypes'
    BY <1>1, <1>2 DEF BudgetInv, BudgetTypes
  <1>4. PackedTurns(input.turns, window)' /\ Unbounded' /\ Reported'
    BY <1>1 DEF BudgetInv, PackedTurns, Unbounded, Reported
  <1>5. AddedContext(<<>>, <<>>, <<>>) = 0
    BY <1>2, CharsGrow DEF AddedContext, Rendered
  <1>6. HardCap' /\ DropOrder' /\ OutcomeIsTrue'
    <2>1. input.message \in Nat /\ input.cap \in Nat
      BY DEF BudgetInv, BudgetTypes, Positive
    <2> QED
      BY <1>1, <1>5, <2>1 DEF HardCap, DropOrder, OutcomeIsTrue, Sent
  <1>7. Flagged'
    <2>1. input.turns = <<>> => Pack(input.turns, input.cap) = <<>>
      BY DEF Pack
    <2> QED
      BY <1>1, <2>1 DEF BudgetInv, BudgetTypes, Unbounded, Flagged
  <1> QED
    BY <1>3, <1>4, <1>6, <1>7 DEF BudgetInv

(* What was measured says what was dropped.                                 *)
LEMMA ReducedIsDropped ==
    ASSUME BudgetTypes, NEW e, NEW w, NEW s,
           \E n \in 0 .. Len(evidence) : e = SubSeq(evidence, 1, n),
           \E n \in 0 .. Len(sources) : s = SubSeq(sources, 1, n),
           w = window \/ \E b \in Int : w = Pack(window, b)
    PROVE  /\ e \in Seq(Positive) /\ s \in Seq(Positive) /\ w \in Windows
           /\ Chars(w) \in Nat /\ Chars(window) \in Nat
           /\ w # window => Chars(w) < Chars(window)
           /\ e # evidence => Len(e) < Len(evidence)
           /\ Reduced(s, w, e) <=> s # sources \/ w # window \/ e # evidence
  <1> PICK n \in 0 .. Len(evidence) : e = SubSeq(evidence, 1, n)
    OBVIOUS
  <1> PICK m \in 0 .. Len(sources) : s = SubSeq(sources, 1, m)
    OBVIOUS
  <1>0. window \in Windows /\ evidence \in Seq(Positive) /\ sources \in Seq(Positive)
    BY DEF BudgetTypes
  <1>1. /\ e \in Seq(Positive) /\ s \in Seq(Positive)
        /\ e # evidence => n < Len(evidence) /\ Len(e) < Len(evidence)
        /\ s # sources => m < Len(sources)
    BY <1>0
  <1>2. /\ w \in Windows /\ Chars(w) \in Nat /\ Chars(window) \in Nat
        /\ w # window => Chars(w) < Chars(window)
    BY <1>0, PackFits, CharsGrow
  <1>3. /\ Rendered(e) \in Nat /\ Rendered(evidence) \in Nat /\ Rendered(e) <= Rendered(evidence)
        /\ e # evidence => Rendered(e) < Rendered(evidence)
    BY <1>0, <1>1, RenderedShorter
  <1>4. /\ Rendered(s) \in Nat /\ Rendered(sources) \in Nat /\ Rendered(s) <= Rendered(sources)
        /\ s # sources => Rendered(s) < Rendered(sources)
    BY <1>0, <1>1, RenderedShorter
  <1>5. Reduced(s, w, e) <=>
           Rendered(s) + Chars(w) + Rendered(e)
             < Rendered(sources) + Chars(window) + Rendered(evidence)
    BY DEF Reduced, AddedContext
  <1> DEFINE x == Rendered(s)  y == Chars(w)  z == Rendered(e)
             xx == Rendered(sources)  yy == Chars(window)  zz == Rendered(evidence)
  <1>6. /\ x \in Nat /\ y \in Nat /\ z \in Nat /\ xx \in Nat /\ yy \in Nat /\ zz \in Nat
        /\ (x = xx /\ s = sources) \/ x < xx
        /\ (y = yy /\ w = window) \/ y < yy
        /\ (z = zz /\ e = evidence) \/ z < zz
    BY <1>2, <1>3, <1>4
  <1>7. Reduced(s, w, e) <=> x + y + z < xx + yy + zz
    BY <1>5
  <1> HIDE DEF x, y, z, xx, yy, zz
  <1>8. x + y + z < xx + yy + zz <=> x < xx \/ y < yy \/ z < zz
    BY <1>6
  <1>9. (x < xx => s # sources) /\ (y < yy => w # window) /\ (z < zz => e # evidence)
    <2>1. (s = sources => x = xx) /\ (w = window => y = yy) /\ (e = evidence => z = zz)
      BY DEF x, y, z, xx, yy, zz
    <2> QED
      BY <1>6, <2>1
  <1> QED
    BY <1>1, <1>2, <1>6, <1>7, <1>8, <1>9

LEMMA EnforceCapKeeps == ASSUME BudgetInv, EnforceCap PROVE BudgetInv'
  <1> DEFINE e == evidence'  w == window'  s == sources'
  <1>1. /\ at = "cap" /\ input.message < input.cap /\ at' = "sent"
        /\ e = KeptEvidence /\ w = KeptWindow(e) /\ s = KeptSources(w, e)
        /\ truncated' = (truncated \/ w # window)
        /\ outcome' = IF Reduced(s, w, e) THEN "budget_starved" ELSE outcome
        /\ UNCHANGED <<input, selected_count>>
    BY DEF EnforceCap
  <1>2. BudgetTypes /\ PackedTurns(input.turns, window) /\ Unbounded /\ Reported /\ Flagged
    BY DEF BudgetInv
  <1>3. /\ \E n \in 0 .. Len(evidence) : e = SubSeq(evidence, 1, n)
        /\ \E n \in 0 .. Len(sources) : s = SubSeq(sources, 1, n)
        /\ w = window \/ \E b \in Int : w = Pack(window, b)
        /\ w # window => e = <<>>
        /\ s # sources => w = <<>> /\ e = <<>>
        /\ AddedContext(s, w, e) <= input.cap
    <2> HIDE DEF e, w, s
    <2> QED
      BY <1>1, <1>2, CapDrops
  <1>4. /\ e \in Seq(Positive) /\ s \in Seq(Positive) /\ w \in Windows
        /\ Chars(w) \in Nat /\ Chars(window) \in Nat
        /\ w # window => Chars(w) < Chars(window)
        /\ e # evidence => Len(e) < Len(evidence)
        /\ Reduced(s, w, e) <=> s # sources \/ w # window \/ e # evidence
    <2> HIDE DEF e, w, s
    <2> QED
      BY <1>2, <1>3, ReducedIsDropped
  <1>5. input.turns \in Windows /\ window \in Windows /\ input.cap \in Nat /\ input.message \in Nat
          /\ sources = input.docs
    BY <1>1, <1>2 DEF BudgetTypes, Positive, Unbounded
  <1>6. BudgetTypes'
    BY <1>1, <1>2, <1>4 DEF BudgetTypes
  <1>7. PackedTurns(input.turns, w)
    BY <1>2, <1>3, <1>5, PacksAgain
  <1>8. Unbounded' /\ Reported'
    BY <1>1 DEF Unbounded, Reported
  \* A window that the cap cut is shorter than the conversation's.
  <1>9. input.read /\ (w # window \/ window # input.turns) => w # input.turns
    <2> SUFFICES ASSUME input.read, w # window \/ window # input.turns PROVE w # input.turns
      OBVIOUS
    <2>1. window = Pack(input.turns, input.cap) /\ input.cap \in Int
      BY <1>1, <1>2, <1>5 DEF Unbounded
    <2>2. /\ window # input.turns => Chars(window) < Chars(input.turns)
          /\ Chars(input.turns) \in Nat
      BY <2>1, <1>5, PackFits
    <2>3. Chars(w) < Chars(input.turns)
      BY <2>2, <1>4
    <2> QED
      BY <2>3, <2>2
  <1>10. Flagged'
    BY <1>1, <1>2, <1>9 DEF Flagged, BudgetTypes
  <1>11. HardCap'
    BY <1>1, <1>3, <1>5 DEF HardCap, Sent
  <1>12. DropOrder'
    BY <1>1, <1>2, <1>3, <1>5 DEF DropOrder, Sent, Unbounded
  <1>13. ASSUME outcome' = "budget_starved"
         PROVE  s # input.docs \/ (input.read /\ (w # input.turns \/ SelectionLost'))
    <2> SUFFICES ASSUME s = input.docs PROVE input.read /\ (w # input.turns \/ SelectionLost')
      OBVIOUS
    <2>1. CASE Reduced(s, w, e)
      <3>1. w # window \/ e # evidence
        BY <2>1, <1>4, <1>5
      <3>2. input.read
        <4> SUFFICES ASSUME ~input.read PROVE FALSE
          OBVIOUS
        <4>1. window = <<>> /\ evidence = <<>>
          BY <1>1, <1>2 DEF Unbounded
        <4>2. e = <<>>
          BY <4>1, <1>3
        <4>3. \A b \in Int : Pack(<<>>, b) = <<>>
          BY DEF Pack
        <4> QED
          BY <3>1, <4>1, <4>2, <4>3, <1>3
      <3>3. e # evidence => SelectionLost'
        <4> SUFFICES ASSUME e # evidence PROVE SelectionLost'
          OBVIOUS
        <4>1. Len(e) < Len(evidence) /\ evidence # <<>> /\ Len(evidence) \in Nat
          BY <1>2, <1>3, <1>4 DEF BudgetTypes
        <4>2. selected_count = Len(evidence) /\ input.corpus # <<>>
          BY <4>1, <1>1, <1>2 DEF Reported
        <4> QED
          BY <4>1, <4>2, <1>1 DEF SelectionLost
      <3> QED
        BY <3>1, <3>2, <3>3, <1>9
    <2>2. CASE ~Reduced(s, w, e)
      <3>1. w = window /\ e = evidence /\ outcome = "budget_starved"
        BY <2>2, <1>13, <1>1, <1>4
      <3>2. input.read /\ (window # input.turns \/ SelectionLost)
        BY <3>1, <1>1, <1>2 DEF Reported
      <3> QED
        BY <3>1, <3>2, <1>1 DEF SelectionLost
    <2> QED
      BY <2>1, <2>2
  <1>14. ASSUME outcome' \notin {"budget_starved", "current_message_oversized"}
         PROVE  s = input.docs /\ MemoryIsWhole'
    <2>1. s = sources /\ w = window /\ e = evidence /\ outcome # "budget_starved"
      BY <1>14, <1>1, <1>4
    <2>2. input.read => window = input.turns
      BY <2>1, <1>1, <1>2 DEF Reported
    <2>3. Len(evidence) = Max({0, selected_count})
      <3>1. Len(evidence) \in Nat
        BY <1>2 DEF BudgetTypes
      <3>2. selected_count = Len(evidence) \/ (selected_count = -1 /\ Len(evidence) = 0)
        BY <1>1, <1>2 DEF Reported
      <3> DEFINE S == {0, selected_count}
      <3>3. S \in SUBSET Int /\ S # {} /\ Len(evidence) \in S /\ \A n \in S : n <= Len(evidence)
        BY <3>1, <3>2
      <3> HIDE DEF S
      <3>4. Adding!Max(S) \in S /\ \A n \in S : n <= Adding!Max(S)
        BY <3>1, <3>3, Adding!GreatestIsThere
      <3>5. Max(S) = Adding!Max(S)
        BY Zenon DEF Max, Adding!Max
      <3>6. \A m \in S : (\A n \in S : n <= m) => m = Len(evidence)
        BY <3>1, <3>3
      <3>7. Max(S) = Len(evidence)
        BY <3>4, <3>5, <3>6
      <3> QED
        BY <3>7 DEF S
    <2> QED
      BY <2>1, <2>2, <2>3, <1>1, <1>5 DEF MemoryIsWhole
  <1>15. OutcomeIsTrue'
    <2>1. outcome' # "current_message_oversized"
      BY <1>1, <1>2 DEF Reported
    <2>2. ~(input.message >= input.cap)
      BY <1>1, <1>5
    <2> QED
      BY <1>1, <1>13, <1>14, <2>1, <2>2 DEF OutcomeIsTrue, Sent
  <1> QED
    BY <1>1, <1>6, <1>7, <1>8, <1>10, <1>11, <1>12, <1>15 DEF BudgetInv

LEMMA BudgetKeeps == ASSUME BudgetInv, [Next]_vars PROVE BudgetInv'
  BY BudgetStays, NoMemoryKeeps, AssembleWindowKeeps, ModeBKeeps, OversizedKeeps, EnforceCapKeeps
  DEF Next

\* The variables of the budget are idle in the other parts.
AnyBudgetInv ==
    IF part = "budget" THEN BudgetInv ELSE at = "memory" /\ window = <<>>

LEMMA BudgetIsKept == AnySpec => []AnyBudgetInv
  <1>1. AnyInit => AnyBudgetInv
    BY BudgetStarts DEF AnyInit, AnyBudgetInv, budgetIdle
  <1>2. AnyBudgetInv /\ [AnyNext]_anyVars => AnyBudgetInv'
    <2> SUFFICES ASSUME AnyBudgetInv, [AnyNext]_anyVars PROVE AnyBudgetInv'
      OBVIOUS
    <2>1. CASE part = "budget"
      BY <2>1, BudgetSteps, BudgetKeeps DEF AnyBudgetInv
    <2>2. CASE part # "budget"
      BY <2>2, BudgetSteps DEF AnyBudgetInv, vars
    <2> QED
      BY <2>1, <2>2
  <1> QED
    BY <1>1, <1>2, PTL DEF AnySpec

(* What enters the prompt, as rendered, never exceeds the cap, for all      *)
(* lengths, caps and numbers of items: whatever the three places that pack  *)
(* saw.  enforce_added_context_cap.                                         *)
THEOREM PromptIsBounded == AnySpec => []HardCap
  <1>1. AnyBudgetInv => HardCap
    BY DEF AnyBudgetInv, BudgetInv, HardCap, Sent
  <1> QED
    BY <1>1, BudgetIsKept, PTL

(* Sources are dropped after the memory, and evidence before the window,    *)
(* although each place that drops computes a budget of its own.             *)
(* enforce_added_context_cap.                                               *)
THEOREM SourcesDropLast == AnySpec => []DropOrder
  <1>1. AnyBudgetInv => DropOrder
    BY DEF AnyBudgetInv, BudgetInv, DropOrder, Sent
  <1> QED
    BY <1>1, BudgetIsKept, PTL

(* A window that was packed once or twice is the newest turns of the        *)
(* conversation, or the beginning of the last one.  pack_recent_window.     *)
THEOREM TurnsStayWhole == AnySpec => []WholeTurns
  <1>1. AnyBudgetInv => WholeTurns
    BY SuffixOf DEF AnyBudgetInv, BudgetInv, BudgetTypes, PackedTurns, CutTurn, WholeTurns
  <1> QED
    BY <1>1, BudgetIsKept, PTL

(* history_truncated is set exactly when a turn of the conversation is      *)
(* missing or cut in the prompt.  get_chat_memory_context and the route.    *)
THEOREM TruncationIsTold == AnySpec => []TruncatedIsTrue
  <1>1. AnyBudgetInv => TruncatedIsTrue
    BY DEF AnyBudgetInv, BudgetInv, Flagged, TruncatedIsTrue, Sent
  <1> QED
    BY <1>1, BudgetIsKept, PTL

(* memory_outcome is about the prompt that is sent: it is "budget_starved"  *)
(* only where something that was there to send is missing, and names no     *)
(* budget only where all that was read, selected and retrieved is in it.    *)
(* The route's override of what the memory dependency reported.             *)
THEOREM MemoryOutcomeIsTrue == AnySpec => []OutcomeIsTrue
  <1>1. AnyBudgetInv => OutcomeIsTrue
    BY DEF AnyBudgetInv, BudgetInv, OutcomeIsTrue, Sent
  <1> QED
    BY <1>1, BudgetIsKept, PTL
=============================================================================
