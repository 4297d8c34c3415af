------------------------------- MODULE Feedback -------------------------------
(***************************************************************************)
(* The ratings of one answer: PUT /chat/messages/{id}/feedback.  A request *)
(* selects the successful usage events of the message, decides in memory,  *)
(* and commits the columns it changed; requests interleave between the     *)
(* SELECT and the COMMIT, and a COMMIT may fail or be lost.                *)
(***************************************************************************)
EXTENDS Integers, Sequences, FiniteSets

CONSTANTS
    Puts,         \* the requests
    Ratings

VARIABLES
    events,       \* how many successful usage events the message has
    row,          \* the rating of the one there is, and when it was set
    wants,        \* the rating of each request
    own,          \* whether the request is of the message's tenant
    at,           \* where each request is
    seen,         \* the row each selected
    stamped,      \* the time each put in its row
    answers,      \* what each was answered
    clock,
    stored        \* every row there has been

vars == <<events, row, wants, own, at, seen, stamped, answers, clock, stored>>

Unrated == [rating |-> "none", at |-> 0]
NoAnswer == [status |-> 0, row |-> Unrated]

Init ==
    /\ events \in {0, 1, 2}
    /\ row = Unrated
    /\ wants \in [Puts -> Ratings] /\ own \in [Puts -> BOOLEAN]
    /\ at = [p \in Puts |-> "start"] /\ seen = [p \in Puts |-> Unrated]
    /\ stamped = [p \in Puts |-> 0] /\ answers = [p \in Puts |-> NoAnswer]
    /\ clock = 0 /\ stored = {row}

Goto(p, place) == at' = [at EXCEPT ![p] = place]
Answer(p, status, shown) ==
    /\ Goto(p, "answered")
    /\ answers' = [answers EXCEPT ![p] = [status |-> status, row |-> shown]]

\* No two requests read the clock in the same microsecond.
Tick == clock' = clock + 1

Found(p) == IF own[p] THEN events ELSE 0

\* Nothing is decided by the time of a rating but that there is one.
SameRating(p) == row.rating = wants[p] /\ row.at # 0

\* The columns to write: a second rating keeps the time of the first.
ChangesKeepingTime(p, now) == IF row.at # 0 THEN row.at ELSE now

Changes(p, now) == now

Select(p) ==
    /\ at[p] = "start"
    /\ Tick
    /\ \/ Found(p) = 0 /\ Answer(p, 404, Unrated) /\ UNCHANGED <<seen, stamped>>
       \/ Found(p) > 1 /\ Answer(p, 409, Unrated) /\ UNCHANGED <<seen, stamped>>
       \/ Found(p) = 1 /\ SameRating(p) /\ Answer(p, 200, row) /\ UNCHANGED <<seen, stamped>>
       \/ /\ Found(p) = 1 /\ ~SameRating(p)
          /\ seen' = [seen EXCEPT ![p] = row]
          /\ stamped' = [stamped EXCEPT ![p] = Changes(p, clock')]
          /\ Goto(p, "commit")
          /\ UNCHANGED answers
    /\ UNCHANGED <<events, row, wants, own, stored>>

\* The UPDATE names the columns that differ from what was selected.
Updated(p) ==
    [rating |-> IF seen[p].rating = wants[p] THEN row.rating ELSE wants[p],
     at |-> IF seen[p].at = stamped[p] THEN row.at ELSE stamped[p]]

Commit(p) ==
    /\ at[p] = "commit"
    /\ row' = Updated(p)
    /\ stored' = stored \cup {row'}
    /\ \/ Answer(p, 200, [rating |-> wants[p], at |-> stamped[p]])
       \/ Answer(p, 500, Unrated)     \* the acknowledgement is lost
    /\ UNCHANGED <<events, wants, own, seen, stamped, clock>>

CommitFails(p) ==
    /\ at[p] = "commit"
    /\ Answer(p, 500, Unrated)
    /\ UNCHANGED <<events, row, wants, own, seen, stamped, clock, stored>>

Next == \E p \in Puts : Select(p) \/ Commit(p) \/ CommitFails(p)

Spec == Init /\ [][Next]_vars

----------------------------------------------------------------------------

(* However the requests interleave, a rating and its time belong together: *)
(* the row is what one request decided, never the rating of one with the   *)
(* time of another, and a request that was told 200 was told of a row that *)
(* was stored (put_chat_feedback).                                         *)
RatingsAreWhole ==
    /\ row = Unrated \/ \E p \in Puts : row = [rating |-> wants[p], at |-> stamped[p]]
    /\ \A p \in Puts : answers[p].status = 200 => answers[p].row \in stored
=============================================================================
