----------------------------- MODULE ReplyStream -----------------------------
(***************************************************************************)
(* What a streaming client is promised of the provider layer: the chunks of *)
(* one provider, in order and without gaps, and then one verdict.  "final"  *)
(* comes with the whole answer, which is what the client has been sent, but *)
(* for white space at its ends.                                             *)
(***************************************************************************)
EXTENDS Naturals, Sequences

CONSTANT Providers

VARIABLES
    blank,    \* the chunks of white space alone
    reply,    \* the chunks the client has; <<p, i>> is the i-th of provider p, <<p, 0>> a whole answer
    verdict,  \* how the stream ended
    answer    \* the content of the final result

streamVars == <<blank, reply, verdict, answer>>

Init ==
    /\ reply = <<>>
    /\ verdict = "none"
    /\ answer = <<>>

\* The next chunk of the provider that sent the others, or a whole answer in one chunk.
Deliver(p) ==
    /\ verdict = "none"
    /\ \/ /\ \A i \in 1..Len(reply) : reply[i] = <<p, i>>
          /\ reply' = Append(reply, <<p, Len(reply) + 1>>)
       \/ /\ reply = <<>>
          /\ reply' = << <<p, 0>> >>
    /\ UNCHANGED <<blank, verdict, answer>>

\* The chunks from the first to the last that is kept.
Trimmed ==
    \E first, last \in 1..Len(reply) :
        /\ first <= last
        /\ \A i \in 1..Len(reply) : i \notin first..last => reply[i] \in blank
        /\ answer' = SubSeq(reply, first, last)

\* An answer without any text: of the provider that sent the white space, if there was any.
Wordless ==
    \E p \in Providers :
        /\ \A i \in 1..Len(reply) : reply[i] \in blank /\ reply[i][1] = p
        /\ answer' = << <<p, 0>> >>

Finish ==
    /\ verdict = "none"
    /\ verdict' = "final"
    /\ Trimmed \/ Wordless
    /\ UNCHANGED <<blank, reply>>

Abort ==
    /\ verdict = "none"
    /\ verdict' \in {"error", "cancelled"}
    /\ UNCHANGED <<blank, reply, answer>>

Next == (\E p \in Providers : Deliver(p)) \/ Finish \/ Abort

Spec == Init /\ [][Next]_streamVars
=============================================================================
