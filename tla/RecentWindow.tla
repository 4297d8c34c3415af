---------------------------- MODULE RecentWindow ----------------------------
(***************************************************************************)
(* The window of past messages a prompt carries, as a set of message rows:  *)
(* the order of a prompt is the order of the rows' sequence numbers.        *)
(***************************************************************************)
EXTENDS Integers, FiniteSets

CONSTANTS
    MaxRows,       \* conversation_history_max_rows, the LIMIT of the SQL read
    MaxMessages    \* conversation_history_max_messages

ASSUME WindowBounds == MaxRows \in Nat \ {0} /\ MaxMessages \in Nat \ {0}

\* ORDER BY sequence DESC LIMIT n, as a set.
Newest(rows, n) == {m \in rows : Cardinality({x \in rows : x.sequence > m.sequence}) < n}

\* a is the row right after m.
Follows(rows, a, m) ==
    /\ a.sequence > m.sequence
    /\ \A x \in rows : ~(m.sequence < x.sequence /\ x.sequence < a.sequence)

\* group_turns: a user row and the assistant row right after it are one turn;
\* every other row is a unit of its own, which the window filters out.
Turns(rows) ==
    {t \in {m \in rows : m.role = "user"} \X {m \in rows : m.role = "assistant"} :
        Follows(rows, t[2], t[1])}

\* The bounds cut wherever they fall.
WindowOfRows(rows) == Newest(Newest(rows, MaxRows), MaxMessages)

\* The turns that the message bound keeps, the oldest one snapped back to its
\* user row when the bound falls inside it.
MaterializedWindow(rows) ==
    LET read == Newest(rows, MaxRows)
        kept == {t \in Turns(read) : t[2] \in Newest(read, MaxMessages)}
    IN  {t[1] : t \in kept} \cup {t[2] : t \in kept}

\* What the character bounds leave of a window: they drop its oldest rows, two at a time,
\* as a window is a sequence of whole turns.
NewestTurns(window) ==
    {{}} \cup {Newest(window, Cardinality(window) - 2 * k) : k \in 0..(Cardinality(window) \div 2)}
=============================================================================
