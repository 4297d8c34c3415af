---------------------------- MODULE MCStreamedTurn ----------------------------
EXTENDS StreamedTurn

\* Answers without white space, that begin or end with it, and that are nothing else.
MCBlankSets ==
    {{}, {<<p, 1>> : p \in Providers}, {<<p, MaxChunks>> : p \in Providers},
     Providers \X (1..MaxChunks)}
=============================================================================
