---------------------------- MODULE MCExperiments ----------------------------
(***************************************************************************)
(* All of the experiments, one at a time, with small values for their      *)
(* constants: those of Contexts and the fact store.                        *)
(***************************************************************************)
EXTENDS FactLifecycle, Contexts, TLC

\* Embeddings are refused past two batches; an oracle costs as much as two arms.
MCLimits ==
    [embedding_batch |-> 2, semantic_extraction |-> 1, generation |-> 4, total |-> 7]
MCArmCost == ("A" :> 1) @@ ("B" :> 1) @@ ("ORACLE-GOLD" :> 2)
MCPhaseLimits ==
    [development |-> [attempts |-> 3, cost |-> 4], small |-> [attempts |-> 2, cost |-> 2],
     large |-> [attempts |-> 3, cost |-> 3]]
MCFirstAttempts == [small |-> 1, large |-> 2]

\* What the dataset says of each event: a value, a secret, a withdrawal, and a new value that the
\* query itself brings; and what an extractor may make of them.
GoldFact(slot, said, active, prohibited) ==
    [key |-> slot, value |-> said, active |-> active, eligible |-> ~prohibited,
     prohibited |-> prohibited]
MCGoldFacts ==
    <<GoldFact("k", "old", TRUE, FALSE), GoldFact("j", "secret", TRUE, TRUE),
      GoldFact("k", "old", FALSE, FALSE), GoldFact("k", "new", TRUE, FALSE)>>

Fact(slot, said, confidence, active) ==
    [key |-> slot, value |-> said, confidence |-> confidence, active |-> active]
NoFact == Fact("none", "none", 0, FALSE)
MCExtracts ==
    <<{NoFact, Fact("k", "old", 2, TRUE)},
      {NoFact, Fact("k", "wrong", 1, TRUE), Fact("j", "secret", 1, TRUE),
       Fact("j", "secret", 2, TRUE)},
      {NoFact, Fact("k", "old", 2, FALSE)},
      {NoFact, Fact("k", "new", 1, TRUE), Fact("k", "new", 2, TRUE)}>>

MCDualSettings ==
    [Length |-> <<4, 2, 1, 1>>, Query |-> 4, MaxChars |-> 3, Overlap |-> 1, MaxChunks |-> 2,
     Windows |-> {1, 3}, TopK |-> 2, Depth |-> 2, Rrf |-> 10, Total |-> 8, Reserve |-> 1,
     SystemCost |-> 1, SystemTokens |-> 1, UserCost |-> 1, QueryTokens |-> 2, FactCost |-> 1,
     MemoryCap |-> 4, Tiers |-> <<<<2, 50>>, <<0, 100>>>>, Extracts |-> MCExtracts,
     GoldFacts |-> MCGoldFacts, Thresholds |-> {1, 2}]

MCEpisodicSettings ==
    [Length |-> <<2, 10, 1, 1, 1, 1>>, Breaks |-> {1, 2}, Evaluated |-> {3},
     Candidates |-> {[chars |-> 3, overlap |-> 1, window |-> 1],
                     [chars |-> 2, overlap |-> 0, window |-> 2]},
     Frozen |-> [chars |-> 3, overlap |-> 1, window |-> 2], Variants |-> {"D1", "D2"},
     MaxChunks |-> 2, MaxPerSource |-> 1, TopK |-> 2, MaxRanked |-> 3, Total |-> 15,
     SystemCost |-> 1, ConversationTokens |-> 11, ActiveTokens |-> 5, EpisodicTokens |-> 6,
     Reserve |-> 1, HeaderCost |-> 1, LineCost |-> 1, QueryTokens |-> 4, QueryCost |-> 1]

----------------------------------------------------------------------------

MCInit == part \in ContextParts \cup {"facts"} /\ Init /\ ContextInit

MCNext == ContextNext /\ IF part = "facts" THEN Next ELSE UNCHANGED vars

\* The properties of FactLifecycle hold of its idle variables as well.
MCSpec == MCInit /\ [][MCNext]_<<contextVars, vars>>
=============================================================================
