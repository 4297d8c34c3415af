----------------------------- MODULE MCChatTurn -----------------------------
EXTENDS ChatTurn, TLC

Symmetry == Permutations(Requests)

----------------------------------------------------------------------------
(* Two deployments in one run: concurrent clients over changing flags and   *)
(* evidence, two requests of them that do not stream; and clients that      *)
(* wait, of one conversation, that stream without retrieval.                *)

Arrived == {r \in Requests : pc[r] # "idle"}

Arrivals ==
    IF serial
    THEN [stream : {TRUE}, tenant : {CHOOSE t \in Tenants : TRUE},
          conversation : {CHOOSE c \in Conversations : TRUE}, is_new : BOOLEAN, message : Texts]
    ELSE IF Cardinality(Arrived) < 2 THEN {p \in Params : ~p.stream} ELSE {}

HistoriesInit == Init /\ (serial => ~augmented)

\* The steps of Next, for these arrivals.
HistoriesNext ==
    \/ \E r \in Requests \ Arrived, p \in Arrivals : Arrive(r, p)
    \/ \E r \in Arrived :
          \/ HandlerStep(r) \/ Failure(r)
          \/ ProviderStreams(r)
          \/ Disconnect(r) \/ DisconnectInCommit(r)
    \/ Restart \/ Reingest \/ CacheExpires

HistoriesSpec == HistoriesInit /\ [][HistoriesNext]_vars

\* Flags and evidence change for the clients that do not wait: the others have no retrieval.
OneDeployment == serial => UNCHANGED <<corpus, restarts>>
=============================================================================
