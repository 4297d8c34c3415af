--------------------------- MODULE ResponseCache ---------------------------
(***************************************************************************)
(* The Redis response cache of the non-streaming path.  An entry maps a     *)
(* tenant and the messages of a prompt to the reply that was generated for  *)
(* them.  Redis outlives the process and is best effort: a lookup may fail  *)
(* and read as a miss, a write may be lost, an entry expires after its TTL. *)
(***************************************************************************)
EXTENDS Integers, FiniteSets

VARIABLE cache

\* The contents of a set of message rows in sequence order: the messages list
\* that _cache_key fingerprints carries roles and contents, and no row ids.
Fingerprint(history) ==
    [i \in 1..Cardinality(history) |->
        LET m == CHOOSE m \in history :
                    Cardinality({x \in history : x.sequence <= m.sequence}) = i
        IN  <<m.role, m.content>>]

\* A key without the tenant prefix, and one that fingerprints the last user
\* message alone.
KeyWithoutTenant(tenant, history, text) == <<Fingerprint(history), text>>
KeyWithoutHistory(tenant, history, text) == <<tenant, text>>

CacheKey(tenant, history, text) == <<tenant, Fingerprint(history), text>>

CacheInit == cache = {}

Hits(key) == {e \in cache : e.key = key}

\* SET key value EX ttl: overwrites what the key held.
Store(key, reply) == cache' = (cache \ Hits(key)) \cup {[key |-> key, reply |-> reply]}

\* The TTL of an entry runs out.
Expire(e) ==
    /\ e \in cache
    /\ cache' = cache \ {e}
=============================================================================
