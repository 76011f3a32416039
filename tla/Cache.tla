------------------------------- MODULE Cache --------------------------------
(***************************************************************************)
(* The transient cache of RagCore (ragcore.infrastructure.cache): entries  *)
(* of a Redis shared by every organisation, each with an expiry, written   *)
(* and read through keys that carry the organisation.                      *)
(***************************************************************************)
EXTENDS Values, Integers, FiniteSets

CONSTANTS
    Tenants,       \* organisations
    Keys,          \* keys callers use, blank ones and padded ones included
    Strip,         \* Keys -> stripped key, "" when blank
    Entries,       \* values callers cache
    Configured,    \* whether a host is set: RedisTransientCache, else NullCache
    MAX_TTL,       \* MAX_TTL_SECONDS
    MaxTime,       \* bound: the clock stops here
    MaxPuts        \* bound: successful writes

ASSUME CacheAssumption == /\ Strip \in [Keys -> STRING]
                          /\ MAX_TTL \in Nat \ {0}
                          /\ MaxTime \in Nat
                          /\ MaxPuts \in Nat

VARIABLES
    redis,    \* cache key -> [value, expires], what the server holds (external)
    client,   \* "none" or "built": self._client
    clock,
    reply,    \* what the last get returned, and to whom
    puts      \* history: every put that was accepted

cacheVars == <<redis, client, clock, reply, puts>>

CacheInit == /\ redis = <<>>
             /\ client = "none"
             /\ clock = 0
             /\ reply = NULL
             /\ puts = {}

-----------------------------------------------------------------------------
(* An unprefixed key, shared by every organisation. *)
SharedKey(tenant, key) == <<"synthia", Strip[key]>>

(* cache_key; a blank key raises before it. *)
CacheKey(tenant, key) == <<tenant, Strip[key]>>

Blank(key) == Strip[key] = ""

(* _validate, the size of the value left out *)
Accepts(key, ttl) == ~Blank(key) /\ 0 < ttl /\ ttl <= MAX_TTL

(* _connect: the client is built once and kept; a failure to build it leaves  *)
(* none, and the operation is a miss.                                         *)
Connect(reached) ==
    /\ client = "none" /\ ~Configured => ~reached
    /\ client' = IF reached THEN "built" ELSE client

(* What the server answers a GET with (external): nothing past its expiry. *)
Live(k) == k \in DOMAIN redis /\ clock < redis[k].expires

(* get: no client, a failing server and a blank key are all misses. *)
Get(tenant, key) ==
    \E reached, answered \in BOOLEAN :
        /\ Connect(reached)
        /\ client = "built" => reached
        /\ reply' = [tenant |-> tenant, key |-> key, at |-> clock,
                     value |-> IF reached /\ answered /\ ~Blank(key) /\ Live(CacheKey(tenant, key))
                               THEN redis[CacheKey(tenant, key)].value ELSE NULL]
        /\ UNCHANGED <<redis, clock, puts>>

(* put: refused by _validate, or one SET with its expiry, or lost. *)
Put(tenant, key, value, ttl) ==
    /\ Accepts(key, ttl)
    /\ Cardinality(puts) < MaxPuts
    /\ \E reached, answered \in BOOLEAN :
        /\ Connect(reached)
        /\ client = "built" => reached
        /\ LET k == CacheKey(tenant, key) IN
           redis' = IF reached /\ answered
                    THEN [x \in DOMAIN redis \cup {k} |->
                             IF x = k THEN [value |-> value, expires |-> clock + ttl]
                             ELSE redis[x]]
                    ELSE redis
    /\ puts' = puts \cup {[tenant |-> tenant, key |-> Strip[key], value |-> value, at |-> clock]}
    /\ UNCHANGED <<clock, reply>>

(* invalidate: a failure leaves the entry to expire. *)
Invalidate(tenant, key) ==
    \E reached, answered \in BOOLEAN :
        /\ Connect(reached)
        /\ client = "built" => reached
        /\ redis' = IF reached /\ answered /\ ~Blank(key)
                    THEN [x \in DOMAIN redis \ {CacheKey(tenant, key)} |-> redis[x]]
                    ELSE redis
        /\ UNCHANGED <<clock, reply, puts>>

(* Time passes; the server may drop anything it holds (external). *)
Pass ==
    /\ clock < MaxTime
    /\ clock' = clock + 1
    /\ \E kept \in SUBSET DOMAIN redis : redis' = [x \in kept |-> redis[x]]
    /\ UNCHANGED <<client, reply, puts>>

CacheNext ==
    \/ \E t \in Tenants, k \in Keys : Get(t, k) \/ Invalidate(t, k)
    \/ \E t \in Tenants, k \in Keys, v \in Entries, ttl \in 0..(MAX_TTL + 1) : Put(t, k, v, ttl)
    \/ Pass

-----------------------------------------------------------------------------
(* A value is only ever served to the organisation that cached it, under the  *)
(* key it was cached under (however padded), and never later than the window  *)
(* of the work it was cached for: cache_key and _validate.                    *)
ServesOnlyFreshOwn ==
    reply # NULL /\ reply.value # NULL =>
        \E p \in puts : /\ p.tenant = reply.tenant
                        /\ p.key = Strip[reply.key]
                        /\ p.value = reply.value
                        /\ reply.at < p.at + MAX_TTL

=============================================================================
