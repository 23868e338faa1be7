----------------------------- MODULE AbsorbCache -----------------------------
(* The cache of absorbed answers (absorbcache.go, and absorb.go's entry that   *)
(* asks it): a request whose key is known and whose answer is young enough is  *)
(* answered by a replay; every other one is dispatched, and a successful,      *)
(* fully buffered answer is stored, the least recently used entry giving way   *)
(* when the cache is over its bound.                                           *)
EXTENDS Integers, FiniteSets

CONSTANTS
    CacheReqs,    \* requests: [key |-> what the key is made of, rest |-> all it leaves out]
    CacheBound,   \* absorbCacheMaxEntries
    CacheTtl,     \* the time an answer may be replayed
    LastTick,     \* bound of the model: the clock stops here
    Dispatches    \* bound of the model: the dispatches it makes

ASSUME AbsorbCacheAssumption ==
    CacheBound \in Nat \ {0} /\ CacheTtl \in Nat /\ LastTick \in Nat /\ Dispatches \in Nat

VARIABLES
    cacheEntries,  \* g.absorbCache.entries
    cacheNow,      \* the clock
    cacheAsking,   \* requests that missed and are being dispatched, one per dispatch
    cacheReplay,   \* the last replay: the request and the one its answer was made for
    cacheSpent     \* dispatches made

absorbCacheVars == <<cacheEntries, cacheNow, cacheAsking, cacheReplay, cacheSpent>>

NoReplay == [asked |-> {}, madeFor |-> {}]

(* cacheKeyForRequest: the model, the sampling parameters it lists and the     *)
(* messages. What else the body says, and the path, is not part of it.         *)
CacheKey(r) == r.key

CacheEntry == [key : {r.key : r \in CacheReqs}, madeFor : CacheReqs, storedAt : 0..LastTick, lastUsed : 0..LastTick]
Expired(e) == cacheNow - e.storedAt > CacheTtl

AbsorbCacheInit ==
    /\ cacheEntries = {}
    /\ cacheNow = 0
    /\ cacheAsking = {}
    /\ cacheReplay = NoReplay
    /\ cacheSpent = 0

(* dispatchAbsorb, first half: a young entry is replayed and counts as used;   *)
(* an old one is deleted and the request goes out as if there had been none.   *)
Replay(r) ==
    \E e \in cacheEntries :
        /\ e.key = CacheKey(r)
        /\ ~Expired(e)
        /\ cacheEntries' = (cacheEntries \ {e}) \cup {[e EXCEPT !.lastUsed = cacheNow]}
        /\ cacheReplay' = [asked |-> {r}, madeFor |-> {e.madeFor}]
        /\ UNCHANGED <<cacheNow, cacheAsking, cacheSpent>>

AskUpstream(r) ==
    /\ cacheSpent < Dispatches
    /\ \A e \in cacheEntries : e.key = CacheKey(r) => Expired(e)
    /\ cacheEntries' = {e \in cacheEntries : e.key # CacheKey(r)}
    /\ cacheAsking' = cacheAsking \cup {[of |-> r, nth |-> cacheSpent]}
    /\ cacheSpent' = cacheSpent + 1
    /\ cacheReplay' = NoReplay
    /\ UNCHANGED cacheNow

(* The entries store may evict: those used least recently.                     *)
LeastUsed(es) == {e \in es : \A o \in es : e.lastUsed <= o.lastUsed}

(* store: the entry of the same key is replaced, then one entry is evicted if  *)
(* the cache is over its bound.                                                *)
Stored(es, r) ==
    LET with == {e \in es : e.key # CacheKey(r)} \cup
                {[key |-> CacheKey(r), madeFor |-> r, storedAt |-> cacheNow,
                  lastUsed |-> cacheNow]}
    IN  IF Cardinality(with) <= CacheBound THEN {with}
        ELSE {with \ {e} : e \in LeastUsed(with)}

(* dispatchAbsorb, second half: an answer of the 200 range that was buffered   *)
(* whole is stored; an error, an empty body or a live stream is not.           *)
CacheFill(d) ==
    /\ d \in cacheAsking
    /\ cacheAsking' = cacheAsking \ {d}
    /\ \E good \in BOOLEAN :
           cacheEntries' \in IF good THEN Stored(cacheEntries, d.of) ELSE {cacheEntries}
    /\ cacheReplay' = NoReplay
    /\ UNCHANGED <<cacheNow, cacheSpent>>

CacheTick ==
    /\ cacheNow < LastTick
    /\ cacheNow' = cacheNow + 1
    /\ cacheReplay' = NoReplay
    /\ UNCHANGED <<cacheEntries, cacheAsking, cacheSpent>>

AbsorbCacheNext ==
    \/ \E r \in CacheReqs : Replay(r) \/ AskUpstream(r)
    \/ \E d \in cacheAsking : CacheFill(d)
    \/ CacheTick

AbsorbCacheSpec == AbsorbCacheInit /\ [][AbsorbCacheNext]_absorbCacheVars

(* Types: one entry per key, never more than the bound.                        *)
AbsorbCacheTypeOK ==
    /\ cacheEntries \subseteq CacheEntry
    /\ \A e, f \in cacheEntries : e.key = f.key => e = f
    /\ Cardinality(cacheEntries) <= CacheBound
    /\ cacheAsking \subseteq [of : CacheReqs, nth : 0..(Dispatches - 1)]
    /\ cacheReplay.asked \subseteq CacheReqs /\ cacheReplay.madeFor \subseteq CacheReqs
    /\ cacheSpent \in 0..Dispatches

(* What absorbcache.go says of a hit, "the same request is replayed": the      *)
(* answer that is replayed was made for the request that asks.                 *)
SameRequest == cacheReplay.madeFor = cacheReplay.asked
=============================================================================
