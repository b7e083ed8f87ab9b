------------------------------- MODULE Cache -------------------------------
(***************************************************************************)
(* infrastructure/redis/redis.service.ts: one key of the cache in front of *)
(* the database (lists of auctions, reviews and rating statistics).        *)
(* getOrSetSWR answers a stale entry at once and refreshes it in the       *)
(* background under a lock in Redis; a cold key is fetched once per server *)
(* (singleFlight); a write of the database invalidates the key later.      *)
(***************************************************************************)
EXTENDS Integers, FiniteSets

CONSTANTS
    Servers,         \* the processes
    Revalidations,   \* the background refreshes under way at the same time
    LastVersion      \* bounds how often the database changes

ASSUME CacheAssumption ==
    /\ LastVersion \in Nat
    /\ "nobody" \notin Revalidations

VARIABLES
    version,         \* what the query answers in the database now
    entry,           \* the entry in Redis
    lock,            \* who holds revalidating:<key>
    revalidation,    \* each background refresh
    flight,          \* the fetch of a cold key, per server
    invalidations    \* the calls of invalidatePattern still to come

cacheVars == <<version, entry, lock, revalidation, flight, invalidations>>

NoEntry == [data |-> -1, stale |-> FALSE]
Entry(data) == [data |-> data, stale |-> FALSE]
Off0 == [stage |-> "off", data |-> -1, outlived |-> FALSE]

CacheInit ==
    /\ version = 0
    /\ entry = NoEntry
    /\ lock = "nobody"
    /\ revalidation = [r \in Revalidations |-> Off0]
    /\ flight = [s \in Servers |-> [stage |-> "off", data |-> -1]]
    /\ invalidations = 0

\* A service commits a change and then invalidates without waiting for it.
Write ==
    /\ version < LastVersion
    /\ version' = version + 1
    /\ invalidations' = invalidations + 1
    /\ UNCHANGED <<entry, lock, revalidation, flight>>

\* invalidatePattern: delete the key, or fail silently.
Invalidate ==
    /\ invalidations > 0
    /\ invalidations' = invalidations - 1
    /\ entry' = NoEntry
    /\ UNCHANGED <<version, lock, revalidation, flight>>

InvalidateFails ==
    /\ invalidations > 0
    /\ invalidations' = invalidations - 1
    /\ UNCHANGED <<version, entry, lock, revalidation, flight>>

\* expiresAt passes; the TTL of the key passes.
SoftExpires ==
    /\ entry # NoEntry
    /\ ~entry.stale
    /\ entry' = [entry EXCEPT !.stale = TRUE]
    /\ UNCHANGED <<version, lock, revalidation, flight, invalidations>>

HardExpires ==
    /\ entry.stale
    /\ entry' = NoEntry
    /\ UNCHANGED <<version, lock, revalidation, flight, invalidations>>

-----------------------------------------------------------------------------
\* A cold key, or Redis cannot be read: singleFlight.
StartFlight(s) ==
    /\ flight[s].stage = "off"
    /\ flight' = [flight EXCEPT ![s].stage = "fetching"]
    /\ UNCHANGED <<version, entry, lock, revalidation, invalidations>>

Fetch(s) ==
    /\ flight[s].stage = "fetching"
    /\ flight' = [flight EXCEPT ![s] = [stage |-> "fetched", data |-> version]]
    /\ UNCHANGED <<version, entry, lock, revalidation, invalidations>>

\* setInRedis, whose failure is silent.
Land(s) ==
    /\ flight[s].stage = "fetched"
    /\ entry' \in {entry, Entry(flight[s].data)}
    /\ flight' = [flight EXCEPT ![s] = [stage |-> "off", data |-> -1]]
    /\ UNCHANGED <<version, lock, revalidation, invalidations>>

-----------------------------------------------------------------------------
\* revalidateInBackground after a stale hit: SET NX EX 30.
Revalidate(r) ==
    /\ entry.stale
    /\ revalidation[r] = Off0
    /\ lock = "nobody"
    /\ lock' = r
    /\ revalidation' = [revalidation EXCEPT ![r].stage = "locked"]
    /\ UNCHANGED <<version, entry, flight, invalidations>>

\* What the fetcher returns; a bug: the data of the entry once more.
WhatWasCached == entry.data
Refetched == version

Refetch(r) ==
    /\ revalidation[r].stage = "locked"
    /\ revalidation' = [revalidation EXCEPT ![r].stage = "fetched", ![r].data = Refetched]
    /\ UNCHANGED <<version, entry, lock, flight, invalidations>>

Refresh(r) ==
    /\ revalidation[r].stage = "fetched"
    /\ entry' \in {entry, Entry(revalidation[r].data)}
    /\ revalidation' = [revalidation EXCEPT ![r].stage = "done", ![r].data = -1]
    /\ UNCHANGED <<version, lock, flight, invalidations>>

\* The fetcher throws: logged.
RefetchFails(r) ==
    /\ revalidation[r].stage = "locked"
    /\ revalidation' = [revalidation EXCEPT ![r].stage = "done"]
    /\ UNCHANGED <<version, entry, lock, flight, invalidations>>

\* finally: the Lua script deletes the lock when it is still ours.
FreedByAnyone(r) == "nobody"
Freed(r) == IF lock = r THEN "nobody" ELSE lock

Release(r) ==
    /\ revalidation[r].stage = "done"
    /\ lock' = Freed(r)
    /\ revalidation' = [revalidation EXCEPT ![r] = Off0]
    /\ UNCHANGED <<version, entry, flight, invalidations>>

\* The lock outlives its 30 seconds, or the server that holds it dies.
LockExpires ==
    /\ lock # "nobody"
    /\ lock' = "nobody"
    /\ revalidation' = [r \in Revalidations |->
            IF r = lock /\ revalidation[r] # Off0
            THEN [revalidation[r] EXCEPT !.outlived = TRUE] ELSE revalidation[r]]
    /\ UNCHANGED <<version, entry, flight, invalidations>>

RevalidationDies(r) ==
    /\ revalidation[r] # Off0
    /\ lock # r
    /\ revalidation' = [revalidation EXCEPT ![r] = Off0]
    /\ UNCHANGED <<version, entry, lock, flight, invalidations>>

-----------------------------------------------------------------------------
CacheNext ==
    \/ Write \/ Invalidate \/ InvalidateFails \/ SoftExpires \/ HardExpires \/ LockExpires
    \/ \E s \in Servers : StartFlight(s) \/ Fetch(s) \/ Land(s)
    \/ \E r \in Revalidations :
        \/ Revalidate(r) \/ Refetch(r) \/ Refresh(r) \/ RefetchFails(r)
        \/ Release(r) \/ RevalidationDies(r)

\* Redis lets entries expire; what a server has begun goes on.
CacheFairness ==
    /\ WF_cacheVars(SoftExpires)
    /\ WF_cacheVars(HardExpires)
    /\ \A s \in Servers : WF_cacheVars(Fetch(s) \/ Land(s))
    /\ \A r \in Revalidations : WF_cacheVars(Refetch(r) \/ Refresh(r) \/ Release(r))

CacheSpec == CacheInit /\ [][CacheNext]_cacheVars /\ CacheFairness

-----------------------------------------------------------------------------
CacheTypeOK ==
    /\ version \in 0 .. LastVersion
    /\ entry \in [data : -1 .. LastVersion, stale : BOOLEAN]
    /\ lock \in Revalidations \cup {"nobody"}
    /\ revalidation \in [Revalidations -> [stage : {"off", "locked", "fetched", "done"},
                                            data : -1 .. LastVersion, outlived : BOOLEAN]]
    /\ flight \in [Servers -> [stage : {"off", "fetching", "fetched"}, data : -1 .. LastVersion]]
    /\ invalidations \in 0 .. LastVersion

\* "Only one revalidation worker at a time": of the refreshes that have not
\* outlived their lock there is never a second one, although a refresh that has
\* outlived it still runs its finally.
OneRevalidation ==
    \A r, q \in Revalidations :
        (/\ revalidation[r].stage # "off" /\ ~revalidation[r].outlived
         /\ revalidation[q].stage # "off" /\ ~revalidation[q].outlived) => r = q

\* Whatever was read before a change and written to Redis after the key was
\* invalidated goes away again: in the end the cache has what the database has,
\* or nothing.
CacheCatchesUp == <>[](entry.data \in {-1, version})
=============================================================================
