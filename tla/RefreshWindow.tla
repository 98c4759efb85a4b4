--------------------------- MODULE RefreshWindow ---------------------------
(***************************************************************************)
(* The refresh discipline every typed cache inherits from baseCache        *)
(* (src/cache/cache.go doCacheUpdate and LastFetchTime), shown for the     *)
(* instance cache's fetch (src/cache/instance.go realUpdate).              *)
(*                                                                         *)
(* A round reads the store clock (GetUnixSecond), fetches every record     *)
(* whose modify time is at least lastFetchTime - diffTime (or the full     *)
(* snapshot on the first run), applies it, and finally sets lastFetchTime  *)
(* to the clock value read at the start.  The store stamps a write with   *)
(* its clock when the statement runs and the row becomes visible when the *)
(* transaction commits, at most CommitLag seconds later: diffTime exists   *)
(* to cover that lag.                                                      *)
(*                                                                         *)
(* The cache content is abstracted to the version of each record it holds *)
(* (0 = absent); InstanceRevision models what applying a record does.     *)
(***************************************************************************)
EXTENDS Integers, FiniteSets, TLC

CONSTANTS
    Keys,          \* record ids
    MaxVer,        \* bound on writes per record
    MaxTime,       \* bound on the store clock
    DiffTime,      \* -DefaultTimeDiff, in seconds
    CommitLag,     \* longest time between a write's stamp and its commit
    FetchCanFail   \* whether GetMoreInstances may return an error

ASSUME MaxVer \in Nat \ {0} /\ MaxTime \in Nat \ {0}
ASSUME DiffTime \in Nat /\ CommitLag \in Nat /\ FetchCanFail \in BOOLEAN

\* The store clock is a unix time, far past the epoch: it starts DiffTime + 1
\* seconds in, while lastFetchTime starts at 1 (resetLastFetchTime).
StartTime == DiffTime + 1
ASSUME MaxTime > StartTime

VARIABLES
    now,           \* the store clock (unix seconds)
    store,         \* committed rows: key -> [valid, ver, mtime]
    inflight,      \* uncommitted writes: key -> [valid, ver, mtime]
    cache,         \* version the cache holds for each key, 0 = absent
    lastFetchTime, \* baseCache.lastFetchTime
    firstUpdate,   \* baseCache.firtstUpdate
    rpc,           \* refresh task: "idle" | "started" | "fetched" | "failed"
    cur,           \* curStoreTime of the running round
    lost           \* history: keys whose unapplied write a failed round left
                   \* behind its new window, not committed again or fetched

vars == <<now, store, inflight, cache, lastFetchTime, firstUpdate, rpc, cur,
          lost>>

Row == [valid : BOOLEAN, ver : 0..MaxVer, mtime : 0..MaxTime]

-----------------------------------------------------------------------------
\* Mutant: the fetch window ignores diffTime.
SinceNoDiff == lastFetchTime

\* LastFetchTime: lastFetchTime shifted back by diffTime, unless that falls
\* before the epoch.
Since ==
    IF lastFetchTime - DiffTime < 0 THEN lastFetchTime
    ELSE lastFetchTime - DiffTime

\* What the cache should hold for a committed row.
View(r) == IF r.valid THEN r.ver ELSE 0

Mirrored(k) == cache[k] = View(store[k])

\* Every write to k the cache has not applied yet, committed or still open,
\* is stamped inside the current fetch window.
Covered(k) ==
    /\ ~Mirrored(k) => store[k].mtime >= Since
    /\ k \in DOMAIN inflight => inflight[k].mtime >= Since

-----------------------------------------------------------------------------
Init ==
    /\ now = StartTime
    /\ store = [k \in Keys |-> [valid |-> FALSE, ver |-> 0, mtime |-> 0]]
    /\ inflight = <<>>
    /\ cache = [k \in Keys |-> 0]
    /\ lastFetchTime = 1
    /\ firstUpdate = TRUE
    /\ rpc = "idle"
    /\ cur = 1
    /\ lost = {}

(* The store.                                                             *)

\* The clock advances; no transaction stays open longer than CommitLag.
Tick ==
    /\ now < MaxTime
    /\ \A k \in DOMAIN inflight : now + 1 - inflight[k].mtime <= CommitLag
    /\ now' = now + 1
    /\ UNCHANGED <<store, inflight, cache, lastFetchTime, firstUpdate, rpc, cur,
                   lost>>

\* A write (register, update or deregister) is stamped with the clock.
Write(k, valid) ==
    /\ k \notin DOMAIN inflight
    /\ store[k].ver < MaxVer
    /\ valid \/ store[k].valid
    /\ inflight' = (k :> [valid |-> valid, ver |-> store[k].ver + 1,
                          mtime |-> now]) @@ inflight
    /\ UNCHANGED <<now, store, cache, lastFetchTime, firstUpdate, rpc, cur,
                   lost>>

\* Its transaction commits: the row becomes visible to fetches.
Commit(k) ==
    /\ k \in DOMAIN inflight
    /\ store' = [store EXCEPT ![k] = inflight[k]]
    /\ inflight' = [x \in DOMAIN inflight \ {k} |-> inflight[x]]
    /\ lost' = lost \ {k}
    /\ UNCHANGED <<now, cache, lastFetchTime, firstUpdate, rpc, cur>>

(* The refresh round.                                                     *)

\* Mutant: on a clock read error curStoreTime keeps the zero value returned.
StartZeroOnTimeError ==
    /\ rpc = "idle"
    /\ \E timeOk \in BOOLEAN : cur' = IF timeOk THEN now ELSE 0
    /\ rpc' = "started"
    /\ UNCHANGED <<now, store, inflight, cache, lastFetchTime, firstUpdate,
                   lost>>

\* doCacheUpdate reads the store clock; when that fails it keeps the old
\* lastFetchTime as curStoreTime.
Start ==
    /\ rpc = "idle"
    /\ \E timeOk \in BOOLEAN : cur' = IF timeOk THEN now ELSE lastFetchTime
    /\ rpc' = "started"
    /\ UNCHANGED <<now, store, inflight, cache, lastFetchTime, firstUpdate,
                   lost>>

\* Mutant: the incremental fetch returns valid rows only, no tombstones.
FetchOKValidOnly ==
    /\ rpc = "started"
    /\ LET F == IF firstUpdate THEN {k \in Keys : store[k].valid}
                ELSE {k \in Keys : store[k].valid /\ store[k].mtime >= Since}
       IN /\ cache' = [k \in Keys |-> IF k \in F THEN View(store[k])
                                     ELSE cache[k]]
          /\ lost' = lost \ F
    /\ rpc' = "fetched"
    /\ UNCHANGED <<now, store, inflight, lastFetchTime, firstUpdate, cur>>

\* GetMoreInstances(LastFetchTime(), isFirstUpdate()) returns the visible
\* rows, setInstances applies them (tombstones remove).
FetchOK ==
    /\ rpc = "started"
    /\ LET F == IF firstUpdate THEN {k \in Keys : store[k].valid}
                ELSE {k \in Keys : store[k].ver > 0 /\ store[k].mtime >= Since}
       IN /\ cache' = [k \in Keys |-> IF k \in F THEN View(store[k])
                                     ELSE cache[k]]
          /\ lost' = lost \ F
    /\ rpc' = "fetched"
    /\ UNCHANGED <<now, store, inflight, lastFetchTime, firstUpdate, cur>>

\* The fetch returns an error: the indexes are untouched.
FetchFail ==
    /\ FetchCanFail
    /\ rpc = "started"
    /\ rpc' = "failed"
    /\ UNCHANGED <<now, store, inflight, cache, lastFetchTime, firstUpdate, cur,
                   lost>>

\* Mutant: firtstUpdate is never cleared.
FinishKeepFirstUpdate ==
    /\ rpc \in {"fetched", "failed"}
    /\ lastFetchTime' = cur
    /\ rpc' = "idle"
    /\ UNCHANGED <<now, store, inflight, cache, cur, firstUpdate, lost>>

\* doCacheUpdate returns: firstUpdate is cleared on success, and the
\* deferred assignment sets lastFetchTime to curStoreTime on every return.
Finish ==
    /\ rpc \in {"fetched", "failed"}
    /\ lastFetchTime' = cur
    /\ firstUpdate' = (firstUpdate /\ rpc = "failed")
    /\ rpc' = "idle"
    /\ UNCHANGED <<now, store, inflight, cache, cur>>
    /\ lost' = IF rpc = "failed" /\ ~firstUpdate
               THEN lost \cup {k \in Keys : ~Covered(k)'}
               ELSE lost

Next ==
    \/ Tick
    \/ \E k \in Keys, v \in BOOLEAN : Write(k, v)
    \/ \E k \in Keys : Commit(k)
    \/ Start \/ FetchOK \/ FetchFail \/ Finish

\* Transactions commit, the ticker keeps firing, and the store answers a
\* fetch infinitely often.
Spec == Init /\ [][Next]_vars
        /\ \A k \in Keys : WF_vars(Commit(k))
        /\ WF_vars(Start) /\ SF_vars(FetchOK) /\ WF_vars(Finish)

-----------------------------------------------------------------------------
TypeOK ==
    /\ now \in 1..MaxTime
    /\ store \in [Keys -> Row]
    /\ DOMAIN inflight \subseteq Keys
    /\ \A k \in DOMAIN inflight : inflight[k] \in Row
    /\ cache \in [Keys -> 0..MaxVer]
    /\ lastFetchTime \in 1..MaxTime
    /\ firstUpdate \in BOOLEAN
    /\ rpc \in {"idle", "started", "fetched", "failed"}
    /\ cur \in 1..MaxTime
    /\ lost \subseteq Keys

\* Between rounds, every write the cache has not applied yet, committed or
\* still open, is stamped inside the next fetch window, so no write is ever
\* skipped: this is what the diffTime offset is for, and it must survive
\* any interleaving of clock ticks, late commits and failing store calls.
WindowCovers == rpc = "idle" /\ ~firstUpdate => \A k \in Keys : Covered(k)

\* Between rounds, every write the cache has not applied yet is stamped
\* inside the next fetch window unless a failed round left it behind: a
\* successful round, whatever the clock read returned and however late the
\* write commits (up to CommitLag), never moves the window past a write it
\* did not fetch.
WindowCoversUnlessFailed ==
    rpc = "idle" /\ ~firstUpdate => \A k \in Keys \ lost : Covered(k)

\* Once the store stops changing, the cache ends up holding exactly the
\* store's live rows, except the keys a failed round left behind its window.
EventuallyMirrored == <>[](\A k \in Keys \ lost : Mirrored(k))


=============================================================================
