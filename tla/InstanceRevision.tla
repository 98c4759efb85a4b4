-------------------------- MODULE InstanceRevision --------------------------
(***************************************************************************)
(* The instance cache of the cache manager (src/cache/instance.go) and the *)
(* revision worker pool that consumes its notifications (src/cache/       *)
(* cache.go), with the durable store and the service cache as their        *)
(* environment.                                                            *)
(*                                                                         *)
(* One refresh task (singleflight in instanceCache.update) runs a round:   *)
(*   FetchInstances GetMoreInstances;                                      *)
(*   ApplyInstance(i) one iteration of setInstances' loop (the first also  *)
(*                  copies instanceCount into the running count);          *)
(*   SetInstanceCount its end: the running count becomes instanceCount;    *)
(*   PostProcess(s) one iteration of postProcessUpdatedServices: the send  *)
(*                  on revisionCh (blocks while the channel is full) and   *)
(*                  the recount of s;                                      *)
(*   FinishRound    the tail of doCacheUpdate and the deferred checkAll.   *)
(* Each worker runs processRevisionWorker in two steps: take a job and     *)
(* compute the revision from the indexes (WorkerCompute), then publish it  *)
(* with setRevisions (WorkerPublish).                                      *)
(*                                                                         *)
(* The time-keyed fetch window (lastFetchTime - diffTime) is abstracted    *)
(* here to "every record written since the previous fetch, plus any       *)
(* already seen record"; module RefreshWindow checks that abstraction.     *)
(***************************************************************************)
EXTENDS Integers, Sequences, FiniteSets, TLC, Functions

CONSTANTS
    Instances,   \* instance ids
    Services,    \* service ids
    InsSvc,      \* the service each instance belongs to (fixed by its id)
    Workers,     \* revision workers (RevisionConcurrenceCount)
    QueueCap,    \* capacity of comRevisionCh (RevisionChanCount)
    MaxVer,      \* bound on writes per instance in the store
    MaxWrites,   \* bound on writes to the store, all instances together
    MaxClears,   \* bound on calls of CacheManager.Clear
    HealthFlags, \* the <<healthy, isolate>> pairs a registration may carry
    NoSvc        \* model value: an idle worker's service

ASSUME InsSvc \in [Instances -> Services]
ASSUME NoSvc \notin Services
ASSUME QueueCap \in Nat \ {0} /\ MaxVer \in Nat \ {0} /\ MaxClears \in Nat
ASSUME MaxWrites \in Nat /\ HealthFlags \subseteq BOOLEAN \X BOOLEAN

VARIABLES
    storeIns,      \* store: instance id -> [valid, healthy, isolate, ver]
    svcStore,      \* store: service id -> revision, 0 = not created
    dirty,         \* ids written since the last fetch (the fetch window)
    fullNext,      \* lastFetchTime was reset to 1 by checkAll
    firstUpdate,   \* baseCache.firtstUpdate
    ids,           \* instanceCache.ids: id -> cached record
    buckets,       \* instanceCache.services: service id -> set of ids
    counts,        \* instanceCache.instanceCounts
    instanceCount, \* instanceCache.instanceCount
    rpc,           \* refresh task: "idle" | "apply" | "post" | "failed"
    batch,         \* fetched records setInstances has not applied yet
    localCount,    \* setInstances' running copy of instanceCount (0 outside)
    pending,       \* services of the round not yet post-processed
    revisionCh,    \* comRevisionCh: sequence of service ids
    wstate,        \* worker -> [busy, svc, val]
    revisions,     \* CacheManager.revisions
    svcCache,      \* service cache: service id -> revision, 0 = absent
    clears,        \* calls of CacheManager.Clear so far
    clearing,      \* a Clear has reset the revisions, not yet the cache
    lost,          \* history: ids whose latest record no round may fetch
                   \* again (dropped from the window by a failed round, or
                   \* cleared by a Clear inside a round) and not fetched since
    countTorn      \* history: the last instanceCache.clear fell inside
                   \* setInstances' loop

storeVars == <<storeIns, svcStore>>
refreshVars == <<dirty, fullNext, firstUpdate, ids, buckets, counts,
                 instanceCount, rpc, pending, batch, localCount>>
clearVars == <<clears, clearing>>
historyVars == <<lost, countTorn>>
vars == <<storeVars, refreshVars, revisionCh, wstate, revisions, svcCache,
          clearVars, historyVars>>

StoreRec == [valid : BOOLEAN, healthy : BOOLEAN, isolate : BOOLEAN,
             ver : 0..MaxVer]
CacheRec == [healthy : BOOLEAN, isolate : BOOLEAN, ver : 1..MaxVer]
CountRec == [total : Nat, healthy : Nat, isolated : Nat]

-----------------------------------------------------------------------------
(* Helpers translated from the cache code.                                *)

IsHealthy(r) == r.healthy /\ ~r.isolate

\* The bucket GetInstancesByServiceID reads (nil when there is none).
BucketOf(s) == IF s \in DOMAIN buckets THEN buckets[s] ELSE {}

\* The InstanceCount built by scanning a bucket in postProcessUpdatedServices.
CountOf(B) ==
    [total    |-> Cardinality(B),
     healthy  |-> Cardinality({i \in B : IsHealthy(ids[i])}),
     isolated |-> Cardinality({i \in B : ids[i].isolate})]

\* ComputeRevision: SHA-1 of the service revision followed by the sorted
\* instance revisions.  Sorting makes the digest a function of the set of
\* instance revisions; an instance revision is its id and store version.
RevisionOf(svcRev, B) == <<svcRev, {<<i, ids[i].ver>> : i \in B}>>

\* The revision the worker would compute for s from the current indexes.
CurrentRevision(s) == RevisionOf(svcCache[s], BucketOf(s))

\* GetInstancesCount: the number of ids in the cache.
GetInstancesCount == Cardinality(DOMAIN ids)

\* GetInstancesCountByServiceID: the service's counts, zero when it has none.
GetInstancesCountByServiceID(s) ==
    IF s \in DOMAIN counts THEN counts[s]
    ELSE [total |-> 0, healthy |-> 0, isolated |-> 0]

\* GetServiceInstanceRevision: the published revision, empty when none.
GetServiceInstanceRevision(s) ==
    IF s \in DOMAIN revisions THEN revisions[s] ELSE <<>>

StoreCount == Cardinality({i \in Instances : storeIns[i].valid})

Written == {i \in Instances : storeIns[i].ver > 0}

-----------------------------------------------------------------------------
Init ==
    /\ storeIns = [i \in Instances |->
                     [valid |-> FALSE, healthy |-> FALSE, isolate |-> FALSE,
                      ver |-> 0]]
    /\ svcStore = [s \in Services |-> 0]
    /\ dirty = {}
    /\ fullNext = FALSE
    /\ firstUpdate = TRUE
    /\ ids = <<>>
    /\ buckets = <<>>
    /\ counts = <<>>
    /\ instanceCount = 0
    /\ rpc = "idle"
    /\ pending = {}
    /\ batch = <<>>
    /\ localCount = 0
    /\ revisionCh = <<>>
    /\ wstate = [w \in Workers |-> [busy |-> FALSE, svc |-> NoSvc, val |-> <<>>]]
    /\ revisions = <<>>
    /\ svcCache = [s \in Services |-> 0]
    /\ clears = 0
    /\ clearing = FALSE
    /\ lost = {}
    /\ countTorn = FALSE

-----------------------------------------------------------------------------
(* Environment: writes to the store and the service cache's own refresh.  *)

\* A service is created in the store.
CreateService(s) ==
    /\ svcStore[s] = 0
    /\ svcStore' = [svcStore EXCEPT ![s] = 1]
    /\ UNCHANGED <<historyVars, storeIns, refreshVars, revisionCh, wstate, revisions,
                   svcCache, clearVars>>

\* An instance is registered or updated (a new instance revision), or
\* deregistered (a tombstone with valid = false).
StoreWrite(i, valid, healthy, isolate) ==
    /\ svcStore[InsSvc[i]] # 0
    /\ storeIns[i].ver < MaxVer
    /\ SumFunction([x \in Instances |-> storeIns[x].ver]) < MaxWrites
    /\ valid \/ storeIns[i].valid
    /\ ~valid => ~healthy /\ ~isolate
    /\ storeIns' = [storeIns EXCEPT ![i] =
                      [valid |-> valid, healthy |-> healthy,
                       isolate |-> isolate, ver |-> @.ver + 1]]
    /\ dirty' = dirty \cup {i}
    /\ lost' = lost \ {i}
    /\ UNCHANGED <<countTorn, svcStore, fullNext, firstUpdate, ids, buckets, counts,
                   instanceCount, rpc, pending, batch, localCount,
                   revisionCh, wstate, revisions, svcCache, clearVars>>

\* The service cache mirrors the store's services.
ServiceCacheRefresh ==
    /\ svcCache # svcStore
    /\ svcCache' = svcStore
    /\ UNCHANGED <<historyVars, storeVars, refreshVars, revisionCh, wstate, revisions, clearVars>>

-----------------------------------------------------------------------------
(* The instance refresh round.                                            *)

\* The ids GetMoreInstances returns: the full valid snapshot on the first
\* run, every record after checkAll reset lastFetchTime, otherwise what was
\* written since the last fetch plus records re-read by the overlap window.
Fetchable(again) ==
    IF firstUpdate THEN {i \in Instances : storeIns[i].valid}
    ELSE IF fullNext THEN Written
    ELSE dirty \cup again

\* The cached form of a fetched record.
CacheRecOf(r) == [healthy |-> r.healthy, isolate |-> r.isolate, ver |-> r.ver]

\* GetMoreInstances: an empty result makes setInstances return at once;
\* otherwise the records, as the store had them at the fetch, are applied
\* one by one.
FetchInstances ==
    /\ rpc = "idle"
    /\ \E again \in SUBSET Written :
          LET F == Fetchable(again) IN
          /\ batch' = [i \in F |-> storeIns[i]]
          /\ rpc' = IF F = {} THEN "post" ELSE "apply"
    /\ dirty' = {}
    /\ pending' = {}
    /\ lost' = lost \ DOMAIN batch'
    /\ UNCHANGED <<countTorn, storeVars, fullNext, firstUpdate, ids, buckets,
                   counts, instanceCount, localCount, revisionCh, wstate,
                   revisions, svcCache, clearVars>>

\* setInstances' running count: copied from instanceCount when the loop
\* starts (no record of the batch applied yet, so no service affected).
RunningCount == IF pending = {} THEN instanceCount ELSE localCount

DeleteInstance(i) ==
    /\ ids' = Restrict(ids, DOMAIN ids \ {i})
    /\ buckets' = IF InsSvc[i] \in DOMAIN buckets
                  THEN [buckets EXCEPT ![InsSvc[i]] = @ \ {i}]
                  ELSE buckets
    /\ localCount' = IF i \in DOMAIN ids THEN RunningCount - 1 ELSE RunningCount

\* Mutant: an id already cached keeps its old record (ids.Store only on add).
StoreInstanceCreateOnly(i, r) ==
    /\ ids' = ids @@ (i :> CacheRecOf(r))
    /\ buckets' = (InsSvc[i] :> (BucketOf(InsSvc[i]) \cup {i})) @@ buckets
    /\ localCount' = IF i \in DOMAIN ids THEN RunningCount ELSE RunningCount + 1

\* A valid record: ids.Store, the count goes up when the id is new, and the
\* record is stored in its service's bucket, created when missing.
StoreInstance(i, r) ==
    /\ ids' = (i :> CacheRecOf(r)) @@ ids
    /\ buckets' = (InsSvc[i] :> (BucketOf(InsSvc[i]) \cup {i})) @@ buckets
    /\ localCount' = IF i \in DOMAIN ids THEN RunningCount ELSE RunningCount + 1

\* One iteration of setInstances' loop, over the records in any order (Go
\* map iteration): the service is marked affected, then the record is
\* deleted or stored.
ApplyInstance(i) ==
    /\ rpc = "apply"
    /\ i \in DOMAIN batch
    /\ IF batch[i].valid THEN StoreInstance(i, batch[i]) ELSE DeleteInstance(i)
    /\ pending' = pending \cup {InsSvc[i]}
    /\ batch' = Restrict(batch, DOMAIN batch \ {i})
    /\ UNCHANGED <<historyVars, storeVars, dirty, fullNext, firstUpdate, counts,
                   instanceCount, rpc, revisionCh, wstate, revisions,
                   svcCache, clearVars>>

\* The end of setInstances: the running count replaces instanceCount, and
\* postProcessUpdatedServices starts on the affected services.
SetInstanceCount ==
    /\ rpc = "apply"
    /\ DOMAIN batch = {}
    /\ instanceCount' = localCount
    /\ localCount' = 0
    /\ rpc' = "post"
    /\ UNCHANGED <<historyVars, storeVars, dirty, fullNext, firstUpdate, ids, buckets,
                   counts, pending, revisionCh, wstate, revisions, svcCache,
                   clearVars, batch>>

\* GetMoreInstances fails: the indexes are left untouched, but doCacheUpdate's
\* defer still moves lastFetchTime to the store time read before the fetch,
\* so the records written before that time less diffTime (any subset of
\* the window, L) are never fetched by the following rounds.
FetchFail ==
    /\ rpc = "idle"
    /\ rpc' = "failed"
    /\ \E L \in SUBSET dirty :
          /\ dirty' = dirty \ L
          /\ lost' = lost \cup L
    /\ UNCHANGED <<countTorn, storeVars, fullNext, firstUpdate, ids, buckets,
                   counts, instanceCount, pending, batch, localCount,
                   revisionCh, wstate, revisions, svcCache, clearVars>>

\* Mutant: the channel send never blocks.
PostProcessNoBlock(s) ==
    /\ rpc = "post"
    /\ s \in pending
    /\ revisionCh' = Append(revisionCh, s)
    /\ counts' = IF BucketOf(s) = {}
                 THEN Restrict(counts, DOMAIN counts \ {s})
                 ELSE [x \in DOMAIN counts \cup {s} |->
                         IF x = s THEN CountOf(BucketOf(s)) ELSE counts[x]]
    /\ pending' = pending \ {s}
    /\ UNCHANGED <<historyVars, storeVars, dirty, fullNext, firstUpdate, ids, buckets,
                   instanceCount, rpc, wstate, revisions, svcCache, clearVars,
                   batch, localCount>>

\* Mutant: a service whose bucket became empty is not sent to the workers.
PostProcessSkipEmpty(s) ==
    /\ rpc = "post"
    /\ s \in pending
    /\ Len(revisionCh) < QueueCap
    /\ revisionCh' = IF BucketOf(s) = {} THEN revisionCh
                     ELSE Append(revisionCh, s)
    /\ counts' = IF BucketOf(s) = {}
                 THEN Restrict(counts, DOMAIN counts \ {s})
                 ELSE [x \in DOMAIN counts \cup {s} |->
                         IF x = s THEN CountOf(BucketOf(s)) ELSE counts[x]]
    /\ pending' = pending \ {s}
    /\ UNCHANGED <<historyVars, storeVars, dirty, fullNext, firstUpdate, ids, buckets,
                   instanceCount, rpc, wstate, revisions, svcCache, clearVars,
                   batch, localCount>>

\* One iteration of postProcessUpdatedServices: notify the revision workers
\* (blocking while the channel is full), then rebuild the count of s.
PostProcess(s) ==
    /\ rpc = "post"
    /\ s \in pending
    /\ Len(revisionCh) < QueueCap
    /\ revisionCh' = Append(revisionCh, s)
    /\ counts' = IF BucketOf(s) = {}
                 THEN Restrict(counts, DOMAIN counts \ {s})
                 ELSE [x \in DOMAIN counts \cup {s} |->
                         IF x = s THEN CountOf(BucketOf(s)) ELSE counts[x]]
    /\ pending' = pending \ {s}
    /\ UNCHANGED <<historyVars, storeVars, dirty, fullNext, firstUpdate, ids, buckets,
                   instanceCount, rpc, wstate, revisions, svcCache, clearVars,
                   batch, localCount>>

EndRound(timeOk, checked) ==
    /\ \/ rpc = "post" /\ pending = {}
       \/ rpc = "failed"
    /\ firstUpdate' = (firstUpdate /\ rpc = "failed")
    /\ fullNext' = \/ fullNext /\ ~timeOk
                   \/ checked /\ instanceCount # StoreCount
    /\ rpc' = "idle"
    /\ UNCHANGED <<historyVars, storeVars, dirty, ids, buckets, counts,
                   instanceCount, pending, batch, localCount, revisionCh,
                   wstate, revisions, svcCache, clearVars>>

FinishRound == \E timeOk, checked \in BOOLEAN : EndRound(timeOk, checked)

-----------------------------------------------------------------------------
(* The revision workers.                                                  *)

\* A worker receives a job.  processRevisionWorker drops it when the service
\* cache does not know the service; otherwise it reads the instances and
\* computes the revision.
WorkerCompute(w) ==
    /\ ~wstate[w].busy
    /\ revisionCh # <<>>
    /\ LET s == Head(revisionCh) IN
          wstate' = IF svcCache[s] = 0
                    THEN wstate
                    ELSE [wstate EXCEPT ![w] =
                            [busy |-> TRUE, svc |-> s,
                             val |-> CurrentRevision(s)]]
    /\ revisionCh' = Tail(revisionCh)
    /\ UNCHANGED <<historyVars, storeVars, refreshVars, revisions, svcCache, clearVars>>

\* setRevisions: the computed value is published, whatever happened since.
WorkerPublish(w) ==
    /\ wstate[w].busy
    /\ revisions' = [x \in DOMAIN revisions \cup {wstate[w].svc} |->
                       IF x = wstate[w].svc THEN wstate[w].val
                       ELSE revisions[x]]
    /\ wstate' = [wstate EXCEPT ![w] = [busy |-> FALSE, svc |-> NoSvc,
                                         val |-> <<>>]]
    /\ UNCHANGED <<historyVars, storeVars, refreshVars, revisionCh, svcCache, clearVars>>

-----------------------------------------------------------------------------
(* CacheManager.Clear, called by an operator at any moment: it takes part *)
(* in neither the refresh task nor the workers.                           *)

\* The revision map is replaced under the manager lock.
ClearRevisions ==
    /\ ~clearing
    /\ clears < MaxClears
    /\ revisions' = <<>>
    /\ clears' = clears + 1
    /\ clearing' = TRUE
    /\ UNCHANGED <<historyVars, storeVars, refreshVars, revisionCh, wstate, svcCache>>

\* baseCache.clear: lastFetchTime = 1 and firtstUpdate = true.  A round in
\* progress overwrites both when it returns: its defer sets lastFetchTime to
\* the store time it read before the Clear, and a successful fetch clears
\* firtstUpdate.
BaseClear ==
    /\ firstUpdate' = TRUE
    /\ fullNext' = (fullNext \/ rpc = "idle")

\* nc.clear: instanceCache.clear runs baseCache.clear and replaces the
\* indexes, at any point of a round.  Inside setInstances' loop it empties
\* ids while the running count, read before, is written back at the end.
\* Inside a round that has fetched, the cleared records are not fetched
\* again: FinishRound clears firtstUpdate, and the round's deferred
\* lastFetchTime replaces the reset one.
ClearCaches ==
    /\ clearing
    /\ BaseClear
    /\ ids' = <<>> /\ buckets' = <<>> /\ counts' = <<>> /\ instanceCount' = 0
    /\ clearing' = FALSE
    /\ lost' = IF rpc \in {"apply", "post"}
               THEN lost \cup (DOMAIN ids \ DOMAIN batch)
               ELSE lost
    /\ countTorn' = (rpc = "apply" /\ pending # {})
    /\ UNCHANGED <<storeVars, dirty, rpc, pending, batch, localCount,
                   revisionCh, wstate, revisions, svcCache, clears>>

-----------------------------------------------------------------------------
Environment ==
    \/ \E s \in Services : CreateService(s)
    \/ \E i \in Instances, f \in HealthFlags : StoreWrite(i, TRUE, f[1], f[2])
    \/ \E i \in Instances : StoreWrite(i, FALSE, FALSE, FALSE)
    \/ ServiceCacheRefresh

\* nc.update, on every tick: each cache's update runs on a goroutine of its
\* own; these are the steps of the instance cache's.
Refresh ==
    \/ FetchInstances
    \/ \E i \in Instances : ApplyInstance(i)
    \/ SetInstanceCount
    \/ FetchFail
    \/ \E s \in Services : PostProcess(s)
    \/ FinishRound

RevisionWorkers == \E w \in Workers : WorkerCompute(w) \/ WorkerPublish(w)

Next == Environment \/ Refresh \/ RevisionWorkers \/ ClearRevisions \/ ClearCaches

\* The refresh goroutine's own steps once the fetch has answered: the
\* goroutine that runs the round.
RoundStep ==
    \/ \E i \in Instances : ApplyInstance(i)
    \/ SetInstanceCount
    \/ \E s \in Services : PostProcess(s)
    \/ FinishRound

\* A round whose clock read succeeds and whose checkAll is due and gets the
\* store's count.
CheckedRound == EndRound(TRUE, TRUE)

\* A successful fetch of every record after such a reset.
FullFetch == FetchInstances /\ fullNext

\* The ticker fires forever and the workers loop forever; the store is
\* assumed to answer eventually (strong fairness on a successful fetch, and
\* on a round whose clock read succeeds and whose checkAll runs once its
\* 60 s have passed and gets the store's count).  The store's failures are taken to be independent of the cache's
\* window, so a full re-fetch possible again and again eventually succeeds.
\* Clear() returns once it has cleared the caches.
Fairness ==
    /\ SF_vars(FetchInstances)
    /\ SF_vars(CheckedRound)
    /\ SF_vars(FullFetch)
    /\ WF_vars(ClearCaches)
    /\ WF_vars(RoundStep)
    /\ \A w \in Workers : WF_vars(WorkerCompute(w) \/ WorkerPublish(w))

Spec == Init /\ [][Next]_vars /\ Fairness

-----------------------------------------------------------------------------
(* Properties.                                                            *)

TypeOK ==
    /\ storeIns \in [Instances -> StoreRec]
    /\ svcStore \in [Services -> {0, 1}]
    /\ svcCache \in [Services -> {0, 1}]
    /\ dirty \subseteq Instances
    /\ fullNext \in BOOLEAN /\ firstUpdate \in BOOLEAN
    /\ DOMAIN ids \subseteq Instances
    /\ \A i \in DOMAIN ids : ids[i] \in CacheRec
    /\ DOMAIN buckets \subseteq Services
    /\ \A s \in DOMAIN buckets : buckets[s] \subseteq Instances
    /\ DOMAIN counts \subseteq Services
    /\ \A s \in DOMAIN counts : counts[s] \in CountRec
    /\ instanceCount \in Int
    /\ rpc \in {"idle", "apply", "post", "failed"}
    /\ DOMAIN batch \subseteq Instances
    /\ \A i \in DOMAIN batch : batch[i] \in StoreRec
    /\ localCount \in Int
    /\ pending \subseteq Services
    /\ revisionCh \in Seq(Services) /\ Len(revisionCh) <= QueueCap
    /\ \A w \in Workers : wstate[w].busy => wstate[w].svc \in Services
    /\ DOMAIN revisions \subseteq Services
    /\ clears \in 0..MaxClears /\ clearing \in BOOLEAN

Quiescent ==
    /\ revisionCh = <<>>
    /\ \A w \in Workers : ~wstate[w].busy
    /\ rpc = "idle"

RevisionCoherent ==
    Quiescent =>
        \A s \in DOMAIN revisions \cap DOMAIN buckets :
            GetServiceInstanceRevision(s) = CurrentRevision(s)

\* Once writes stop, the instance cache eventually holds every instance at
\* its latest store state, except those whose last write a failed round
\* moved out of the fetch window (doCacheUpdate's defer advances
\* lastFetchTime even when GetMoreInstances fails) or a Clear emptied from
\* the cache inside a round that had fetched: only checkAll's count
\* comparison may bring those back, and the counts may agree.  Neither the
\* delta rounds nor the snapshot taken after a Clear skip any other.
MirroredId(i) ==
    IF storeIns[i].valid THEN i \in DOMAIN ids /\ ids[i].ver = storeIns[i].ver
    ELSE i \notin DOMAIN ids

EventuallyMirrored == <>[](\A i \in Instances \ lost : MirroredId(i))

=============================================================================
