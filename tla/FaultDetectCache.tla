-------------------------- MODULE FaultDetectCache --------------------------
(***************************************************************************)
(* The fault-detect rule cache (src/cache/faultdetect.go): rules fetched  *)
(* from the store are fanned out into per-service buckets                  *)
(* (svcSpecificRules), per-namespace wildcard buckets (nsWildcardRules)    *)
(* and the global wildcard bucket (allWildcardRules); a lookup returns the *)
(* first bucket that exists of service, namespace wildcard, global.       *)
(*                                                                         *)
(* A bucket is keyed by its ServiceKey <<namespace, service>>:            *)
(* <<ns, svc>> is svcSpecificRules[ns][svc], <<ns, AllMatched>> is        *)
(* nsWildcardRules[ns] and Global = <<AllMatched, AllMatched>> is          *)
(* allWildcardRules.  A bucket maps rule ids to the rule objects stored   *)
(* in it and carries a revision.                                           *)
(*                                                                         *)
(* The refresh round: Fetch (GetFaultDetectRulesForCache), then one        *)
(* ApplyRule step per fetched rule in slice order (each takes the cache    *)
(* lock, so readers interleave between rules), then FinishRound.  As in    *)
(* InstanceRevision the time-keyed window is abstracted to "what was      *)
(* written since the last fetch, plus re-read rules".                     *)
(***************************************************************************)
EXTENDS Integers, FiniteSets, TLC, Functions

CONSTANTS
    Rules,       \* rule ids
    Namespaces,  \* namespaces
    SvcNames,    \* service names
    AllMatched,  \* the wildcard "*" (allMatched)
    Targets,     \* the <<dstNamespace, dstService>> a rule may have
    MaxVer,      \* bound on writes per rule in the store
    Retarget     \* whether an update may change a rule's target

Global == <<AllMatched, AllMatched>>

ASSUME AllMatched \notin Namespaces \cup SvcNames
ASSUME Targets \subseteq (Namespaces \cup {AllMatched})
                           \X (SvcNames \cup {AllMatched})
ASSUME Global \in Targets
ASSUME MaxVer \in Nat \ {0} /\ Retarget \in BOOLEAN

VARIABLES
    ruleStore,   \* store: rule id -> [valid, tgt, ver]
    dirty,       \* rules written since the last fetch
    firstUpdate, \* baseCache.firtstUpdate
    rpc,         \* refresh task: "idle" | "apply" | "failed"
    batch,       \* fetched rules not yet applied: id -> record
    content,     \* bucket key -> (rule id -> stored rule [tgt, ver])
    brev,        \* bucket key -> revision ("" when empty)
    lost         \* history: rules whose latest write a failed round moved
                 \* out of the fetch window, not fetched since

vars == <<ruleStore, dirty, firstUpdate, rpc, batch, content, brev, lost>>

Keys == (Namespaces \cup {AllMatched}) \X (SvcNames \cup {AllMatched})
StoredRule == [tgt : Targets, ver : 1..MaxVer]
StoreRec == [valid : BOOLEAN, tgt : Targets, ver : 0..MaxVer]

\* A digest (ComputeRevisionBySlice over the sorted rule revisions) is a
\* function of the set of rule revisions; a rule revision is id and version.
\* The empty revision "" is <<>>.
Digest(revs) == <<"sha1", revs>>
Digests == {Digest(d) : d \in SUBSET (Rules \X (1..MaxVer)) \ {{}}}
NoRevision == <<>>

-----------------------------------------------------------------------------
(* Helpers translated from faultdetect.go.                                *)

\* Mutant: the revision of an emptied bucket is the digest of nothing.
ReloadRevisionNoEmpty(rules) == Digest({<<r, rules[r].ver>> : r \in DOMAIN rules})

\* reloadRevision: "" for an empty bucket, else the digest of its rules.
ReloadRevision(rules) ==
    IF DOMAIN rules = {} THEN NoRevision
    ELSE Digest({<<r, rules[r].ver>> : r \in DOMAIN rules})

\* getServicesInvolveByFaultDetectRule: the rule's destination as a
\* service key, none for the global wildcard.
ServicesInvolve(tgt) == IF tgt = Global THEN {} ELSE {tgt}

\* NewServiceWithFaultDetectRules: a bucket with no rules.
NewBucket == <<>>

\* AddFaultDetectRule and DelFaultDetectRule of a bucket.
AddRule(b, r, stored) == (r :> stored) @@ b
DelRule(b, r) == Restrict(b, DOMAIN b \ {r})

\* The specific buckets svcSpecificRules[ns][*] that exist.
SpecificOf(ns) == {k \in DOMAIN content : k[1] = ns /\ k[2] # AllMatched}

\* The buckets a rule with target tgt reaches through its service keys
\* (getServicesInvolveByFaultDetectRule): every bucket for the global
\* target; the namespace bucket and every existing specific bucket of the
\* namespace for <<ns, AllMatched>>; the specific bucket otherwise.
Reached(tgt) ==
    IF ServicesInvolve(tgt) = {} THEN DOMAIN content
    ELSE IF tgt[2] = AllMatched THEN {tgt} \cup SpecificOf(tgt[1])
    ELSE {tgt}

\* Mutant: a namespace-wildcard tombstone is removed from the namespace
\* bucket only, not from the specific buckets of the namespace.
DeleteReachedNsOnly(tgt) ==
    IF ServicesInvolve(tgt) = {} THEN DOMAIN content ELSE ServicesInvolve(tgt)

\* The buckets deleteFaultDetectRuleFromServiceCache removes a rule from.
DeleteReached(tgt) == Reached(tgt)

\* The buckets that exist after storeFaultDetectRuleToServiceCache: the
\* target's bucket is created when missing (except the global one, which
\* always exists).
Created(tgt) == DOMAIN content \cup ServicesInvolve(tgt)

\* GetFaultDetectConfig: the first existing of service, namespace, global.
Lookup(ns, svc) ==
    IF <<ns, svc>> \in DOMAIN content THEN <<ns, svc>>
    ELSE IF <<ns, AllMatched>> \in DOMAIN content THEN <<ns, AllMatched>>
    ELSE Global

-----------------------------------------------------------------------------
Init ==
    /\ ruleStore = [r \in Rules |-> [valid |-> FALSE, tgt |-> Global, ver |-> 0]]
    /\ dirty = {}
    /\ firstUpdate = TRUE
    /\ rpc = "idle"
    /\ batch = <<>>
    /\ content = Global :> <<>>
    /\ brev = Global :> NoRevision
    /\ lost = {}

\* A rule is created, updated (new revision, and a new target only when
\* Retarget) or deleted (a tombstone) in the store.
StoreWrite(r, valid, tgt) ==
    /\ ruleStore[r].ver < MaxVer
    /\ valid \/ ruleStore[r].valid
    /\ ruleStore[r].ver > 0 /\ ~Retarget => tgt = ruleStore[r].tgt
    /\ ~valid => tgt = ruleStore[r].tgt
    /\ ruleStore' = [ruleStore EXCEPT ![r] =
                       [valid |-> valid, tgt |-> tgt, ver |-> @.ver + 1]]
    /\ dirty' = dirty \cup {r}
    /\ lost' = lost \ {r}
    /\ UNCHANGED <<firstUpdate, rpc, batch, content, brev>>

\* Mutant: the incremental query filters on the valid flag, as the first
\* one does, and returns no tombstone.
FetchValidOnly ==
    /\ rpc = "idle"
    /\ \E again \in SUBSET {r \in Rules : ruleStore[r].ver > 0} :
          LET F == IF firstUpdate THEN {r \in Rules : ruleStore[r].valid}
                   ELSE {r \in dirty \cup again : ruleStore[r].valid}
          IN batch' = [r \in F |-> ruleStore[r]]
    /\ dirty' = {}
    /\ rpc' = "apply"
    /\ lost' = lost \ DOMAIN batch'
    /\ UNCHANGED <<ruleStore, firstUpdate, content, brev>>

\* GetFaultDetectRulesForCache succeeds: the full valid set on the first
\* run, otherwise the rules written since the last fetch and re-read ones.
Fetch ==
    /\ rpc = "idle"
    /\ \E again \in SUBSET {r \in Rules : ruleStore[r].ver > 0} :
          LET F == IF firstUpdate THEN {r \in Rules : ruleStore[r].valid}
                   ELSE dirty \cup again
          IN batch' = [r \in F |-> ruleStore[r]]
    /\ dirty' = {}
    /\ rpc' = "apply"
    /\ lost' = lost \ DOMAIN batch'
    /\ UNCHANGED <<ruleStore, firstUpdate, content, brev>>

\* GetFaultDetectRulesForCache fails: nothing is applied, but doCacheUpdate's
\* defer still moves lastFetchTime to the store time read before the fetch,
\* so the rules written before it less diffTime (any subset L of the
\* window) are never fetched by the following delta rounds.
FetchFail ==
    /\ rpc = "idle"
    /\ rpc' = "failed"
    /\ \E L \in SUBSET dirty :
          /\ dirty' = dirty \ L
          /\ lost' = lost \cup L
    /\ UNCHANGED <<ruleStore, firstUpdate, batch, content, brev>>

\* One iteration of setFaultDetectRules, under the cache lock: a tombstone
\* is deleted from the buckets its keys reach, a valid rule is stored
\* into them (creating its own bucket); every touched bucket's revision is
\* reloaded.
ApplyRule(r) ==
    /\ rpc = "apply"
    /\ r \in DOMAIN batch
    /\ LET rec == batch[r]
           stored == [tgt |-> rec.tgt, ver |-> rec.ver]
           keys == IF rec.valid THEN Created(rec.tgt) ELSE DOMAIN content
           touched == IF rec.valid THEN Reached(rec.tgt) \cap keys
                      ELSE DeleteReached(rec.tgt)
           old(k) == IF k \in DOMAIN content THEN content[k] ELSE NewBucket
           new(k) == IF rec.valid THEN AddRule(old(k), r, stored)
                     ELSE DelRule(old(k), r)
       IN /\ content' = [k \in keys |-> IF k \in touched THEN new(k)
                                         ELSE content[k]]
          /\ brev' = [k \in keys |-> IF k \in touched
                                     THEN ReloadRevision(new(k))
                                     ELSE brev[k]]
    /\ batch' = Restrict(batch, DOMAIN batch \ {r})
    /\ UNCHANGED <<ruleStore, dirty, firstUpdate, rpc, lost>>

\* clear (CacheManager.Clear): baseCache.clear makes the next fetch a full
\* one, then, under the cache lock, the global bucket is emptied and the
\* namespace and service buckets dropped.  It takes no part in the refresh
\* task and may run between any two of its steps.
Clear ==
    /\ firstUpdate' = TRUE
    /\ content' = Global :> NewBucket
    /\ brev' = Global :> NoRevision
    /\ UNCHANGED <<ruleStore, dirty, rpc, batch, lost>>

\* doCacheUpdate returns: firstUpdate is cleared when the fetch succeeded.
FinishRound ==
    /\ \/ rpc = "apply" /\ batch = <<>>
       \/ rpc = "failed"
    /\ firstUpdate' = (firstUpdate /\ rpc = "failed")
    /\ rpc' = "idle"
    /\ UNCHANGED <<ruleStore, dirty, batch, content, brev, lost>>

Next ==
    \/ \E r \in Rules, v \in BOOLEAN, t \in Targets : StoreWrite(r, v, t)
    \/ Fetch
    \/ FetchFail
    \/ \E r \in Rules : ApplyRule(r)
    \/ FinishRound
    \/ Clear

Spec == Init /\ [][Next]_vars /\ SF_vars(Fetch) /\ WF_vars(FinishRound)
        /\ WF_vars(\E r \in Rules : ApplyRule(r))

-----------------------------------------------------------------------------
(* Properties.                                                            *)

TypeOK ==
    /\ ruleStore \in [Rules -> StoreRec]
    /\ dirty \subseteq Rules /\ firstUpdate \in BOOLEAN
    /\ rpc \in {"idle", "apply", "failed"}
    /\ DOMAIN batch \subseteq Rules
    /\ Global \in DOMAIN content /\ DOMAIN content \subseteq Keys
    /\ \A k \in DOMAIN content :
          /\ DOMAIN content[k] \subseteq Rules
          /\ \A r \in DOMAIN content[k] : content[k][r] \in StoredRule
    /\ DOMAIN brev = DOMAIN content
    /\ \A k \in DOMAIN brev : brev[k] \in {NoRevision} \cup Digests
    /\ lost \subseteq Rules

\* Whether a rule with target tgt applies to service svc of namespace ns.
Matches(tgt, ns, svc) ==
    /\ tgt[1] \in {ns, AllMatched}
    /\ tgt[2] \in {svc, AllMatched}

\* The cache has applied everything written to the store: no write waits in
\* the window and none was dropped from it.
Synced == rpc = "idle" /\ dirty = {} /\ lost = {}

\* Once the cache has caught up with the store, the bucket a lookup returns
\* holds only live rules that apply to the service, each at its latest
\* revision, and its revision is the digest of exactly those rules: no
\* tombstoned, outdated or foreign rule survives any order of creates,
\* updates, deletes and re-reads across the three bucket levels.
LookupSound ==
    Synced =>
        \A ns \in Namespaces, svc \in SvcNames :
            LET k == Lookup(ns, svc) IN
            /\ \A r \in DOMAIN content[k] :
                  /\ ruleStore[r].valid
                  /\ Matches(ruleStore[r].tgt, ns, svc)
                  /\ content[k][r].ver = ruleStore[r].ver
            /\ brev[k] = IF DOMAIN content[k] = {} THEN NoRevision
                         ELSE Digest({<<r, ruleStore[r].ver>> :
                                        r \in DOMAIN content[k]})

\* A deleted rule eventually leaves every bucket it was fanned out to: the
\* tombstone is fetched, and deleteFaultDetectRuleFromServiceCache reaches
\* the namespace bucket and every service bucket of the namespace for a
\* namespace-wildcard rule, every bucket for a global one, under fetches
\* that may fail and a Clear at any point of the round.  The exception is a
\* tombstone a failed round moved out of the fetch window: this cache has
\* no checkAll, so nothing but a Clear or a new write of the rule removes it.
TombstoneEventuallyGone ==
    \A r \in Rules :
        (~ruleStore[r].valid /\ ruleStore[r].ver > 0)
            ~> \/ ruleStore[r].valid
               \/ r \in lost
               \/ \A k \in DOMAIN content : r \notin DOMAIN content[k]

=============================================================================
