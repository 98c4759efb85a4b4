------------------------- MODULE ConfigFileMetrics -------------------------
(***************************************************************************)
(* The config file cache's metrics reporter (reportMetricsInfo and        *)
(* cleanExpireConfigFileMetricLabel, src/cache/config_file_metrics.go).   *)
(* Once a minute it reads three counts from the store in separate calls:  *)
(* groups per namespace, files per group and released files per group,   *)
(* each keyed by the labels that have a count at all.  It then deletes the *)
(* gauge labels of the groups it remembered from its last report and no   *)
(* longer sees, sets a gauge for every count read, and remembers the      *)
(* groups of the files count for the next tick (preGroup).                *)
(*                                                                         *)
(* A gauge is a function from its labels to the value last set; Delete     *)
(* removes a label and Set (ReportConfigMetrics, outside src/) overrides   *)
(* one.  The store counts are variables of the host that composes this     *)
(* module with the handlers that write the store; the reporter reads them *)
(* and never writes them.  A <<namespace, group>> pair stands for the      *)
(* nested map the code keys by namespace and then by group.               *)
(***************************************************************************)
EXTENDS Naturals, FiniteSets, Functions, TLC

CONSTANTS
    Namespaces,    \* namespaces of the groups
    Groups,        \* group names
    MaxCount       \* bound on every count the store returns

Labels == Namespaces \X Groups

VARIABLES
    groupCounts,   \* CountGroupEachNamespace: namespace -> groups, if any
    fileCounts,    \* CountConfigFileEachGroup: label -> files, if any
    releaseCounts, \* CountConfigFileReleaseEachGroup: label -> releases, if any
    mpc,           \* "wait" at the select, "files" / "releases" between reads
    cg,            \* configGroups read in this tick
    cf,            \* configFiles read in this tick
    preGroup,      \* the labels of the files count of the last report
    groupGauge,    \* config group total, by namespace
    fileGauge,     \* config file total, by label
    releaseGauge,  \* released config file total, by label
    shownFiles     \* history: the files count of the last report

reporterVars == <<mpc, cg, cf, preGroup, groupGauge, fileGauge, releaseGauge,
                  shownFiles>>
storeViews == <<groupCounts, fileCounts, releaseCounts>>

NoCounts == [l \in {} |-> 0]

NsOf(L) == {l[1] : l \in L}

-----------------------------------------------------------------------------
(* cleanExpireConfigFileMetricLabel(pre, curr).  The early return on an    *)
(* empty pre gives what the loops give on it: nothing to delete.          *)

\* removeNs: the namespaces of pre that curr has no entry for.
ExpiredNs(pre, curr) == NsOf(pre) \ NsOf(curr)

\* Mutant: the difference taken the wrong way round.
ExpiredGroupsSwapped(pre, curr) == curr \ pre

\* remove: the groups of pre that curr has no entry for (curr[ns][group]
\* of a namespace curr lacks reads the nil map: not there).
ExpiredGroups(pre, curr) == pre \ curr

\* GaugeVec.Delete of every label in L.
Deleted(gauge, L) == Restrict(gauge, DOMAIN gauge \ L)

\* ReportConfigMetrics: Set of every label of the counts, over the gauge.
Report(counts, gauge) == counts @@ gauge

-----------------------------------------------------------------------------
Init ==
    /\ mpc = "wait"
    /\ cg = NoCounts
    /\ cf = NoCounts
    /\ preGroup = {}
    /\ groupGauge = NoCounts
    /\ fileGauge = NoCounts
    /\ releaseGauge = NoCounts
    /\ shownFiles = NoCounts

\* The ticker fires and CountGroupEachNamespace returns.  When it fails the
\* loop continues to the next tick having changed nothing: a stutter.
Tick ==
    /\ mpc = "wait"
    /\ cg' = groupCounts
    /\ mpc' = "files"
    /\ UNCHANGED <<cf, preGroup, groupGauge, fileGauge, releaseGauge, shownFiles>>

\* CountConfigFileEachGroup returns.
ReadFiles ==
    /\ mpc = "files"
    /\ cf' = fileCounts
    /\ mpc' = "releases"
    /\ UNCHANGED <<cg, preGroup, groupGauge, fileGauge, releaseGauge, shownFiles>>

\* The files or the releases count fails: continue, dropping what this
\* tick has read; preGroup and the gauges stay as the last report left them.
ReadFail ==
    /\ mpc \in {"files", "releases"}
    /\ mpc' = "wait"
    /\ cg' = NoCounts
    /\ cf' = NoCounts
    /\ UNCHANGED <<preGroup, groupGauge, fileGauge, releaseGauge, shownFiles>>

\* Mutant: preGroup = tmpGroup before the cleanup call, which then
\* compares the new labels with themselves.
ReportTickPreFirst ==
    /\ mpc = "releases"
    /\ LET tmpGroup == DOMAIN cf
       IN /\ groupGauge' = Report(cg, Deleted(groupGauge, ExpiredNs(tmpGroup, tmpGroup)))
          /\ fileGauge' = Report(cf, Deleted(fileGauge, ExpiredGroups(tmpGroup, tmpGroup)))
          /\ releaseGauge' = Report(releaseCounts, Deleted(releaseGauge, ExpiredGroups(tmpGroup, tmpGroup)))
          /\ preGroup' = tmpGroup
    /\ shownFiles' = cf
    /\ mpc' = "wait"
    /\ cg' = NoCounts
    /\ cf' = NoCounts

\* CountConfigFileReleaseEachGroup returns; tmpGroup is built from the
\* files count alone, the expired labels are deleted, preGroup becomes
\* tmpGroup and every count read is set.
ReportTick ==
    /\ mpc = "releases"
    /\ LET tmpGroup == DOMAIN cf
           rel == releaseCounts
       IN /\ groupGauge' = Report(cg, Deleted(groupGauge, ExpiredNs(preGroup, tmpGroup)))
          /\ fileGauge' = Report(cf, Deleted(fileGauge, ExpiredGroups(preGroup, tmpGroup)))
          /\ releaseGauge' = Report(rel, Deleted(releaseGauge, ExpiredGroups(preGroup, tmpGroup)))
          /\ preGroup' = tmpGroup
    /\ shownFiles' = cf
    /\ mpc' = "wait"
    /\ cg' = NoCounts
    /\ cf' = NoCounts

\* ctx.Done: the cache is closed and the reporter returns.
Stop ==
    /\ mpc = "wait"
    /\ mpc' = "done"
    /\ UNCHANGED <<cg, cf, preGroup, groupGauge, fileGauge, releaseGauge, shownFiles>>

ReporterNext == Tick \/ ReadFiles \/ ReadFail \/ ReportTick \/ Stop

\* The ticker fires every minute while the reporter waits; the store is
\* assumed to answer a count query that is asked again and again.
ReporterFairness ==
    /\ WF_reporterVars(Tick)
    /\ SF_reporterVars(ReadFiles)
    /\ SF_reporterVars(ReportTick)

-----------------------------------------------------------------------------
Counts(D) == UNION {[L -> 1..MaxCount] : L \in SUBSET D}

TypeOK ==
    /\ mpc \in {"wait", "files", "releases", "done"}
    /\ cg \in Counts(Namespaces) /\ groupGauge \in Counts(Namespaces)
    /\ {cf, fileGauge, releaseGauge, shownFiles} \subseteq Counts(Labels)
    /\ preGroup \subseteq Labels

\* The config file gauge shows exactly the files count of the
\* last completed report: no label of a group whose files were gone at that
\* report survives, whichever earlier ticks failed part-way (the deletes of
\* cleanExpireConfigFileMetricLabel work from the preGroup of the last
\* report, not of the last tick).
FileGaugeCurrent == fileGauge = shownFiles

\* A config file gauge label whose group has no files in the store is
\* eventually deleted, unless files come back or the reporter stops.
FileGaugeCleared ==
    \A l \in Labels :
        (l \in DOMAIN fileGauge /\ l \notin DOMAIN fileCounts)
            ~> (l \notin DOMAIN fileGauge \/ l \in DOMAIN fileCounts \/ mpc = "done")

=============================================================================
