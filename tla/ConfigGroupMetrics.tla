------------------------- MODULE ConfigGroupMetrics -------------------------
(***************************************************************************)
(* The config group handlers (ConfigGroup) composed with the metrics       *)
(* reporter of the config file cache (ConfigFileMetrics): the handlers    *)
(* write the group and file rows, publish and release-delete requests     *)
(* write the release rows of the group's files, and the reporter reads    *)
(* the three per-group counts of that store once a minute, interleaved     *)
(* with the handlers' steps.  The one group lives in namespace NS under    *)
(* the name GroupName; the files count is keyed by the group name the     *)
(* file rows carry, so files left behind by a group delete still count.  *)
(***************************************************************************)
EXTENDS ConfigGroup, TLC

CONSTANTS
    NS,          \* the namespace of the group
    GroupName    \* the name of the group

VARIABLES
    released,    \* a file of the group has a live release row
    mpc, cg, cf, preGroup, groupGauge, fileGauge, releaseGauge, shownFiles

metricVars == <<mpc, cg, cf, preGroup, groupGauge, fileGauge, releaseGauge,
                shownFiles>>
allVars == <<vars, released, metricVars>>

NoCount == [l \in {} |-> 0]

\* CountGroupEachNamespace over the group table: one group row in NS.
GroupCounts == IF group # 0 THEN NS :> 1 ELSE NoCount

\* CountConfigFileEachGroup over the file table, by the group name the
\* files carry.
FileCounts == IF files # {} THEN <<NS, GroupName>> :> Cardinality(files) ELSE NoCount

\* CountConfigFileReleaseEachGroup over the release table.
ReleaseCounts == IF released THEN <<NS, GroupName>> :> 1 ELSE NoCount

M == INSTANCE ConfigFileMetrics
        WITH Namespaces <- {NS}, Groups <- {GroupName}, MaxCount <- NFiles,
             groupCounts <- GroupCounts, fileCounts <- FileCounts,
             releaseCounts <- ReleaseCounts

-----------------------------------------------------------------------------
\* PublishConfigFile of a file of the group: GetConfigFile finds the file,
\* and the release row is created or updated to live.
PublishRelease ==
    /\ files # {}
    /\ released' = TRUE

\* DeleteConfigFileRelease of that file's release.
DeleteRelease ==
    /\ released
    /\ released' = FALSE

SystemInit == Init /\ released = FALSE /\ M!Init

SystemNext ==
    \/ Next /\ UNCHANGED <<released, metricVars>>
    \/ (PublishRelease \/ DeleteRelease) /\ UNCHANGED <<vars, metricVars>>
    \/ M!ReporterNext /\ UNCHANGED <<vars, released>>

SystemSpec == SystemInit /\ [][SystemNext]_allVars /\ M!ReporterFairness

-----------------------------------------------------------------------------
SystemTypeOK == TypeOK /\ released \in BOOLEAN /\ M!TypeOK

\* The config file gauge shows exactly the files count of the last report
\* of reportMetricsInfo, whatever the handlers did between its reads.
FileGaugeCurrent == M!FileGaugeCurrent

\* A config file gauge label of a group left without files is eventually
\* deleted by cleanExpireConfigFileMetricLabel.
FileGaugeCleared == M!FileGaugeCleared

=============================================================================
