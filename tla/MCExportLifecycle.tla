-------------------------- MODULE MCExportLifecycle --------------------------
(* Instances of ExportLifecycle: two files of DataService a; a file of each  *)
(* of DataServices a and b; a file of a and a report of each of ILMT hosts h *)
(* and k, which have one name and one key.                                   *)
EXTENDS ExportLifecycle, TLC

CONSTANTS f1, f2, r1, r2, a, b, h, k

OneClusterFiles == {f1, f2}
OneCluster      == {a}
OneClusterOf    == (f1 :> a) @@ (f2 :> a)

TwoClusters     == {a, b}
TwoClustersOf   == (f1 :> a) @@ (f2 :> b)

MixedFiles      == {f1, r1, r2}
MixedReports    == {r1, r2}
MixedSources    == {a, h, k}
MixedSourceOf   == (f1 :> a) @@ (r1 :> h) @@ (r2 :> k)

(* The two hosts may be exchanged, with their reports. *)
HostsExchanged  == {s \in Permutations({r1, r2, h, k}) :
                      \A r \in MixedReports : s[r] \in MixedReports /\ MixedSourceOf[s[r]] = s[MixedSourceOf[r]]}

NoReports       == {}
Unique          == [f \in {f1, f2, r1, r2} |-> f]
OneReportName   == (f1 :> "file") @@ (r1 :> "report") @@ (r2 :> "report")
=============================================================================
