---------------------------- MODULE ManagerState ----------------------------
(***************************************************************************)
(* The state shared by the reconcilers of the manager process ("operator   *)
(* run"): one Repository object, the Chart objects, the configmaps with    *)
(* the repository's index and with the content of chart versions, and the  *)
(* garbage collector that follows owner references.  The actions of the    *)
(* reconcilers are in RepoReconciler and ChartReconciler, their            *)
(* composition in Manager.                                                 *)
(*                                                                         *)
(* A Chart is known by the name in its spec; selectors keep the charts of  *)
(* different repositories apart.  An Update that sends the resourceVersion *)
(* just read is atomic when it succeeds and changes nothing when it is     *)
(* refused, so it is one action here; only the copy of its own object that *)
(* a worker holds for the whole reconciliation can be stale ("fresh").     *)
(***************************************************************************)
EXTENDS Naturals, FiniteSets

CONSTANTS
    Chart,         \* chart names
    Version,       \* chart versions
    Part,          \* configmaps of a version: "default", "tmpl", "crds"
    Dep,           \* Dep[<<c, v>>]: the <<chart, version>> c at v depends on
    Lists,         \* sets of chart versions users have a Repository list
    Faults,        \* kinds of failing calls that are explored, and "restart"
    MaxFaults,     \* bound: failing calls and restarts in a behaviour
    MaxEdits       \* bound: writes by users and the publisher in a behaviour

(* Failing calls: downloads, writes of configmaps, writes and lists of     *)
(* Charts, writes of a worker's own object; and a restart of the manager.  *)
FaultKinds == {"http", "configmap", "chart", "write", "restart"}

ASSUME ChartAssumption == IsFiniteSet(Chart)
ASSUME PartAssumption == {"default", "tmpl"} \subseteq Part
ASSUME DepAssumption == Dep \in [Chart \X Version -> SUBSET (Chart \X Version)]
ASSUME ListsAssumption == Lists \subseteq SUBSET (Chart \X Version)
ASSUME ManagerBounds == /\ Faults \subseteq FaultKinds
                        /\ MaxFaults \in Nat /\ MaxEdits \in Nat

VARIABLES
    published,  \* published[c]: versions in the index of the helm repository
    repo,       \* the Repository object
    chart,      \* chart[c]: the Chart object
    idx,        \* idx[c]: content of the index configmap, {} without one
    cm,         \* cm[c][v][p]: content of a configmap of a chart version
    dead,       \* objects whose owner is gone, waiting for the collector
    rq, cq,     \* work queues (and timers) of the two controllers
    rw, cw,     \* their workers, one each
    deleted,    \* history: charts that have been deleted
    edits, faults

vars == <<published, repo, chart, idx, cm, dead, rq, cq, rw, cw, deleted,
          edits, faults>>

-----------------------------------------------------------------------------
(* The chart versions a Repository lists; the charts among them.           *)
RepoObj == [exists: BOOLEAN, deleting: BOOLEAN, fin: BOOLEAN,
            want: SUBSET (Chart \X Version),
            st: {"none", "ok", "failed"},   \* condition "synced"
            count: Nat]                     \* status.charts

NoRepo == [exists |-> FALSE, deleting |-> FALSE, fin |-> FALSE,
           want |-> {}, st |-> "none", count |-> 0]

Listed(o) == {p[1] : p \in o.want}
VersionsOf(o, c) == {v \in Version : <<c, v>> \in o.want}

(* A Chart: its labels repo, chart and unmanaged, its owner reference and  *)
(* the reason in its "synced" condition.                                   *)
Reason == {"none", "init", "configmaps", "deps", "success"}

ChartObj == [exists: BOOLEAN, vers: SUBSET Version, owned: BOOLEAN,
             lrepo: BOOLEAN, lchart: BOOLEAN, unmanaged: BOOLEAN, st: Reason]

NoChart == [exists |-> FALSE, vers |-> {}, owned |-> FALSE, lrepo |-> FALSE,
            lchart |-> FALSE, unmanaged |-> FALSE, st |-> "none"]

(* A Chart that is found by its labels. *)
Labelled(c) == chart[c].exists /\ chart[c].lrepo /\ chart[c].lchart

(* A configmap of a version holds what the chart archive has for it, or    *)
(* nothing ("hollow").  They are immutable.                                *)
Content == {"none", "full", "hollow"}

(* The worker of the repository controller: the object it read, the index  *)
(* it downloaded, and the charts the current phase has still to visit.     *)
RepoWorker == [pc: {"idle", "drop", "adopt", "index", "list", "prune",
                    "deploy", "status"},
               obj: RepoObj, fresh: BOOLEAN, index: [Chart -> SUBSET Version],
               todo: SUBSET Chart, ok: BOOLEAN]

IdleRepoWorker == [pc |-> "idle", obj |-> NoRepo, fresh |-> FALSE,
                   index |-> [c \in Chart |-> {}], todo |-> {}, ok |-> FALSE]

(* The worker of the chart controller: the object it read, what it still   *)
(* has to do, the version at hand with its loaded chart, and which objects *)
(* it holds have been removed meanwhile.                                   *)
ChartWorker == [pc: {"idle", "label", "new", "prepare", "deploy", "deps",
                     "status"},
                cur: SUBSET Chart, obj: ChartObj, fresh: BOOLEAN,
                todo: SUBSET Version, ver: SUBSET Version,
                load: [Part -> Content], parts: SUBSET Part,
                deps: SUBSET (Chart \X Version), goal: Reason,
                gone: SUBSET {"chart", "repo"}]

Unloaded == [p \in Part |-> "none"]

IdleChartWorker == [pc |-> "idle", cur |-> {}, obj |-> NoChart,
                    fresh |-> FALSE, todo |-> {}, ver |-> {},
                    load |-> Unloaded, parts |-> {}, deps |-> {},
                    goal |-> "none", gone |-> {}]

(* Names of objects with an owner, as the collector sees them.             *)
ChartKey(c) == <<c, "chart">>
IndexKey(c) == <<c, "index">>
PartKeys(c) == {<<c, v, p>> : v \in Version, p \in Part}
Key == {ChartKey(c) : c \in Chart} \cup {IndexKey(c) : c \in Chart}
       \cup UNION {PartKeys(c) : c \in Chart}

Fault(k) == /\ k \in Faults /\ faults < MaxFaults
            /\ faults' = faults + 1
NoFault == faults' = faults

-----------------------------------------------------------------------------
(* Writes.  Each leaves alone what it does not name. *)

(* Chart c becomes o; a write that changes nothing is no event.            *)
PutChart(c, o) ==
    /\ chart' = [chart EXCEPT ![c] = o]
    /\ cq' = IF o = chart[c] THEN cq ELSE cq \cup {c}

(* Whoever else writes c makes the copy its worker holds stale.            *)
StaleChart(c) == IF c \in cw.cur THEN [cw EXCEPT !.fresh = FALSE] ELSE cw

(* A Chart is removed (Charts have no finalizer); its configmaps are left  *)
(* to the collector.                                                       *)
RemoveChart(c) ==
    /\ chart' = [chart EXCEPT ![c] = NoChart]
    /\ dead' = (dead \ {ChartKey(c)}) \cup
               {k \in PartKeys(c) : cm[c][k[2]][k[3]] # "none"}
    /\ cq' = cq \cup {c}
    /\ cw' = IF c \in cw.cur
             THEN [cw EXCEPT !.fresh = FALSE, !.gone = @ \cup {"chart"}] ELSE cw
    /\ deleted' = deleted \cup {c}

(* Users and the publisher of the helm repository. *)
Edit == edits < MaxEdits /\ edits' = edits + 1

PutRepo(o) ==
    /\ Edit
    /\ repo' = o
    /\ rq' = TRUE
    /\ rw' = [rw EXCEPT !.fresh = FALSE]
    /\ UNCHANGED <<published, chart, idx, cm, dead, cq, cw, deleted,
                   faults>>

CreateRepo(want) == /\ ~repo.exists
                    /\ PutRepo([NoRepo EXCEPT !.exists = TRUE, !.want = want])
EditRepo(want) == /\ repo.exists /\ want # repo.want
                  /\ PutRepo([repo EXCEPT !.want = want])
DeleteRepo == /\ repo.exists /\ ~repo.deleting
              /\ PutRepo(IF repo.fin THEN [repo EXCEPT !.deleting = TRUE]
                         ELSE NoRepo)

(* A Chart created by hand has no labels and no owner.                     *)
WriteChart(c, vers) ==
    /\ Edit
    /\ vers # chart[c].vers
    /\ PutChart(c, [chart[c] EXCEPT !.exists = TRUE, !.vers = vers])
    /\ cw' = StaleChart(c)
    /\ UNCHANGED <<published, repo, idx, cm, dead, rq, rw, deleted,
                   faults>>

DeleteChart(c) ==
    /\ Edit
    /\ chart[c].exists
    /\ RemoveChart(c)
    /\ UNCHANGED <<published, repo, idx, cm, rq, rw, faults>>

Publish(c, v) ==
    /\ Edit
    /\ v \notin published[c]
    /\ published' = [published EXCEPT ![c] = @ \cup {v}]
    /\ UNCHANGED <<repo, chart, idx, cm, dead, rq, cq, rw, cw, deleted,
                   faults>>

User == \/ \E want \in Lists : CreateRepo(want) \/ EditRepo(want)
        \/ DeleteRepo
        \/ \E c \in Chart : \/ \E vers \in SUBSET Version : WriteChart(c, vers)
                            \/ DeleteChart(c)
                            \/ \E v \in Version : Publish(c, v)

(* The garbage collector removes one object whose owner is gone.           *)
CollectChart(c) ==
    /\ ChartKey(c) \in dead
    /\ RemoveChart(c)
    /\ UNCHANGED <<published, repo, idx, cm, rq, rw, edits, faults>>

CollectConfigMap(c) ==
    /\ \/ /\ IndexKey(c) \in dead
          /\ dead' = dead \ {IndexKey(c)}
          /\ idx' = [idx EXCEPT ![c] = {}]
          /\ UNCHANGED cm
       \/ \E v \in Version, p \in Part :
             /\ <<c, v, p>> \in dead
             /\ dead' = dead \ {<<c, v, p>>}
             /\ cm' = [cm EXCEPT ![c][v][p] = "none"]
             /\ UNCHANGED idx
    /\ UNCHANGED <<published, repo, chart, rq, cq, rw, cw, deleted,
                   edits, faults>>

Collector == \E c \in Chart : CollectChart(c) \/ CollectConfigMap(c)

(* The manager dies between any two calls and starts again.                *)
Restart ==
    /\ Fault("restart")
    /\ rw' = IdleRepoWorker /\ cw' = IdleChartWorker
    /\ rq' = repo.exists
    /\ cq' = {c \in Chart : chart[c].exists}
    /\ UNCHANGED <<published, repo, chart, idx, cm, dead, deleted, edits>>

Init == /\ published \in [Chart -> SUBSET Version]
        /\ repo = NoRepo
        /\ chart = [c \in Chart |-> NoChart]
        /\ idx = [c \in Chart |-> {}]
        /\ cm = [c \in Chart |-> [v \in Version |-> Unloaded]]
        /\ dead = {} /\ rq = FALSE /\ cq = {} /\ deleted = {}
        /\ rw = IdleRepoWorker /\ cw = IdleChartWorker
        /\ edits = 0 /\ faults = 0
=============================================================================
