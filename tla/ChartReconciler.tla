--------------------------- MODULE ChartReconciler ---------------------------
(***************************************************************************)
(* ChartReconciler.Reconcile of the manager with chart.New, Update and     *)
(* CreateOrUpdateSubCharts: for every version of a Chart the archive is    *)
(* loaded, from the configmaps of an earlier round if there are any and    *)
(* from the helm repository otherwise, and put into configmaps; then the   *)
(* Charts it depends on are created or given the version they need.        *)
(*                                                                         *)
(* Left out: semver constraints (a version is in the index or not),        *)
(* conditions on dependencies, archives that bundle their dependencies,    *)
(* Charts with createDeps off, and repositories other than the one.        *)
(***************************************************************************)
EXTENDS ManagerState

(* syncStatus with a reason. *)
Sync(w, reason) == [w EXCEPT !.pc = "status", !.goal = reason, !.todo = {},
                             !.ver = {}, !.parts = {}, !.deps = {},
                             !.load = Unloaded]

(* What comes after version by version: first all their configmaps, then   *)
(* all their dependencies.                                                 *)
ToDeps(w, deps) == IF deps = {} THEN Sync(w, "success")
                   ELSE [w EXCEPT !.pc = "deps", !.deps = deps]
AllDeps(w) == {d \in Chart \X Version :
                  \E c \in w.cur, v \in w.obj.vers : d \in Dep[<<c, v>>]}

NextVersion(w) ==
    LET v == [w EXCEPT !.ver = {}, !.parts = {}, !.load = Unloaded]
    IN IF w.todo = {} THEN ToDeps(v, AllDeps(w))
       ELSE [v EXCEPT !.pc = "prepare"]

StartChart(c) ==
    /\ cw.pc = "idle" /\ c \in cq
    /\ cq' = cq \ {c}
    /\ cw' = IF ~chart[c].exists THEN IdleChartWorker
             ELSE [IdleChartWorker EXCEPT
                      !.pc = IF Labelled(c) THEN "new" ELSE "label",
                      !.cur = {c}, !.obj = chart[c], !.fresh = TRUE]
    /\ UNCHANGED <<published, repo, chart, idx, cm, dead, rq, rw, deleted,
                   edits, faults>>

(* The chart label is set by one Update, the repo label with the unmanaged *)
(* mark by a second one.  Errors are ignored: the worker's copy has the    *)
(* labels anyway.                                                          *)
SetLabels(c) ==
    LET o == IF ~cw.obj.lchart THEN [cw.obj EXCEPT !.lchart = TRUE]
             ELSE [cw.obj EXCEPT !.lrepo = TRUE, !.unmanaged = TRUE]
    IN
    /\ cw.pc = "label" /\ c \in cw.cur
    /\ cw' = [cw EXCEPT !.obj = o,
                        !.pc = IF o.lchart /\ o.lrepo THEN "new" ELSE "label"]
    /\ \/ cw.fresh /\ NoFault /\ PutChart(c, o)
       \/ /\ (~cw.fresh /\ NoFault) \/ Fault("write")
          /\ UNCHANGED <<chart, cq>>
    /\ UNCHANGED <<published, repo, idx, cm, dead, rq, rw, deleted,
                   edits>>

(* chart.New: the index configmap must be there and know every version,    *)
(* and the Repository must exist.                                          *)
NewChart(c) ==
    /\ cw.pc = "new" /\ c \in cw.cur
    /\ NoFault
    /\ cw' = IF idx[c] = {} \/ ~(cw.obj.vers \subseteq idx[c])
                \/ (cw.obj.vers # {} /\ ~repo.exists)
             THEN Sync(cw, "init")
             ELSE NextVersion([cw EXCEPT !.todo = cw.obj.vers,
                                         !.gone = @ \ {"repo"}])
    /\ UNCHANGED <<published, repo, chart, idx, cm, dead, rq, cq, rw, deleted,
                   edits>>

-----------------------------------------------------------------------------
(* getChart: the chart as its configmaps have it, if the Chart is found by *)
(* its labels and they hold a file.  What they lack the chart lacks.       *)
HasFiles(c, v) == \E p \in Part \ {"default"} : cm[c][v][p] = "full"
Loadable(c, v) == Labelled(c) /\ HasFiles(c, v)
Stored(c, v) == [p \in Part |-> IF cm[c][v][p] = "full" THEN "full"
                                                        ELSE "hollow"]
Archive == [p \in Part |-> "full"]

(* addDependencies: every Chart of the repository that is a dependency has *)
(* to be in the index and loadable, at the version asked for.              *)
DepLoads(d, v) == chart[d].exists /\ chart[d].lrepo
                  => v \in idx[d] /\ repo.exists /\ Loadable(d, v)

(* chartversion.New and Prepare. *)
Prepare(c, v) ==
    /\ cw.pc = "prepare" /\ c \in cw.cur /\ v \in cw.todo
    /\ LET loaded(x) == [cw EXCEPT !.pc = "deploy", !.todo = @ \ {v},
                                   !.ver = {v}, !.load = x, !.parts = Part]
           ready(x) == IF \A d \in Dep[<<c, v>>] : DepLoads(d[1], d[2])
                       THEN loaded(x) ELSE Sync(cw, "configmaps")
       IN \/ Loadable(c, v) /\ NoFault /\ cw' = ready(Stored(c, v))
          \/ ~Loadable(c, v) /\ NoFault /\ cw' = ready(Archive)
          \/ ~Loadable(c, v) /\ Fault("http") /\ cw' = Sync(cw, "configmaps")
    /\ UNCHANGED <<published, repo, chart, idx, cm, dead, rq, cq, rw, deleted,
                   edits>>

(* ManageSubResources: a configmap that is not there is created, one that  *)
(* is there is updated, which the apiserver refuses if it would change an  *)
(* immutable configmap.  Errors are only logged.  Mutant: the receiver     *)
(* stops after the first configmap.                                        *)
RestOfPartsNone(parts, p) == {}
RestOfParts(parts, p) == parts \ {p}

DeployConfigMap(c, v, p) ==
    /\ cw.pc = "deploy" /\ c \in cw.cur /\ v \in cw.ver /\ p \in cw.parts
    /\ LET rest == RestOfParts(cw.parts, p)
           key == {<<c, v, p>>}
       IN /\ cw' = IF rest = {} THEN NextVersion(cw)
                   ELSE [cw EXCEPT !.parts = rest]
          /\ \/ /\ cm[c][v][p] \in {"none", cw.load[p]} /\ NoFault
                /\ cm' = [cm EXCEPT ![c][v][p] = cw.load[p]]
                /\ dead' = IF "chart" \in cw.gone THEN dead \cup key
                           ELSE dead \ key
             \/ /\ \/ cm[c][v][p] \notin {"none", cw.load[p]} /\ NoFault
                   \/ Fault("configmap")
                /\ UNCHANGED <<cm, dead>>
    /\ UNCHANGED <<published, repo, chart, idx, rq, cq, rw, deleted,
                   edits>>

-----------------------------------------------------------------------------
(* createOrUpdateSubChart.  The watch that follows a write delivers first  *)
(* an event for a chart that is there already, which does not count as     *)
(* synced, so a write always ends the round with an error.  A chart that   *)
(* has not got its chart label yet is not found, and cannot be created.    *)
SubChart(v) == [NoChart EXCEPT !.exists = TRUE, !.vers = {v}, !.owned = TRUE,
                               !.lrepo = TRUE, !.unmanaged = TRUE]

CreateOrUpdateSubChart(d, v) ==
    /\ cw.pc = "deps" /\ <<d, v>> \in cw.deps
    /\ \/ /\ Labelled(d) /\ v \in chart[d].vers /\ NoFault
          /\ cw' = ToDeps(cw, cw.deps \ {<<d, v>>})
          /\ UNCHANGED <<chart, cq, dead>>
       \/ /\ Labelled(d) /\ v \notin chart[d].vers /\ NoFault
          /\ PutChart(d, [chart[d] EXCEPT !.vers = @ \cup {v}])
          /\ cw' = Sync(StaleChart(d), "deps")
          /\ UNCHANGED dead
       \/ /\ ~chart[d].exists /\ NoFault
          /\ PutChart(d, SubChart(v))
          /\ dead' = IF "repo" \in cw.gone THEN dead \cup {ChartKey(d)} ELSE dead
          /\ cw' = Sync(cw, "deps")
       \/ /\ \/ chart[d].exists /\ ~Labelled(d) /\ NoFault
             \/ Fault("chart")
          /\ cw' = Sync(cw, "deps")
          /\ UNCHANGED <<chart, cq, dead>>
    /\ UNCHANGED <<published, repo, idx, cm, rq, rw, deleted, edits>>

(* syncStatus: the same status again asks for another round in 30 seconds, *)
(* a new one is written and its event brings the key back, and so does the *)
(* error of a write that fails.  Mutant: no other round.                   *)
Again30Never(c) == cq
Again30(c) == cq \cup {c}

SyncChartStatus(c) ==
    /\ cw.pc = "status" /\ c \in cw.cur
    /\ cw' = IdleChartWorker
    /\ LET same == cw.obj.st = cw.goal
       IN \/ same /\ NoFault /\ cq' = Again30(c) /\ UNCHANGED chart
          \/ /\ ~same /\ cw.fresh /\ NoFault
             /\ PutChart(c, [chart[c] EXCEPT !.st = cw.goal])
          \/ /\ ~same
             /\ (~cw.fresh /\ NoFault) \/ Fault("write")
             /\ cq' = cq \cup {c}
             /\ UNCHANGED chart
    /\ UNCHANGED <<published, repo, idx, cm, dead, rq, rw, deleted,
                   edits>>

ChartStep ==
    \E c \in Chart :
        \/ StartChart(c) \/ SetLabels(c) \/ NewChart(c)
        \/ \E v \in Version : \/ Prepare(c, v)
                              \/ CreateOrUpdateSubChart(c, v)
                              \/ \E p \in Part : DeployConfigMap(c, v, p)
        \/ SyncChartStatus(c)
=============================================================================
