------------------------------ MODULE Manager -------------------------------
(***************************************************************************)
(* The manager process: the repository controller and the chart controller *)
(* with one worker each, over the apiserver and a helm repository, with    *)
(* users, a publisher, the garbage collector, failures and restarts.       *)
(***************************************************************************)
EXTENDS RepoReconciler, ChartReconciler

Next == \/ RepoStep
        \/ ChartStep
        \/ User
        \/ Collector
        \/ Restart

Spec == Init /\ [][Next]_vars

(* The workers never stop taking keys, timers fire, and the collector      *)
(* works.  A work queue is first in, first out, so no chart waits forever. *)
(* Go starts each iteration over a map at a random place, so every chart   *)
(* of the index is the first to be written time and again.                 *)
FairSpec == /\ Spec
            /\ WF_vars(RepoStep) /\ WF_vars(ChartStep) /\ WF_vars(Collector)
            /\ \A c \in Chart : SF_vars(StartChart(c)) /\ SF_vars(WriteIndex(c))

-----------------------------------------------------------------------------
(* Types; besides, a worker in a phase has something to do in it, and what *)
(* waits for the collector is there.                                       *)
WorkersBusy ==
    /\ (rw.pc \in {"index", "prune", "deploy"}) <=> (rw.todo # {})
    /\ (cw.pc = "idle") <=> (cw.cur = {})
    /\ cw.pc = "prepare" => cw.todo # {}
    /\ (cw.pc = "deploy") <=> (cw.ver # {} /\ cw.parts # {})
    /\ (cw.pc = "deps") <=> (cw.deps # {})

DeadExist ==
    \A c \in Chart : /\ ChartKey(c) \in dead => chart[c].exists /\ chart[c].owned
                     /\ IndexKey(c) \in dead => idx[c] # {}
                     /\ \A v \in Version, p \in Part :
                           <<c, v, p>> \in dead => cm[c][v][p] # "none"

ManagerTypeOK ==
    /\ published \in [Chart -> SUBSET Version]
    /\ repo \in RepoObj /\ (repo.deleting => repo.fin)
    /\ chart \in [Chart -> ChartObj]
    /\ idx \in [Chart -> SUBSET Version]
    /\ cm \in [Chart -> [Version -> [Part -> Content]]]
    /\ dead \subseteq Key /\ rq \in BOOLEAN /\ cq \subseteq Chart
    /\ rw \in RepoWorker /\ cw \in ChartWorker
    /\ deleted \subseteq Chart
    /\ edits \in Nat /\ faults \in Nat
    /\ WorkersBusy /\ DeadExist

(* As long as no write fails the repository is never forgotten: it is      *)
(* queued or in work, although several ways out of Reconcile return        *)
(* neither an error nor a delay and count on an event.                     *)
RepoNotForgotten == repo.exists => rq \/ rw.pc # "idle"

(* "For every specified and valid version the controller will create or    *)
(* update 3 configmaps for chart templates, crds and default values"       *)
(* (docs/content/architecture/chart.md:9).                                 *)
(* A configmap of a chart version never holds less than the archive unless *)
(* a call failed, the manager died, or the chart was deleted before: only  *)
(* then can a round find some configmaps of a version and miss others.     *)
Interrupted(c) == faults > 0 \/ c \in deleted
HollowOnlyIfInterrupted ==
    \A c \in Chart, v \in Version, p \in Part :
        cm[c][v][p] = "hollow" => Interrupted(c)

(* The index of every chart is up to date in the end, although a round     *)
(* stops writing them after the first one it updates.                      *)
IndexFollows ==
    \A c \in Chart :
        <>[](repo.exists /\ repo.fin /\ ~repo.deleting
                /\ c \in Indexed(repo, published)
             => idx[c] = published[c])

(* What keeps a chart from being served: a version that is not in the      *)
(* index, or a dependency that exists and cannot be loaded.                *)
Blocked(c) == \/ ~repo.exists \/ ~(chart[c].vers \subseteq idx[c])
              \/ \E v \in chart[c].vers : \E d \in Dep[<<c, v>>] :
                    ~DepLoads(d[1], d[2])

HasConfigMaps(c) ==
    \A v \in chart[c].vers, p \in Part : cm[c][v][p] # "none"

(* When users stop, every chart that nothing keeps from it gets all the    *)
(* configmaps of its versions and keeps them: the rounds every 30 seconds  *)
(* and the events of status writes make up for rounds that came too early. *)
EventuallyServed ==
    \A c \in Chart :
        <>[](chart[c].exists /\ ~Blocked(c) => HasConfigMaps(c))

(* "Adding a chart resource with specified version should add configmaps   *)
(* with related information for usage of it"                               *)
(* (docs/content/usage/repos_charts.md:369), when the helm repository has  *)
(* the version and every version it depends on.                            *)
Published(c) ==
    /\ chart[c].vers \subseteq published[c]
    /\ \A v \in chart[c].vers : \A d \in Dep[<<c, v>>] : d[2] \in published[d[1]]

VersionsServed ==
    \A c \in Chart :
        <>[](repo.exists /\ repo.fin /\ chart[c].exists /\ Published(c)
             => HasConfigMaps(c))

(* When users stop, no managed chart is left that is not listed: the list  *)
(* a round works from may be older than the Repository it ends with.       *)
EventuallyPruned ==
    <>[](repo.exists /\ repo.fin /\ ~repo.deleting => Stray(repo) = {})
=============================================================================
