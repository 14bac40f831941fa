---------------------------- MODULE ManagerProofs ----------------------------
(***************************************************************************)
(* Proofs about Manager for every value of the constants: what waits for   *)
(* the collector is there and the workers have work in every phase         *)
(* (ManagerTypeOK); the Repository is never forgotten as long as no write  *)
(* fails; and no configmap of a chart version holds less than the archive  *)
(* unless a call failed, the manager died or the chart was deleted.        *)
(***************************************************************************)
EXTENDS Manager, FiniteSetTheorems, TLAPS

-----------------------------------------------------------------------------
(* Types.  What waits for the collector can be written by a worker that    *)
(* holds a copy of it, and a worker fills configmaps from what it loaded:  *)
(* the copy, as far as the collector is concerned, is the object as long   *)
(* as it is fresh, and a worker that deploys has loaded every part.        *)
CopyInv == /\ \A c \in Chart : chart[c].owned => chart[c].exists
           /\ \A c \in cw.cur : cw.fresh => /\ chart[c].exists /\ cw.obj.exists
                                            /\ cw.obj.owned = chart[c].owned

RepoBusy(w) == (w.pc \in {"index", "prune", "deploy"}) <=> (w.todo # {})

(* A worker holds one chart and one version at most.                       *)
ChartBusy(w) ==
    /\ (w.pc = "idle") <=> (w.cur = {})
    /\ w.pc = "prepare" => w.todo # {}
    /\ (w.pc = "deploy") <=> (w.ver # {} /\ w.parts # {})
    /\ (w.pc = "deps") <=> (w.deps # {})
    /\ w.pc = "deploy" => \A p \in Part : w.load[p] # "none"
    /\ w.ver # {} => w.pc = "deploy"
    /\ \A x, y \in w.cur : x = y
    /\ \A x, y \in w.ver : x = y

ManagerInv == ManagerTypeOK /\ CopyInv /\ ChartBusy(cw)

LEMMA KeysApart ==
  ASSUME NEW c, NEW d, NEW v, NEW p, NEW w, NEW q
  PROVE  /\ ChartKey(c) # IndexKey(d) /\ ChartKey(c) # <<d, v, p>>
         /\ IndexKey(c) # <<d, v, p>>
         /\ ChartKey(c) = ChartKey(d) => c = d
         /\ IndexKey(c) = IndexKey(d) => c = d
         /\ <<c, v, p>> = <<d, w, q>> => c = d /\ v = w /\ p = q
  BY DEF ChartKey, IndexKey

LEMMA KeyTypes ==
  /\ \A c \in Chart : ChartKey(c) \in Key /\ IndexKey(c) \in Key
                      /\ PartKeys(c) \subseteq Key
  /\ \A c \in Chart, v \in Version, p \in Part : <<c, v, p>> \in PartKeys(c)
  BY DEF Key, PartKeys

LEMMA IdleTypes ==
  /\ NoRepo \in RepoObj /\ NoChart \in ChartObj
  /\ Unloaded \in [Part -> Content]
  /\ IdleRepoWorker \in RepoWorker /\ RepoBusy(IdleRepoWorker)
  /\ IdleChartWorker \in ChartWorker /\ ChartBusy(IdleChartWorker)
  <1>1. NoRepo \in RepoObj /\ NoChart \in ChartObj
    BY DEF NoRepo, RepoObj, NoChart, ChartObj, Reason
  <1>2. Unloaded \in [Part -> Content]
    BY DEF Unloaded, Content
  <1>3. IdleRepoWorker \in RepoWorker /\ RepoBusy(IdleRepoWorker)
    BY <1>1 DEF IdleRepoWorker, RepoWorker, RepoBusy
  <1>4. IdleChartWorker \in ChartWorker
    BY <1>1, <1>2 DEF IdleChartWorker, ChartWorker, Reason
  <1>5. ChartBusy(IdleChartWorker)
    BY DEF IdleChartWorker, ChartBusy
  <1>. QED
    BY <1>1, <1>2, <1>3, <1>4, <1>5

(* The phases of a repository worker.                                      *)
LEMMA ListedType ==
  ASSUME NEW o \in RepoObj
  PROVE  Listed(o) \subseteq Chart /\ Cardinality(Listed(o)) \in Nat
  <1>1. Listed(o) \subseteq Chart
    BY DEF Listed, RepoObj
  <1>. QED
    BY <1>1, ChartAssumption, FS_Subset, FS_CardinalityType

LEMMA PhaseTypes ==
  ASSUME NEW w \in RepoWorker, NEW ok \in BOOLEAN, NEW cs \in SUBSET Chart
  PROVE  /\ ToStatus(w, ok) \in RepoWorker /\ RepoBusy(ToStatus(w, ok))
         /\ ToDeploy(w) \in RepoWorker /\ RepoBusy(ToDeploy(w))
         /\ ToPrune(w, cs) \in RepoWorker /\ RepoBusy(ToPrune(w, cs))
         /\ ToIndex(w, cs) \in RepoWorker /\ RepoBusy(ToIndex(w, cs))
  <1>1. \A b \in BOOLEAN : ToStatus(w, b) \in RepoWorker /\ RepoBusy(ToStatus(w, b))
    BY DEF ToStatus, RepoWorker, RepoBusy
  <1>2. ToDeploy(w) \in RepoWorker /\ RepoBusy(ToDeploy(w))
    <2>1. Listed(w.obj) \subseteq Chart
      BY ListedType DEF RepoWorker
    <2>. QED
      BY <1>1, <2>1 DEF ToDeploy, RepoWorker, RepoBusy
  <1>3. ToPrune(w, cs) \in RepoWorker /\ RepoBusy(ToPrune(w, cs))
    BY <1>2 DEF ToPrune, RepoWorker, RepoBusy
  <1>4. ToIndex(w, cs) \in RepoWorker /\ RepoBusy(ToIndex(w, cs))
    BY DEF ToIndex, RepoWorker, RepoBusy
  <1>. QED
    BY <1>1, <1>2, <1>3, <1>4

(* The phases of a chart worker.                                           *)
LEMMA SyncTypes ==
  ASSUME NEW w \in ChartWorker, NEW reason \in Reason, w.cur # {},
         \A x, y \in w.cur : x = y
  PROVE  /\ Sync(w, reason) \in ChartWorker /\ ChartBusy(Sync(w, reason))
         /\ Sync(w, reason).cur = w.cur /\ Sync(w, reason).fresh = w.fresh
         /\ Sync(w, reason).obj = w.obj /\ Sync(w, reason).gone = w.gone
         /\ Sync(w, reason).ver = {}
  <1>1. /\ Sync(w, reason) \in ChartWorker
        /\ Sync(w, reason).cur = w.cur /\ Sync(w, reason).fresh = w.fresh
        /\ Sync(w, reason).obj = w.obj /\ Sync(w, reason).gone = w.gone
        /\ Sync(w, reason).pc = "status" /\ Sync(w, reason).todo = {}
        /\ Sync(w, reason).ver = {} /\ Sync(w, reason).parts = {}
        /\ Sync(w, reason).deps = {}
    BY IdleTypes DEF Sync, ChartWorker
  <1>. QED
    BY <1>1 DEF ChartBusy

LEMMA DepsTypes ==
  ASSUME NEW w \in ChartWorker, NEW deps \in SUBSET (Chart \X Version),
         w.cur # {}, \A x, y \in w.cur : x = y, w.ver = {}
  PROVE  /\ ToDeps(w, deps) \in ChartWorker /\ ChartBusy(ToDeps(w, deps))
         /\ ToDeps(w, deps).cur = w.cur /\ ToDeps(w, deps).fresh = w.fresh
         /\ ToDeps(w, deps).obj = w.obj /\ ToDeps(w, deps).gone = w.gone
         /\ ToDeps(w, deps).ver = {}
  <1>1. CASE deps = {}
    BY <1>1, SyncTypes DEF ToDeps, Reason
  <1>2. CASE deps # {}
    <2>. DEFINE d == [w EXCEPT !.pc = "deps", !.deps = deps]
    <2>1. /\ d \in ChartWorker /\ d.cur = w.cur /\ d.fresh = w.fresh
          /\ d.obj = w.obj /\ d.gone = w.gone /\ d.pc = "deps" /\ d.deps = deps
          /\ d.ver = {} /\ d.load = w.load
      BY DEF ChartWorker
    <2>2. ChartBusy(d)
      BY <1>2, <2>1 DEF ChartBusy
    <2>. QED
      BY <1>2, <2>1, <2>2 DEF ToDeps
  <1>. QED
    BY <1>1, <1>2

LEMMA NextVersionTypes ==
  ASSUME NEW w \in ChartWorker, w.cur # {}, \A x, y \in w.cur : x = y, w.deps = {}
  PROVE  /\ NextVersion(w) \in ChartWorker /\ ChartBusy(NextVersion(w))
         /\ NextVersion(w).cur = w.cur /\ NextVersion(w).fresh = w.fresh
         /\ NextVersion(w).obj = w.obj /\ NextVersion(w).gone = w.gone
         /\ NextVersion(w).ver = {}
  <1>. DEFINE b == [w EXCEPT !.ver = {}, !.parts = {}, !.load = Unloaded]
  <1>1. /\ b \in ChartWorker /\ b.cur = w.cur /\ b.fresh = w.fresh
        /\ b.obj = w.obj /\ b.gone = w.gone /\ b.todo = w.todo /\ b.deps = w.deps
        /\ b.ver = {} /\ b.parts = {}
    BY IdleTypes DEF ChartWorker
  <1>2. CASE w.todo = {}
    <2>1. AllDeps(w) \in SUBSET (Chart \X Version)
      BY DEF AllDeps
    <2>2. NextVersion(w) = ToDeps(b, AllDeps(w))
      BY <1>2 DEF NextVersion
    <2>. HIDE DEF b
    <2>. QED
      BY <1>1, <2>1, <2>2, DepsTypes
  <1>3. CASE w.todo # {}
    <2>. DEFINE d == [b EXCEPT !.pc = "prepare"]
    <2>. HIDE DEF b
    <2>1. /\ d \in ChartWorker /\ d.cur = b.cur /\ d.fresh = b.fresh
          /\ d.obj = b.obj /\ d.gone = b.gone /\ d.todo = b.todo /\ d.deps = b.deps
          /\ d.ver = {} /\ d.parts = {} /\ d.pc = "prepare"
      BY <1>1 DEF ChartWorker
    <2>. HIDE DEF d
    <2>2. ChartBusy(d)
      BY <1>1, <1>3, <2>1 DEF ChartBusy
    <2>3. NextVersion(w) = d
      BY <1>3 DEF NextVersion, b, d
    <2>. QED
      BY <1>1, <2>1, <2>2, <2>3
  <1>. QED
    BY <1>2, <1>3

-----------------------------------------------------------------------------
(* The workers' part of WorkersBusy follows from what is proved about      *)
(* them, and so do their copies.                                           *)
LEMMA BusyWorkers ==
  ASSUME RepoBusy(rw), ChartBusy(cw) PROVE WorkersBusy
  BY DEF RepoBusy, ChartBusy, WorkersBusy

LEMMA Known ==
  ASSUME ManagerInv
  PROVE  /\ RepoBusy(rw) /\ ChartBusy(cw) /\ CopyInv /\ DeadExist
         /\ rw \in RepoWorker /\ cw \in ChartWorker /\ repo \in RepoObj
         /\ \A c \in Chart : chart[c] \in ChartObj
  BY DEF ManagerInv, ManagerTypeOK, WorkersBusy, RepoBusy

(* Writes of others and removals leave the chart worker its work.          *)
SameWork(d, w) ==
    /\ d \in ChartWorker /\ ChartBusy(d)
    /\ d.cur = w.cur /\ d.obj = w.obj /\ (d.fresh => w.fresh)
    /\ d.pc = w.pc /\ d.ver = w.ver /\ d.parts = w.parts
    /\ d.deps = w.deps /\ d.todo = w.todo /\ d.load = w.load
    /\ w.gone \subseteq d.gone

LEMMA StaleWork ==
  ASSUME NEW w \in ChartWorker, ChartBusy(w)
  PROVE  /\ SameWork(w, w) /\ SameWork([w EXCEPT !.fresh = FALSE], w)
         /\ ~[w EXCEPT !.fresh = FALSE].fresh
  BY DEF SameWork, ChartWorker, ChartBusy

LEMMA GoneWork ==
  ASSUME NEW w \in ChartWorker, ChartBusy(w), NEW x \in {"chart", "repo"}
  PROVE  /\ SameWork([w EXCEPT !.gone = @ \cup {x}], w)
         /\ [w EXCEPT !.gone = @ \cup {x}].fresh = w.fresh
         /\ x \in [w EXCEPT !.gone = @ \cup {x}].gone
  <1>. DEFINE d == [w EXCEPT !.gone = @ \cup {x}]
  <1>1. d \in ChartWorker /\ d.gone = w.gone \cup {x} /\ d.fresh = w.fresh
        /\ d.cur = w.cur /\ d.obj = w.obj
        /\ d.pc = w.pc /\ d.ver = w.ver /\ d.parts = w.parts
        /\ d.deps = w.deps /\ d.todo = w.todo /\ d.load = w.load
    BY DEF ChartWorker
  <1>. HIDE DEF d
  <1>2. SameWork(d, w) /\ d.fresh = w.fresh /\ x \in d.gone
    BY <1>1 DEF SameWork, ChartBusy
  <1>. QED
    BY <1>2 DEF d

LEMMA RemovedWork ==
  ASSUME NEW w \in ChartWorker, ChartBusy(w)
  PROVE  LET d == [w EXCEPT !.fresh = FALSE, !.gone = @ \cup {"chart"}]
         IN  SameWork(d, w) /\ ~d.fresh /\ "chart" \in d.gone
  <1>. DEFINE e == [w EXCEPT !.fresh = FALSE]
  <1>1. SameWork(e, w) /\ ~e.fresh /\ e.gone = w.gone
    BY StaleWork DEF ChartWorker
  <1>2. e \in ChartWorker /\ ChartBusy(e)
    BY <1>1 DEF SameWork
  <1>3. [w EXCEPT !.fresh = FALSE, !.gone = @ \cup {"chart"}]
          = [e EXCEPT !.gone = @ \cup {"chart"}]
    BY <1>1 DEF ChartWorker
  <1>. HIDE DEF e
  <1>4. /\ SameWork([e EXCEPT !.gone = @ \cup {"chart"}], e)
        /\ ~[e EXCEPT !.gone = @ \cup {"chart"}].fresh
        /\ "chart" \in [e EXCEPT !.gone = @ \cup {"chart"}].gone
    BY <1>1, <1>2, GoneWork
  <1>5. SameWork([e EXCEPT !.gone = @ \cup {"chart"}], w)
    BY <1>1, <1>4 DEF SameWork
  <1>. QED
    BY <1>3, <1>4, <1>5

(* Writing a Chart: it stays owned if the collector waits for it, and a    *)
(* worker that holds it stale knows.                                       *)
LEMMA PutChartInv ==
  ASSUME ManagerInv, NEW c \in Chart, NEW o \in ChartObj, PutChart(c, o),
         o.exists, chart[c].owned => o.owned, NEW d \in ChartWorker, cw' = d,
         ChartBusy(d), d.cur \in {cw.cur, {}},
         d.cur # {} /\ c \notin d.cur => (d.fresh => cw.fresh) /\ d.obj = cw.obj,
         c \in d.cur /\ d.fresh => d.obj.exists /\ d.obj.owned = o.owned,
         rw' \in RepoWorker, RepoBusy(rw)',
         dead' \in {dead, dead \cup {ChartKey(c)}}, ChartKey(c) \in dead' => o.owned,
         UNCHANGED <<published, repo, idx, cm, deleted>>, rq' \in BOOLEAN,
         edits' \in Nat, faults' \in Nat
  PROVE  ManagerInv'
  <1>t. /\ ManagerTypeOK /\ CopyInv
    BY DEF ManagerInv
  <1>1. /\ chart'[c] = o /\ \A x \in Chart \ {c} : chart'[x] = chart[x]
        /\ chart' \in [Chart -> ChartObj] /\ cq' \subseteq Chart
    BY <1>t DEF PutChart, ManagerTypeOK
  <1>2. CopyInv'
    <2>1. \A x \in Chart : chart'[x].owned => chart'[x].exists
      BY <1>t, <1>1 DEF CopyInv
    <2>2. ASSUME NEW x \in d.cur, d.fresh
          PROVE  chart'[x].exists /\ d.obj.exists /\ d.obj.owned = chart'[x].owned
      <3>1. x \in Chart /\ x \in cw.cur /\ \A y \in cw.cur : x = y
        BY <2>2, Known DEF ChartWorker, ChartBusy
      <3>2. CASE x = c
        BY <1>1, <2>2, <3>2
      <3>3. CASE x # c
        <4>1. c \notin d.cur
          BY <3>1, <3>3
        <4>. QED
          BY <1>t, <1>1, <2>2, <3>1, <3>3, <4>1 DEF CopyInv
      <3>. QED
        BY <3>2, <3>3
    <2>. QED
      BY <2>1, <2>2 DEF CopyInv
  <1>3. DeadExist'
    <2>1. \A x \in Chart : ChartKey(x) \in dead' =>
                              chart'[x].exists /\ chart'[x].owned
      BY <1>t, <1>1, Known, KeysApart DEF DeadExist
    <2>. QED
      BY <2>1, Known, KeysApart DEF DeadExist
  <1>4. dead' \subseteq Key
    BY <1>t, KeyTypes DEF ManagerTypeOK
  <1>5. WorkersBusy'
    BY BusyWorkers DEF WorkersBusy, RepoBusy, ChartBusy
  <1>. QED
    BY <1>t, <1>1, <1>2, <1>3, <1>4, <1>5 DEF ManagerInv, ManagerTypeOK

LEMMA RemoveChartInv ==
  ASSUME ManagerInv, NEW c \in Chart, RemoveChart(c),
         rw' \in RepoWorker, RepoBusy(rw)',
         UNCHANGED <<published, repo, idx, cm, rq>>, edits' \in Nat, faults' \in Nat
  PROVE  ManagerInv'
  <1>t. /\ ManagerTypeOK /\ CopyInv /\ cw \in ChartWorker /\ ChartBusy(cw)
    BY Known DEF ManagerInv
  <1>1. /\ chart'[c] = NoChart /\ \A x \in Chart \ {c} : chart'[x] = chart[x]
        /\ chart' \in [Chart -> ChartObj] /\ cq' \subseteq Chart
        /\ deleted' \subseteq Chart
    BY <1>t, IdleTypes DEF RemoveChart, ManagerTypeOK
  <1>2. /\ cw' \in ChartWorker /\ ChartBusy(cw')
        /\ cw'.cur = cw.cur /\ cw'.obj = cw.obj /\ (cw'.fresh => cw.fresh)
        /\ c \in cw.cur => ~cw'.fresh
    <2>1. CASE c \in cw.cur
      <3>1. cw' = [cw EXCEPT !.fresh = FALSE, !.gone = @ \cup {"chart"}]
        BY <2>1 DEF RemoveChart
      <3>2. SameWork(cw', cw) /\ ~cw'.fresh
        BY <1>t, <3>1, RemovedWork
      <3>. QED
        BY <3>2 DEF SameWork
    <2>2. CASE c \notin cw.cur
      BY <1>t, <2>2 DEF RemoveChart
    <2>. QED
      BY <2>1, <2>2
  <1>3. CopyInv'
    <2>1. cw.cur \subseteq Chart
      BY <1>t DEF ChartWorker
    <2>. QED
      BY <1>t, <1>1, <1>2, <2>1 DEF CopyInv, NoChart
  <1>4. DeadExist' /\ dead' \subseteq Key
    <2>1. \A k \in dead' : (k \in dead /\ k # ChartKey(c))
                           \/ (k \in PartKeys(c) /\ cm[c][k[2]][k[3]] # "none")
      BY DEF RemoveChart
    <2>2. dead' \subseteq Key
      BY <1>t, <2>1, KeyTypes DEF ManagerTypeOK
    <2>3. ASSUME NEW x \in Chart
          PROVE  /\ ChartKey(x) \in dead' => chart'[x].exists /\ chart'[x].owned
                 /\ IndexKey(x) \in dead' => idx'[x] # {}
      <3>1. ChartKey(x) \notin PartKeys(c) /\ IndexKey(x) \notin PartKeys(c)
        BY KeysApart DEF PartKeys
      <3>2. ChartKey(x) \in dead' => ChartKey(x) \in dead /\ x # c
        BY <2>1, <3>1
      <3>3. IndexKey(x) \in dead' => IndexKey(x) \in dead
        BY <2>1, <3>1
      <3>. QED
        BY <1>1, <3>2, <3>3, Known DEF DeadExist
    <2>4. ASSUME NEW x \in Chart, NEW v \in Version, NEW p \in Part,
                 <<x, v, p>> \in dead'
          PROVE  cm'[x][v][p] # "none"
      <3>1. CASE <<x, v, p>> \in dead
        BY <3>1, Known DEF DeadExist
      <3>2. CASE <<x, v, p>> \in PartKeys(c) /\ cm[c][v][p] # "none"
        BY <3>2, KeysApart DEF PartKeys
      <3>. QED
        BY <2>1, <2>4, <3>1, <3>2
    <2>. QED
      BY <2>2, <2>3, <2>4 DEF DeadExist
  <1>5. WorkersBusy'
    BY <1>2 DEF WorkersBusy, RepoBusy, ChartBusy
  <1>. QED
    BY <1>t, <1>1, <1>2, <1>3, <1>4, <1>5 DEF ManagerInv, ManagerTypeOK

(* A step that leaves Charts, configmaps and the collector alone.          *)
LEMMA FrameInv ==
  ASSUME ManagerInv, UNCHANGED <<chart, dead, idx, cm>>,
         published' \in [Chart -> SUBSET Version],
         repo' \in RepoObj, repo'.deleting => repo'.fin,
         rq' \in BOOLEAN, cq' \subseteq Chart, deleted' \subseteq Chart,
         rw' \in RepoWorker, RepoBusy(rw'), cw' \in ChartWorker, ChartBusy(cw'),
         \A c \in cw'.cur : cw'.fresh => /\ chart[c].exists /\ cw'.obj.exists
                                         /\ cw'.obj.owned = chart[c].owned,
         edits' \in Nat, faults' \in Nat
  PROVE  ManagerInv'
  <1>1. WorkersBusy'
    BY DEF WorkersBusy, RepoBusy, ChartBusy
  <1>2. CopyInv' /\ DeadExist'
    BY Known DEF CopyInv, DeadExist
  <1>. QED
    BY <1>1, <1>2 DEF ManagerInv, ManagerTypeOK

(* The chart worker goes on as it was, or less fresh.                      *)
LEMMA SameWorkCopy ==
  ASSUME ManagerInv, NEW d, SameWork(d, cw)
  PROVE  /\ d \in ChartWorker /\ ChartBusy(d)
         /\ \A c \in d.cur : d.fresh => /\ chart[c].exists /\ d.obj.exists
                                        /\ d.obj.owned = chart[c].owned
  BY Known DEF SameWork, CopyInv

LEMMA FaultTypes ==
  ASSUME ManagerInv
  PROVE  /\ NoFault => faults' \in Nat
         /\ \A k : Fault(k) => faults' \in Nat
         /\ Edit => edits' \in Nat
  BY DEF ManagerInv, ManagerTypeOK, NoFault, Fault, Edit

LEMMA InitManager == Init => ManagerInv
  <1>. SUFFICES ASSUME Init PROVE ManagerInv
    OBVIOUS
  <1>1. ManagerTypeOK
    <2>1. WorkersBusy /\ DeadExist
      BY IdleTypes DEF Init, DeadExist, WorkersBusy, RepoBusy, ChartBusy
    <2>2. repo \in RepoObj /\ ~repo.deleting
      BY IdleTypes DEF Init, NoRepo
    <2>. QED
      BY <2>1, <2>2, IdleTypes DEF Init, ManagerTypeOK
  <1>2. CopyInv /\ ChartBusy(cw)
    BY IdleTypes DEF Init, CopyInv, NoChart, IdleChartWorker
  <1>. QED
    BY <1>1, <1>2 DEF ManagerInv

LEMMA UserManager == ASSUME ManagerInv, User PROVE ManagerInv'
  <1>t. ManagerTypeOK
    BY DEF ManagerInv
  <1>1. ASSUME NEW o \in RepoObj, o.deleting => o.fin, PutRepo(o)
        PROVE  ManagerInv'
    <2>1. rw' \in RepoWorker /\ RepoBusy(rw')
      <3>1. rw' = [rw EXCEPT !.fresh = FALSE]
        BY <1>1 DEF PutRepo
      <3>. QED
        BY <3>1, Known DEF RepoWorker, RepoBusy
    <2>2. SameWork(cw', cw) /\ edits' \in Nat
      BY <1>1, Known, StaleWork, FaultTypes DEF PutRepo
    <2>. QED
      BY <1>1, <1>t, <2>1, <2>2, SameWorkCopy, FrameInv DEF PutRepo, ManagerTypeOK
  <1>2. ASSUME NEW want \in Lists, CreateRepo(want) \/ EditRepo(want)
        PROVE  ManagerInv'
    <2>1. want \in SUBSET (Chart \X Version)
      BY ListsAssumption
    <2>2. ASSUME NEW o \in {[NoRepo EXCEPT !.exists = TRUE, !.want = want],
                            [repo EXCEPT !.want = want]}
          PROVE  o \in RepoObj /\ (o.deleting => o.fin)
      BY <1>t, <2>1, IdleTypes DEF ManagerTypeOK, RepoObj, NoRepo
    <2>. QED
      BY <1>1, <1>2, <2>2 DEF CreateRepo, EditRepo
  <1>3. CASE DeleteRepo
    <2>1. CASE repo.fin
      <3>1. [repo EXCEPT !.deleting = TRUE] \in RepoObj
            /\ [repo EXCEPT !.deleting = TRUE].fin
        BY <1>t, <2>1 DEF ManagerTypeOK, RepoObj
      <3>. QED
        BY <1>1, <1>3, <2>1, <3>1 DEF DeleteRepo
    <2>2. CASE ~repo.fin
      <3>1. NoRepo \in RepoObj /\ ~NoRepo.deleting
        BY IdleTypes DEF NoRepo
      <3>. QED
        BY <1>1, <1>3, <2>2, <3>1 DEF DeleteRepo
    <2>. QED
      BY <2>1, <2>2
  <1>4. ASSUME NEW c \in Chart, NEW vers \in SUBSET Version, WriteChart(c, vers)
        PROVE  ManagerInv'
    <2>. DEFINE o == [chart[c] EXCEPT !.exists = TRUE, !.vers = vers]
    <2>1. o \in ChartObj /\ o.exists /\ o.owned = chart[c].owned
      BY Known DEF ChartObj
    <2>2. SameWork(cw', cw) /\ (c \in cw.cur => ~cw'.fresh)
      BY <1>4, Known, StaleWork DEF WriteChart, StaleChart
    <2>3. PutChart(c, o) /\ edits' \in Nat
      BY <1>4, FaultTypes DEF WriteChart
    <2>4. UNCHANGED <<published, repo, idx, cm, dead, rq, rw, deleted, faults>>
      BY <1>4 DEF WriteChart
    <2>5. ChartKey(c) \in dead => o.owned
      BY <2>1, Known DEF DeadExist
    <2>. HIDE DEF o
    <2>. QED
      BY <1>t, <2>1, <2>2, <2>3, <2>4, <2>5, Known, PutChartInv
         DEF SameWork, ManagerTypeOK
  <1>5. ASSUME NEW c \in Chart, DeleteChart(c) PROVE ManagerInv'
    BY <1>5, <1>t, Known, FaultTypes, RemoveChartInv DEF DeleteChart, ManagerTypeOK
  <1>6. ASSUME NEW c \in Chart, NEW v \in Version, Publish(c, v) PROVE ManagerInv'
    <2>1. published' \in [Chart -> SUBSET Version] /\ edits' \in Nat
      BY <1>6, <1>t, FaultTypes DEF Publish, ManagerTypeOK
    <2>2. SameWork(cw', cw)
      BY <1>6, Known, StaleWork DEF Publish
    <2>. QED
      BY <1>6, <1>t, <2>1, <2>2, Known, SameWorkCopy, FrameInv
         DEF Publish, ManagerTypeOK
  <1>. QED
    BY <1>2, <1>3, <1>4, <1>5, <1>6 DEF User

LEMMA CollectorManager == ASSUME ManagerInv, Collector PROVE ManagerInv'
  <1>t. ManagerTypeOK
    BY DEF ManagerInv
  <1>1. ASSUME NEW c \in Chart, CollectChart(c) PROVE ManagerInv'
    BY <1>1, <1>t, Known, RemoveChartInv DEF CollectChart, ManagerTypeOK
  <1>2. ASSUME NEW c \in Chart, CollectConfigMap(c) PROVE ManagerInv'
    <2>1. /\ UNCHANGED <<published, repo, chart, rq, cq, rw, cw, deleted,
                         edits, faults>>
          /\ dead' \subseteq dead
      BY <1>2 DEF CollectConfigMap
    <2>2. DeadExist' /\ idx' \in [Chart -> SUBSET Version]
          /\ cm' \in [Chart -> [Version -> [Part -> Content]]]
      <3>1. CASE /\ dead' = dead \ {IndexKey(c)} /\ UNCHANGED cm
                 /\ idx' = [idx EXCEPT ![c] = {}]
        <4>1. idx' \in [Chart -> SUBSET Version]
              /\ \A x \in Chart \ {c} : idx'[x] = idx[x]
          BY <1>t, <3>1 DEF ManagerTypeOK
        <4>2. \A x \in Chart : IndexKey(x) \in dead' => x # c
          BY <3>1
        <4>. QED
          BY <1>t, <2>1, <3>1, <4>1, <4>2, Known DEF DeadExist, ManagerTypeOK
      <3>2. ASSUME NEW v \in Version, NEW p \in Part, UNCHANGED idx,
                   dead' = dead \ {<<c, v, p>>},
                   cm' = [cm EXCEPT ![c][v][p] = "none"]
            PROVE  <2>2
        <4>1. cm' \in [Chart -> [Version -> [Part -> Content]]]
          BY <1>t, <3>2 DEF ManagerTypeOK, Content
        <4>2. \A x \in Chart, w \in Version, q \in Part :
                 cm'[x][w][q] = IF <<x, w, q>> = <<c, v, p>> THEN "none"
                                ELSE cm[x][w][q]
          BY <1>t, <3>2 DEF ManagerTypeOK
        <4>. QED
          BY <1>t, <2>1, <3>2, <4>1, <4>2, Known DEF DeadExist, ManagerTypeOK
      <3>. QED
        BY <1>2, <3>1, <3>2 DEF CollectConfigMap
    <2>3. WorkersBusy' /\ CopyInv'
      BY <2>1, Known DEF WorkersBusy, RepoBusy, ChartBusy, CopyInv
    <2>. QED
      BY <1>t, <2>1, <2>2, <2>3, Known DEF ManagerInv, ManagerTypeOK
  <1>. QED
    BY <1>1, <1>2 DEF Collector

LEMMA RestartManager == ASSUME ManagerInv, Restart PROVE ManagerInv'
  <1>1. repo.exists \in BOOLEAN
    BY Known DEF RepoObj
  <1>2. cw'.cur = {} /\ faults' \in Nat
    BY FaultTypes DEF Restart, IdleChartWorker
  <1>. QED
    BY <1>1, <1>2, IdleTypes, FrameInv DEF Restart, ManagerInv, ManagerTypeOK

-----------------------------------------------------------------------------
(* The steps of the repository controller.                                 *)
LEMMA RepoFrame ==
  ASSUME ManagerInv, UNCHANGED <<chart, dead, idx, cm, published, cq, cw,
                                 deleted, edits>>,
         repo' \in RepoObj, repo'.deleting => repo'.fin, rq' \in BOOLEAN,
         rw' \in RepoWorker, RepoBusy(rw'), faults' \in Nat
  PROVE  ManagerInv'
  <1>1. SameWork(cw', cw)
    BY Known, StaleWork
  <1>. QED
    BY <1>1, SameWorkCopy, FrameInv DEF ManagerInv, ManagerTypeOK

LEMMA StartRepoInv == ASSUME ManagerInv, StartRepo PROVE ManagerInv'
  <1>t. ManagerTypeOK
    BY DEF ManagerInv
  <1>1. PICK index \in {published, [c \in Chart |-> {}]} :
           /\ \/ index = published /\ NoFault
              \/ index # published /\ Fault("http")
           /\ LET w == [IdleRepoWorker EXCEPT !.obj = repo, !.fresh = TRUE,
                                              !.index = index]
              IN rw' = IF ~repo.exists THEN IdleRepoWorker
                       ELSE IF repo.deleting THEN [w EXCEPT !.pc = "drop"]
                       ELSE IF ~repo.fin THEN [w EXCEPT !.pc = "adopt"]
                       ELSE ToIndex(w, Indexed(repo, index))
    BY DEF StartRepo
  <1>2. index \in [Chart -> SUBSET Version]
    BY <1>t DEF ManagerTypeOK
  <1>. DEFINE w == [IdleRepoWorker EXCEPT !.obj = repo, !.fresh = TRUE,
                                          !.index = index]
  <1>3. w \in RepoWorker /\ w.todo = {} /\ w.pc = "idle"
    BY <1>2, Known, IdleTypes DEF RepoWorker, IdleRepoWorker
  <1>4. rw' \in {IdleRepoWorker, [w EXCEPT !.pc = "drop"], [w EXCEPT !.pc = "adopt"],
                 ToIndex(w, Indexed(repo, index))}
    BY <1>1
  <1>. HIDE DEF w
  <1>5. Indexed(repo, index) \in SUBSET Chart
    BY DEF Indexed
  <1>6. rw' \in RepoWorker /\ RepoBusy(rw')
    <2>1. \A p \in {"drop", "adopt"} : [w EXCEPT !.pc = p] \in RepoWorker
                                      /\ RepoBusy([w EXCEPT !.pc = p])
      BY <1>3 DEF RepoWorker, RepoBusy
    <2>2. ToIndex(w, Indexed(repo, index)) \in RepoWorker
          /\ RepoBusy(ToIndex(w, Indexed(repo, index)))
      BY <1>3, <1>5, PhaseTypes
    <2>. QED
      BY <1>4, <2>1, <2>2, IdleTypes
  <1>7. faults' \in Nat
    BY <1>1, FaultTypes
  <1>. QED
    BY <1>t, <1>6, <1>7, RepoFrame DEF StartRepo, ManagerTypeOK

LEMMA AdoptRepoInv == ASSUME ManagerInv, AdoptRepo PROVE ManagerInv'
  <1>t. ManagerTypeOK
    BY DEF ManagerInv
  <1>1. [repo EXCEPT !.fin = TRUE] \in RepoObj /\ [repo EXCEPT !.fin = TRUE].fin
    BY <1>t DEF ManagerTypeOK, RepoObj
  <1>2. rw' \in RepoWorker /\ RepoBusy(rw')
    BY IdleTypes DEF AdoptRepo
  <1>3. repo' \in RepoObj /\ (repo'.deleting => repo'.fin) /\ rq' \in BOOLEAN
    BY <1>t, <1>1 DEF AdoptRepo, ManagerTypeOK
  <1>4. faults' \in Nat
    BY FaultTypes DEF AdoptRepo, RepoWriteFails
  <1>. QED
    BY <1>2, <1>3, <1>4, RepoFrame DEF AdoptRepo

LEMMA DropRepoInv == ASSUME ManagerInv, DropRepo PROVE ManagerInv'
  <1>t. ManagerTypeOK /\ CopyInv
    BY DEF ManagerInv
  <1>1. rw' \in RepoWorker /\ RepoBusy(rw') /\ faults' \in Nat
    BY IdleTypes, FaultTypes DEF DropRepo, RepoWriteFails
  <1>2. CASE /\ repo' = NoRepo /\ rq' = TRUE
             /\ dead' = dead \cup {ChartKey(c) : c \in {x \in Chart : chart[x].owned}}
                             \cup {IndexKey(c) : c \in {x \in Chart : idx[x] # {}}}
             /\ cw' = IF cw.pc = "idle" THEN cw
                      ELSE [cw EXCEPT !.gone = @ \cup {"repo"}]
    <2>1. SameWork(cw', cw) /\ cw'.fresh = cw.fresh
      BY <1>2, Known, StaleWork, GoneWork
    <2>2. CopyInv' /\ ChartBusy(cw') /\ cw' \in ChartWorker
      BY <1>t, <2>1, Known DEF SameWork, CopyInv, DropRepo
    <2>3. dead' \subseteq Key
      BY <1>t, <1>2, KeyTypes DEF ManagerTypeOK
    <2>4. DeadExist'
      <3>1. ASSUME NEW c \in Chart
            PROVE  /\ ChartKey(c) \in dead' => ChartKey(c) \in dead \/ chart[c].owned
                   /\ IndexKey(c) \in dead' => IndexKey(c) \in dead \/ idx[c] # {}
        BY <1>2, KeysApart
      <3>2. ASSUME NEW c \in Chart, NEW v \in Version, NEW p \in Part
            PROVE  <<c, v, p>> \in dead' => <<c, v, p>> \in dead
        BY <1>2, KeysApart
      <3>. QED
        BY <1>t, <3>1, <3>2, Known DEF DeadExist, CopyInv, DropRepo
    <2>5. repo' \in RepoObj /\ ~repo'.deleting
      BY <1>2, IdleTypes DEF NoRepo
    <2>6. WorkersBusy'
      BY <1>1, <2>2 DEF WorkersBusy, RepoBusy, ChartBusy
    <2>. QED
      BY <1>t, <1>1, <1>2, <2>2, <2>3, <2>4, <2>5, <2>6
         DEF ManagerInv, ManagerTypeOK, DropRepo
  <1>3. CASE UNCHANGED <<repo, rq, dead, cw>>
    BY <1>t, <1>1, <1>3, RepoFrame DEF DropRepo, ManagerTypeOK
  <1>. QED
    BY <1>2, <1>3 DEF DropRepo

LEMMA WriteIndexInv == ASSUME ManagerInv, NEW c \in Chart, WriteIndex(c) PROVE ManagerInv'
  <1>t. ManagerTypeOK /\ CopyInv /\ rw \in RepoWorker
    BY Known DEF ManagerInv
  <1>1. /\ rw.todo \ {c} \in SUBSET Chart /\ rw.index[c] \subseteq Version
        /\ {} \in SUBSET Chart
    BY <1>t DEF RepoWorker
  <1>2. rw' \in RepoWorker /\ RepoBusy(rw') /\ faults' \in Nat
    BY <1>t, <1>1, PhaseTypes, FaultTypes DEF WriteIndex
  <1>3. CASE idx' = [idx EXCEPT ![c] = rw.index[c]] /\ dead' = dead \ {IndexKey(c)}
    <2>1. idx' \in [Chart -> SUBSET Version]
          /\ \A x \in Chart \ {c} : idx'[x] = idx[x]
      BY <1>t, <1>1, <1>3 DEF ManagerTypeOK
    <2>2. \A x \in Chart : IndexKey(x) \in dead' => x # c /\ IndexKey(x) \in dead
      BY <1>3
    <2>3. DeadExist'
      BY <1>3, <2>1, <2>2, Known DEF DeadExist, WriteIndex
    <2>4. CopyInv' /\ ChartBusy(cw')
      BY <1>t, Known DEF CopyInv, WriteIndex
    <2>5. WorkersBusy'
      BY <1>2, <2>4 DEF WorkersBusy, RepoBusy, ChartBusy
    <2>. QED
      BY <1>t, <1>2, <1>3, <2>1, <2>3, <2>4, <2>5
         DEF ManagerInv, ManagerTypeOK, WriteIndex
  <1>4. CASE UNCHANGED <<idx, dead>>
    BY <1>t, <1>2, <1>4, RepoFrame DEF WriteIndex, ManagerTypeOK
  <1>. QED
    BY <1>3, <1>4 DEF WriteIndex

LEMMA ListChartsInv == ASSUME ManagerInv, ListCharts PROVE ManagerInv'
  <1>t. ManagerTypeOK /\ rw \in RepoWorker
    BY Known DEF ManagerInv
  <1>1. Stray(rw.obj) \in SUBSET Chart
    BY DEF Stray
  <1>2. rw' \in RepoWorker /\ RepoBusy(rw') /\ faults' \in Nat
    BY <1>t, <1>1, PhaseTypes, FaultTypes DEF ListCharts
  <1>. QED
    BY <1>t, <1>2, RepoFrame DEF ListCharts, ManagerTypeOK

LEMMA PruneChartInv == ASSUME ManagerInv, NEW c \in Chart, PruneChart(c) PROVE ManagerInv'
  <1>t. ManagerTypeOK /\ rw \in RepoWorker
    BY Known DEF ManagerInv
  <1>1. rw.todo \ {c} \in SUBSET Chart
    BY <1>t DEF RepoWorker
  <1>2. rw' \in RepoWorker /\ RepoBusy(rw') /\ faults' \in Nat
    BY <1>t, <1>1, PhaseTypes, FaultTypes DEF PruneChart
  <1>3. CASE RemoveChart(c)
    BY <1>t, <1>2, <1>3, RemoveChartInv DEF PruneChart, ManagerTypeOK
  <1>4. CASE UNCHANGED <<chart, dead, cq, cw, deleted>>
    BY <1>t, <1>2, <1>4, RepoFrame DEF PruneChart, ManagerTypeOK
  <1>. QED
    BY <1>3, <1>4 DEF PruneChart

LEMMA DeployChartInv == ASSUME ManagerInv, NEW c \in Chart, DeployChart(c) PROVE ManagerInv'
  <1>t. ManagerTypeOK /\ CopyInv /\ rw \in RepoWorker /\ chart[c] \in ChartObj
    BY Known DEF ManagerInv
  <1>1. rw' \in RepoWorker /\ RepoBusy(rw') /\ faults' \in Nat
    <2>. DEFINE next == IF rw.todo \ {c} = {} THEN ToStatus(rw, TRUE)
                        ELSE [rw EXCEPT !.todo = rw.todo \ {c}]
    <2>1. rw' \in {next, ToStatus(rw, FALSE)} /\ rw.pc = "deploy"
      BY DEF DeployChart
    <2>2. next \in RepoWorker /\ RepoBusy(next)
      BY <1>t, <2>1, PhaseTypes DEF RepoWorker, RepoBusy
    <2>. HIDE DEF next
    <2>. QED
      BY <1>t, <2>1, <2>2, PhaseTypes, FaultTypes DEF DeployChart
  <1>2. UNCHANGED <<published, repo, idx, cm, dead, rq, deleted, edits>>
    BY DEF DeployChart
  <1>3. ChartKey(c) \in dead => chart[c].owned /\ chart[c].exists
    BY Known DEF DeadExist
  <1>4. VersionsOf(rw.obj, c) \subseteq Version
    BY DEF VersionsOf
  <1>5. CASE /\ PutChart(c, [chart[c] EXCEPT !.vers = VersionsOf(rw.obj, c)])
             /\ cw' = IF chart[c].vers = VersionsOf(rw.obj, c) THEN cw
                      ELSE StaleChart(c)
             /\ Labelled(c)
    <2>. DEFINE o == [chart[c] EXCEPT !.vers = VersionsOf(rw.obj, c)]
    <2>1. o \in ChartObj /\ o.exists /\ o.owned = chart[c].owned
      BY <1>t, <1>4, <1>5 DEF ChartObj, Labelled
    <2>2. SameWork(cw', cw)
      BY <1>5, Known, StaleWork DEF StaleChart
    <2>3. /\ cw' \in ChartWorker /\ ChartBusy(cw') /\ cw'.cur = cw.cur
          /\ cw'.obj = cw.obj /\ (cw'.fresh => cw.fresh)
      BY <2>2 DEF SameWork
    <2>4. c \in cw'.cur /\ cw'.fresh => cw'.obj.exists /\ cw'.obj.owned = o.owned
      BY <1>t, <2>1, <2>3 DEF CopyInv
    <2>5. PutChart(c, o)
      BY <1>5
    <2>. HIDE DEF o
    <2>. QED
      BY <1>t, <1>1, <1>2, <1>3, <2>1, <2>3, <2>4, <2>5, PutChartInv
         DEF ManagerTypeOK
  <1>6. CASE ~chart[c].exists /\ PutChart(c, Managed(rw.obj, c)) /\ UNCHANGED cw
    <2>. DEFINE o == Managed(rw.obj, c)
    <2>1. o \in ChartObj /\ o.exists /\ o.owned
      BY <1>4, IdleTypes DEF Managed, ChartObj, NoChart
    <2>2. ~(c \in cw.cur /\ cw.fresh) /\ ~chart[c].owned /\ PutChart(c, o)
      BY <1>t, <1>6 DEF CopyInv
    <2>3. /\ cw' \in ChartWorker /\ ChartBusy(cw') /\ cw' = cw
      BY <1>6, Known
    <2>. HIDE DEF o
    <2>. QED
      BY <1>t, <1>1, <1>2, <1>3, <2>1, <2>2, <2>3, PutChartInv DEF ManagerTypeOK
  <1>7. CASE UNCHANGED <<chart, cq, cw>>
    BY <1>t, <1>1, <1>2, <1>7, RepoFrame DEF ManagerTypeOK
  <1>. QED
    BY <1>5, <1>6, <1>7 DEF DeployChart

LEMMA SyncRepoStatusInv == ASSUME ManagerInv, SyncRepoStatus PROVE ManagerInv'
  <1>t. ManagerTypeOK /\ rw \in RepoWorker
    BY Known DEF ManagerInv
  <1>1. Cardinality(Listed(rw.obj)) \in Nat
    BY <1>t, ListedType DEF RepoWorker
  <1>2. Count(rw.obj) \in Nat
    <2>. DEFINE u == {c \in Chart : chart[c].exists /\ chart[c].lrepo
                                   /\ chart[c].unmanaged}
    <2>1. Cardinality(u) \in Nat
      BY ChartAssumption, FS_Subset, FS_CardinalityType
    <2>. QED
      BY <1>1, <2>1 DEF Count
  <1>3. rw' \in RepoWorker /\ RepoBusy(rw') /\ faults' \in Nat
    BY IdleTypes, FaultTypes DEF SyncRepoStatus
  <1>4. \A st \in {"ok", "failed"}, n \in Nat :
           LET o == [repo EXCEPT !.st = st, !.count = n]
           IN  o \in RepoObj /\ o.deleting = repo.deleting /\ o.fin = repo.fin
    BY <1>t DEF ManagerTypeOK, RepoObj
  <1>5. repo' \in RepoObj /\ (repo'.deleting => repo'.fin) /\ rq' \in BOOLEAN
    <2>1. PICK n \in {Count(rw.obj), Cardinality(Listed(rw.obj))},
               st \in {"ok", "failed"} :
             \/ UNCHANGED repo /\ rq' \in {rq, TRUE}
             \/ repo' = [repo EXCEPT !.st = st, !.count = n] /\ rq' = TRUE
      <3>1. PICK n \in {Count(rw.obj), Cardinality(Listed(rw.obj))} :
               \/ UNCHANGED repo /\ rq' \in {rq, TRUE}
               \/ /\ repo' = [repo EXCEPT !.st = IF rw.ok THEN "ok" ELSE "failed",
                                         !.count = n]
                  /\ rq' = TRUE
        BY <1>t DEF SyncRepoStatus, Again10, ManagerTypeOK
      <3>. QED
        BY <3>1
    <2>2. n \in Nat
      BY <1>1, <1>2
    <2>3. /\ repo \in RepoObj /\ (repo.deleting => repo.fin) /\ rq \in BOOLEAN
      BY <1>t DEF ManagerTypeOK
    <2>4. CASE UNCHANGED repo /\ rq' \in {rq, TRUE}
      BY <2>3, <2>4
    <2>5. CASE repo' = [repo EXCEPT !.st = st, !.count = n] /\ rq' = TRUE
      BY <1>4, <2>2, <2>3, <2>5
    <2>. QED
      BY <2>1, <2>4, <2>5
  <1>. QED
    BY <1>3, <1>5, RepoFrame DEF SyncRepoStatus

-----------------------------------------------------------------------------
(* The steps of the chart controller.                                      *)
LEMMA ChartFrame ==
  ASSUME ManagerInv, UNCHANGED <<published, repo, chart, idx, cm, dead, rq, rw,
                                 deleted, edits>>,
         cq' \subseteq Chart, cw' \in ChartWorker, ChartBusy(cw'),
         \A c \in cw'.cur : cw'.fresh => /\ chart[c].exists /\ cw'.obj.exists
                                         /\ cw'.obj.owned = chart[c].owned,
         faults' \in Nat
  PROVE  ManagerInv'
  BY Known, FrameInv DEF ManagerInv, ManagerTypeOK

LEMMA StartChartInv == ASSUME ManagerInv, NEW c \in Chart, StartChart(c) PROVE ManagerInv'
  <1>t. ManagerTypeOK /\ chart[c] \in ChartObj
    BY Known DEF ManagerInv
  <1>1. cq' \subseteq Chart /\ faults' \in Nat
    BY <1>t DEF StartChart, ManagerTypeOK
  <1>2. CASE ~chart[c].exists
    <2>1. cw' = IdleChartWorker
      BY <1>2 DEF StartChart
    <2>2. cw'.cur = {}
      BY <2>1 DEF IdleChartWorker
    <2>. QED
      BY <1>1, <2>1, <2>2, IdleTypes, ChartFrame DEF StartChart
  <1>3. CASE chart[c].exists
    <2>1. PICK p \in {"new", "label"} :
             cw' = [IdleChartWorker EXCEPT !.pc = p, !.cur = {c}, !.obj = chart[c],
                                           !.fresh = TRUE]
      BY <1>3 DEF StartChart
    <2>2. /\ cw' \in ChartWorker /\ cw'.pc = p /\ cw'.cur = {c}
          /\ cw'.obj = chart[c] /\ cw'.ver = {} /\ cw'.deps = {}
      BY <1>t, <2>1, IdleTypes DEF ChartWorker, IdleChartWorker
    <2>3. ChartBusy(cw')
      BY <2>2 DEF ChartBusy
    <2>. QED
      BY <1>1, <1>3, <2>2, <2>3, ChartFrame DEF StartChart
  <1>. QED
    BY <1>2, <1>3

LEMMA SetLabelsInv == ASSUME ManagerInv, NEW c \in Chart, SetLabels(c) PROVE ManagerInv'
  <1>t. /\ ManagerTypeOK /\ chart[c] \in ChartObj /\ cw \in ChartWorker
        /\ CopyInv /\ ChartBusy(cw)
    BY Known DEF ManagerInv
  <1>1. PICK o : /\ o = IF ~cw.obj.lchart THEN [cw.obj EXCEPT !.lchart = TRUE]
                        ELSE [cw.obj EXCEPT !.lrepo = TRUE, !.unmanaged = TRUE]
                 /\ cw' = [cw EXCEPT !.obj = o, !.pc = IF o.lchart /\ o.lrepo
                                                       THEN "new" ELSE "label"]
                 /\ \/ cw.fresh /\ NoFault /\ PutChart(c, o)
                    \/ /\ (~cw.fresh /\ NoFault) \/ Fault("write")
                       /\ UNCHANGED <<chart, cq>>
    BY DEF SetLabels
  <1>2. /\ o \in ChartObj /\ o.exists = cw.obj.exists /\ o.owned = cw.obj.owned
    BY <1>t, <1>1 DEF ChartWorker, ChartObj
  <1>3. c \in cw.cur /\ cw.pc = "label" /\ \A x \in cw.cur : x = c
    BY <1>t DEF SetLabels, ChartBusy
  <1>4. PICK p \in {"new", "label"} : cw' = [cw EXCEPT !.obj = o, !.pc = p]
    BY <1>1
  <1>5. /\ cw' \in ChartWorker /\ cw'.obj = o /\ cw'.cur = cw.cur /\ cw'.pc = p
        /\ cw'.fresh = cw.fresh /\ cw'.ver = cw.ver /\ cw'.deps = cw.deps
    BY <1>t, <1>2, <1>4 DEF ChartWorker
  <1>6. ChartBusy(cw')
    BY <1>t, <1>3, <1>5 DEF ChartBusy
  <1>7. faults' \in Nat
    BY <1>1, FaultTypes
  <1>8. UNCHANGED <<published, repo, idx, cm, dead, rq, rw, deleted, edits>>
    BY DEF SetLabels
  <1>9. cw.fresh => chart[c].exists /\ o.exists /\ o.owned = chart[c].owned
    BY <1>t, <1>2, <1>3 DEF CopyInv
  <1>10. CASE cw.fresh /\ PutChart(c, o)
    <2>1. ChartKey(c) \in dead' => o.owned
      BY <1>8, <1>9, <1>10, Known DEF DeadExist
    <2>. QED
      BY <1>t, <1>2, <1>3, <1>5, <1>6, <1>7, <1>8, <1>9, <1>10, <2>1,
         Known, PutChartInv DEF ManagerTypeOK
  <1>11. CASE UNCHANGED <<chart, cq>>
    BY <1>t, <1>3, <1>5, <1>6, <1>7, <1>8, <1>9, <1>11, ChartFrame DEF ManagerTypeOK
  <1>. QED
    BY <1>1, <1>10, <1>11

(* The worker goes on with the copy it has.                                *)
LEMMA GoOnInv ==
  ASSUME ManagerInv, UNCHANGED <<published, repo, chart, idx, cm, dead, rq, rw,
                                 deleted, edits>>,
         cq' \subseteq Chart, cw' \in ChartWorker, ChartBusy(cw'),
         cw'.cur = cw.cur, cw'.obj = cw.obj, cw'.fresh = cw.fresh, faults' \in Nat
  PROVE  ManagerInv'
  BY Known, ChartFrame DEF CopyInv

LEMMA NewChartInv == ASSUME ManagerInv, NEW c \in Chart, NewChart(c) PROVE ManagerInv'
  <1>t. /\ ManagerTypeOK /\ cw \in ChartWorker /\ ChartBusy(cw)
    BY Known DEF ManagerInv
  <1>. DEFINE w == [cw EXCEPT !.todo = cw.obj.vers, !.gone = @ \ {"repo"}]
  <1>1. cw.cur # {} /\ (\A x, y \in cw.cur : x = y) /\ cw.deps = {}
    BY <1>t DEF NewChart, ChartBusy
  <1>2. /\ w \in ChartWorker /\ w.cur = cw.cur /\ w.deps = {}
        /\ w.obj = cw.obj /\ w.fresh = cw.fresh
    BY <1>t, <1>1 DEF ChartWorker, ChartObj
  <1>3. /\ faults' \in Nat /\ cw' \in {Sync(cw, "init"), NextVersion(w)}
        /\ UNCHANGED <<published, repo, chart, idx, cm, dead, rq, cq, rw, deleted,
                       edits>>
    BY FaultTypes DEF NewChart
  <1>. HIDE DEF w
  <1>4. /\ cw' \in ChartWorker /\ ChartBusy(cw') /\ cw'.cur = cw.cur
        /\ cw'.obj = cw.obj /\ cw'.fresh = cw.fresh
    BY <1>t, <1>1, <1>2, <1>3, SyncTypes, NextVersionTypes DEF Reason
  <1>. QED
    BY <1>t, <1>3, <1>4, GoOnInv DEF ManagerTypeOK

LEMMA LoadTypes ==
  ASSUME NEW c, NEW v
  PROVE  \A x \in {Stored(c, v), Archive} :
            x \in [Part -> Content] /\ \A p \in Part : x[p] # "none"
  BY DEF Stored, Archive, Content

LEMMA PrepareInv ==
  ASSUME ManagerInv, NEW c \in Chart, NEW v \in Version, Prepare(c, v) PROVE ManagerInv'
  <1>t. /\ ManagerTypeOK /\ cw \in ChartWorker /\ ChartBusy(cw)
    BY Known DEF ManagerInv
  <1>1. cw.cur # {} /\ (\A x, y \in cw.cur : x = y) /\ cw.deps = {}
    BY <1>t DEF Prepare, ChartBusy
  <1>2. /\ faults' \in Nat
        /\ UNCHANGED <<published, repo, chart, idx, cm, dead, rq, cq, rw, deleted,
                       edits>>
    BY FaultTypes DEF Prepare
  <1>3. PICK x \in {Stored(c, v), Archive} :
           cw' \in {Sync(cw, "configmaps"),
                    [cw EXCEPT !.pc = "deploy", !.todo = @ \ {v}, !.ver = {v},
                               !.load = x, !.parts = Part]}
    BY DEF Prepare
  <1>4. CASE cw' = Sync(cw, "configmaps")
    BY <1>t, <1>1, <1>2, <1>4, SyncTypes, GoOnInv DEF Reason, ManagerTypeOK
  <1>5. CASE cw' = [cw EXCEPT !.pc = "deploy", !.todo = @ \ {v}, !.ver = {v},
                              !.load = x, !.parts = Part]
    <2>1. x \in [Part -> Content] /\ \A p \in Part : x[p] # "none"
      BY LoadTypes
    <2>2. /\ cw' \in ChartWorker /\ cw'.cur = cw.cur /\ cw'.obj = cw.obj
          /\ cw'.fresh = cw.fresh /\ cw'.pc = "deploy" /\ cw'.deps = cw.deps
          /\ cw'.ver = {v} /\ cw'.parts = Part /\ cw'.load = x
      BY <1>t, <1>5, <2>1 DEF ChartWorker
    <2>3. ChartBusy(cw')
      BY <1>1, <2>1, <2>2, PartAssumption DEF ChartBusy
    <2>. QED
      BY <1>t, <1>2, <2>2, <2>3, GoOnInv DEF ManagerTypeOK
  <1>. QED
    BY <1>3, <1>4, <1>5

LEMMA DeployConfigMapInv ==
  ASSUME ManagerInv, NEW c \in Chart, NEW v \in Version, NEW p \in Part,
         DeployConfigMap(c, v, p)
  PROVE  ManagerInv'
  <1>t. /\ ManagerTypeOK /\ cw \in ChartWorker /\ ChartBusy(cw) /\ CopyInv
        /\ RepoBusy(rw)
    BY Known DEF ManagerInv
  <1>1. /\ cw.pc = "deploy" /\ cw.cur # {} /\ (\A x, y \in cw.cur : x = y)
        /\ cw.deps = {} /\ cw.load[p] \in Content \ {"none"}
    BY <1>t DEF DeployConfigMap, ChartBusy, ChartWorker
  <1>2. /\ faults' \in Nat
        /\ UNCHANGED <<published, repo, chart, idx, rq, cq, rw, deleted, edits>>
    BY FaultTypes DEF DeployConfigMap
  <1>3. /\ cw' \in ChartWorker /\ ChartBusy(cw') /\ cw'.cur = cw.cur
        /\ cw'.obj = cw.obj /\ cw'.fresh = cw.fresh
    <2>. DEFINE rest == cw.parts \ {p}
    <2>1. CASE rest = {}
      BY <1>t, <1>1, <2>1, NextVersionTypes DEF DeployConfigMap, RestOfParts
    <2>2. CASE rest # {}
      <3>1. cw' = [cw EXCEPT !.parts = rest]
        BY <2>2 DEF DeployConfigMap, RestOfParts
      <3>2. /\ cw' \in ChartWorker /\ cw'.cur = cw.cur /\ cw'.obj = cw.obj
            /\ cw'.fresh = cw.fresh /\ cw'.pc = cw.pc /\ cw'.parts = rest
            /\ cw'.ver = cw.ver /\ cw'.deps = cw.deps /\ cw'.load = cw.load
        BY <1>t, <3>1 DEF ChartWorker
      <3>. HIDE DEF rest
      <3>3. ChartBusy(cw')
        BY <1>t, <1>1, <2>2, <3>2 DEF ChartBusy
      <3>. QED
        BY <3>2, <3>3
    <2>. QED
      BY <2>1, <2>2
  <1>4. CASE /\ cm' = [cm EXCEPT ![c][v][p] = cw.load[p]]
             /\ dead' \in {dead \cup {<<c, v, p>>}, dead \ {<<c, v, p>>}}
    <2>1. cm' \in [Chart -> [Version -> [Part -> Content]]]
      BY <1>t, <1>1, <1>4 DEF ManagerTypeOK
    <2>2. \A x \in Chart, w \in Version, q \in Part :
             cm'[x][w][q] = IF <<x, w, q>> = <<c, v, p>> THEN cw.load[p]
                            ELSE cm[x][w][q]
      BY <1>t, <1>4 DEF ManagerTypeOK
    <2>3. dead' \subseteq Key
      BY <1>t, <1>4, KeyTypes DEF ManagerTypeOK
    <2>4. DeadExist'
      <3>1. ASSUME NEW x \in Chart
            PROVE  /\ ChartKey(x) \in dead' => ChartKey(x) \in dead
                   /\ IndexKey(x) \in dead' => IndexKey(x) \in dead
        BY <1>4, KeysApart
      <3>2. ASSUME NEW x \in Chart, NEW w \in Version, NEW q \in Part,
                   <<x, w, q>> \in dead'
            PROVE  cm'[x][w][q] # "none"
        BY <1>1, <1>4, <2>2, <3>2, Known DEF DeadExist
      <3>. QED
        BY <1>2, <3>1, <3>2, Known DEF DeadExist
    <2>5. CopyInv' /\ WorkersBusy'
      BY <1>t, <1>2, <1>3 DEF CopyInv, WorkersBusy, RepoBusy, ChartBusy
    <2>. QED
      BY <1>t, <1>2, <1>3, <2>1, <2>3, <2>4, <2>5 DEF ManagerInv, ManagerTypeOK
  <1>5. CASE UNCHANGED <<cm, dead>>
    BY <1>t, <1>2, <1>3, <1>5, GoOnInv DEF ManagerTypeOK
  <1>. QED
    BY <1>4, <1>5 DEF DeployConfigMap

LEMMA CreateOrUpdateSubChartInv ==
  ASSUME ManagerInv, NEW d \in Chart, NEW v \in Version, CreateOrUpdateSubChart(d, v)
  PROVE  ManagerInv'
  <1>t. /\ ManagerTypeOK /\ cw \in ChartWorker /\ ChartBusy(cw) /\ CopyInv
        /\ chart[d] \in ChartObj
    BY Known DEF ManagerInv
  <1>1. /\ cw.cur # {} /\ (\A x, y \in cw.cur : x = y) /\ cw.ver = {}
    BY <1>t DEF CreateOrUpdateSubChart, ChartBusy
  <1>2. /\ faults' \in Nat
        /\ UNCHANGED <<published, repo, idx, cm, rq, rw, deleted, edits>>
    BY FaultTypes DEF CreateOrUpdateSubChart
  <1>3. ASSUME NEW w \in ChartWorker, SameWork(w, cw)
        PROVE  /\ Sync(w, "deps") \in ChartWorker /\ ChartBusy(Sync(w, "deps"))
               /\ Sync(w, "deps").cur = cw.cur /\ Sync(w, "deps").obj = cw.obj
               /\ Sync(w, "deps").fresh = w.fresh
    <2>1. w.cur = cw.cur /\ w.obj = cw.obj
      BY <1>3 DEF SameWork
    <2>. QED
      BY <1>1, <2>1, SyncTypes DEF Reason
  <1>4. CASE cw' = ToDeps(cw, cw.deps \ {<<d, v>>}) /\ UNCHANGED <<chart, cq, dead>>
    <2>1. cw.deps \ {<<d, v>>} \in SUBSET (Chart \X Version)
      BY <1>t DEF ChartWorker
    <2>. QED
      BY <1>t, <1>1, <1>2, <1>4, <2>1, DepsTypes, GoOnInv DEF ManagerTypeOK
  <1>5. CASE /\ Labelled(d) /\ PutChart(d, [chart[d] EXCEPT !.vers = @ \cup {v}])
             /\ cw' = Sync(StaleChart(d), "deps")
             /\ UNCHANGED dead
    <2>. DEFINE o == [chart[d] EXCEPT !.vers = @ \cup {v}]
    <2>1. o \in ChartObj /\ o.exists /\ o.owned = chart[d].owned
      BY <1>t, <1>5 DEF ChartObj, Labelled
    <2>2. SameWork(StaleChart(d), cw) /\ (d \in cw.cur => ~StaleChart(d).fresh)
      BY <1>t, StaleWork DEF StaleChart
    <2>3. StaleChart(d) \in ChartWorker /\ (StaleChart(d).fresh => cw.fresh)
      BY <2>2 DEF SameWork
    <2>4. /\ cw' \in ChartWorker /\ ChartBusy(cw') /\ cw'.cur = cw.cur
          /\ cw'.obj = cw.obj /\ cw'.fresh = StaleChart(d).fresh
      BY <1>3, <1>5, <2>2, <2>3
    <2>5. ChartKey(d) \in dead => chart[d].owned
      BY Known DEF DeadExist
    <2>6. PutChart(d, o)
      BY <1>5
    <2>. HIDE DEF o
    <2>. QED
      BY <1>t, <1>2, <1>5, <2>1, <2>2, <2>3, <2>4, <2>5, <2>6, Known, PutChartInv
         DEF ManagerTypeOK
  <1>6. CASE /\ ~chart[d].exists /\ PutChart(d, SubChart(v))
             /\ dead' = IF "repo" \in cw.gone THEN dead \cup {ChartKey(d)} ELSE dead
             /\ cw' = Sync(cw, "deps")
    <2>1. SubChart(v) \in ChartObj /\ SubChart(v).exists /\ SubChart(v).owned
      BY IdleTypes DEF SubChart, ChartObj, NoChart
    <2>2. ~(d \in cw.cur /\ cw.fresh) /\ ~chart[d].owned
      BY <1>t, <1>6 DEF CopyInv
    <2>3. /\ cw' \in ChartWorker /\ ChartBusy(cw') /\ cw'.cur = cw.cur
          /\ cw'.obj = cw.obj /\ cw'.fresh = cw.fresh
      BY <1>t, <1>3, <1>6, StaleWork
    <2>. QED
      BY <1>t, <1>2, <1>6, <2>1, <2>2, <2>3, Known, PutChartInv DEF ManagerTypeOK
  <1>7. CASE cw' = Sync(cw, "deps") /\ UNCHANGED <<chart, cq, dead>>
    BY <1>t, <1>2, <1>3, <1>7, StaleWork, GoOnInv DEF ManagerTypeOK
  <1>. QED
    BY <1>4, <1>5, <1>6, <1>7 DEF CreateOrUpdateSubChart

LEMMA SyncChartStatusInv ==
  ASSUME ManagerInv, NEW c \in Chart, SyncChartStatus(c) PROVE ManagerInv'
  <1>t. /\ ManagerTypeOK /\ cw \in ChartWorker /\ CopyInv /\ chart[c] \in ChartObj
    BY Known DEF ManagerInv
  <1>1. /\ faults' \in Nat /\ cw' = IdleChartWorker /\ cw'.cur = {}
        /\ UNCHANGED <<published, repo, idx, cm, dead, rq, rw, deleted, edits>>
    BY FaultTypes DEF SyncChartStatus, IdleChartWorker
  <1>2. CASE cw.fresh /\ PutChart(c, [chart[c] EXCEPT !.st = cw.goal])
    <2>. DEFINE o == [chart[c] EXCEPT !.st = cw.goal]
    <2>1. o \in ChartObj /\ o.exists = chart[c].exists /\ o.owned = chart[c].owned
      BY <1>t DEF ChartObj, ChartWorker
    <2>2. chart[c].exists
      BY <1>t, <1>2 DEF CopyInv, SyncChartStatus
    <2>3. ChartKey(c) \in dead => o.owned
      BY <2>1, Known DEF DeadExist
    <2>4. PutChart(c, o)
      BY <1>2
    <2>. HIDE DEF o
    <2>. QED
      BY <1>t, <1>1, <2>1, <2>2, <2>3, <2>4, Known, IdleTypes, PutChartInv
         DEF ManagerTypeOK, IdleChartWorker
  <1>3. CASE cq' = cq \cup {c} /\ UNCHANGED chart
    <2>1. cq' \subseteq Chart
      BY <1>t, <1>3 DEF ManagerTypeOK
    <2>. QED
      BY <1>1, <1>3, <2>1, IdleTypes, ChartFrame
  <1>. QED
    BY <1>2, <1>3 DEF SyncChartStatus, Again30

LEMMA StepManager == ASSUME ManagerInv, [Next]_vars PROVE ManagerInv'
  <1>1. CASE RepoStep
    BY <1>1, StartRepoInv, AdoptRepoInv, DropRepoInv, WriteIndexInv, PruneChartInv,
       DeployChartInv, ListChartsInv, SyncRepoStatusInv DEF RepoStep
  <1>2. CASE ChartStep
    BY <1>2, StartChartInv, SetLabelsInv, NewChartInv, PrepareInv,
       CreateOrUpdateSubChartInv, DeployConfigMapInv, SyncChartStatusInv DEF ChartStep
  <1>3. CASE UNCHANGED vars
    BY <1>3, Known, RepoFrame DEF vars, ManagerInv, ManagerTypeOK
  <1>. QED
    BY <1>1, <1>2, <1>3, UserManager, CollectorManager, RestartManager DEF Next

(* Every state of the manager is well formed: a worker has something to do *)
(* in each of its phases, and the collector only waits for what is there.  *)
THEOREM ManagerTypeCorrect == Spec => []ManagerTypeOK
  <1>1. ManagerInv => ManagerTypeOK
    BY DEF ManagerInv
  <1>. QED
    BY <1>1, InitManager, StepManager, PTL DEF Spec

-----------------------------------------------------------------------------
(* The Repository is not forgotten.  Every round ends with a write of the  *)
(* worker's own object, whose event brings the key back, or with a delay,  *)
(* unless that write is refused: then the copy was stale, and whoever made *)
(* it stale has queued the key.                                            *)
RemembersInv == /\ RepoNotForgotten
                /\ rw.pc # "idle" /\ ~rw.fresh => rq

LEMMA PhaseFresh ==
  ASSUME NEW w \in RepoWorker, NEW ok \in BOOLEAN, NEW cs \in SUBSET Chart
  PROVE  /\ ToStatus(w, ok).pc # "idle" /\ ToStatus(w, ok).fresh = w.fresh
         /\ ToDeploy(w).pc # "idle" /\ ToDeploy(w).fresh = w.fresh
         /\ ToPrune(w, cs).pc # "idle" /\ ToPrune(w, cs).fresh = w.fresh
         /\ ToIndex(w, cs).pc # "idle" /\ ToIndex(w, cs).fresh = w.fresh
  <1>1. \A b \in BOOLEAN : ToStatus(w, b).pc # "idle" /\ ToStatus(w, b).fresh = w.fresh
    BY DEF ToStatus, RepoWorker
  <1>2. ToDeploy(w).pc # "idle" /\ ToDeploy(w).fresh = w.fresh
    BY <1>1 DEF ToDeploy, RepoWorker
  <1>3. ToPrune(w, cs).pc # "idle" /\ ToPrune(w, cs).fresh = w.fresh
    BY <1>2 DEF ToPrune, RepoWorker
  <1>4. ToIndex(w, cs).pc # "idle" /\ ToIndex(w, cs).fresh = w.fresh
    BY DEF ToIndex, RepoWorker
  <1>. QED
    BY <1>1, <1>2, <1>3, <1>4

(* A step between two phases.                                              *)
LEMMA PhaseRemembers ==
  ASSUME RemembersInv, rw.pc # "idle", rw'.pc # "idle", rw'.fresh = rw.fresh,
         UNCHANGED <<repo, rq>>
  PROVE  RemembersInv'
  BY DEF RemembersInv, RepoNotForgotten

LEMMA RepoRemembers ==
  ASSUME "write" \notin Faults, ManagerInv, RemembersInv, RepoStep
  PROVE  RemembersInv'
  <1>t. rw \in RepoWorker /\ repo \in RepoObj /\ rq \in BOOLEAN
    BY Known DEF ManagerInv, ManagerTypeOK
  <1>0. ~Fault("write")
    BY DEF Fault
  <1>1. CASE StartRepo
    <2>1. PICK index : index \in {published, [c \in Chart |-> {}]} /\
             LET w == [IdleRepoWorker EXCEPT !.obj = repo, !.fresh = TRUE,
                                             !.index = index]
             IN rw' = IF ~repo.exists THEN IdleRepoWorker
                      ELSE IF repo.deleting THEN [w EXCEPT !.pc = "drop"]
                      ELSE IF ~repo.fin THEN [w EXCEPT !.pc = "adopt"]
                      ELSE ToIndex(w, Indexed(repo, index))
      BY <1>1 DEF StartRepo
    <2>. DEFINE w == [IdleRepoWorker EXCEPT !.obj = repo, !.fresh = TRUE,
                                            !.index = index]
    <2>2. index \in [Chart -> SUBSET Version]
      BY <2>1 DEF ManagerInv, ManagerTypeOK
    <2>3. w \in RepoWorker /\ w.fresh
      BY <1>t, <2>2, IdleTypes DEF RepoWorker, IdleRepoWorker
    <2>4. rw' \in {IdleRepoWorker, [w EXCEPT !.pc = "drop"],
                   [w EXCEPT !.pc = "adopt"], ToIndex(w, Indexed(repo, index))}
          /\ (repo.exists => rw' \in {[w EXCEPT !.pc = "drop"],
                   [w EXCEPT !.pc = "adopt"], ToIndex(w, Indexed(repo, index))})
      BY <2>1
    <2>. HIDE DEF w
    <2>6. ToIndex(w, Indexed(repo, index)).pc # "idle"
          /\ ToIndex(w, Indexed(repo, index)).fresh
      <3>1. Indexed(repo, index) \in SUBSET Chart
        BY DEF Indexed
      <3>. QED
        BY <2>3, <3>1, PhaseFresh
    <2>7. (rw'.pc # "idle" => rw'.fresh) /\ (repo.exists => rw'.pc # "idle")
      <3>1. CASE rw' = IdleRepoWorker /\ ~repo.exists
        BY <3>1 DEF IdleRepoWorker
      <3>2. ASSUME NEW p \in {"drop", "adopt"}, rw' = [w EXCEPT !.pc = p]
            PROVE  rw'.pc # "idle" /\ rw'.fresh
        BY <2>3, <3>2 DEF RepoWorker
      <3>3. CASE rw' = ToIndex(w, Indexed(repo, index))
        BY <2>6, <3>3
      <3>. QED
        BY <2>4, <3>1, <3>2, <3>3
    <2>. QED
      BY <1>1, <2>7 DEF StartRepo, RemembersInv, RepoNotForgotten
  <1>2. CASE AdoptRepo \/ DropRepo
    <2>1. rw'.pc = "idle"
      BY <1>2 DEF AdoptRepo, DropRepo, IdleRepoWorker
    <2>2. repo'.exists => rq'
      BY <1>0, <1>2 DEF AdoptRepo, DropRepo, RepoWriteFails, RemembersInv, NoRepo
    <2>. QED
      BY <2>1, <2>2 DEF RemembersInv, RepoNotForgotten
  <1>3. ASSUME NEW c \in Chart, WriteIndex(c) \/ PruneChart(c) PROVE RemembersInv'
    <2>1. /\ rw.pc # "idle"
          /\ rw' \in {ToIndex(rw, rw.todo \ {c}), ToIndex(rw, {}),
                      ToStatus(rw, FALSE), ToPrune(rw, rw.todo \ {c})}
      BY <1>3 DEF WriteIndex, PruneChart
    <2>2. UNCHANGED <<repo, rq>>
      BY <1>3 DEF WriteIndex, PruneChart
    <2>3. rw'.pc # "idle" /\ rw'.fresh = rw.fresh
      <3>1. rw.todo \ {c} \in SUBSET Chart /\ {} \in SUBSET Chart
        BY <1>t DEF RepoWorker
      <3>2. CASE rw' = ToIndex(rw, rw.todo \ {c}) \/ rw' = ToIndex(rw, {})
        BY <1>t, <3>1, <3>2, PhaseFresh
      <3>3. CASE rw' = ToPrune(rw, rw.todo \ {c})
        BY <1>t, <3>1, <3>3, PhaseFresh
      <3>4. CASE rw' = ToStatus(rw, FALSE)
        BY <1>t, <3>1, <3>4, PhaseFresh
      <3>. QED
        BY <2>1, <3>2, <3>3, <3>4
    <2>. QED
      BY <2>1, <2>2, <2>3, PhaseRemembers
  <1>4. CASE ListCharts
    <2>1. Stray(rw.obj) \in SUBSET Chart
      BY DEF Stray
    <2>. QED
      BY <1>t, <1>4, <2>1, PhaseFresh, PhaseRemembers DEF ListCharts
  <1>5. ASSUME NEW c \in Chart, DeployChart(c) PROVE RemembersInv'
    <2>1. rw' \in {ToStatus(rw, TRUE), ToStatus(rw, FALSE),
                   [rw EXCEPT !.todo = rw.todo \ {c}]}
      BY <1>5 DEF DeployChart
    <2>2. rw.pc # "idle" /\ UNCHANGED <<repo, rq>>
      BY <1>5 DEF DeployChart
    <2>3. ASSUME rw' = [rw EXCEPT !.todo = rw.todo \ {c}]
          PROVE  rw'.pc # "idle" /\ rw'.fresh = rw.fresh
      BY <1>t, <2>2, <2>3 DEF RepoWorker
    <2>4. rw'.pc # "idle" /\ rw'.fresh = rw.fresh
      BY <1>t, <2>1, <2>2, <2>3, PhaseFresh DEF RepoWorker
    <2>. QED
      BY <2>2, <2>4, PhaseRemembers
  <1>6. CASE SyncRepoStatus
    <2>1. rw'.pc = "idle"
      BY <1>6 DEF SyncRepoStatus, IdleRepoWorker
    <2>2. rq' \/ (rw.pc # "idle" /\ ~rw.fresh /\ rq' = rq)
      BY <1>0, <1>6 DEF SyncRepoStatus, Again10
    <2>3. rq'
      BY <1>t, <2>2 DEF RemembersInv
    <2>. QED
      BY <2>1, <2>3 DEF RemembersInv, RepoNotForgotten
  <1>. QED
    BY <1>1, <1>2, <1>3, <1>4, <1>5, <1>6 DEF RepoStep

LEMMA StepRemembers ==
  ASSUME "write" \notin Faults, ManagerInv, RemembersInv, [Next]_vars
  PROVE  RemembersInv'
  <1>1. CASE ChartStep
    <2>1. ASSUME NEW c \in Chart, StartChart(c) \/ SetLabels(c) \/ NewChart(c)
                                  \/ SyncChartStatus(c)
          PROVE  UNCHANGED <<repo, rq, rw>>
      BY <2>1 DEF StartChart, SetLabels, NewChart, SyncChartStatus
    <2>2. ASSUME NEW c \in Chart, NEW v \in Version, NEW p \in Part,
                 Prepare(c, v) \/ CreateOrUpdateSubChart(c, v) \/ DeployConfigMap(c, v, p)
          PROVE  UNCHANGED <<repo, rq, rw>>
      BY <2>2 DEF Prepare, CreateOrUpdateSubChart, DeployConfigMap
    <2>3. UNCHANGED <<repo, rq, rw>>
      BY <1>1, <2>1, <2>2, PartAssumption DEF ChartStep
    <2>. QED
      BY <2>3 DEF RemembersInv, RepoNotForgotten
  <1>2. CASE User
    <2>1. \/ \E o : PutRepo(o)
          \/ UNCHANGED <<repo, rq, rw>>
      BY <1>2 DEF User, CreateRepo, EditRepo, DeleteRepo, WriteChart, DeleteChart,
         Publish
    <2>. QED
      BY <2>1 DEF PutRepo, RemembersInv, RepoNotForgotten
  <1>3. CASE Collector
    <2>1. UNCHANGED <<repo, rq, rw>>
      BY <1>3 DEF Collector, CollectChart, CollectConfigMap
    <2>. QED
      BY <2>1 DEF RemembersInv, RepoNotForgotten
  <1>4. CASE Restart
    BY <1>4 DEF Restart, IdleRepoWorker, RemembersInv, RepoNotForgotten
  <1>5. CASE UNCHANGED vars
    BY <1>5 DEF vars, RemembersInv, RepoNotForgotten
  <1>. QED
    BY RepoRemembers, <1>1, <1>2, <1>3, <1>4, <1>5 DEF Next

(* As long as no write of an object by its own controller fails, the       *)
(* Repository is queued or in work whenever it exists, whatever else fails *)
(* and whenever the manager restarts.                                      *)
THEOREM RepoNotForgottenAlways ==
  ASSUME "write" \notin Faults
  PROVE  Spec => []RepoNotForgotten
  <1>1. Init => RemembersInv
    BY DEF Init, NoRepo, IdleRepoWorker, RemembersInv, RepoNotForgotten
  <1>2. ManagerInv /\ RemembersInv /\ [Next]_vars => RemembersInv'
    BY StepRemembers
  <1>3. RemembersInv => RepoNotForgotten
    BY DEF RemembersInv
  <1>. QED
    BY <1>1, <1>2, <1>3, InitManager, StepManager, PTL DEF Spec

-----------------------------------------------------------------------------
(* Hollow configmaps.  The collector only takes the configmaps of charts   *)
(* that have been deleted.  Without a failing call or a restart those of a *)
(* version are all there or all missing, whenever no worker is just        *)
(* writing them, so that a round that finds one of them finds all of them  *)
(* and loads a whole chart.                                                *)
Unclaimed(c) ==
    /\ \A v \in Version, p \in Part : <<c, v, p>> \notin dead
    /\ c \in cw.cur => "chart" \notin cw.gone

InWork(c, v) == c \in cw.cur /\ v \in cw.ver

WholeChart(c) ==
    /\ \A v \in Version, p \in Part : cm[c][v][p] # "hollow"
    /\ \A v \in Version : ~InWork(c, v) =>
          \A p, q \in Part : cm[c][v][p] = "full" => cm[c][v][q] = "full"
    /\ \A v \in Version : InWork(c, v) =>
          \A p \in Part : /\ cw.load[p] = "full"
                          /\ p \notin cw.parts => cm[c][v][p] = "full"

WholeInv == \A c \in Chart : /\ c \in deleted \/ Unclaimed(c)
                             /\ Interrupted(c) \/ WholeChart(c)

LEMMA FaultStays ==
  ASSUME ManagerInv
  PROVE  /\ NoFault /\ faults > 0 => faults' > 0
         /\ \A k : Fault(k) => faults' > 0
  BY DEF ManagerInv, ManagerTypeOK, NoFault, Fault

(* The chart worker writes what it wrote, and learns of no removal.        *)
SameWriting(d, w) ==
    /\ d.ver = w.ver
    /\ w.ver # {} => d.cur = w.cur /\ d.load = w.load /\ d.parts = w.parts
    /\ "chart" \in d.gone => "chart" \in w.gone /\ d.cur \subseteq w.cur

(* A step that leaves the configmaps of versions alone.                    *)
LEMMA WholeFrame ==
  ASSUME WholeInv, UNCHANGED cm, deleted \subseteq deleted',
         faults > 0 => faults' > 0, SameWriting(cw', cw),
         \A c \in Chart, v \in Version, p \in Part :
            <<c, v, p>> \in dead' => <<c, v, p>> \in dead
  PROVE  WholeInv'
  <1>1. ASSUME NEW c \in Chart, c \notin deleted' PROVE Unclaimed(c)'
    BY <1>1 DEF WholeInv, Unclaimed, SameWriting
  <1>2. ASSUME NEW c \in Chart, ~Interrupted(c)' PROVE WholeChart(c)'
    <2>1. WholeChart(c)
      BY <1>2 DEF WholeInv, Interrupted
    <2>2. \A v \in Version : /\ InWork(c, v)' <=> InWork(c, v)
                             /\ InWork(c, v) => cw'.load = cw.load /\ cw'.parts = cw.parts
      BY DEF InWork, SameWriting
    <2>. QED
      BY <2>1, <2>2 DEF WholeChart
  <1>. QED
    BY <1>1, <1>2 DEF WholeInv

(* The removal of a chart concerns only what is its own.                   *)
LEMMA RemoveWhole ==
  ASSUME ManagerInv, WholeInv, NEW x \in Chart, RemoveChart(x), UNCHANGED cm,
         faults > 0 => faults' > 0
  PROVE  WholeInv'
  <1>t. cw \in ChartWorker /\ ChartBusy(cw)
    BY Known
  <1>. SUFFICES ASSUME NEW c \in Chart, c \notin deleted, c # x
                PROVE  Unclaimed(c)' /\ (Interrupted(c)' \/ WholeChart(c)')
    BY DEF WholeInv, Interrupted, RemoveChart
  <1>1. \A v \in Version, p \in Part : <<c, v, p>> \in dead' => <<c, v, p>> \in dead
    <2>1. \A v \in Version, p \in Part : <<c, v, p>> \notin PartKeys(x)
      BY KeysApart DEF PartKeys
    <2>. QED
      BY <2>1 DEF RemoveChart
  <1>2. Unclaimed(c) /\ (Interrupted(c)' \/ WholeChart(c))
    BY DEF WholeInv, Interrupted
  <1>3. CASE x \in cw.cur
    <2>1. /\ cw' \in ChartWorker /\ cw'.cur = cw.cur
      BY <1>t, <1>3, RemovedWork DEF RemoveChart, SameWork
    <2>2. c \notin cw.cur
      BY <1>t, <1>3 DEF ChartBusy
    <2>. QED
      BY <1>1, <1>2, <2>1, <2>2 DEF Unclaimed, WholeChart, InWork
  <1>4. CASE x \notin cw.cur
    <2>1. cw' = cw
      BY <1>4 DEF RemoveChart
    <2>. QED
      BY <1>1, <1>2, <2>1 DEF Unclaimed, WholeChart, InWork
  <1>. QED
    BY <1>3, <1>4

LEMMA RepoWhole == ASSUME ManagerInv, WholeInv, RepoStep PROVE WholeInv'
  <1>t. cw \in ChartWorker /\ ChartBusy(cw) /\ SameWriting(cw, cw)
    BY Known DEF SameWriting
  <1>1. CASE StartRepo \/ AdoptRepo \/ ListCharts \/ SyncRepoStatus
    <2>1. UNCHANGED <<cm, dead, cw, deleted>>
      BY <1>1 DEF StartRepo, AdoptRepo, ListCharts, SyncRepoStatus
    <2>2. faults > 0 => faults' > 0
      BY <1>1, FaultStays DEF StartRepo, AdoptRepo, ListCharts, SyncRepoStatus,
         RepoWriteFails
    <2>. QED
      BY <1>t, <2>1, <2>2, WholeFrame
  <1>2. CASE DropRepo
    <2>1. UNCHANGED <<cm, deleted>> /\ (faults > 0 => faults' > 0)
      BY <1>2, FaultStays DEF DropRepo, RepoWriteFails
    <2>2. \A c \in Chart, v \in Version, p \in Part :
             <<c, v, p>> \in dead' => <<c, v, p>> \in dead
      BY <1>2, KeysApart DEF DropRepo
    <2>3. SameWriting(cw', cw)
      <3>1. CASE cw' = cw
        BY <1>t, <3>1
      <3>2. CASE cw' = [cw EXCEPT !.gone = @ \cup {"repo"}]
        BY <1>t, <3>2 DEF ChartWorker, SameWriting
      <3>. QED
        BY <1>2, <3>1, <3>2 DEF DropRepo
    <2>. QED
      BY <2>1, <2>2, <2>3, WholeFrame
  <1>3. ASSUME NEW c \in Chart, WriteIndex(c) PROVE WholeInv'
    <2>1. UNCHANGED <<cm, cw, deleted>> /\ dead' \subseteq dead
          /\ (faults > 0 => faults' > 0)
      BY <1>3, FaultStays DEF WriteIndex
    <2>. QED
      BY <1>t, <2>1, WholeFrame
  <1>4. ASSUME NEW c \in Chart, PruneChart(c) PROVE WholeInv'
    <2>1. UNCHANGED cm /\ (faults > 0 => faults' > 0)
      BY <1>4, FaultStays DEF PruneChart
    <2>2. CASE RemoveChart(c)
      BY <2>1, <2>2, RemoveWhole
    <2>3. CASE UNCHANGED <<dead, cw, deleted>>
      BY <1>t, <2>1, <2>3, WholeFrame
    <2>. QED
      BY <1>4, <2>2, <2>3 DEF PruneChart
  <1>5. ASSUME NEW c \in Chart, DeployChart(c) PROVE WholeInv'
    <2>1. UNCHANGED <<cm, dead, deleted>> /\ (faults > 0 => faults' > 0)
      BY <1>5, FaultStays DEF DeployChart
    <2>2. cw' = cw \/ cw' = [cw EXCEPT !.fresh = FALSE]
      BY <1>5 DEF DeployChart, StaleChart
    <2>3. SameWriting(cw', cw)
      BY <1>t, <2>2 DEF ChartWorker, SameWriting
    <2>. QED
      BY <2>1, <2>3, WholeFrame
  <1>. QED
    BY <1>1, <1>2, <1>3, <1>4, <1>5 DEF RepoStep

(* Preparing a version: what the worker loads is whole, from an archive or *)
(* from the configmaps of a version of which one holds a file.             *)
LEMMA StoredWhole ==
  ASSUME ManagerInv, NEW c \in Chart, NEW v \in Version, WholeChart(c), ~InWork(c, v)
  PROVE  /\ Loadable(c, v) => \A p \in Part : Stored(c, v)[p] = "full"
         /\ \A p \in Part : Archive[p] = "full"
  <1>1. ASSUME Loadable(c, v) PROVE \A p \in Part : cm[c][v][p] = "full"
    BY <1>1 DEF Loadable, HasFiles, WholeChart
  <1>. QED
    BY <1>1 DEF Stored, Archive

LEMMA PrepareWhole ==
  ASSUME ManagerInv, WholeInv, NEW c \in Chart, NEW v \in Version, Prepare(c, v)
  PROVE  WholeInv'
  <1>t. cw \in ChartWorker /\ ChartBusy(cw)
    BY Known
  <1>1. /\ cw.pc = "prepare" /\ cw.ver = {} /\ c \in cw.cur
        /\ cw.cur # {} /\ \A x, y \in cw.cur : x = y
    BY <1>t DEF Prepare, ChartBusy
  <1>2. UNCHANGED <<cm, dead, deleted>> /\ (faults > 0 => faults' > 0)
    BY FaultStays DEF Prepare
  <1>3. CASE cw' = Sync(cw, "configmaps")
    <2>1. SameWriting(cw', cw)
      BY <1>t, <1>1, <1>3, SyncTypes DEF SameWriting, Reason
    <2>. QED
      BY <1>2, <2>1, WholeFrame
  <1>4. ASSUME NEW x \in {Stored(c, v), Archive},
               x = Stored(c, v) => Loadable(c, v) \/ x = Archive,
               cw' = [cw EXCEPT !.pc = "deploy", !.todo = @ \ {v}, !.ver = {v},
                                !.load = x, !.parts = Part]
        PROVE  WholeInv'
    <2>1. /\ cw'.cur = cw.cur /\ cw'.ver = {v} /\ cw'.load = x
          /\ cw'.parts = Part /\ cw'.gone = cw.gone
      BY <1>t, <1>4 DEF ChartWorker
    <2>0. \A d \in Chart : d \in deleted' \/ Unclaimed(d)'
      BY <1>2, <2>1 DEF WholeInv, Unclaimed
    <2>. SUFFICES ASSUME NEW d \in Chart, ~Interrupted(d), WholeChart(d)
                  PROVE  WholeChart(d)'
      BY <1>2, <2>0 DEF WholeInv, Interrupted
    <2>2. \A w \in Version : ~InWork(d, w) /\ (InWork(d, w)' <=> d = c /\ w = v)
      BY <1>1, <2>1 DEF InWork
    <2>3. d = c => \A p \in Part : x[p] = "full"
      BY <1>4, <2>2, StoredWhole
    <2>. QED
      BY <1>2, <2>1, <2>2, <2>3 DEF WholeChart
  <1>. QED
    BY <1>3, <1>4 DEF Prepare

LEMMA DeployWhole ==
  ASSUME ManagerInv, WholeInv, NEW c \in Chart, NEW v \in Version, NEW p \in Part,
         DeployConfigMap(c, v, p)
  PROVE  WholeInv'
  <1>t. /\ cw \in ChartWorker /\ ChartBusy(cw)
        /\ cm \in [Chart -> [Version -> [Part -> Content]]]
    BY Known DEF ManagerInv, ManagerTypeOK
  <1>1. /\ cw.pc = "deploy" /\ c \in cw.cur /\ v \in cw.ver /\ p \in cw.parts
        /\ (\A x, y \in cw.cur : x = y) /\ (\A x, y \in cw.ver : x = y)
        /\ cw.deps = {} /\ cw.cur # {}
    BY <1>t DEF DeployConfigMap, ChartBusy
  <1>2. UNCHANGED deleted /\ (faults > 0 => faults' > 0)
    BY FaultStays DEF DeployConfigMap
  <1>3. /\ cw'.cur = cw.cur /\ cw'.gone = cw.gone
        /\ \/ cw.parts \ {p} = {} /\ cw'.ver = {}
           \/ cw'.ver = cw.ver /\ cw'.load = cw.load /\ cw'.parts = cw.parts \ {p}
    <2>1. CASE cw.parts \ {p} = {}
      BY <1>t, <1>1, <2>1, NextVersionTypes DEF DeployConfigMap, RestOfParts
    <2>2. CASE cw.parts \ {p} # {}
      <3>1. cw' = [cw EXCEPT !.parts = cw.parts \ {p}]
        BY <2>2 DEF DeployConfigMap, RestOfParts
      <3>. QED
        BY <1>t, <3>1 DEF ChartWorker
    <2>. QED
      BY <2>1, <2>2
  <1>4. \A x \in Chart, w \in Version, q \in Part :
           <<x, w, q>> # <<c, v, p>> =>
              cm'[x][w][q] = cm[x][w][q] /\ (<<x, w, q>> \in dead' => <<x, w, q>> \in dead)
    BY <1>t DEF DeployConfigMap
  <1>5. ASSUME NEW d \in Chart, d \notin deleted PROVE Unclaimed(d)'
    <2>1. Unclaimed(d)
      BY <1>5 DEF WholeInv
    <2>2. d \in cw'.cur => "chart" \notin cw'.gone
      BY <1>3, <2>1 DEF Unclaimed
    <2>3. <<c, v, p>> \in dead' => <<c, v, p>> \in dead \/ "chart" \in cw.gone
      BY DEF DeployConfigMap
    <2>4. ASSUME NEW w \in Version, NEW q \in Part PROVE <<d, w, q>> \notin dead'
      <3>1. CASE <<d, w, q>> = <<c, v, p>>
        BY <1>1, <2>1, <2>3, <3>1 DEF Unclaimed
      <3>2. CASE <<d, w, q>> # <<c, v, p>>
        BY <1>4, <2>1, <3>2 DEF Unclaimed
      <3>. QED
        BY <3>1, <3>2
    <2>. QED
      BY <2>2, <2>4 DEF Unclaimed
  <1>. SUFFICES ASSUME NEW d \in Chart, ~Interrupted(d), ~Interrupted(d)', WholeChart(d)
                PROVE  WholeChart(d)'
    BY <1>2, <1>5 DEF WholeInv, Interrupted
  <1>6. CASE d # c
    <2>1. \A w \in Version : ~InWork(d, w) /\ ~InWork(d, w)'
      BY <1>1, <1>3, <1>6 DEF InWork
    <2>2. cm'[d] = cm[d]
      BY <1>t, <1>6 DEF DeployConfigMap
    <2>. QED
      BY <2>1, <2>2 DEF WholeChart
  <1>7. CASE d = c
    <2>0. InWork(c, v) /\ WholeChart(c) /\ p \in Part
      BY <1>1, <1>7 DEF InWork
    <2>1. cw.load[p] = "full" /\ cm[c][v][p] \in {"none", "full"}
      <3>1. cm[c][v][p] \in Content
        BY <1>t
      <3>. QED
        BY <1>1, <2>0, <3>1 DEF WholeChart, Content
    <2>2. ~Fault("configmap")
      BY FaultStays DEF Interrupted
    <2>3. cm'[c][v][p] = "full"
      BY <1>t, <2>1, <2>2 DEF DeployConfigMap
    <2>4. \A w \in Version, q \in Part :
             cm'[c][w][q] = IF w = v /\ q = p THEN "full" ELSE cm[c][w][q]
      BY <1>4, <2>3
    <2>5. ASSUME NEW w \in Version, w # v
          PROVE  /\ ~InWork(c, w) /\ ~InWork(c, w)'
                 /\ \A q \in Part : cm'[c][w][q] = cm[c][w][q]
      BY <1>1, <1>3, <2>4, <2>5 DEF InWork
    <2>6. \A q \in Part : cw.load[q] = "full" /\ (q \notin cw.parts => cm[c][v][q] = "full")
      BY <2>0 DEF WholeChart
    <2>7. CASE cw.parts \ {p} = {} /\ cw'.ver = {}
      <3>1. \A q \in Part : cm'[c][v][q] = "full"
        BY <2>4, <2>6, <2>7
      <3>2. \A w \in Version : ~InWork(c, w)'
        BY <2>7 DEF InWork
      <3>. QED
        BY <1>7, <2>0, <2>4, <2>5, <3>1, <3>2 DEF WholeChart
    <2>8. CASE cw'.ver = cw.ver /\ cw'.load = cw.load /\ cw'.parts = cw.parts \ {p}
      <3>1. InWork(c, v)'
        BY <1>1, <1>3, <2>8 DEF InWork
      <3>2. \A q \in Part : cw'.load[q] = "full"
                           /\ (q \notin cw'.parts => cm'[c][v][q] = "full")
        BY <2>4, <2>6, <2>8
      <3>. QED
        BY <1>7, <2>0, <2>4, <2>5, <3>1, <3>2 DEF WholeChart
    <2>. QED
      BY <1>3, <2>7, <2>8
  <1>. QED
    BY <1>6, <1>7

LEMMA ChartWhole == ASSUME ManagerInv, WholeInv, ChartStep PROVE WholeInv'
  <1>t. cw \in ChartWorker /\ ChartBusy(cw)
    BY Known
  <1>1. ASSUME NEW c \in Chart, StartChart(c) \/ SyncChartStatus(c) PROVE WholeInv'
    <2>1. UNCHANGED <<cm, dead, deleted>> /\ (faults > 0 => faults' > 0)
      BY <1>1, FaultStays DEF StartChart, SyncChartStatus
    <2>2. cw.ver = {}
      BY <1>t, <1>1 DEF ChartBusy, StartChart, SyncChartStatus
    <2>3. cw'.ver = {} /\ cw'.gone = {}
      <3>1. CASE cw' = IdleChartWorker
        BY <3>1 DEF IdleChartWorker
      <3>2. ASSUME NEW p, cw' = [IdleChartWorker EXCEPT !.pc = p,
                        !.cur = {c}, !.obj = chart[c], !.fresh = TRUE]
            PROVE  cw'.ver = {} /\ cw'.gone = {}
        BY <3>2 DEF IdleChartWorker
      <3>. QED
        BY <1>1, <3>1, <3>2 DEF StartChart, SyncChartStatus
    <2>. QED
      BY <2>1, <2>2, <2>3, WholeFrame DEF SameWriting
  <1>2. ASSUME NEW c \in Chart, SetLabels(c) PROVE WholeInv'
    <2>1. UNCHANGED <<cm, dead, deleted>> /\ (faults > 0 => faults' > 0)
      BY <1>2, FaultStays DEF SetLabels
    <2>2. PICK o, p : cw' = [cw EXCEPT !.obj = o, !.pc = p]
      BY <1>2 DEF SetLabels
    <2>3. SameWriting(cw', cw)
      BY <1>t, <2>2 DEF ChartWorker, SameWriting
    <2>. QED
      BY <2>1, <2>3, WholeFrame
  <1>3. ASSUME NEW c \in Chart, NewChart(c) PROVE WholeInv'
    <2>. DEFINE w == [cw EXCEPT !.todo = cw.obj.vers, !.gone = @ \ {"repo"}]
    <2>1. cw.cur # {} /\ (\A x, y \in cw.cur : x = y) /\ cw.deps = {} /\ cw.ver = {}
      BY <1>t, <1>3 DEF NewChart, ChartBusy
    <2>2. /\ w \in ChartWorker /\ w.cur = cw.cur /\ w.deps = {}
          /\ w.gone = cw.gone \ {"repo"}
      BY <1>t, <2>1 DEF ChartWorker, ChartObj
    <2>3. cw' \in {Sync(cw, "init"), NextVersion(w)}
      BY <1>3 DEF NewChart
    <2>. HIDE DEF w
    <2>4. SameWriting(cw', cw)
      BY <1>t, <2>1, <2>2, <2>3, SyncTypes, NextVersionTypes DEF SameWriting, Reason
    <2>5. UNCHANGED <<cm, dead, deleted>> /\ (faults > 0 => faults' > 0)
      BY <1>3, FaultStays DEF NewChart
    <2>. QED
      BY <2>4, <2>5, WholeFrame
  <1>4. ASSUME NEW d \in Chart, NEW v \in Version, CreateOrUpdateSubChart(d, v)
        PROVE  WholeInv'
    <2>1. cw.cur # {} /\ (\A x, y \in cw.cur : x = y) /\ cw.ver = {}
      BY <1>t, <1>4 DEF CreateOrUpdateSubChart, ChartBusy
    <2>2. UNCHANGED <<cm, deleted>> /\ (faults > 0 => faults' > 0)
      BY <1>4, FaultStays DEF CreateOrUpdateSubChart
    <2>3. \A c \in Chart, w \in Version, p \in Part :
             <<c, w, p>> \in dead' => <<c, w, p>> \in dead
      BY <1>4, KeysApart DEF CreateOrUpdateSubChart
    <2>4. /\ StaleChart(d) \in ChartWorker /\ StaleChart(d).cur = cw.cur
          /\ StaleChart(d).gone = cw.gone
      BY <1>t DEF StaleChart, ChartWorker
    <2>5. cw.deps \ {<<d, v>>} \in SUBSET (Chart \X Version)
      BY <1>t DEF ChartWorker
    <2>6. cw' \in {ToDeps(cw, cw.deps \ {<<d, v>>}), Sync(cw, "deps"),
                   Sync(StaleChart(d), "deps")}
      BY <1>4 DEF CreateOrUpdateSubChart
    <2>7. SameWriting(cw', cw)
      BY <1>t, <2>1, <2>4, <2>5, <2>6, SyncTypes, DepsTypes DEF SameWriting, Reason
    <2>. QED
      BY <2>2, <2>3, <2>7, WholeFrame
  <1>. QED
    BY <1>1, <1>2, <1>3, <1>4, PrepareWhole, DeployWhole DEF ChartStep

LEMMA OthersWhole ==
  ASSUME ManagerInv, WholeInv, User \/ Collector \/ Restart \/ UNCHANGED vars
  PROVE  WholeInv'
  <1>t. cw \in ChartWorker /\ SameWriting(cw, cw)
        /\ SameWriting([cw EXCEPT !.fresh = FALSE], cw)
    BY Known DEF ChartWorker, SameWriting
  <1>1. ASSUME UNCHANGED <<cm, deleted, faults>>, dead' \subseteq dead,
               cw' = cw \/ cw' = [cw EXCEPT !.fresh = FALSE]
        PROVE  WholeInv'
    BY <1>t, <1>1, WholeFrame
  <1>2. ASSUME NEW o, PutRepo(o) PROVE WholeInv'
    BY <1>1, <1>2 DEF PutRepo
  <1>3. ASSUME NEW c \in Chart, NEW vers \in SUBSET Version, WriteChart(c, vers)
        PROVE  WholeInv'
    BY <1>1, <1>3 DEF WriteChart, StaleChart
  <1>4. ASSUME NEW c \in Chart, DeleteChart(c) \/ CollectChart(c) PROVE WholeInv'
    BY <1>4, RemoveWhole DEF DeleteChart, CollectChart
  <1>5. ASSUME NEW c \in Chart, NEW v \in Version, Publish(c, v) PROVE WholeInv'
    BY <1>1, <1>5 DEF Publish
  <1>6. CASE User
    BY <1>2, <1>3, <1>4, <1>5, <1>6 DEF User, CreateRepo, EditRepo, DeleteRepo
  <1>7. ASSUME NEW x \in Chart, CollectConfigMap(x) PROVE WholeInv'
    <2>1. CASE UNCHANGED cm /\ dead' = dead \ {IndexKey(x)}
      BY <1>1, <1>7, <2>1 DEF CollectConfigMap
    <2>2. ASSUME NEW v \in Version, NEW p \in Part, <<x, v, p>> \in dead,
                 dead' = dead \ {<<x, v, p>>}, cm' = [cm EXCEPT ![x][v][p] = "none"]
          PROVE  WholeInv'
      <3>1. UNCHANGED <<deleted, faults, cw>> /\ dead' \subseteq dead
        BY <1>7, <2>2 DEF CollectConfigMap
      <3>2. x \in deleted
        BY <2>2 DEF WholeInv, Unclaimed
      <3>3. \A c \in Chart \ {x} : cm'[c] = cm[c]
        BY <2>2 DEF ManagerInv, ManagerTypeOK
      <3>4. ASSUME NEW c \in Chart, c \notin deleted'
            PROVE  Unclaimed(c)' /\ (Interrupted(c)' \/ WholeChart(c)')
        BY <3>1, <3>2, <3>3, <3>4 DEF WholeInv, Unclaimed, Interrupted, WholeChart, InWork
      <3>. QED
        BY <3>4 DEF WholeInv, Interrupted
    <2>. QED
      BY <1>7, <2>1, <2>2 DEF CollectConfigMap
  <1>8. CASE Collector
    BY <1>4, <1>7, <1>8 DEF Collector
  <1>9. CASE Restart
    <2>1. faults' > 0 /\ UNCHANGED <<dead, deleted>> /\ cw'.cur = {}
      BY <1>9, FaultStays DEF Restart, IdleChartWorker
    <2>. QED
      BY <2>1 DEF WholeInv, Unclaimed, Interrupted
  <1>10. CASE UNCHANGED vars
    BY <1>1, <1>10 DEF vars
  <1>. QED
    BY <1>6, <1>8, <1>9, <1>10

LEMMA WholeStarts == Init => WholeInv
  BY DEF Init, WholeInv, Unclaimed, WholeChart, InWork, IdleChartWorker, Unloaded

LEMMA WholeStep == ASSUME ManagerInv, WholeInv, [Next]_vars PROVE WholeInv'
  BY RepoWhole, ChartWhole, OthersWhole DEF Next

(* A configmap of a chart version never holds less than the archive unless *)
(* a call failed, the manager died, or the chart was deleted before.       *)
THEOREM HollowOnlyIfInterruptedAlways == Spec => []HollowOnlyIfInterrupted
  <1>1. Init => WholeInv
    BY WholeStarts
  <1>2. ManagerInv /\ WholeInv /\ [Next]_vars => WholeInv'
    BY WholeStep
  <1>3. WholeInv => HollowOnlyIfInterrupted
    BY DEF WholeInv, WholeChart, HollowOnlyIfInterrupted
  <1>. QED
    BY <1>1, <1>2, <1>3, InitManager, StepManager, PTL DEF Spec
=============================================================================
