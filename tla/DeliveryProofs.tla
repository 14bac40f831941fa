--------------------------- MODULE DeliveryProofs ----------------------------
(***************************************************************************)
(* Proofs about Delivery for every value of the constants: what the loader *)
(* has in hand in each phase (DeliveryTypeOK); files never come without    *)
(* their templates while the chart stays (TemplatesComeWithFiles); and a   *)
(* release made when all its charts are ready is whole (ReadyMeansWhole).  *)
(***************************************************************************)
EXTENDS Delivery, ManagerProofs

-----------------------------------------------------------------------------
(* The loader.  What it holds in a phase: at most one chart at a time, the *)
(* chart of the release before the others, and a file of it as soon as it  *)
(* goes on to them.                                                        *)
LoaderOK(l) ==
    /\ l \in Loader
    /\ (l.pc \in {"find", "subindex", "repo", "again", "read"}) <=> (l.at # {})
    /\ l.at \subseteq Needed /\ \A p, q \in l.at : p = q
    /\ (l.pc = "read") <=> (l.todo # {})
    /\ "files" \in l.todo => "templates" \in l.todo
    /\ l.subs \subseteq Dep[Wanted]
    /\ l.pc = "install" => l.subs = {}
    /\ l.pc = "find" => Wanted \in l.at
    /\ l.pc = "subindex" => Wanted \notin l.at
    /\ l.pc \in {"deps", "subvals", "install"} => HasFile(Wanted, l.got)
    /\ l.at # {} /\ Wanted \notin l.at => HasFile(Wanted, l.got)

LEMMA WantedTypes ==
  /\ Wanted \in Chart \X Version /\ Dep[Wanted] \subseteq Chart \X Version
  /\ Wanted \notin Dep[Wanted] /\ Needed \subseteq Chart \X Version
  BY WantedAssumption, DepAssumption DEF Needed

LEMMA IdleLoaderOK == LoaderOK(IdleLoader)
  BY DEF LoaderOK, IdleLoader, Loader

LEMMA FailedOK == ASSUME LoaderOK(ld), ld.at # {} PROVE LoaderOK(Failed)
  <1>1. CASE ~Sub
    BY <1>1, IdleLoaderOK DEF Failed
  <1>2. CASE Sub
    <2>1. Wanted \notin ld.at
      BY <1>2 DEF Sub, LoaderOK
    <2>2. HasFile(Wanted, GotWithoutSub)
      BY <2>1 DEF LoaderOK, HasFile, GotWithoutSub
    <2>3. GotWithoutSub \subseteq (Chart \X Version) \X Read
      BY DEF LoaderOK, Loader, GotWithoutSub
    <2>4. LoaderOK(WithoutSub)
      BY <2>2, <2>3 DEF LoaderOK, Loader, WithoutSub
    <2>. QED
      BY <1>2, <2>4 DEF Failed
  <1>. QED
    BY <1>1, <1>2

LEMMA FoundType ==
  ASSUME NEW c \in Chart, NEW v \in Version, NEW r \in Read
  PROVE  Found(c, v, r) \subseteq (Chart \X Version) \X Read
  BY DEF Found

LEMMA ReadPartOK ==
  ASSUME LoaderOK(ld), NEW c \in Chart, NEW v \in Version, NEW r \in Read,
         ReadPart(c, v, r)
  PROVE  LoaderOK(ld')
  <1>. DEFINE got == ld.got \cup Found(c, v, r)
              l == [ld EXCEPT !.todo = @ \ {r}, !.got = @ \cup Found(c, v, r)]
  <1>1. /\ ld.pc = "read" /\ ld.at = {<<c, v>>} /\ r \in ld.todo /\ InOrder(r)
        /\ ld \in Loader /\ <<c, v>> \in Needed
    BY DEF LoaderOK, ReadPart
  <1>2. /\ l \in Loader /\ l.pc = "read" /\ l.at = ld.at /\ l.todo = ld.todo \ {r}
        /\ l.got = got /\ l.subs = ld.subs
    BY <1>1, FoundType DEF Loader
  <1>3. HasFile(Wanted, ld.got) => HasFile(Wanted, got)
    BY DEF HasFile
  <1>4. "files" \in l.todo => "templates" \in l.todo
    BY <1>1, <1>2 DEF LoaderOK, InOrder
  <1>5. ld' = IF l.todo # {} THEN l
              ELSE IF ~HasFile(<<c, v>>, l.got) THEN Failed
              ELSE IF Sub THEN [l EXCEPT !.pc = IF l.subs = {} THEN "install"
                                                ELSE "subvals", !.at = {}]
              ELSE [l EXCEPT !.pc = "deps", !.at = {}]
    BY DEF ReadPart
  <1>. HIDE DEF l, got
  <1>6. CASE l.todo # {}
    BY <1>1, <1>2, <1>3, <1>4, <1>5, <1>6 DEF LoaderOK
  <1>7. CASE l.todo = {} /\ ~HasFile(<<c, v>>, l.got)
    BY <1>1, <1>5, <1>7, FailedOK
  <1>8. CASE l.todo = {} /\ HasFile(<<c, v>>, l.got)
    <2>1. PICK p \in {"install", "subvals", "deps"} :
             /\ ld' = [l EXCEPT !.pc = p, !.at = {}]
             /\ p = "install" => l.subs = {}
      BY <1>5, <1>8
    <2>2. HasFile(Wanted, got)
      BY <1>1, <1>2, <1>3, <1>8 DEF LoaderOK
    <2>3. /\ ld' \in Loader /\ ld'.pc = p /\ ld'.at = {} /\ ld'.todo = {}
          /\ ld'.got = got /\ ld'.subs = ld.subs
      BY <1>2, <1>8, <2>1 DEF Loader
    <2>. QED
      BY <1>2, <2>1, <2>2, <2>3 DEF LoaderOK
  <1>. QED
    BY <1>6, <1>7, <1>8

LEMMA LoaderReadsOK == ASSUME LoaderOK(ld), LoaderReads PROVE LoaderOK(ld')
  <1>0. ld \in Loader
    BY DEF LoaderOK
  <1>1. ASSUME NEW c \in Chart, FindChart(c) PROVE LoaderOK(ld')
    <2>1. LoaderOK([ld EXCEPT !.pc = "repo"])
      BY <1>0, <1>1 DEF LoaderOK, FindChart, Loader
    <2>. QED
      BY <1>1, <2>1, FailedOK DEF FindChart, LoaderOK
  <1>2. CASE GetControllerRepo
    <2>1. LoaderOK([ld EXCEPT !.pc = "again"])
      BY <1>0, <1>2 DEF LoaderOK, GetControllerRepo, Loader
    <2>. QED
      BY <1>2, <2>1, FailedOK DEF GetControllerRepo, LoaderOK
  <1>3. CASE AddDependencies
    <2>. DEFINE subs == {p \in Dep[Wanted] : ~PassedOver(p)}
    <2>1. PICK p \in {"install", "subvals"} :
             /\ ld' = [ld EXCEPT !.subs = subs, !.pc = p]
             /\ p = "install" => subs = {}
      BY <1>3 DEF AddDependencies
    <2>2. subs \subseteq Dep[Wanted] /\ subs \subseteq Chart \X Version
      BY WantedTypes
    <2>. HIDE DEF subs
    <2>3. /\ ld' \in Loader /\ ld'.pc = p /\ ld'.subs = subs /\ ld'.at = ld.at
          /\ ld'.todo = ld.todo /\ ld'.got = ld.got
      BY <1>0, <2>1, <2>2 DEF Loader
    <2>4. ld.pc = "deps"
      BY <1>3 DEF AddDependencies
    <2>. QED
      BY <2>1, <2>2, <2>3, <2>4 DEF LoaderOK
  <1>4. ASSUME NEW c \in Chart, NEW v \in Version, LoadIndex(c, v)
        PROVE  LoaderOK(ld')
    <2>1. PICK b \in BOOLEAN :
             ld' = [IdleLoader EXCEPT !.pc = "find", !.at = {Wanted}, !.early = b]
      <3>1. CASE Ready
        BY <1>4, <3>1 DEF LoadIndex
      <3>2. CASE ~Ready
        BY <1>4, <3>2 DEF LoadIndex
      <3>. QED
        BY <3>1, <3>2
    <2>. QED
      BY <2>1, WantedTypes DEF LoaderOK, Loader, IdleLoader, Needed
  <1>5. ASSUME NEW c \in Chart, NEW v \in Version, FindAgain(c, v)
        PROVE  LoaderOK(ld')
    <2>1. LoaderOK([ld EXCEPT !.pc = "read", !.todo = Read])
      BY <1>0, <1>5 DEF LoaderOK, FindAgain, Loader, Read
    <2>. QED
      BY <1>5, <2>1, FailedOK DEF FindAgain, LoaderOK
  <1>6. ASSUME NEW d \in Chart, NEW v \in Version, SubValues(d, v)
        PROVE  LoaderOK(ld')
    <2>1. Found(d, v, "default") \subseteq (Chart \X Version) \X Read
      BY FoundType DEF Read
    <2>2. <<d, v>> \in Needed /\ <<d, v>> # Wanted
      BY <1>6, WantedTypes DEF LoaderOK, SubValues, Needed
    <2>3. /\ ld' \in Loader /\ ld'.pc = "subindex" /\ ld'.at = {<<d, v>>}
          /\ ld'.subs \subseteq ld.subs /\ ld'.todo = ld.todo
          /\ ld.got \subseteq ld'.got
      BY <1>0, <1>6, <2>1 DEF SubValues, Loader
    <2>4. HasFile(Wanted, ld'.got)
      BY <1>6, <2>3 DEF HasFile, LoaderOK, SubValues
    <2>. QED
      BY <1>6, <2>2, <2>3, <2>4 DEF LoaderOK, SubValues
  <1>7. ASSUME NEW d \in Chart, NEW v \in Version, SubIndex(d, v)
        PROVE  LoaderOK(ld')
    <2>1. LoaderOK([ld EXCEPT !.pc = "repo"])
      BY <1>0, <1>7 DEF LoaderOK, SubIndex, Loader
    <2>. QED
      BY <1>7, <2>1, FailedOK DEF SubIndex, LoaderOK
  <1>. QED
    BY <1>1, <1>2, <1>3, <1>4, <1>5, <1>6, <1>7, ReadPartOK DEF LoaderReads

DeliveryTypes == /\ helm \in Release /\ sure \subseteq Chart \X Version
                 /\ lost \in BOOLEAN

(* A step of the hand-over is one of the manager's or leaves it alone.     *)
LEMMA MirrorsNext == ASSUME [DeliveryNext]_allvars PROVE [Next]_vars
  BY DEF DeliveryNext, ManagerStep, LoaderStep, allvars

(* So the agent reading configmaps has no way to disturb the manager: what *)
(* the manager does in the hand-over it does on its own, and all that is   *)
(* proved of it holds there.                                               *)
THEOREM ManagerMirrored == DeliverySpec => Spec
  <1>1. DeliveryInit => Init
    BY DEF DeliveryInit
  <1>2. [DeliveryNext]_allvars => [Next]_vars
    BY MirrorsNext
  <1>. QED
    BY <1>1, <1>2, PTL DEF DeliverySpec, Spec

LEMMA MirrorStep ==
  ASSUME ManagerInv, WholeInv, [DeliveryNext]_allvars
  PROVE  ManagerInv' /\ WholeInv'
  BY MirrorsNext, StepManager, WholeStep

LEMMA LoaderTypes ==
  ASSUME LoaderOK(ld), DeliveryTypes, [DeliveryNext]_allvars
  PROVE  LoaderOK(ld') /\ DeliveryTypes'
  <1>1. CASE ManagerStep
    <2>1. LoaderOK(ld') /\ helm' = helm
      BY <1>1 DEF ManagerStep
    <2>2. sure' \subseteq Chart \X Version
      BY <1>1 DEF ManagerStep, NextSure
    <2>3. lost' \in BOOLEAN
      BY <1>1 DEF ManagerStep
    <2>. QED
      BY <2>1, <2>2, <2>3 DEF DeliveryTypes
  <1>2. CASE LoaderReads /\ UNCHANGED <<vars, sure, lost>>
    <2>1. helm' = helm
      BY <1>2 DEF LoaderReads
    <2>. QED
      BY <1>2, <2>1, LoaderReadsOK DEF DeliveryTypes
  <1>3. CASE Install /\ UNCHANGED <<vars, sure, lost>>
    <2>1. LoaderOK(ld')
      BY <1>3, IdleLoaderOK DEF Install
    <2>2. helm' \in Release
      BY <1>3 DEF Install, LoaderOK, Loader, Release
    <2>. QED
      BY <1>3, <2>1, <2>2 DEF DeliveryTypes
  <1>4. CASE UNCHANGED allvars
    BY <1>4 DEF allvars, DeliveryTypes
  <1>. QED
    BY <1>1, <1>2, <1>3, <1>4 DEF DeliveryNext, LoaderStep

LEMMA DeliveryStarts ==
  ASSUME DeliveryInit
  PROVE  ManagerInv /\ WholeInv /\ LoaderOK(ld) /\ DeliveryTypes
  BY InitManager, WholeStarts, IdleLoaderOK
     DEF DeliveryInit, DeliveryTypes, Release, NoRelease

(* The loader always has in hand what its phase needs, and a release is    *)
(* only ever installed with a file of its own chart.                       *)
THEOREM DeliveryTypeCorrect == DeliverySpec => []DeliveryTypeOK
  <1>1. LoaderOK(ld) /\ DeliveryTypes => DeliveryTypeOK
    <2>. SUFFICES ASSUME LoaderOK(ld), DeliveryTypes PROVE DeliveryTypeOK
      OBVIOUS
    <2>1. Cardinality(ld.at) <= 1
      <3>1. CASE ld.at = {}
        BY <3>1, FS_EmptySet
      <3>2. ASSUME NEW p \in ld.at PROVE Cardinality(ld.at) <= 1
        <4>1. ld.at = {p}
          BY <3>2 DEF LoaderOK
        <4>2. Cardinality({p}) = 1
          BY FS_Singleton
        <4>. QED
          BY <4>1, <4>2
      <3>. QED
        BY <3>1, <3>2
    <2>. QED
      BY <2>1 DEF LoaderOK, DeliveryTypes, DeliveryTypeOK
  <1>2. LoaderOK(ld) /\ DeliveryTypes /\ [DeliveryNext]_allvars
          => LoaderOK(ld)' /\ DeliveryTypes'
    BY LoaderTypes
  <1>3. DeliveryInit => LoaderOK(ld) /\ DeliveryTypes
    BY DeliveryStarts
  <1>. QED
    BY <1>1, <1>2, <1>3, PTL DEF DeliverySpec

-----------------------------------------------------------------------------
(* Files and templates.  A configmap that holds a file is only taken away  *)
(* by the collector, after the chart was deleted; so if the files of a     *)
(* version have been read and its templates are still to come, they are    *)
(* still there.                                                            *)
Paired(p) ==
    <<p, "files">> \in ld.got =>
        \/ <<p, "templates">> \in ld.got
        \/ p \in ld.at /\ "templates" \in ld.todo /\ cm[p[1]][p[2]]["tmpl"] = "full"

PairedInv == /\ \A p \in Chart \X Version : p[1] \in deleted \/ Paired(p)
             /\ TemplatesComeWithFiles

LEMMA FullStays ==
  ASSUME ManagerInv, WholeInv, [Next]_vars, NEW c \in Chart, NEW v \in Version,
         NEW p \in Part, cm[c][v][p] = "full", c \notin deleted
  PROVE  cm'[c][v][p] = "full"
  <1>t. cm \in [Chart -> [Version -> [Part -> Content]]]
    BY DEF ManagerInv, ManagerTypeOK
  <1>1. CASE UNCHANGED cm
    BY <1>1
  <1>2. ASSUME NEW x \in Chart, NEW w \in Version, NEW q \in Part,
               DeployConfigMap(x, w, q)
        PROVE  cm'[c][v][p] = "full"
    <2>1. CASE cm' = [cm EXCEPT ![x][w][q] = cw.load[q]]
               /\ cm[x][w][q] \in {"none", cw.load[q]}
      <3>1. CASE <<x, w, q>> = <<c, v, p>>
        BY <1>t, <2>1, <3>1
      <3>2. CASE <<x, w, q>> # <<c, v, p>>
        BY <1>t, <2>1, <3>2
      <3>. QED
        BY <3>1, <3>2
    <2>. QED
      BY <1>1, <1>2, <2>1 DEF DeployConfigMap
  <1>3. ASSUME NEW x \in Chart, CollectConfigMap(x) PROVE cm'[c][v][p] = "full"
    <2>1. <<c, v, p>> \notin dead
      BY DEF WholeInv, Unclaimed
    <2>2. ASSUME NEW w \in Version, NEW q \in Part, <<x, w, q>> \in dead,
                 cm' = [cm EXCEPT ![x][w][q] = "none"]
          PROVE  cm'[c][v][p] = "full"
      <3>1. <<x, w, q>> # <<c, v, p>>
        BY <2>1, <2>2
      <3>. QED
        BY <1>t, <2>2, <3>1
    <2>. QED
      BY <1>1, <1>3, <2>2 DEF CollectConfigMap
  <1>4. CASE RepoStep
    BY <1>1, <1>4 DEF RepoStep, StartRepo, AdoptRepo, DropRepo, WriteIndex,
       PruneChart, DeployChart, ListCharts, SyncRepoStatus
  <1>5. CASE ChartStep
    <2>1. ASSUME NEW x \in Chart, StartChart(x) \/ SetLabels(x) \/ NewChart(x)
                                  \/ SyncChartStatus(x)
          PROVE  UNCHANGED cm
      BY <2>1 DEF StartChart, SetLabels, NewChart, SyncChartStatus
    <2>2. ASSUME NEW x \in Chart, NEW w \in Version,
                 Prepare(x, w) \/ CreateOrUpdateSubChart(x, w)
          PROVE  UNCHANGED cm
      BY <2>2 DEF Prepare, CreateOrUpdateSubChart
    <2>. QED
      BY <1>1, <1>2, <1>5, <2>1, <2>2 DEF ChartStep
  <1>6. CASE User
    BY <1>1, <1>6 DEF User, CreateRepo, EditRepo, DeleteRepo, PutRepo, WriteChart,
       DeleteChart, Publish
  <1>7. CASE Collector
    BY <1>1, <1>3, <1>7 DEF Collector, CollectChart
  <1>8. CASE Restart \/ UNCHANGED vars
    BY <1>1, <1>8 DEF Restart, vars
  <1>. QED
    BY <1>4, <1>5, <1>6, <1>7, <1>8 DEF Next

(* What has happened stays so.                                             *)
LEMMA HistoryStays ==
  ASSUME ManagerInv, [Next]_vars
  PROVE  deleted \subseteq deleted' /\ (faults > 0 => faults' > 0)
  <1>1. CASE StartRepo \/ AdoptRepo \/ DropRepo \/ ListCharts \/ SyncRepoStatus
    BY <1>1, FaultStays DEF StartRepo, AdoptRepo, DropRepo, ListCharts,
       SyncRepoStatus, RepoWriteFails
  <1>2. ASSUME NEW c \in Chart, WriteIndex(c) \/ PruneChart(c) \/ DeployChart(c)
        PROVE  deleted \subseteq deleted' /\ (faults > 0 => faults' > 0)
    BY <1>2, FaultStays DEF WriteIndex, PruneChart, DeployChart, RemoveChart
  <1>3. ASSUME NEW c \in Chart, StartChart(c) \/ SetLabels(c) \/ NewChart(c)
                                \/ SyncChartStatus(c)
        PROVE  deleted \subseteq deleted' /\ (faults > 0 => faults' > 0)
    BY <1>3, FaultStays DEF StartChart, SetLabels, NewChart, SyncChartStatus
  <1>4. ASSUME NEW c \in Chart, NEW v \in Version, NEW p \in Part,
               Prepare(c, v) \/ CreateOrUpdateSubChart(c, v) \/ DeployConfigMap(c, v, p)
        PROVE  deleted \subseteq deleted' /\ (faults > 0 => faults' > 0)
    BY <1>4, FaultStays DEF Prepare, CreateOrUpdateSubChart, DeployConfigMap
  <1>5. CASE User \/ Collector \/ Restart \/ UNCHANGED vars
    BY <1>5, FaultStays DEF User, CreateRepo, EditRepo, DeleteRepo, PutRepo,
       WriteChart, DeleteChart, Publish, Collector, CollectChart,
       CollectConfigMap, RemoveChart, Restart, vars
  <1>. QED
    BY <1>1, <1>2, <1>3, <1>4, <1>5, PartAssumption DEF Next, RepoStep, ChartStep

LEMMA QuietPaired ==
  ASSUME NEW p, Paired(p), ld.todo = {}, ld.got \subseteq ld'.got,
         <<p, "files">> \in ld'.got => <<p, "files">> \in ld.got
  PROVE  Paired(p)'
  BY DEF Paired

LEMMA FailedPaired ==
  ASSUME NEW p, Paired(p), LoaderOK(ld), ld' = Failed
  PROVE  Paired(p)'
  <1>1. CASE ~Sub
    <2>1. ld'.got = {}
      BY <1>1 DEF Failed, IdleLoader
    <2>. QED
      BY <2>1 DEF Paired
  <1>2. CASE Sub
    <2>1. ld'.got = {x \in ld.got : x[1] \notin ld.at}
      BY <1>2 DEF Failed, WithoutSub, GotWithoutSub, LoaderOK, Loader
    <2>2. <<p, "files">> \in ld'.got => p \notin ld.at /\ <<p, "files">> \in ld.got
      BY <2>1
    <2>3. p \notin ld.at /\ <<p, "templates">> \in ld.got => <<p, "templates">> \in ld'.got
      BY <2>1
    <2>. QED
      BY <2>2, <2>3 DEF Paired
  <1>. QED
    BY <1>1, <1>2

LEMMA ReadPartPaired ==
  ASSUME NEW p \in Chart \X Version, Paired(p), LoaderOK(ld),
         cm \in [Chart -> [Version -> [Part -> Content]]], UNCHANGED cm,
         NEW c \in Chart, NEW v \in Version, NEW r \in Read, ReadPart(c, v, r)
  PROVE  Paired(p)'
  <1>1. /\ ld.at = {<<c, v>>} /\ r \in ld.todo /\ InOrder(r) /\ ld \in Loader
    BY DEF LoaderOK, ReadPart
  <1>2. /\ <<<<c, v>>, "files">> \in Found(c, v, r) =>
              r = "files" /\ cm[c][v]["tmpl"] = "full"
        /\ r = "templates" /\ cm[c][v]["tmpl"] = "full" =>
              <<<<c, v>>, "templates">> \in Found(c, v, r)
        /\ \A x : <<x, "files">> \in Found(c, v, r) => x = <<c, v>>
    BY PartAssumption DEF Found, ReadsPart
  <1>3. r = "files" => "templates" \in ld.todo
    BY <1>1 DEF LoaderOK
  <1>4. CASE ld' = Failed
    BY <1>4, FailedPaired
  <1>5. ASSUME /\ ld'.got = ld.got \cup Found(c, v, r)
               /\ \/ ld'.todo = ld.todo \ {r} /\ ld'.at = ld.at
                  \/ ld.todo \ {r} = {}
        PROVE  Paired(p)'
    <2>1. SUFFICES ASSUME <<p, "files">> \in ld'.got, <<p, "templates">> \notin ld'.got
                   PROVE  /\ p \in ld'.at /\ "templates" \in ld'.todo
                          /\ cm[p[1]][p[2]]["tmpl"] = "full"
      BY DEF Paired
    <2>2. /\ p = <<c, v>> /\ cm[c][v]["tmpl"] = "full" /\ "templates" \in ld.todo
          /\ r # "templates"
      <3>1. CASE <<p, "files">> \in ld.got
        <4>1. p \in ld.at /\ "templates" \in ld.todo /\ cm[p[1]][p[2]]["tmpl"] = "full"
          BY <1>5, <2>1, <3>1 DEF Paired
        <4>2. p = <<c, v>> /\ p[1] = c /\ p[2] = v
          BY <1>1, <4>1
        <4>. QED
          BY <1>2, <1>5, <2>1, <4>1, <4>2
      <3>2. CASE <<p, "files">> \in Found(c, v, r)
        BY <1>2, <1>3, <3>2
      <3>. QED
        BY <1>5, <2>1, <3>1, <3>2
    <2>. QED
      BY <1>1, <1>5, <2>2
  <1>6. ld' = Failed \/ (/\ ld'.got = ld.got \cup Found(c, v, r)
                         /\ \/ ld'.todo = ld.todo \ {r} /\ ld'.at = ld.at
                            \/ ld.todo \ {r} = {})
    <2>. DEFINE l == [ld EXCEPT !.todo = @ \ {r}, !.got = @ \cup Found(c, v, r)]
    <2>1. /\ l \in Loader /\ l.at = ld.at /\ l.todo = ld.todo \ {r}
          /\ l.got = ld.got \cup Found(c, v, r)
      BY <1>1, FoundType DEF Loader
    <2>2. \/ ld' = l \/ ld' = Failed
          \/ l.todo = {} /\ \E pc : ld' = [l EXCEPT !.pc = pc, !.at = {}]
      BY DEF ReadPart
    <2>. HIDE DEF l
    <2>. QED
      BY <2>1, <2>2 DEF Loader
  <1>. QED
    BY <1>4, <1>5, <1>6

LEMMA LoaderPaired ==
  ASSUME NEW p \in Chart \X Version, Paired(p), LoaderOK(ld),
         cm \in [Chart -> [Version -> [Part -> Content]]], UNCHANGED cm, LoaderReads
  PROVE  Paired(p)'
  <1>0. ld \in Loader
    BY DEF LoaderOK
  <1>1. ASSUME ld.pc # "read", NEW pc, NEW todo, ld' = [ld EXCEPT !.pc = pc, !.todo = todo]
        PROVE  Paired(p)'
    BY <1>0, <1>1, QuietPaired DEF LoaderOK, Loader
  <1>2. ASSUME ld.pc # "read", NEW pc, ld' = [ld EXCEPT !.pc = pc]
        PROVE  Paired(p)'
    BY <1>0, <1>2, QuietPaired DEF LoaderOK, Loader
  <1>3. ASSUME NEW c \in Chart, FindChart(c) PROVE Paired(p)'
    BY <1>2, <1>3, FailedPaired DEF FindChart
  <1>4. CASE GetControllerRepo
    BY <1>2, <1>4, FailedPaired DEF GetControllerRepo
  <1>5. CASE AddDependencies
    BY <1>0, <1>5, QuietPaired DEF AddDependencies, LoaderOK, Loader
  <1>6. ASSUME NEW c \in Chart, NEW v \in Version, LoadIndex(c, v)
        PROVE  Paired(p)'
    BY <1>6 DEF Paired, LoadIndex, IdleLoader
  <1>7. ASSUME NEW c \in Chart, NEW v \in Version, FindAgain(c, v)
        PROVE  Paired(p)'
    BY <1>1, <1>7, FailedPaired DEF FindAgain
  <1>8. ASSUME NEW d \in Chart, NEW v \in Version, SubValues(d, v)
        PROVE  Paired(p)'
    <2>1. ld.todo = {} /\ ld'.got = ld.got \cup Found(d, v, "default")
      BY <1>0, <1>8 DEF LoaderOK, SubValues, Loader
    <2>2. <<p, "files">> \notin Found(d, v, "default")
      BY DEF Found
    <2>. QED
      BY <2>1, <2>2, QuietPaired
  <1>9. ASSUME NEW d \in Chart, NEW v \in Version, SubIndex(d, v)
        PROVE  Paired(p)'
    BY <1>2, <1>9, FailedPaired DEF SubIndex
  <1>. QED
    BY <1>3, <1>4, <1>5, <1>6, <1>7, <1>8, <1>9, ReadPartPaired DEF LoaderReads

LEMMA PairedStep ==
  ASSUME ManagerInv, WholeInv, LoaderOK(ld), PairedInv, [DeliveryNext]_allvars
  PROVE  PairedInv'
  <1>t. cm \in [Chart -> [Version -> [Part -> Content]]]
    BY DEF ManagerInv, ManagerTypeOK
  <1>1. CASE UNCHANGED <<ld, helm>> /\ [Next]_vars
    <2>1. deleted \subseteq deleted'
      BY <1>1, HistoryStays
    <2>2. ASSUME NEW p \in Chart \X Version, p[1] \notin deleted' PROVE Paired(p)'
      <3>1. Paired(p) /\ p[1] \in Chart /\ p[2] \in Version /\ p[1] \notin deleted
        BY <2>1, <2>2 DEF PairedInv
      <3>2. cm[p[1]][p[2]]["tmpl"] = "full" => cm'[p[1]][p[2]]["tmpl"] = "full"
        BY <1>1, <3>1, FullStays, PartAssumption
      <3>. QED
        BY <1>1, <3>1, <3>2 DEF Paired
    <2>3. TemplatesComeWithFiles'
      BY <1>1, <2>1 DEF PairedInv, TemplatesComeWithFiles
    <2>. QED
      BY <2>2, <2>3 DEF PairedInv
  <1>2. CASE LoaderReads /\ UNCHANGED vars
    <2>1. UNCHANGED <<cm, deleted, helm>>
      BY <1>2 DEF LoaderReads, vars
    <2>2. ASSUME NEW p \in Chart \X Version, p[1] \notin deleted' PROVE Paired(p)'
      BY <1>t, <1>2, <2>1, <2>2, LoaderPaired DEF PairedInv
    <2>3. TemplatesComeWithFiles'
      BY <2>1 DEF PairedInv, TemplatesComeWithFiles
    <2>. QED
      BY <2>2, <2>3 DEF PairedInv
  <1>3. CASE Install /\ UNCHANGED vars
    <2>1. helm'.got = ld.got /\ ld'.got = {} /\ ld.todo = {} /\ deleted' = deleted
      BY <1>3 DEF Install, IdleLoader, LoaderOK, vars
    <2>. QED
      BY <2>1 DEF PairedInv, Paired, TemplatesComeWithFiles
  <1>. QED
    BY <1>1, <1>2, <1>3 DEF DeliveryNext, ManagerStep, LoaderStep, allvars

(* In an installed release files never come without their templates,       *)
(* unless the chart was deleted: whatever fails, and whenever the manager  *)
(* or the loader is interrupted.                                           *)
THEOREM TemplatesComeWithFilesAlways == DeliverySpec => []TemplatesComeWithFiles
  <1>1. DeliveryInit => ManagerInv /\ WholeInv /\ LoaderOK(ld) /\ DeliveryTypes
                        /\ PairedInv
    <2>1. DeliveryInit => PairedInv
      BY DEF DeliveryInit, PairedInv, Paired, IdleLoader, NoRelease,
         TemplatesComeWithFiles
    <2>. QED
      BY <2>1, DeliveryStarts
  <1>2. ManagerInv /\ WholeInv /\ LoaderOK(ld) /\ DeliveryTypes /\ PairedInv
          /\ [DeliveryNext]_allvars
        => ManagerInv' /\ WholeInv' /\ LoaderOK(ld)' /\ DeliveryTypes' /\ PairedInv'
    BY MirrorStep, LoaderTypes, PairedStep
  <1>3. PairedInv => TemplatesComeWithFiles
    BY DEF PairedInv
  <1>. QED
    BY <1>1, <1>2, <1>3, PTL DEF DeliverySpec

-----------------------------------------------------------------------------
(* Ready means whole.  While nothing fails or restarts, a chart stays and  *)
(* so does the Repository:                                                 *)
Undisturbed(c) == ~Interrupted(c) /\ ~lost

(* A fresh copy is the Chart; only charts that are found by their labels   *)
(* get a status, and past the first phase a worker's copy has the labels;  *)
Tidy(w) == /\ w.pc \notin {"idle", "label"} => w.obj.lrepo /\ w.obj.lchart
           /\ w.pc \in {"deps", "status"} => w.todo = {}

LabelInv ==
    faults = 0 =>
        /\ \A c \in cw.cur : cw.fresh => cw.obj = chart[c]
        /\ \A c \in Chart : chart[c].st # "none" => Labelled(c)
        /\ Tidy(cw)

(* the index of a chart only grows, as what is published does, and is only *)
(* taken away with the Repository;                                         *)
IndexInv ==
    /\ \A c \in Chart : /\ idx[c] \subseteq published[c]
                        /\ rw.index[c] \subseteq published[c]
                        /\ IndexKey(c) \in dead => lost
    /\ rw.pc = "index" => \A c \in rw.todo : idx[c] \subseteq rw.index[c]
    /\ rw.fresh => repo.exists

(* a round that goes on to a success has found the index of all versions,  *)
(* and has written or found all configmaps of those it has done;           *)
Filled(c, v) == \A p \in Part : cm[c][v][p] = "full"

Underway == \/ cw.pc \in {"prepare", "deploy", "deps"}
            \/ cw.pc = "status" /\ cw.goal = "success"

RoundInv ==
    \A c \in cw.cur : Underway /\ Undisturbed(c) =>
        \A v \in cw.obj.vers : /\ v \in idx[c] /\ repo.exists
                               /\ v \in cw.todo \/ v \in cw.ver \/ Filled(c, v)

(* so that a version a success stands for has all the loader needs, which  *)
(* stays there;                                                            *)
Mirrored(c, v) == Labelled(c) /\ v \in idx[c] /\ repo.exists /\ Filled(c, v)

SureInv == \A c \in Chart, v \in Version :
              <<c, v>> \in sure /\ Undisturbed(c) => Mirrored(c, v)

-----------------------------------------------------------------------------
(* How a chart worker goes on from one phase to the next.                  *)
GoesOn(d, w) == /\ d.cur = w.cur /\ d.obj = w.obj /\ d.fresh = w.fresh
                /\ d.ver = {} /\ d.todo = w.todo

LEMMA SyncGoesOn ==
  ASSUME NEW w \in ChartWorker, NEW reason \in Reason
  PROVE  /\ Sync(w, reason).cur = w.cur /\ Sync(w, reason).obj = w.obj
         /\ Sync(w, reason).fresh = w.fresh /\ Sync(w, reason).ver = {}
         /\ Sync(w, reason).todo = {} /\ Sync(w, reason).pc = "status"
         /\ Sync(w, reason).goal = reason
  BY DEF Sync, ChartWorker

LEMMA DepsGoesOn ==
  ASSUME NEW w \in ChartWorker, NEW deps \in SUBSET (Chart \X Version),
         w.todo = {}, w.ver = {}
  PROVE  /\ GoesOn(ToDeps(w, deps), w)
         /\ \/ ToDeps(w, deps).pc = "deps"
            \/ ToDeps(w, deps).pc = "status" /\ ToDeps(w, deps).goal = "success"
  <1>1. CASE deps = {}
    BY <1>1, SyncGoesOn DEF ToDeps, GoesOn, Reason
  <1>2. CASE deps # {}
    BY <1>2 DEF ToDeps, GoesOn, ChartWorker
  <1>. QED
    BY <1>1, <1>2

LEMMA NextGoesOn ==
  ASSUME NEW w \in ChartWorker
  PROVE  /\ GoesOn(NextVersion(w), w)
         /\ \/ NextVersion(w).pc = "prepare"
            \/ w.todo = {} /\ NextVersion(w).pc = "deps"
            \/ w.todo = {} /\ NextVersion(w).pc = "status"
                           /\ NextVersion(w).goal = "success"
  <1>. DEFINE b == [w EXCEPT !.ver = {}, !.parts = {}, !.load = Unloaded]
  <1>1. /\ b \in ChartWorker /\ b.cur = w.cur /\ b.fresh = w.fresh
        /\ b.obj = w.obj /\ b.todo = w.todo /\ b.ver = {}
    BY IdleTypes DEF ChartWorker
  <1>2. CASE w.todo = {}
    <2>1. AllDeps(w) \in SUBSET (Chart \X Version)
      BY DEF AllDeps
    <2>2. NextVersion(w) = ToDeps(b, AllDeps(w))
      BY <1>2 DEF NextVersion
    <2>. HIDE DEF b
    <2>. QED
      BY <1>1, <1>2, <2>1, <2>2, DepsGoesOn DEF GoesOn
  <1>3. CASE w.todo # {}
    <2>1. NextVersion(w) = [b EXCEPT !.pc = "prepare"]
      BY <1>3 DEF NextVersion
    <2>. HIDE DEF b
    <2>. QED
      BY <1>1, <2>1 DEF GoesOn, ChartWorker
  <1>. QED
    BY <1>2, <1>3

(* A Chart is written as o, and the worker is d.                           *)
LEMMA LabelPut ==
  ASSUME ManagerInv, LabelInv, faults = 0, NEW c \in Chart, NEW o \in ChartObj,
         PutChart(c, o), NEW d \in ChartWorker, cw' = d, Tidy(d),
         Labelled(c) => o.exists /\ o.lrepo /\ o.lchart,
         o.st # "none" => o.exists /\ o.lrepo /\ o.lchart,
         c \in d.cur /\ d.fresh => d.obj = o,
         \A x \in d.cur : x # c /\ d.fresh => cw.fresh /\ x \in cw.cur /\ d.obj = cw.obj
  PROVE  LabelInv' /\ \A x \in Chart : Labelled(x) => Labelled(x)'
  <1>1. /\ chart'[c] = o /\ \A x \in Chart : x # c => chart'[x] = chart[x]
    BY DEF PutChart, ManagerInv, ManagerTypeOK
  <1>2. d.cur \subseteq Chart
    BY DEF ChartWorker
  <1>. QED
    BY <1>1, <1>2 DEF LabelInv, Labelled

(* A Chart is removed.                                                     *)
LEMMA LabelRemove ==
  ASSUME ManagerInv, LabelInv, faults = 0, NEW c \in Chart, RemoveChart(c)
  PROVE  /\ LabelInv'
         /\ \A x \in Chart : Labelled(x) => Labelled(x)' \/ x \in deleted'
  <1>t. cw \in ChartWorker /\ ChartBusy(cw)
    BY Known
  <1>1. /\ chart'[c] = NoChart /\ \A x \in Chart : x # c => chart'[x] = chart[x]
    BY DEF RemoveChart, ManagerInv, ManagerTypeOK
  <1>2. /\ cw'.cur = cw.cur /\ cw'.obj = cw.obj /\ cw'.pc = cw.pc
        /\ cw'.todo = cw.todo /\ (cw'.fresh => cw.fresh /\ c \notin cw.cur)
    BY <1>t, RemovedWork DEF RemoveChart, SameWork
  <1>3. cw.cur \subseteq Chart
    BY <1>t DEF ChartWorker
  <1>4. c \in deleted'
    BY DEF RemoveChart
  <1>. QED
    BY <1>1, <1>2, <1>3, <1>4 DEF LabelInv, Labelled, Tidy, NoChart

(* Charts are left alone.                                                  *)
LEMMA LabelFrame ==
  ASSUME ManagerInv, LabelInv, faults = 0, UNCHANGED chart, Tidy(cw'),
         cw'.fresh => \A x \in cw'.cur : cw'.obj = chart[x]
  PROVE  LabelInv' /\ \A x \in Chart : Labelled(x) => Labelled(x)'
  BY DEF LabelInv, Labelled

LEMMA LabelStarts == Init => LabelInv
  BY DEF Init, LabelInv, Tidy, IdleChartWorker, NoChart


LabelKept == LabelInv' /\ \A x \in Chart : Labelled(x) => Labelled(x)' \/ x \in deleted'

LEMMA RepoLabels ==
  ASSUME ManagerInv, LabelInv, faults = 0, faults' = 0, RepoStep
  PROVE  LabelKept
  <1>t. /\ cw \in ChartWorker /\ ChartBusy(cw) /\ Tidy(cw)
        /\ \A k : ~Fault(k)
        /\ cw.fresh => \A x \in cw.cur : cw.obj = chart[x]
    BY Known, FaultStays DEF LabelInv
  <1>1. ASSUME UNCHANGED <<chart, cw>> PROVE LabelKept
    BY <1>1, <1>t, LabelFrame DEF LabelKept
  <1>2. CASE StartRepo \/ AdoptRepo \/ ListCharts \/ SyncRepoStatus
    BY <1>1, <1>2 DEF StartRepo, AdoptRepo, ListCharts, SyncRepoStatus
  <1>3. CASE DropRepo
    <2>1. CASE cw' = cw
      BY <1>1, <1>3, <2>1 DEF DropRepo
    <2>2. CASE cw' = [cw EXCEPT !.gone = @ \cup {"repo"}]
      <3>1. /\ cw'.cur = cw.cur /\ cw'.obj = cw.obj /\ cw'.pc = cw.pc
            /\ cw'.todo = cw.todo /\ cw'.fresh = cw.fresh
        BY <1>t, <2>2 DEF ChartWorker
      <3>2. Tidy(cw') /\ UNCHANGED chart
        BY <1>t, <1>3, <3>1 DEF Tidy, DropRepo
      <3>. QED
        BY <1>t, <3>1, <3>2, LabelFrame DEF LabelKept
    <2>. QED
      BY <1>3, <2>1, <2>2 DEF DropRepo
  <1>4. ASSUME NEW c \in Chart, WriteIndex(c) PROVE LabelKept
    BY <1>1, <1>4 DEF WriteIndex
  <1>5. ASSUME NEW c \in Chart, PruneChart(c) PROVE LabelKept
    BY <1>1, <1>5, LabelRemove DEF PruneChart, LabelKept
  <1>6. ASSUME NEW c \in Chart, DeployChart(c) PROVE LabelKept
    <2>1. CASE /\ Labelled(c)
               /\ PutChart(c, [chart[c] EXCEPT !.vers = VersionsOf(rw.obj, c)])
               /\ cw' = IF chart[c].vers = VersionsOf(rw.obj, c) THEN cw
                        ELSE StaleChart(c)
      <3>. DEFINE o == [chart[c] EXCEPT !.vers = VersionsOf(rw.obj, c)]
      <3>1. /\ o \in ChartObj /\ o.exists = chart[c].exists /\ o.lrepo = chart[c].lrepo
            /\ o.lchart = chart[c].lchart
            /\ chart[c].vers = VersionsOf(rw.obj, c) => o = chart[c]
        BY Known DEF ChartObj, VersionsOf
      <3>2. PutChart(c, o)
        BY <2>1
      <3>. HIDE DEF o
      <3>3. /\ cw' \in ChartWorker /\ cw'.cur = cw.cur /\ cw'.obj = cw.obj
            /\ cw'.pc = cw.pc /\ cw'.todo = cw.todo /\ (cw'.fresh => cw.fresh)
            /\ c \in cw.cur /\ cw'.fresh => o = chart[c]
        BY <1>t, <2>1, <3>1 DEF StaleChart, ChartWorker
      <3>4. Tidy(cw') /\ (c \in cw'.cur /\ cw'.fresh => cw'.obj = o)
        BY <1>t, <3>3 DEF Tidy
      <3>5. LabelInv' /\ \A x \in Chart : Labelled(x) => Labelled(x)'
        BY <2>1, <3>1, <3>2, <3>3, <3>4, LabelPut DEF Labelled
      <3>. QED
        BY <3>5 DEF LabelKept
    <2>2. CASE ~chart[c].exists /\ PutChart(c, Managed(rw.obj, c)) /\ UNCHANGED cw
      <3>. DEFINE o == Managed(rw.obj, c)
      <3>1. o \in ChartObj /\ o.exists /\ o.lrepo /\ o.lchart
        BY IdleTypes DEF Managed, NoChart, ChartObj, VersionsOf
      <3>2. PutChart(c, o) /\ ~(c \in cw.cur /\ cw.fresh)
        BY <2>2, Known DEF CopyInv
      <3>. HIDE DEF o
      <3>3. LabelInv' /\ \A x \in Chart : Labelled(x) => Labelled(x)'
        BY <1>t, <2>2, <3>1, <3>2, LabelPut
      <3>. QED
        BY <3>3 DEF LabelKept
    <2>. QED
      BY <1>1, <1>t, <1>6, <2>1, <2>2 DEF DeployChart
  <1>. QED
    BY <1>2, <1>3, <1>4, <1>5, <1>6 DEF RepoStep

LEMMA OthersLabels ==
  ASSUME ManagerInv, LabelInv, faults = 0, faults' = 0,
         User \/ Collector \/ Restart \/ UNCHANGED vars
  PROVE  LabelKept
  <1>t. /\ cw \in ChartWorker /\ ChartBusy(cw) /\ Tidy(cw)
        /\ \A k : ~Fault(k)
        /\ cw.fresh => \A x \in cw.cur : cw.obj = chart[x]
    BY Known, FaultStays DEF LabelInv
  <1>1. ASSUME UNCHANGED <<chart, cw>> PROVE LabelKept
    BY <1>1, <1>t, LabelFrame DEF LabelKept
  <1>2. ASSUME NEW o, PutRepo(o) PROVE LabelKept
    BY <1>1, <1>2 DEF PutRepo
  <1>3. ASSUME NEW c \in Chart, NEW vers \in SUBSET Version, WriteChart(c, vers)
        PROVE  LabelKept
    <2>. DEFINE o == [chart[c] EXCEPT !.exists = TRUE, !.vers = vers]
    <2>1. /\ o \in ChartObj /\ o.exists /\ o.lrepo = chart[c].lrepo
          /\ o.lchart = chart[c].lchart /\ o.st = chart[c].st
      BY Known DEF ChartObj
    <2>2. PutChart(c, o)
      BY <1>3 DEF WriteChart
    <2>. HIDE DEF o
    <2>3. /\ cw' \in ChartWorker /\ cw'.cur = cw.cur /\ cw'.obj = cw.obj
          /\ cw'.pc = cw.pc /\ cw'.todo = cw.todo /\ (cw'.fresh => cw.fresh)
          /\ ~(c \in cw'.cur /\ cw'.fresh)
      BY <1>t, <1>3 DEF StaleChart, ChartWorker, WriteChart
    <2>4. Tidy(cw')
      BY <1>t, <2>3 DEF Tidy
    <2>5. o.st # "none" => o.lrepo /\ o.lchart
      BY <2>1 DEF LabelInv, Labelled
    <2>6. LabelInv' /\ \A x \in Chart : Labelled(x) => Labelled(x)'
      BY <2>1, <2>2, <2>3, <2>4, <2>5, LabelPut DEF Labelled
    <2>. QED
      BY <2>6 DEF LabelKept
  <1>4. ASSUME NEW c \in Chart, DeleteChart(c) \/ CollectChart(c) PROVE LabelKept
    BY <1>4, LabelRemove DEF DeleteChart, CollectChart, LabelKept
  <1>5. CASE User
    BY <1>1, <1>2, <1>3, <1>4, <1>5 DEF User, CreateRepo, EditRepo, DeleteRepo, Publish
  <1>6. CASE Collector
    BY <1>1, <1>4, <1>6 DEF Collector, CollectConfigMap
  <1>7. CASE Restart \/ UNCHANGED vars
    BY <1>1, <1>t, <1>7 DEF Restart, vars
  <1>. QED
    BY <1>5, <1>6, <1>7

LEMMA ChartLabels ==
  ASSUME ManagerInv, LabelInv, faults = 0, faults' = 0, ChartStep
  PROVE  LabelKept
  <1>t. /\ cw \in ChartWorker /\ ChartBusy(cw) /\ Tidy(cw)
        /\ \A k : ~Fault(k)
        /\ cw.fresh => \A x \in cw.cur : cw.obj = chart[x]
    BY Known, FaultStays DEF LabelInv
  <1>0. ASSUME UNCHANGED chart, cw'.cur = cw.cur, cw'.obj = cw.obj,
               cw'.fresh => cw.fresh, cw.pc \notin {"idle", "label"},
               cw'.pc \in {"deps", "status"} => cw'.todo = {}
        PROVE  LabelKept
    <2>1. Tidy(cw')
      BY <1>t, <1>0 DEF Tidy
    <2>. QED
      BY <1>t, <1>0, <2>1, LabelFrame DEF LabelKept
  <1>1. ASSUME NEW c \in Chart, StartChart(c) PROVE LabelKept
    <2>1. CASE cw' = IdleChartWorker
      <3>1. Tidy(cw') /\ ~cw'.fresh /\ UNCHANGED chart
        <4>1. cw'.pc = "idle" /\ ~cw'.fresh
          BY <2>1 DEF IdleChartWorker
        <4>. QED
          BY <1>1, <4>1 DEF StartChart, Tidy
      <3>. QED
        BY <3>1, LabelFrame DEF LabelKept
    <2>2. CASE cw' = [IdleChartWorker EXCEPT
                      !.pc = IF Labelled(c) THEN "new" ELSE "label",
                      !.cur = {c}, !.obj = chart[c], !.fresh = TRUE]
      <3>1. /\ cw'.cur = {c} /\ cw'.obj = chart[c]
            /\ cw'.pc = IF Labelled(c) THEN "new" ELSE "label"
        BY <2>2 DEF IdleChartWorker
      <3>2. Tidy(cw') /\ UNCHANGED chart
        BY <1>1, <3>1 DEF Tidy, Labelled, StartChart
      <3>. QED
        BY <3>1, <3>2, LabelFrame DEF LabelKept
    <2>. QED
      BY <1>1, <2>1, <2>2 DEF StartChart
  <1>2. ASSUME NEW c \in Chart, SetLabels(c) PROVE LabelKept
    <2>1. PICK o \in ChartObj, p \in {"new", "label"} :
             /\ \/ o = [cw.obj EXCEPT !.lchart = TRUE]
                \/ o = [cw.obj EXCEPT !.lrepo = TRUE, !.unmanaged = TRUE] /\ cw.obj.lchart
             /\ cw' = [cw EXCEPT !.obj = o, !.pc = p]
             /\ p = "new" => o.lchart /\ o.lrepo
             /\ \/ cw.fresh /\ PutChart(c, o)
                \/ ~cw.fresh /\ UNCHANGED chart
      <3>. DEFINE o == IF ~cw.obj.lchart THEN [cw.obj EXCEPT !.lchart = TRUE]
                       ELSE [cw.obj EXCEPT !.lrepo = TRUE, !.unmanaged = TRUE]
      <3>1. o \in ChartObj
        BY <1>t DEF ChartWorker, ChartObj
      <3>2. /\ cw' = [cw EXCEPT !.obj = o,
                        !.pc = IF o.lchart /\ o.lrepo THEN "new" ELSE "label"]
            /\ \/ cw.fresh /\ PutChart(c, o)
               \/ ~cw.fresh /\ UNCHANGED chart
        BY <1>t, <1>2 DEF SetLabels
      <3>3. \/ o = [cw.obj EXCEPT !.lchart = TRUE]
            \/ o = [cw.obj EXCEPT !.lrepo = TRUE, !.unmanaged = TRUE] /\ cw.obj.lchart
        OBVIOUS
      <3>. HIDE DEF o
      <3>. QED
        BY <3>1, <3>2, <3>3
    <2>2. /\ cw' \in ChartWorker /\ cw'.cur = cw.cur /\ cw'.obj = o /\ cw'.pc = p
          /\ cw'.fresh = cw.fresh /\ cw.cur = {c}
      <3>1. cw.cur = {c}
        BY <1>t, <1>2 DEF ChartBusy, SetLabels
      <3>. QED
        BY <1>t, <2>1, <3>1 DEF ChartWorker
    <2>3. Tidy(cw')
      BY <2>1, <2>2 DEF Tidy
    <2>4. CASE ~cw.fresh /\ UNCHANGED chart
      BY <2>2, <2>3, <2>4, LabelFrame DEF LabelKept
    <2>5. CASE cw.fresh /\ PutChart(c, o)
      <3>1. cw.obj = chart[c] /\ chart[c] \in ChartObj
        BY <1>t, <2>2, <2>5, Known
      <3>2. /\ Labelled(c) => o.exists /\ o.lrepo /\ o.lchart
            /\ o.st = chart[c].st
        BY <2>1, <3>1 DEF Labelled, ChartObj
      <3>3. chart[c].st # "none" => Labelled(c)
        BY DEF LabelInv
      <3>4. LabelInv' /\ \A x \in Chart : Labelled(x) => Labelled(x)'
        BY <2>2, <2>3, <2>5, <3>2, <3>3, LabelPut
      <3>. QED
        BY <3>4 DEF LabelKept
    <2>. QED
      BY <2>1, <2>4, <2>5
  <1>3. ASSUME NEW c \in Chart, NewChart(c) PROVE LabelKept
    <2>. DEFINE w == [cw EXCEPT !.todo = cw.obj.vers, !.gone = @ \ {"repo"}]
    <2>1. /\ w \in ChartWorker /\ w.cur = cw.cur /\ w.obj = cw.obj
          /\ w.fresh = cw.fresh
      BY <1>t DEF ChartWorker, ChartObj
    <2>2. cw' \in {Sync(cw, "init"), NextVersion(w)} /\ cw.pc = "new" /\ UNCHANGED chart
      BY <1>3 DEF NewChart
    <2>. HIDE DEF w
    <2>. QED
      BY <1>0, <1>t, <2>1, <2>2, SyncGoesOn, NextGoesOn DEF GoesOn, Reason
  <1>4. ASSUME NEW c \in Chart, NEW v \in Version, Prepare(c, v) PROVE LabelKept
    <2>1. cw.pc = "prepare" /\ UNCHANGED chart
      BY <1>4 DEF Prepare
    <2>2. CASE cw' = Sync(cw, "configmaps")
      BY <1>0, <1>t, <2>1, <2>2, SyncGoesOn DEF Reason
    <2>3. ASSUME NEW x, cw' = [cw EXCEPT !.pc = "deploy", !.todo = @ \ {v},
                                   !.ver = {v}, !.load = x, !.parts = Part]
          PROVE  LabelKept
      BY <1>0, <1>t, <2>1, <2>3 DEF ChartWorker
    <2>. QED
      BY <1>4, <2>2, <2>3 DEF Prepare
  <1>5. ASSUME NEW c \in Chart, NEW v \in Version, NEW p \in Part,
               DeployConfigMap(c, v, p)
        PROVE  LabelKept
    <2>1. cw.pc = "deploy" /\ UNCHANGED chart
      BY <1>5 DEF DeployConfigMap
    <2>2. CASE cw' = NextVersion(cw)
      BY <1>0, <1>t, <2>1, <2>2, NextGoesOn DEF GoesOn
    <2>3. ASSUME NEW x, cw' = [cw EXCEPT !.parts = x] PROVE LabelKept
      BY <1>0, <1>t, <2>1, <2>3 DEF ChartWorker
    <2>. QED
      BY <1>5, <2>2, <2>3 DEF DeployConfigMap
  <1>6. ASSUME NEW d \in Chart, NEW v \in Version, CreateOrUpdateSubChart(d, v)
        PROVE  LabelKept
    <2>0. /\ cw.pc = "deps" /\ cw.todo = {} /\ cw.ver = {}
          /\ cw.obj.lrepo /\ cw.obj.lchart
      BY <1>t, <1>6 DEF CreateOrUpdateSubChart, Tidy, ChartBusy
    <2>1. CASE cw' = ToDeps(cw, cw.deps \ {<<d, v>>}) /\ UNCHANGED chart
      <3>1. cw.deps \ {<<d, v>>} \in SUBSET (Chart \X Version)
        BY <1>t DEF ChartWorker
      <3>. QED
        BY <1>0, <1>t, <2>0, <2>1, <3>1, DepsGoesOn DEF GoesOn
    <2>2. CASE cw' = Sync(cw, "deps") /\ UNCHANGED chart
      BY <1>0, <1>t, <2>0, <2>2, SyncGoesOn DEF Reason
    <2>3. CASE /\ Labelled(d) /\ cw' = Sync(StaleChart(d), "deps")
               /\ PutChart(d, [chart[d] EXCEPT !.vers = @ \cup {v}])
      <3>. DEFINE o == [chart[d] EXCEPT !.vers = @ \cup {v}]
      <3>1. /\ o \in ChartObj /\ o.exists /\ o.lrepo /\ o.lchart
        BY <2>3, Known DEF ChartObj, Labelled
      <3>2. PutChart(d, o)
        BY <2>3
      <3>. HIDE DEF o
      <3>3. /\ StaleChart(d) \in ChartWorker /\ StaleChart(d).cur = cw.cur
            /\ StaleChart(d).obj = cw.obj /\ (StaleChart(d).fresh => cw.fresh)
            /\ ~(d \in cw.cur /\ StaleChart(d).fresh)
        BY <1>t DEF StaleChart, ChartWorker
      <3>4. /\ cw' \in ChartWorker /\ cw'.cur = cw.cur /\ cw'.obj = cw.obj
            /\ (cw'.fresh => cw.fresh) /\ ~(d \in cw.cur /\ cw'.fresh)
            /\ cw'.pc = "status" /\ cw'.todo = {}
        <4>1. cw.cur # {} /\ \A x, y \in cw.cur : x = y
          BY <1>t, <2>0 DEF ChartBusy
        <4>. QED
          BY <2>3, <3>3, <4>1, SyncGoesOn, SyncTypes DEF Reason
      <3>5. Tidy(cw')
        BY <2>0, <3>4 DEF Tidy
      <3>6. LabelInv' /\ \A x \in Chart : Labelled(x) => Labelled(x)'
        BY <3>1, <3>2, <3>4, <3>5, LabelPut
      <3>. QED
        BY <3>6 DEF LabelKept
    <2>4. CASE /\ ~chart[d].exists /\ cw' = Sync(cw, "deps")
               /\ PutChart(d, SubChart(v))
      <3>1. SubChart(v) \in ChartObj /\ SubChart(v).st = "none"
        BY IdleTypes DEF SubChart, NoChart, ChartObj
      <3>2. /\ cw' \in ChartWorker /\ cw'.cur = cw.cur /\ cw'.obj = cw.obj
            /\ cw'.fresh = cw.fresh /\ cw'.pc = "status" /\ cw'.todo = {}
        <4>1. cw.cur # {} /\ \A x, y \in cw.cur : x = y
          BY <1>t, <2>0 DEF ChartBusy
        <4>. QED
          BY <1>t, <2>4, <4>1, SyncGoesOn, SyncTypes DEF Reason
      <3>3. Tidy(cw') /\ ~(d \in cw.cur /\ cw.fresh)
        BY <2>0, <2>4, <3>2, Known DEF Tidy, CopyInv
      <3>4. LabelInv' /\ \A x \in Chart : Labelled(x) => Labelled(x)'
        BY <2>4, <3>1, <3>2, <3>3, LabelPut DEF Labelled
      <3>. QED
        BY <3>4 DEF LabelKept
    <2>. QED
      BY <1>6, <2>1, <2>2, <2>3, <2>4 DEF CreateOrUpdateSubChart
  <1>7. ASSUME NEW c \in Chart, SyncChartStatus(c) PROVE LabelKept
    <2>1. /\ cw' = IdleChartWorker /\ cw'.cur = {} /\ Tidy(cw') /\ ~cw'.fresh
          /\ cw' \in ChartWorker
      BY <1>7, IdleTypes DEF SyncChartStatus, Tidy, IdleChartWorker
    <2>2. CASE UNCHANGED chart
      BY <2>1, <2>2, LabelFrame DEF LabelKept
    <2>3. CASE cw.fresh /\ PutChart(c, [chart[c] EXCEPT !.st = cw.goal])
      <3>. DEFINE o == [chart[c] EXCEPT !.st = cw.goal]
      <3>1. cw.obj = chart[c] /\ cw.obj.lrepo /\ cw.obj.lchart /\ chart[c].exists
        BY <1>t, <1>7, <2>3, Known DEF SyncChartStatus, Tidy, CopyInv
      <3>2. /\ o \in ChartObj /\ o.exists /\ o.lrepo /\ o.lchart
        BY <1>t, <3>1, Known DEF ChartObj, ChartWorker
      <3>3. PutChart(c, o)
        BY <2>3
      <3>. HIDE DEF o
      <3>4. LabelInv' /\ \A x \in Chart : Labelled(x) => Labelled(x)'
        BY <2>1, <3>2, <3>3, LabelPut
      <3>. QED
        BY <3>4 DEF LabelKept
    <2>. QED
      BY <1>7, <2>2, <2>3 DEF SyncChartStatus
  <1>. QED
    BY <1>1, <1>2, <1>3, <1>4, <1>5, <1>6, <1>7 DEF ChartStep

LEMMA LabelStep ==
  ASSUME ManagerInv, LabelInv, [Next]_vars
  PROVE  LabelInv' /\ (faults' = 0 => LabelKept)
  <1>1. faults' = 0 => faults = 0
    BY HistoryStays DEF ManagerInv, ManagerTypeOK
  <1>2. faults' = 0 => LabelKept
    BY <1>1, RepoLabels, OthersLabels, ChartLabels DEF Next
  <1>. QED
    BY <1>2 DEF LabelKept, LabelInv


-----------------------------------------------------------------------------
(* The index.  The repository worker's copy of it is never ahead of what   *)
(* is published, and never behind the configmaps it has still to write.    *)
SameIndex(d, w) == d.index = w.index /\ (d.fresh => w.fresh)

LEMMA PhaseIndex ==
  ASSUME NEW w \in RepoWorker, NEW ok \in BOOLEAN, NEW cs \in SUBSET Chart
  PROVE  /\ SameIndex(ToStatus(w, ok), w) /\ ToStatus(w, ok).pc # "index"
         /\ SameIndex(ToDeploy(w), w) /\ ToDeploy(w).pc # "index"
         /\ SameIndex(ToPrune(w, cs), w) /\ ToPrune(w, cs).pc # "index"
         /\ SameIndex(ToIndex(w, cs), w) /\ ToIndex(w, cs).todo = cs
         /\ cs = {} => ToIndex(w, cs).pc # "index"
  <1>1. \A b \in BOOLEAN : SameIndex(ToStatus(w, b), w) /\ ToStatus(w, b).pc # "index"
    BY DEF ToStatus, RepoWorker, SameIndex
  <1>2. SameIndex(ToDeploy(w), w) /\ ToDeploy(w).pc # "index"
    BY <1>1 DEF ToDeploy, RepoWorker, SameIndex
  <1>3. SameIndex(ToPrune(w, cs), w) /\ ToPrune(w, cs).pc # "index"
    BY <1>2 DEF ToPrune, RepoWorker, SameIndex
  <1>4. /\ SameIndex(ToIndex(w, cs), w) /\ ToIndex(w, cs).todo = cs
        /\ cs = {} => ToIndex(w, cs).pc # "index"
    BY DEF ToIndex, RepoWorker, SameIndex
  <1>. QED
    BY <1>1, <1>2, <1>3, <1>4

LostStep == lost' = (lost \/ (repo.exists /\ ~repo'.exists))

(* The index of a chart is only taken away with the Repository.            *)
IndexKept == IndexInv' /\ \A c \in Chart : lost' \/ idx[c] \subseteq idx'[c]

(* The configmaps of the index are left alone.                             *)
LEMMA IndexFrame ==
  ASSUME ManagerInv, IndexInv, LostStep, UNCHANGED idx,
         \A c \in Chart : published[c] \subseteq published'[c],
         \A c \in Chart : IndexKey(c) \in dead' => IndexKey(c) \in dead \/ lost',
         SameIndex(rw', rw), rw'.fresh => repo'.exists,
         rw'.pc = "index" => rw.pc = "index" /\ rw'.todo = rw.todo
  PROVE  IndexKept
  <1>1. rw.todo \subseteq Chart
    BY Known DEF RepoWorker
  <1>. QED
    BY <1>1 DEF IndexKept, IndexInv, SameIndex, LostStep

(* The repository worker begins or is done.                                *)
LEMMA IdleIndex ==
  ASSUME IndexInv, LostStep, UNCHANGED <<idx, published>>, rw' = IdleRepoWorker,
         \A c \in Chart : IndexKey(c) \in dead' => IndexKey(c) \in dead \/ lost'
  PROVE  IndexKept
  <1>1. (\A c \in Chart : rw'.index[c] = {}) /\ ~rw'.fresh /\ rw'.pc = "idle"
    BY DEF IdleRepoWorker
  <1>. QED
    BY <1>1 DEF IndexKept, IndexInv, LostStep

LEMMA StartRepoIndex ==
  ASSUME ManagerInv, IndexInv, LostStep, StartRepo PROVE IndexKept
  <1>t. published \in [Chart -> SUBSET Version] /\ repo \in RepoObj
    BY DEF ManagerInv, ManagerTypeOK
  <1>1. PICK index \in {published, [c \in Chart |-> {}]} :
           LET w == [IdleRepoWorker EXCEPT !.obj = repo, !.fresh = TRUE,
                                           !.index = index]
           IN rw' = IF ~repo.exists THEN IdleRepoWorker
                    ELSE IF repo.deleting THEN [w EXCEPT !.pc = "drop"]
                    ELSE IF ~repo.fin THEN [w EXCEPT !.pc = "adopt"]
                    ELSE ToIndex(w, Indexed(repo, index))
    BY DEF StartRepo
  <1>. DEFINE w == [IdleRepoWorker EXCEPT !.obj = repo, !.fresh = TRUE,
                                          !.index = index]
  <1>2. w \in RepoWorker /\ w.index = index
    BY <1>t, IdleTypes DEF RepoWorker, IdleRepoWorker
  <1>3. \/ rw' = IdleRepoWorker
        \/ repo.exists /\ rw' \in {[w EXCEPT !.pc = "drop"], [w EXCEPT !.pc = "adopt"],
                                   ToIndex(w, Indexed(repo, index))}
    BY <1>1
  <1>4. UNCHANGED <<idx, published, dead, repo>>
    BY DEF StartRepo
  <1>. HIDE DEF w
  <1>5. CASE repo.exists /\ rw' \in {[w EXCEPT !.pc = "drop"], [w EXCEPT !.pc = "adopt"]}
    <2>1. rw'.index = index /\ rw'.pc # "index"
      BY <1>2, <1>5 DEF RepoWorker
    <2>. QED
      BY <1>4, <1>5, <2>1 DEF IndexKept, IndexInv, LostStep
  <1>6. CASE repo.exists /\ rw' = ToIndex(w, Indexed(repo, index))
    <2>1. /\ rw'.index = index /\ rw'.todo = Indexed(repo, index)
      <3>1. Indexed(repo, index) \in SUBSET Chart
        BY DEF Indexed
      <3>. QED
        BY <1>2, <1>6, <3>1, PhaseIndex DEF SameIndex
    <2>2. \A c \in rw'.todo : c \in Chart /\ index = published
      BY <2>1 DEF Indexed
    <2>. QED
      BY <1>4, <1>6, <2>1, <2>2 DEF IndexKept, IndexInv, LostStep
  <1>. QED
    BY <1>3, <1>4, <1>5, <1>6, IdleIndex

LEMMA WriteIndexIndex ==
  ASSUME ManagerInv, IndexInv, LostStep, NEW c \in Chart, WriteIndex(c)
  PROVE  IndexKept
  <1>t. rw \in RepoWorker /\ idx \in [Chart -> SUBSET Version]
    BY Known DEF ManagerInv, ManagerTypeOK
  <1>1. /\ rw.pc = "index" /\ c \in rw.todo /\ rw.todo \subseteq Chart
        /\ UNCHANGED <<published, repo>> /\ dead' \subseteq dead
    BY <1>t DEF WriteIndex, RepoWorker
  <1>2. /\ SameIndex(rw', rw)
        /\ rw'.pc = "index" => rw'.todo = rw.todo \ {c}
    <2>1. /\ SameIndex(ToIndex(rw, rw.todo \ {c}), rw)
          /\ ToIndex(rw, rw.todo \ {c}).todo = rw.todo \ {c}
          /\ SameIndex(ToIndex(rw, {}), rw) /\ ToIndex(rw, {}).pc # "index"
          /\ SameIndex(ToStatus(rw, FALSE), rw) /\ ToStatus(rw, FALSE).pc # "index"
      BY <1>t, <1>1, PhaseIndex
    <2>2. rw' \in {ToIndex(rw, rw.todo \ {c}), ToIndex(rw, {}), ToStatus(rw, FALSE)}
      BY DEF WriteIndex
    <2>. QED
      BY <2>1, <2>2
  <1>3. \A x \in Chart : idx'[x] = idx[x] \/ (x = c /\ idx'[x] = rw.index[x])
    <2>1. idx' = idx \/ idx' = [idx EXCEPT ![c] = rw.index[c]]
      BY DEF WriteIndex
    <2>. QED
      BY <1>t, <2>1
  <1>. QED
    BY <1>1, <1>2, <1>3 DEF IndexKept, IndexInv, LostStep, SameIndex

LEMMA RepoIndex ==
  ASSUME ManagerInv, IndexInv, LostStep, RepoStep PROVE IndexKept
  <1>t. rw \in RepoWorker
    BY Known
  <1>1. CASE AdoptRepo \/ SyncRepoStatus
    BY <1>1, IdleIndex DEF AdoptRepo, SyncRepoStatus
  <1>2. CASE DropRepo
    <2>1. UNCHANGED <<idx, published>> /\ rw' = IdleRepoWorker
      BY <1>2 DEF DropRepo
    <2>2. CASE UNCHANGED dead
      BY <2>1, <2>2, IdleIndex
    <2>3. CASE rw.fresh /\ repo' = NoRepo
      <3>1. lost'
        BY <2>3 DEF IndexInv, LostStep, NoRepo
      <3>. QED
        BY <2>1, <3>1, IdleIndex
    <2>. QED
      BY <1>2, <2>2, <2>3 DEF DropRepo
  <1>3. CASE ListCharts
    <2>1. Stray(rw.obj) \in SUBSET Chart
      BY DEF Stray
    <2>2. rw' \in {ToPrune(rw, Stray(rw.obj)), ToDeploy(rw)}
          /\ UNCHANGED <<idx, published, dead, repo>>
      BY <1>3 DEF ListCharts
    <2>3. SameIndex(rw', rw) /\ rw'.pc # "index"
      BY <1>t, <2>1, <2>2, PhaseIndex
    <2>4. rw'.fresh => repo'.exists
      BY <2>2, <2>3 DEF IndexInv, SameIndex
    <2>. QED
      BY <2>2, <2>3, <2>4, IndexFrame
  <1>4. ASSUME NEW c \in Chart, PruneChart(c) PROVE IndexKept
    <2>1. rw.todo \ {c} \in SUBSET Chart
      BY <1>t DEF RepoWorker
    <2>2. rw' = ToPrune(rw, rw.todo \ {c}) /\ UNCHANGED <<idx, published, repo>>
      BY <1>4 DEF PruneChart
    <2>3. SameIndex(rw', rw) /\ rw'.pc # "index"
      BY <1>t, <2>1, <2>2, PhaseIndex
    <2>4. rw'.fresh => repo'.exists
      BY <2>2, <2>3 DEF IndexInv, SameIndex
    <2>5. \A x \in Chart : IndexKey(x) \in dead' => IndexKey(x) \in dead
      BY <1>4, KeysApart DEF PruneChart, RemoveChart, PartKeys
    <2>. QED
      BY <2>2, <2>3, <2>4, <2>5, IndexFrame
  <1>5. ASSUME NEW c \in Chart, DeployChart(c) PROVE IndexKept
    <2>1. \/ rw' \in {ToStatus(rw, TRUE), ToStatus(rw, FALSE)}
          \/ rw' = [rw EXCEPT !.todo = rw.todo \ {c}] /\ rw.pc = "deploy"
      BY <1>5 DEF DeployChart
    <2>2. SameIndex(rw', rw) /\ rw'.pc # "index"
      <3>1. CASE rw' \in {ToStatus(rw, TRUE), ToStatus(rw, FALSE)}
        BY <1>t, <3>1, PhaseIndex
      <3>2. CASE rw' = [rw EXCEPT !.todo = rw.todo \ {c}] /\ rw.pc = "deploy"
        BY <1>t, <3>2 DEF RepoWorker, SameIndex
      <3>. QED
        BY <2>1, <3>1, <3>2
    <2>3. UNCHANGED <<idx, published, repo, dead>>
      BY <1>5 DEF DeployChart
    <2>4. rw'.fresh => repo'.exists
      BY <2>2, <2>3 DEF IndexInv, SameIndex
    <2>. QED
      BY <2>2, <2>3, <2>4, IndexFrame
  <1>. QED
    BY <1>1, <1>2, <1>3, <1>4, <1>5, StartRepoIndex, WriteIndexIndex DEF RepoStep

LEMMA IndexStep ==
  ASSUME ManagerInv, IndexInv, LostStep, [Next]_vars PROVE IndexKept
  <1>t. rw \in RepoWorker
    BY Known
  <1>1. ASSUME UNCHANGED <<idx, published, repo, rw>>,
               \A x \in Chart : IndexKey(x) \in dead' => IndexKey(x) \in dead
        PROVE  IndexKept
    BY <1>1, IndexFrame DEF IndexInv, SameIndex
  <1>2. CASE ChartStep
    <2>1. ASSUME NEW c \in Chart, StartChart(c) \/ SetLabels(c) \/ NewChart(c)
                                  \/ SyncChartStatus(c)
          PROVE  UNCHANGED <<idx, published, repo, rw, dead>>
      BY <2>1 DEF StartChart, SetLabels, NewChart, SyncChartStatus
    <2>2. ASSUME NEW c \in Chart, NEW v \in Version, NEW p \in Part,
                 DeployConfigMap(c, v, p)
          PROVE  /\ UNCHANGED <<idx, published, repo, rw>>
                 /\ \A x \in Chart : IndexKey(x) \in dead' => IndexKey(x) \in dead
      BY <2>2, KeysApart DEF DeployConfigMap
    <2>3. ASSUME NEW c \in Chart, NEW v \in Version,
                 Prepare(c, v) \/ CreateOrUpdateSubChart(c, v)
          PROVE  /\ UNCHANGED <<idx, published, repo, rw>>
                 /\ \A x \in Chart : IndexKey(x) \in dead' => IndexKey(x) \in dead
      BY <2>3, KeysApart DEF Prepare, CreateOrUpdateSubChart
    <2>. QED
      BY <1>1, <1>2, <2>1, <2>2, <2>3 DEF ChartStep
  <1>3. ASSUME NEW o, PutRepo(o) PROVE IndexKept
    <2>1. SameIndex(rw', rw) /\ ~rw'.fresh /\ rw'.pc = rw.pc /\ rw'.todo = rw.todo
      BY <1>t, <1>3 DEF PutRepo, RepoWorker, SameIndex
    <2>2. UNCHANGED <<idx, published, dead>>
      BY <1>3 DEF PutRepo
    <2>. QED
      BY <2>1, <2>2, IndexFrame
  <1>4. ASSUME NEW c \in Chart, DeleteChart(c) \/ CollectChart(c) PROVE IndexKept
    <2>1. \A x \in Chart : IndexKey(x) \in dead' => IndexKey(x) \in dead
      BY <1>4, KeysApart DEF DeleteChart, CollectChart, RemoveChart, PartKeys
    <2>. QED
      BY <1>1, <1>4, <2>1 DEF DeleteChart, CollectChart
  <1>5. ASSUME NEW c \in Chart, NEW vers \in SUBSET Version, WriteChart(c, vers)
        PROVE  IndexKept
    BY <1>1, <1>5 DEF WriteChart
  <1>6. ASSUME NEW c \in Chart, NEW v \in Version, Publish(c, v) PROVE IndexKept
    <2>1. \A x \in Chart : published[x] \subseteq published'[x]
      BY <1>6 DEF Publish, ManagerInv, ManagerTypeOK
    <2>2. SameIndex(rw', rw) /\ (rw'.fresh => repo'.exists)
      BY <1>6 DEF Publish, SameIndex, IndexInv
    <2>. QED
      BY <1>6, <2>1, <2>2, IndexFrame DEF Publish
  <1>7. ASSUME NEW c \in Chart, CollectConfigMap(c) PROVE IndexKept
    <2>1. CASE UNCHANGED idx
      BY <1>1, <1>7, <2>1 DEF CollectConfigMap
    <2>2. CASE /\ IndexKey(c) \in dead /\ idx' = [idx EXCEPT ![c] = {}]
               /\ dead' = dead \ {IndexKey(c)}
      <3>1. /\ \A x \in Chart : idx'[x] \in {idx[x], {}}
            /\ UNCHANGED <<repo, published, rw>> /\ rw.todo \subseteq Chart
        BY <1>t, <1>7, <2>2 DEF CollectConfigMap, ManagerInv, ManagerTypeOK, RepoWorker
      <3>2. lost'
        BY <2>2 DEF IndexInv, LostStep
      <3>. QED
        BY <3>1, <3>2 DEF IndexKept, IndexInv
    <2>. QED
      BY <1>7, <2>1, <2>2 DEF CollectConfigMap
  <1>8. CASE User
    BY <1>3, <1>4, <1>5, <1>6, <1>8 DEF User, CreateRepo, EditRepo, DeleteRepo
  <1>9. CASE Collector
    BY <1>4, <1>7, <1>9 DEF Collector
  <1>10. CASE Restart
    BY <1>10, IdleIndex DEF Restart
  <1>11. CASE UNCHANGED vars
    BY <1>1, <1>11 DEF vars
  <1>. QED
    BY <1>2, <1>8, <1>9, <1>10, <1>11, RepoIndex DEF Next

LEMMA IndexStarts == Init => IndexInv
  BY DEF Init, IndexInv, IdleRepoWorker


-----------------------------------------------------------------------------
(* What a mirrored version has stays there, step by step.                  *)
MirrorInv == ManagerInv /\ WholeInv /\ LabelInv /\ IndexInv

LEMMA MirrorKept ==
  ASSUME MirrorInv, LostStep, [Next]_vars, NEW c \in Chart, Undisturbed(c)'
  PROVE  /\ Undisturbed(c) /\ idx[c] \subseteq idx'[c]
         /\ Labelled(c) => Labelled(c)'
         /\ repo.exists => repo'.exists
         /\ \A v \in Version : Filled(c, v) => Filled(c, v)'
  <1>1. faults' = 0 /\ c \notin deleted' /\ ~lost'
    BY StepManager DEF Undisturbed, Interrupted, MirrorInv, ManagerInv, ManagerTypeOK
  <1>2. Undisturbed(c)
    <2>1. faults = 0 /\ c \notin deleted
      BY <1>1, HistoryStays DEF MirrorInv, ManagerInv, ManagerTypeOK
    <2>. QED
      BY <1>1, <2>1 DEF Undisturbed, Interrupted, LostStep
  <1>3. idx[c] \subseteq idx'[c]
    BY <1>1, IndexStep DEF MirrorInv, IndexKept
  <1>4. Labelled(c) => Labelled(c)'
    BY <1>1, LabelStep DEF MirrorInv, LabelKept
  <1>5. repo.exists => repo'.exists
    BY <1>1 DEF LostStep
  <1>6. \A v \in Version : Filled(c, v) => Filled(c, v)'
    BY <1>2, FullStays DEF Filled, MirrorInv, Undisturbed, Interrupted
  <1>. QED
    BY <1>2, <1>3, <1>4, <1>5, <1>6

(* A round goes on: no version is dropped that is not filled.              *)
LEMMA RoundGoesOn ==
  ASSUME MirrorInv, RoundInv, LostStep, [Next]_vars,
         cw'.cur = cw.cur, cw'.obj = cw.obj, Underway' => Underway,
         \A v \in Version : v \in cw.todo \/ v \in cw.ver =>
            \/ v \in cw'.todo \/ v \in cw'.ver
            \/ \A c \in cw.cur : Undisturbed(c)' => Filled(c, v)'
  PROVE  RoundInv'
  <1>1. cw \in ChartWorker /\ cw.cur \subseteq Chart /\ cw.obj.vers \subseteq Version
    BY Known DEF MirrorInv, ChartWorker, ChartObj
  <1>. SUFFICES ASSUME NEW c \in cw.cur, Underway', Undisturbed(c)', NEW v \in cw.obj.vers
                PROVE  /\ v \in idx'[c] /\ repo'.exists
                       /\ v \in cw'.todo \/ v \in cw'.ver \/ Filled(c, v)'
    BY DEF RoundInv
  <1>2. c \in Chart /\ v \in Version
    BY <1>1
  <1>3. /\ Undisturbed(c) /\ idx[c] \subseteq idx'[c] /\ (repo.exists => repo'.exists)
        /\ Filled(c, v) => Filled(c, v)'
    BY <1>2, MirrorKept
  <1>4. /\ v \in idx[c] /\ repo.exists
        /\ v \in cw.todo \/ v \in cw.ver \/ Filled(c, v)
    BY <1>3 DEF RoundInv
  <1>. QED
    BY <1>2, <1>3, <1>4

SameRound(d, w) == /\ d.cur = w.cur /\ d.obj = w.obj /\ d.pc = w.pc
                   /\ d.goal = w.goal /\ d.todo = w.todo /\ d.ver = w.ver

LEMMA SameRoundGoesOn ==
  ASSUME MirrorInv, RoundInv, LostStep, [Next]_vars, SameRound(cw', cw)
  PROVE  RoundInv'
  BY RoundGoesOn DEF SameRound, Underway

(* Nobody but the chart worker itself touches its round.                   *)
LEMMA OthersRound ==
  ASSUME MirrorInv, RoundInv, LostStep, [Next]_vars,
         RepoStep \/ User \/ Collector \/ Restart \/ UNCHANGED vars
  PROVE  RoundInv'
  <1>t. cw \in ChartWorker
    BY Known DEF MirrorInv
  <1>1. CASE cw' = IdleChartWorker
    BY <1>1 DEF RoundInv, IdleChartWorker
  <1>2. CASE cw' = cw
    BY <1>2, SameRoundGoesOn DEF SameRound
  <1>3. CASE cw' = [cw EXCEPT !.fresh = FALSE]
    BY <1>t, <1>3, SameRoundGoesOn DEF SameRound, ChartWorker
  <1>4. CASE cw' = [cw EXCEPT !.gone = @ \cup {"repo"}]
    BY <1>t, <1>4, SameRoundGoesOn DEF SameRound, ChartWorker
  <1>5. ASSUME NEW c, RemoveChart(c) PROVE RoundInv'
    <2>1. CASE cw' = [cw EXCEPT !.fresh = FALSE, !.gone = @ \cup {"chart"}]
      BY <1>t, <2>1, SameRoundGoesOn DEF SameRound, ChartWorker
    <2>. QED
      BY <1>2, <1>5, <2>1 DEF RemoveChart
  <1>6. CASE StartRepo \/ AdoptRepo \/ DropRepo \/ ListCharts \/ SyncRepoStatus
    BY <1>2, <1>4, <1>6 DEF StartRepo, AdoptRepo, DropRepo, ListCharts, SyncRepoStatus
  <1>7. ASSUME NEW c \in Chart, WriteIndex(c) \/ PruneChart(c) \/ DeployChart(c)
        PROVE  RoundInv'
    BY <1>2, <1>3, <1>5, <1>7 DEF WriteIndex, PruneChart, DeployChart, StaleChart
  <1>8. CASE User
    BY <1>2, <1>3, <1>5, <1>8 DEF User, CreateRepo, EditRepo, DeleteRepo, PutRepo,
       WriteChart, DeleteChart, Publish, StaleChart
  <1>9. CASE Collector
    BY <1>2, <1>5, <1>9 DEF Collector, CollectChart, CollectConfigMap
  <1>10. CASE Restart \/ UNCHANGED vars
    BY <1>1, <1>2, <1>10 DEF Restart, vars
  <1>. QED
    BY <1>6, <1>7, <1>8, <1>9, <1>10 DEF RepoStep

(* A version is done with when its last configmap is written or refused:   *)
(* without a failing call all of them are there.                           *)
LEMMA VersionDone ==
  ASSUME MirrorInv, LostStep, [Next]_vars, NEW c \in Chart, NEW v \in Version,
         NEW p \in Part, DeployConfigMap(c, v, p), cw.parts \ {p} = {}, Undisturbed(c)'
  PROVE  Filled(c, v)'
  <1>t. /\ cw \in ChartWorker /\ ChartBusy(cw)
        /\ cm \in [Chart -> [Version -> [Part -> Content]]]
    BY Known DEF MirrorInv, ManagerInv, ManagerTypeOK
  <1>1. Undisturbed(c)
    BY MirrorKept
  <1>2. WholeChart(c) /\ InWork(c, v) /\ WholeInv' /\ p \in cw.parts
    BY <1>1, WholeStep DEF MirrorInv, WholeInv, Undisturbed, InWork, DeployConfigMap
  <1>3. cw.load[p] = "full" /\ cm[c][v][p] \in {"none", "full"}
    <2>1. cm[c][v][p] \in Content
      BY <1>t
    <2>. QED
      BY <1>2, <2>1 DEF WholeChart, Content
  <1>4. ~Fault("configmap")
    BY FaultStays DEF MirrorInv, Undisturbed, Interrupted
  <1>5. cm'[c][v][p] = "full"
    <2>1. cm' = [cm EXCEPT ![c][v][p] = "full"]
      BY <1>3, <1>4 DEF DeployConfigMap
    <2>. QED
      BY <1>t, <2>1
  <1>6. ~InWork(c, v)'
    <2>1. cw' = NextVersion(cw)
      BY DEF DeployConfigMap, RestOfParts
    <2>. QED
      BY <1>t, <2>1, NextGoesOn DEF GoesOn, InWork
  <1>7. WholeChart(c)'
    BY <1>2 DEF WholeInv, Undisturbed
  <1>. QED
    BY <1>5, <1>6, <1>7 DEF WholeChart, Filled

LEMMA ChartRound ==
  ASSUME MirrorInv, RoundInv, LostStep, [Next]_vars, ChartStep
  PROVE  RoundInv'
  <1>t. cw \in ChartWorker /\ ChartBusy(cw) /\ cw.cur \subseteq Chart
        /\ cw.obj.vers \subseteq Version
    BY Known DEF MirrorInv, ChartWorker, ChartObj
  <1>0. ASSUME ~Underway' PROVE RoundInv'
    BY <1>0 DEF RoundInv
  <1>1. ASSUME NEW c \in Chart, StartChart(c) PROVE RoundInv'
    <2>1. cw'.pc \in {"idle", "new", "label"}
      BY <1>1 DEF StartChart, IdleChartWorker
    <2>. QED
      BY <1>0, <2>1 DEF Underway
  <1>2. ASSUME NEW c \in Chart, SetLabels(c) PROVE RoundInv'
    <2>1. \E o : cw' = [cw EXCEPT !.obj = o,
                          !.pc = IF o.lchart /\ o.lrepo THEN "new" ELSE "label"]
      BY <1>2 DEF SetLabels
    <2>2. cw'.pc \in {"new", "label"}
      BY <1>t, <2>1 DEF ChartWorker
    <2>. QED
      BY <1>0, <2>2 DEF Underway
  <1>3. ASSUME NEW r \in Reason, NEW w \in ChartWorker, r # "success", cw' = Sync(w, r)
        PROVE  RoundInv'
    BY <1>0, <1>3, SyncGoesOn DEF Underway
  <1>4. ASSUME NEW c \in Chart, NewChart(c) PROVE RoundInv'
    <2>. DEFINE w == [cw EXCEPT !.todo = cw.obj.vers, !.gone = @ \ {"repo"}]
    <2>1. /\ w \in ChartWorker /\ w.cur = cw.cur /\ w.obj = cw.obj
          /\ w.todo = cw.obj.vers
      BY <1>t DEF ChartWorker, ChartObj
    <2>2. \/ cw' = Sync(cw, "init")
          \/ /\ cw' = NextVersion(w) /\ cw.obj.vers \subseteq idx[c]
             /\ cw.obj.vers = {} \/ repo.exists
      BY <1>4 DEF NewChart
    <2>. HIDE DEF w
    <2>3. UNCHANGED <<idx, repo>> /\ cw.cur = {c}
      BY <1>t, <1>4 DEF NewChart, ChartBusy
    <2>4. CASE /\ cw' = NextVersion(w) /\ cw.obj.vers \subseteq idx[c]
               /\ cw.obj.vers = {} \/ repo.exists
      <3>1. cw'.cur = {c} /\ cw'.obj = cw.obj /\ cw'.todo = cw.obj.vers
        BY <2>1, <2>3, <2>4, NextGoesOn DEF GoesOn
      <3>. QED
        BY <2>3, <2>4, <3>1 DEF RoundInv
    <2>. QED
      BY <1>t, <1>3, <2>2, <2>4 DEF Reason
  <1>5. ASSUME NEW c \in Chart, NEW v \in Version, Prepare(c, v) PROVE RoundInv'
    <2>1. cw.pc = "prepare" /\ cw.ver = {}
      BY <1>t, <1>5 DEF Prepare, ChartBusy
    <2>2. ASSUME NEW x, cw' = [cw EXCEPT !.pc = "deploy", !.todo = @ \ {v},
                                   !.ver = {v}, !.load = x, !.parts = Part]
          PROVE  RoundInv'
      <3>1. /\ cw'.cur = cw.cur /\ cw'.obj = cw.obj /\ cw'.todo = cw.todo \ {v}
            /\ cw'.ver = {v}
        BY <1>t, <2>2 DEF ChartWorker
      <3>. QED
        BY <2>1, <3>1, RoundGoesOn DEF Underway
    <2>. QED
      BY <1>t, <1>3, <1>5, <2>2 DEF Prepare, Reason
  <1>6. ASSUME NEW c \in Chart, NEW v \in Version, NEW p \in Part,
               DeployConfigMap(c, v, p)
        PROVE  RoundInv'
    <2>1. cw.pc = "deploy" /\ cw.cur = {c} /\ cw.ver = {v}
      BY <1>t, <1>6 DEF DeployConfigMap, ChartBusy
    <2>2. CASE cw.parts \ {p} = {}
      <3>1. cw' = NextVersion(cw)
        BY <1>6, <2>2 DEF DeployConfigMap, RestOfParts
      <3>2. cw'.cur = cw.cur /\ cw'.obj = cw.obj /\ cw'.todo = cw.todo
        BY <1>t, <3>1, NextGoesOn DEF GoesOn
      <3>3. Undisturbed(c)' => Filled(c, v)'
        BY <1>6, <2>2, VersionDone
      <3>. QED
        BY <2>1, <3>2, <3>3, RoundGoesOn DEF Underway
    <2>3. CASE cw' = [cw EXCEPT !.parts = cw.parts \ {p}]
      BY <1>t, <2>3, SameRoundGoesOn DEF SameRound, ChartWorker
    <2>. QED
      BY <1>6, <2>2, <2>3 DEF DeployConfigMap, RestOfParts
  <1>7. ASSUME NEW d \in Chart, NEW v \in Version, CreateOrUpdateSubChart(d, v)
        PROVE  RoundInv'
    <2>1. cw.pc = "deps" /\ cw.ver = {}
      BY <1>t, <1>7 DEF CreateOrUpdateSubChart, ChartBusy
    <2>2. StaleChart(d) \in ChartWorker
      BY <1>t DEF StaleChart, ChartWorker
    <2>3. CASE cw' = ToDeps(cw, cw.deps \ {<<d, v>>})
      <3>1. cw.deps \ {<<d, v>>} \in SUBSET (Chart \X Version)
        BY <1>t DEF ChartWorker
      <3>2. CASE faults = 0
        <4>1. cw.todo = {}
          BY <2>1, <3>2 DEF MirrorInv, LabelInv, Tidy
        <4>2. cw'.cur = cw.cur /\ cw'.obj = cw.obj
          BY <1>t, <2>1, <2>3, <3>1, <4>1, DepsGoesOn DEF GoesOn
        <4>. QED
          BY <2>1, <4>1, <4>2, RoundGoesOn DEF Underway
      <3>3. CASE faults # 0
        <4>1. faults' > 0
          BY <3>3, HistoryStays DEF MirrorInv, ManagerInv, ManagerTypeOK
        <4>. QED
          BY <4>1 DEF RoundInv, Undisturbed, Interrupted
      <3>. QED
        BY <3>2, <3>3
    <2>4. cw' \in {ToDeps(cw, cw.deps \ {<<d, v>>}), Sync(cw, "deps"),
                   Sync(StaleChart(d), "deps")}
      BY <1>7 DEF CreateOrUpdateSubChart
    <2>. QED
      BY <1>t, <1>3, <2>2, <2>3, <2>4 DEF Reason
  <1>8. ASSUME NEW c \in Chart, SyncChartStatus(c) PROVE RoundInv'
    BY <1>8 DEF SyncChartStatus, RoundInv, IdleChartWorker
  <1>. QED
    BY <1>1, <1>2, <1>4, <1>5, <1>6, <1>7, <1>8 DEF ChartStep


-----------------------------------------------------------------------------
(* A success is only reported for versions that are mirrored.              *)
LEMMA SureStep ==
  ASSUME MirrorInv, RoundInv, SureInv, ManagerStep
  PROVE  SureInv'
  <1>0. LostStep /\ [Next]_vars /\ sure' = NextSure /\ LabelInv'
    BY LabelStep DEF ManagerStep, LostStep, MirrorInv
  <1>. SUFFICES ASSUME NEW c \in Chart, NEW v \in Version, <<c, v>> \in sure',
                       Undisturbed(c)'
                PROVE  Mirrored(c, v)'
    BY DEF SureInv
  <1>1. /\ Undisturbed(c) /\ idx[c] \subseteq idx'[c]
        /\ Labelled(c) => Labelled(c)'
        /\ repo.exists => repo'.exists
        /\ Filled(c, v) => Filled(c, v)'
    BY <1>0, MirrorKept
  <1>2. CASE <<c, v>> \in sure
    <2>1. Mirrored(c, v)
      BY <1>1, <1>2 DEF SureInv
    <2>. QED
      BY <1>1, <2>1 DEF Mirrored
  <1>3. CASE RoundSucceeded(c)
    <2>1. /\ cw.pc = "status" /\ cw.goal = "success" /\ c \in cw.cur
          /\ v \in cw.obj.vers /\ chart'[c].st = "success"
      BY <1>0, <1>3 DEF NextSure, RoundSucceeded
    <2>2. Labelled(c)'
      <3>1. faults' = 0
        BY StepManager, <1>0 DEF Undisturbed, Interrupted, MirrorInv, ManagerInv,
           ManagerTypeOK
      <3>. QED
        BY <1>0, <2>1, <3>1 DEF LabelInv
    <2>3. cw.todo = {} /\ cw.ver = {}
      <3>1. faults = 0
        BY <1>1 DEF Undisturbed, Interrupted, MirrorInv, ManagerInv, ManagerTypeOK
      <3>. QED
        BY <2>1, <3>1, Known DEF MirrorInv, LabelInv, Tidy, ChartBusy
    <2>4. v \in idx[c] /\ repo.exists /\ Filled(c, v)
      BY <1>1, <2>1, <2>3 DEF RoundInv, Underway
    <2>. QED
      BY <1>1, <2>2, <2>4 DEF Mirrored
  <1>. QED
    BY <1>0, <1>2, <1>3 DEF NextSure

-----------------------------------------------------------------------------
(* The loader.  Nothing it has collected is foreign, and what it misses it *)
(* misses for a reason.                                                    *)
Has(l, p) == {p} \X {r \in Read : ReadsPart(r) \in Part} \subseteq l.got

(* The charts of the release the loader is through with.                   *)
Through(l) ==
    /\ l.pc \in {"deps", "subvals", "install"} => Has(l, Wanted)
    /\ l.at # {} /\ Wanted \notin l.at => Has(l, Wanted)
    /\ l.pc \in {"subvals", "install"} \/ (l.at # {} /\ Wanted \notin l.at) =>
          \A p \in Dep[Wanted] : p \in l.subs \/ p \in l.at \/ Has(l, p)
    /\ l.pc = "read" => \A p \in l.at, r \in Read \ l.todo :
          ReadsPart(r) \in Part => <<p, r>> \in l.got

Calm == ~lost /\ \A p \in Needed : ~Interrupted(p[1])
AllMirrored == \A p \in Needed : Mirrored(p[1], p[2])

LoaderInv == /\ ld.got \subseteq Whole
             /\ Calm /\ ld.pc # "idle" /\ ~ld.early => AllMirrored /\ Through(ld)

LEMMA CollectedStep ==
  ASSUME LoaderOK(ld), ld.got \subseteq Whole, LoaderReads
  PROVE  ld'.got \subseteq Whole
  <1>0. ld \in Loader /\ IdleLoader.got = {}
    BY DEF LoaderOK, IdleLoader
  <1>1. CASE ld'.got \subseteq ld.got
    BY <1>1
  <1>2. ASSUME NEW c \in Chart, NEW v \in Version, NEW r \in Read,
               <<c, v>> \in Needed
        PROVE  Found(c, v, r) \subseteq Whole
    BY <1>2 DEF Found, Whole
  <1>3. Failed.got \subseteq ld.got
    <2>1. WithoutSub.got = GotWithoutSub
      BY <1>0 DEF WithoutSub, Loader
    <2>. QED
      BY <1>0, <2>1 DEF Failed, GotWithoutSub
  <1>4. ASSUME NEW pc, ld' = [ld EXCEPT !.pc = pc] PROVE ld'.got = ld.got
    BY <1>0, <1>4 DEF Loader
  <1>5. ASSUME \/ GetControllerRepo
               \/ \E c \in Chart : FindChart(c) \/ \E v \in Version : SubIndex(c, v)
        PROVE  ld'.got \subseteq ld.got
    BY <1>3, <1>4, <1>5 DEF FindChart, SubIndex, GetControllerRepo
  <1>6. CASE AddDependencies
    BY <1>0, <1>6 DEF AddDependencies, Loader
  <1>7. ASSUME NEW c \in Chart, NEW v \in Version, LoadIndex(c, v) \/ FindAgain(c, v)
        PROVE  ld'.got \subseteq ld.got
    <2>1. CASE LoadIndex(c, v)
      <3>1. ld'.got = {}
        BY <2>1 DEF LoadIndex, IdleLoader
      <3>. QED
        BY <3>1
    <2>2. CASE FindAgain(c, v)
      <3>1. [ld EXCEPT !.pc = "read", !.todo = Read].got = ld.got
        BY <1>0 DEF Loader
      <3>. QED
        BY <1>3, <2>2, <3>1 DEF FindAgain
    <2>. QED
      BY <1>7, <2>1, <2>2
  <1>8. ASSUME NEW d \in Chart, NEW v \in Version, SubValues(d, v)
        PROVE  ld'.got \subseteq Whole
    <2>1. ld'.got = ld.got \cup Found(d, v, "default")
      BY <1>0, <1>8 DEF SubValues, Loader
    <2>2. <<d, v>> \in Needed
      BY <1>8 DEF SubValues, LoaderOK, Needed
    <2>. QED
      BY <1>2, <2>1, <2>2 DEF Read
  <1>9. ASSUME NEW c \in Chart, NEW v \in Version, NEW r \in Read, ReadPart(c, v, r)
        PROVE  ld'.got \subseteq Whole
    <2>. DEFINE l == [ld EXCEPT !.todo = @ \ {r}, !.got = @ \cup Found(c, v, r)]
    <2>1. l \in Loader /\ l.got = ld.got \cup Found(c, v, r)
      BY <1>0, FoundType DEF Loader
    <2>2. <<c, v>> \in Needed
      BY <1>9 DEF LoaderOK, ReadPart
    <2>3. ld' \in {l, Failed} \/ \E pc : ld' = [l EXCEPT !.pc = pc, !.at = {}]
      BY <1>9 DEF ReadPart
    <2>. HIDE DEF l
    <2>4. ld'.got \in {l.got, Failed.got}
      BY <2>1, <2>3 DEF Loader
    <2>. QED
      BY <1>2, <1>3, <2>1, <2>2, <2>4
  <1>. QED
    BY <1>1, <1>5, <1>6, <1>7, <1>8, <1>9 DEF LoaderReads

(* When all its charts are mirrored the loader never fails: it is always   *)
(* through with what its phase asks for.                                   *)
LEMMA FoundAll ==
  ASSUME NEW c \in Chart, NEW v \in Version, NEW r \in Read,
         Filled(c, v), ReadsPart(r) \in Part
  PROVE  <<<<c, v>>, r>> \in Found(c, v, r)
  BY DEF Filled, Found

LEMMA ReadPartThrough ==
  ASSUME LoaderOK(ld), Through(ld), AllMirrored, NEW c \in Chart, NEW v \in Version,
         NEW r \in Read, ReadPart(c, v, r)
  PROVE  Through(ld') /\ ld'.early = ld.early /\ ld'.pc # "idle"
  <1>. DEFINE l == [ld EXCEPT !.todo = @ \ {r}, !.got = @ \cup Found(c, v, r)]
  <1>1. /\ ld.pc = "read" /\ ld.at = {<<c, v>>} /\ r \in ld.todo
        /\ ld \in Loader /\ <<c, v>> \in Needed /\ ld.todo \subseteq Read
    BY DEF LoaderOK, ReadPart, Loader
  <1>2. /\ l \in Loader /\ l.pc = "read" /\ l.at = ld.at /\ l.todo = ld.todo \ {r}
        /\ l.got = ld.got \cup Found(c, v, r) /\ l.subs = ld.subs
        /\ l.early = ld.early
    BY <1>1, FoundType DEF Loader
  <1>3. ld' = IF l.todo # {} THEN l
              ELSE IF ~HasFile(<<c, v>>, l.got) THEN Failed
              ELSE IF Sub THEN [l EXCEPT !.pc = IF l.subs = {} THEN "install"
                                                ELSE "subvals", !.at = {}]
              ELSE [l EXCEPT !.pc = "deps", !.at = {}]
    BY DEF ReadPart
  <1>. HIDE DEF l
  <1>4. Filled(c, v)
    BY <1>1 DEF AllMirrored, Mirrored
  <1>5. \A x \in Read \ l.todo : ReadsPart(x) \in Part => <<<<c, v>>, x>> \in l.got
    BY <1>1, <1>2, <1>4, FoundAll DEF Through
  <1>6. \A p : Has(ld, p) => Has(l, p)
    BY <1>2 DEF Has
  <1>7. CASE l.todo # {}
    BY <1>1, <1>2, <1>3, <1>5, <1>6, <1>7 DEF Through
  <1>8. CASE l.todo = {}
    <2>1. Has(l, <<c, v>>)
      BY <1>5, <1>8 DEF Has
    <2>2. HasFile(<<c, v>>, l.got)
      BY <1>5, <1>8, PartAssumption DEF HasFile, Read, ReadsPart
    <2>3. CASE Sub
      <3>1. PICK p \in {"install", "subvals"} : ld' = [l EXCEPT !.pc = p, !.at = {}]
        BY <1>3, <1>8, <2>2, <2>3
      <3>2. /\ l.subs = {} \/ p = "subvals" \/ p = "install"
            /\ ld'.pc = p /\ ld'.at = {} /\ ld'.got = l.got /\ ld'.subs = ld.subs
            /\ ld'.early = ld.early
        BY <1>2, <3>1 DEF Loader
      <3>3. ld.at # {} /\ Wanted \notin ld.at
        BY <1>1, <2>3 DEF Sub
      <3>4. \A q : Has(l, q) => Has(ld', q)
        BY <3>2 DEF Has
      <3>. QED
        BY <1>1, <1>6, <2>1, <3>2, <3>3, <3>4 DEF Through
    <2>4. CASE ~Sub
      <3>1. ld' = [l EXCEPT !.pc = "deps", !.at = {}]
        BY <1>3, <1>8, <2>2, <2>4
      <3>2. /\ ld'.pc = "deps" /\ ld'.at = {} /\ ld'.got = l.got
            /\ ld'.early = ld.early
        BY <1>2, <3>1 DEF Loader
      <3>3. Has(ld', Wanted)
        BY <1>1, <2>1, <2>4, <3>2 DEF Sub, Has
      <3>. QED
        BY <3>2, <3>3 DEF Through
    <2>. QED
      BY <2>3, <2>4
  <1>. QED
    BY <1>7, <1>8

LEMMA LoaderThrough ==
  ASSUME LoaderOK(ld), ld.pc # "idle", Through(ld), AllMirrored, LoaderReads,
         chart \in [Chart -> ChartObj]
  PROVE  Through(ld') /\ ld'.early = ld.early /\ ld'.pc # "idle"
  <1>0. ld \in Loader /\ Dep[Wanted] \subseteq Needed
    BY DEF LoaderOK, Needed
  <1>1. \A p \in Needed : p[1] \in Chart /\ p[2] \in Version
    BY WantedTypes
  <1>2. ASSUME ld.pc \in {"find", "repo", "again", "subindex"},
               NEW pc \in {"repo", "again"}, ld' = [ld EXCEPT !.pc = pc]
        PROVE  Through(ld') /\ ld'.early = ld.early /\ ld'.pc # "idle"
    BY <1>0, <1>2 DEF Through, Has, Loader
  <1>3. ASSUME NEW c \in Chart, FindChart(c)
        PROVE  Through(ld') /\ ld'.early = ld.early /\ ld'.pc # "idle"
    <2>1. Labelled(c)
      BY <1>3 DEF FindChart, AllMirrored, Mirrored, Needed
    <2>. QED
      BY <1>2, <1>3, <2>1 DEF FindChart
  <1>4. CASE GetControllerRepo
    <2>1. repo.exists
      BY DEF AllMirrored, Mirrored, Needed
    <2>. QED
      BY <1>2, <1>4, <2>1 DEF GetControllerRepo
  <1>5. CASE AddDependencies
    <2>. DEFINE subs == {p \in Dep[Wanted] : ~PassedOver(p)}
    <2>1. subs = Dep[Wanted]
      BY <1>0 DEF PassedOver, AllMirrored, Mirrored, Labelled
    <2>2. PICK q \in {"install", "subvals"} : ld' = [ld EXCEPT !.subs = subs, !.pc = q]
      BY <1>5 DEF AddDependencies
    <2>. HIDE DEF subs
    <2>3. /\ ld'.pc = q /\ ld'.subs = Dep[Wanted] /\ ld'.at = ld.at
          /\ ld'.got = ld.got /\ ld'.early = ld.early
      BY <1>0, <2>1, <2>2 DEF Loader
    <2>4. ld.pc = "deps" /\ ld.at = {}
      BY <1>5 DEF AddDependencies, LoaderOK
    <2>. QED
      BY <2>3, <2>4 DEF Through, Has
  <1>6. ASSUME NEW c \in Chart, NEW v \in Version, FindAgain(c, v)
        PROVE  Through(ld') /\ ld'.early = ld.early /\ ld'.pc # "idle"
    <2>1. <<c, v>> \in Needed
      BY <1>6 DEF FindAgain, LoaderOK
    <2>2. Labelled(c)
      BY <2>1 DEF AllMirrored, Mirrored
    <2>3. ld' = [ld EXCEPT !.pc = "read", !.todo = Read] /\ ld.pc = "again"
      BY <1>6, <2>2 DEF FindAgain
    <2>4. /\ ld'.pc = "read" /\ ld'.todo = Read /\ ld'.at = ld.at
          /\ ld'.got = ld.got /\ ld'.early = ld.early /\ ld'.subs = ld.subs
      BY <1>0, <2>3 DEF Loader
    <2>. QED
      BY <2>3, <2>4 DEF Through, Has
  <1>7. ASSUME NEW d \in Chart, NEW v \in Version, SubValues(d, v)
        PROVE  Through(ld') /\ ld'.early = ld.early /\ ld'.pc # "idle"
    <2>1. Found(d, v, "default") \subseteq (Chart \X Version) \X Read
      BY FoundType DEF Read
    <2>2. /\ ld'.pc = "subindex" /\ ld'.at = {<<d, v>>}
          /\ ld'.subs = ld.subs \ {<<d, v>>} /\ ld.got \subseteq ld'.got
          /\ ld'.early = ld.early
      BY <1>0, <1>7, <2>1 DEF SubValues, Loader
    <2>3. ld.pc = "subvals" /\ ld.at = {}
      BY <1>7 DEF SubValues, LoaderOK
    <2>4. \A p : Has(ld, p) => Has(ld', p)
      BY <2>2 DEF Has
    <2>. QED
      BY <2>2, <2>3, <2>4 DEF Through
  <1>8. ASSUME NEW d \in Chart, NEW v \in Version, SubIndex(d, v)
        PROVE  Through(ld') /\ ld'.early = ld.early /\ ld'.pc # "idle"
    <2>1. <<d, v>> \in Needed
      BY <1>8 DEF SubIndex, LoaderOK
    <2>2. v \in idx[d]
      BY <2>1 DEF AllMirrored, Mirrored
    <2>. QED
      BY <1>2, <1>8, <2>2 DEF SubIndex
  <1>9. ASSUME NEW c \in Chart, NEW v \in Version PROVE ~LoadIndex(c, v)
    BY DEF LoadIndex
  <1>. QED
    BY <1>3, <1>4, <1>5, <1>6, <1>7, <1>8, <1>9, ReadPartThrough DEF LoaderReads


ReadyInv == RoundInv /\ SureInv /\ LoaderInv /\ ReadyMeansWhole

(* The manager's steps leave what the loader needs where it is.            *)
LEMMA ManagerReady ==
  ASSUME MirrorInv, ReadyInv, ManagerStep PROVE ReadyInv'
  <1>0. LostStep /\ [Next]_vars /\ UNCHANGED <<ld, helm>>
    BY DEF ManagerStep, LostStep
  <1>1. RoundInv' /\ SureInv'
    BY <1>0, SureStep, OthersRound, ChartRound DEF ReadyInv, Next
  <1>2. ASSUME NEW p \in Needed, Calm'
        PROVE  ~Interrupted(p[1]) /\ (Mirrored(p[1], p[2]) => Mirrored(p[1], p[2])')
    <2>1. p[1] \in Chart /\ p[2] \in Version
      BY WantedTypes
    <2>2. PICK c \in Chart, v \in Version : c = p[1] /\ v = p[2]
      BY <2>1
    <2>3. Undisturbed(c)'
      BY <1>2, <2>2 DEF Calm, Undisturbed
    <2>4. /\ Undisturbed(c) /\ idx[c] \subseteq idx'[c]
          /\ Labelled(c) => Labelled(c)'
          /\ repo.exists => repo'.exists
          /\ Filled(c, v) => Filled(c, v)'
      BY <1>0, <2>3, MirrorKept
    <2>5. Mirrored(c, v) => Mirrored(c, v)'
      BY <2>4 DEF Mirrored
    <2>. QED
      BY <2>2, <2>4, <2>5 DEF Undisturbed
  <1>3. Calm' => Calm
    BY <1>0, <1>2 DEF Calm, LostStep
  <1>4. LoaderInv'
    <2>1. Calm' /\ AllMirrored => AllMirrored'
      BY <1>2 DEF AllMirrored
    <2>2. Through(ld) => Through(ld')
      BY <1>0
    <2>. QED
      BY <1>0, <1>3, <2>1, <2>2 DEF ReadyInv, LoaderInv
  <1>5. ReadyMeansWhole'
    <2>1. ~(lost' \/ \E p \in Needed : Interrupted(p[1])') => Calm'
      BY DEF Calm
    <2>2. Calm => ~(lost \/ \E p \in Needed : Interrupted(p[1]))
      BY DEF Calm
    <2>. QED
      BY <1>0, <1>3, <2>1, <2>2 DEF ReadyInv, ReadyMeansWhole
  <1>. QED
    BY <1>1, <1>4, <1>5 DEF ReadyInv

(* A loader that began too early stays so until it is idle again.          *)
LEMMA EarlyStays ==
  ASSUME LoaderOK(ld), LoaderReads, ld.early, ld.pc # "idle"
  PROVE  ld'.early \/ ld'.pc = "idle"
  <1>0. ld \in Loader
    BY DEF LoaderOK
  <1>1. Failed.early \/ Failed.pc = "idle"
    <2>1. WithoutSub.early
      BY <1>0 DEF WithoutSub, Loader
    <2>. QED
      BY <2>1 DEF Failed, IdleLoader
  <1>2. ASSUME NEW pc, ld' = [ld EXCEPT !.pc = pc] PROVE ld'.early
    BY <1>0, <1>2 DEF Loader
  <1>3. ASSUME NEW c \in Chart, FindChart(c) PROVE ld'.early \/ ld'.pc = "idle"
    BY <1>1, <1>2, <1>3 DEF FindChart
  <1>4. CASE GetControllerRepo
    BY <1>1, <1>2, <1>4 DEF GetControllerRepo
  <1>5. CASE AddDependencies
    BY <1>0, <1>5 DEF AddDependencies, Loader
  <1>6. ASSUME NEW c \in Chart, NEW v \in Version, FindAgain(c, v)
        PROVE  ld'.early \/ ld'.pc = "idle"
    <2>1. [ld EXCEPT !.pc = "read", !.todo = Read].early
      BY <1>0 DEF Loader
    <2>. QED
      BY <1>1, <1>6, <2>1 DEF FindAgain
  <1>7. ASSUME NEW d \in Chart, NEW v \in Version, SubValues(d, v) PROVE ld'.early
    BY <1>0, <1>7 DEF SubValues, Loader
  <1>8. ASSUME NEW d \in Chart, NEW v \in Version, SubIndex(d, v)
        PROVE  ld'.early \/ ld'.pc = "idle"
    BY <1>1, <1>2, <1>8 DEF SubIndex
  <1>9. ASSUME NEW c \in Chart, NEW v \in Version, NEW r \in Read, ReadPart(c, v, r)
        PROVE  ld'.early \/ ld'.pc = "idle"
    <2>. DEFINE l == [ld EXCEPT !.todo = @ \ {r}, !.got = @ \cup Found(c, v, r)]
    <2>1. l \in Loader /\ l.early
      BY <1>0, FoundType DEF Loader
    <2>2. ld' \in {l, Failed} \/ \E pc : ld' = [l EXCEPT !.pc = pc, !.at = {}]
      BY <1>9 DEF ReadPart
    <2>. HIDE DEF l
    <2>. QED
      BY <1>1, <2>1, <2>2 DEF Loader
  <1>10. ASSUME NEW c \in Chart, NEW v \in Version PROVE ~LoadIndex(c, v)
    BY DEF LoadIndex
  <1>. QED
    BY <1>3, <1>4, <1>5, <1>6, <1>7, <1>8, <1>9, <1>10 DEF LoaderReads

LEMMA ReadsReady ==
  ASSUME MirrorInv, ReadyInv, LoaderOK(ld), LoaderReads, UNCHANGED <<vars, sure, lost>>
  PROVE  LoaderInv'
  <1>0. ld'.got \subseteq Whole /\ (Calm' <=> Calm) /\ (AllMirrored' <=> AllMirrored)
    BY CollectedStep DEF ReadyInv, LoaderInv, Calm, AllMirrored, Interrupted,
       Mirrored, Labelled, Filled, vars
  <1>1. chart \in [Chart -> ChartObj]
    BY DEF MirrorInv, ManagerInv, ManagerTypeOK
  <1>. SUFFICES ASSUME Calm, ld'.pc # "idle", ~ld'.early
                PROVE  AllMirrored /\ Through(ld')
    BY <1>0 DEF LoaderInv
  <1>2. CASE ld.pc # "idle" /\ ~ld.early
    <2>1. AllMirrored /\ Through(ld)
      BY <1>2 DEF ReadyInv, LoaderInv
    <2>. QED
      BY <1>1, <1>2, <2>1, LoaderThrough
  <1>3. CASE ld.pc = "idle"
    <2>1. PICK c \in Chart, v \in Version : LoadIndex(c, v)
      BY <1>3 DEF LoaderReads, FindChart, GetControllerRepo, AddDependencies,
         FindAgain, SubValues, SubIndex, ReadPart
    <2>2. Ready /\ ld'.pc = "find" /\ ld'.at = {Wanted}
      BY <2>1 DEF LoadIndex, IdleLoader
    <2>3. AllMirrored
      <3>1. ASSUME NEW p \in Needed PROVE Mirrored(p[1], p[2])
        <4>1. p[1] \in Chart /\ p[2] \in Version /\ p = <<p[1], p[2]>> /\ p \in sure
          BY <2>2, WantedTypes DEF Ready
        <4>2. Undisturbed(p[1])
          BY DEF Calm, Undisturbed
        <4>. QED
          BY <4>1, <4>2 DEF ReadyInv, SureInv
      <3>. QED
        BY <3>1 DEF AllMirrored
    <2>. QED
      BY <2>2, <2>3 DEF Through
  <1>4. CASE ld.pc # "idle" /\ ld.early
    BY <1>4, EarlyStays
  <1>. QED
    BY <1>2, <1>3, <1>4

(* The release is made of what was collected.                              *)
LEMMA InstallReady ==
  ASSUME MirrorInv, ReadyInv, LoaderOK(ld), Install, UNCHANGED <<vars, sure, lost>>
  PROVE  LoaderInv' /\ ReadyMeansWhole'
  <1>1. LoaderInv'
    <2>1. ld'.got = {} /\ ld'.pc = "idle"
      BY DEF Install, IdleLoader
    <2>. QED
      BY <2>1 DEF LoaderInv
  <1>2. ASSUME Calm, ~ld.early PROVE ld.got = Whole
    <2>1. Through(ld) /\ ld.got \subseteq Whole /\ ld.pc = "install"
      BY <1>2 DEF ReadyInv, LoaderInv, Install
    <2>2. ld.at = {} /\ ld.subs = {}
      BY <2>1 DEF LoaderOK
    <2>3. Has(ld, Wanted) /\ \A p \in Dep[Wanted] : Has(ld, p)
      BY <2>1, <2>2 DEF Through
    <2>. QED
      BY <2>1, <2>3 DEF Has, Whole, Needed
  <1>3. helm'.got = ld.got /\ helm'.early = ld.early
    BY DEF Install
  <1>4. ~(lost' \/ \E p \in Needed : Interrupted(p[1])') => Calm
    BY DEF Calm, Interrupted, vars
  <1>5. ReadyMeansWhole'
    BY <1>2, <1>3, <1>4 DEF ReadyMeansWhole
  <1>. QED
    BY <1>1, <1>5

LEMMA ReadyStep ==
  ASSUME MirrorInv, ReadyInv, LoaderOK(ld), [DeliveryNext]_allvars
  PROVE  MirrorInv' /\ ReadyInv'
  <1>1. CASE ManagerStep
    <2>1. LostStep /\ [Next]_vars
      BY <1>1 DEF ManagerStep, LostStep
    <2>2. MirrorInv'
      BY <2>1, StepManager, WholeStep, LabelStep, IndexStep DEF MirrorInv, IndexKept
    <2>. QED
      BY <1>1, <2>2, ManagerReady
  <1>2. ASSUME UNCHANGED <<vars, sure, lost>> PROVE MirrorInv' /\ RoundInv' /\ SureInv'
    <2>1. MirrorInv'
      BY <1>2, StepManager, WholeStep, LabelStep DEF MirrorInv, IndexInv, vars
    <2>2. RoundInv' /\ SureInv'
      BY <1>2 DEF ReadyInv, RoundInv, SureInv, Underway, Undisturbed, Interrupted,
         Filled, Mirrored, Labelled, vars
    <2>. QED
      BY <2>1, <2>2
  <1>3. CASE LoaderReads /\ UNCHANGED <<vars, sure, lost>>
    <2>1. LoaderInv'
      BY <1>3, ReadsReady
    <2>2. ReadyMeansWhole'
      BY <1>3 DEF ReadyInv, ReadyMeansWhole, LoaderReads, Interrupted, vars
    <2>. QED
      BY <1>2, <1>3, <2>1, <2>2 DEF ReadyInv
  <1>4. CASE Install /\ UNCHANGED <<vars, sure, lost>>
    BY <1>2, <1>4, InstallReady DEF ReadyInv
  <1>5. CASE UNCHANGED allvars
    <2>1. LoaderInv' /\ ReadyMeansWhole'
      BY <1>5 DEF ReadyInv, LoaderInv, ReadyMeansWhole, Calm, AllMirrored,
         Interrupted, Mirrored, Labelled, Filled, vars, allvars
    <2>. QED
      BY <1>2, <1>5, <2>1 DEF ReadyInv, allvars
  <1>. QED
    BY <1>1, <1>3, <1>4, <1>5 DEF DeliveryNext, LoaderStep

(* A release made when all its charts had reported a success for their     *)
(* version is whole: default values, templates and crds of the chart and   *)
(* of all it depends on, whatever the manager does meanwhile, unless a     *)
(* call failed, the manager died, a chart or the Repository was removed.   *)
THEOREM ReadyMeansWholeAlways == DeliverySpec => []ReadyMeansWhole
  <1>1. DeliveryInit => MirrorInv /\ ReadyInv /\ LoaderOK(ld) /\ DeliveryTypes
    <2>1. DeliveryInit => MirrorInv
      BY DeliveryStarts, LabelStarts, IndexStarts DEF DeliveryInit, MirrorInv
    <2>2. DeliveryInit => ReadyInv
      BY DEF DeliveryInit, Init, ReadyInv, RoundInv, SureInv, LoaderInv,
         ReadyMeansWhole, IdleLoader, IdleChartWorker, NoRelease
    <2>. QED
      BY <2>1, <2>2, DeliveryStarts
  <1>2. MirrorInv /\ ReadyInv /\ LoaderOK(ld) /\ DeliveryTypes
          /\ [DeliveryNext]_allvars
        => MirrorInv' /\ ReadyInv' /\ LoaderOK(ld)' /\ DeliveryTypes'
    BY ReadyStep, LoaderTypes
  <1>3. ReadyInv => ReadyMeansWhole
    BY DEF ReadyInv
  <1>. QED
    BY <1>1, <1>2, <1>3, PTL DEF DeliverySpec
=============================================================================
