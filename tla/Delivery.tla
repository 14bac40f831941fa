------------------------------ MODULE Delivery -------------------------------
(***************************************************************************)
(* The hand-over from the manager to the agent: release.New of the agent   *)
(* collects a chart and the charts it depends on from configmaps, one call *)
(* at a time, while the manager writes them and the collector removes      *)
(* them; then helm installs what was collected.  Nothing of it is loaded   *)
(* again for a release whose values stay the same, so what was missing at  *)
(* that moment is missing for good.                                        *)
(*                                                                         *)
(* One release; a round that fails is tried again.  Dependencies have no   *)
(* dependencies of their own, as in Prepare of ChartReconciler.            *)
(***************************************************************************)
EXTENDS Manager

CONSTANT Wanted      \* <<chart, version>> of the release

ASSUME WantedAssumption ==
    Wanted \in Chart \X Version /\ \A d \in Dep[Wanted] : Dep[d] = {}

VARIABLES
    ld,       \* the agent's worker, loading the chart
    helm,     \* the release as helm has it
    sure,     \* history: versions a success of the manager stands for
    lost      \* history: the Repository has been removed

allvars == <<vars, ld, helm, sure, lost>>

(* Calls that read the content of a chart: its default values, and three   *)
(* lists by label, templates as files, templates, and crds as files.       *)
Read == {"default", "files", "templates", "crds"}
ReadsPart(r) == IF r \in {"files", "templates"} THEN "tmpl" ELSE r

(* All that is to be had of the charts.                                    *)
Needed == {Wanted} \cup Dep[Wanted]
Whole == Needed \X {r \in Read : ReadsPart(r) \in Part}

(* at: the chart being loaded; subs: dependencies still to come; got: what *)
(* has been collected; early: when it began the charts were not ready.     *)
Loader == [pc: {"idle", "find", "subvals", "subindex", "repo", "again",
                "read", "deps", "install"},
           at: SUBSET (Chart \X Version), subs: SUBSET (Chart \X Version),
           todo: SUBSET Read,
           got: SUBSET ((Chart \X Version) \X Read), early: BOOLEAN]

IdleLoader == [pc |-> "idle", at |-> {}, subs |-> {}, todo |-> {},
               got |-> {}, early |-> FALSE]

Release == [installed: BOOLEAN,
            got: SUBSET ((Chart \X Version) \X Read), early: BOOLEAN]
NoRelease == [installed |-> FALSE, got |-> {}, early |-> FALSE]

Ready == Needed \subseteq sure

-----------------------------------------------------------------------------
(* An error while the release's chart is loaded is returned, and the round *)
(* is tried again.  One of a dependency is only logged by chartversion.New *)
(* of the agent: the release is installed without it, and without those    *)
(* that would have come after it.  Mutant: its reads are not given up.     *)
Sub == ld.at # {Wanted}
GotWithoutSub == {x \in ld.got : x[1] \notin ld.at}
WithoutSubKept == [ld EXCEPT !.pc = "install", !.got = GotWithoutSub]
WithoutSub == [ld EXCEPT !.pc = "install", !.got = GotWithoutSub,
                         !.subs = {}, !.at = {}, !.todo = {}]
Failed == IF Sub THEN WithoutSub ELSE IdleLoader

(* The index configmap of the chart has to be there and know the version.  *)
LoadIndex(c, v) ==
    /\ ld.pc = "idle" /\ ~helm.installed
    /\ Wanted = <<c, v>> /\ v \in idx[c]
    /\ ld' = [IdleLoader EXCEPT !.pc = "find", !.at = {Wanted}, !.early = ~Ready]

(* getChart of the release: the Chart is looked for by its labels.         *)
FindChart(c) ==
    /\ ld.pc = "find" /\ c = Wanted[1]
    /\ ld' = IF Labelled(c) THEN [ld EXCEPT !.pc = "repo"] ELSE Failed

GetControllerRepo ==
    /\ ld.pc = "repo"
    /\ ld' = IF repo.exists THEN [ld EXCEPT !.pc = "again"] ELSE Failed

(* getChart of the chart version looks for it once more.                   *)
FindAgain(c, v) ==
    /\ ld.pc = "again" /\ <<c, v>> \in ld.at
    /\ ld' = IF Labelled(c) THEN [ld EXCEPT !.pc = "read", !.todo = Read]
             ELSE Failed

(* loadChartByResources: setValues before or after setFiles, whose lists   *)
(* come in order.  A configmap that is not there is only logged.  Mutant:  *)
(* the templates are not listed a second time.                             *)
InOrder(r) ==
    CASE r = "default"   -> "files" \in ld.todo \/ "crds" \notin ld.todo
      [] r = "files"     -> TRUE
      [] r = "templates" -> "files" \notin ld.todo
      [] r = "crds"      -> "templates" \notin ld.todo

FoundFilesOnly(c, v, r) ==
    IF r # "templates" /\ ReadsPart(r) \in Part /\ cm[c][v][ReadsPart(r)] = "full"
    THEN {<<<<c, v>>, r>>} ELSE {}
Found(c, v, r) ==
    IF ReadsPart(r) \in Part /\ cm[c][v][ReadsPart(r)] = "full"
    THEN {<<<<c, v>>, r>>} ELSE {}

(* At the end there must be a file, and only then: neither default values  *)
(* nor templates are asked for.                                            *)
HasFile(p, got) == <<p, "files">> \in got \/ <<p, "crds">> \in got

ReadPart(c, v, r) ==
    /\ ld.pc = "read" /\ <<c, v>> \in ld.at /\ r \in ld.todo /\ InOrder(r)
    /\ LET l == [ld EXCEPT !.todo = @ \ {r}, !.got = @ \cup Found(c, v, r)]
       IN ld' = IF l.todo # {} THEN l
                ELSE IF ~HasFile(<<c, v>>, l.got) THEN Failed
                ELSE IF Sub THEN [l EXCEPT !.pc = IF l.subs = {} THEN "install"
                                                  ELSE "subvals", !.at = {}]
                ELSE [l EXCEPT !.pc = "deps", !.at = {}]

(* addDependencies lists the Charts of the repository: a dependency        *)
(* without a Chart is passed over.                                         *)
PassedOver(p) == ~(chart[p[1]].exists /\ chart[p[1]].lrepo)

AddDependencies ==
    /\ ld.pc = "deps"
    /\ LET subs == {p \in Dep[Wanted] : ~PassedOver(p)}
       IN ld' = [ld EXCEPT !.subs = subs,
                           !.pc = IF subs = {} THEN "install" ELSE "subvals"]

(* Its default values are read a first time, then its index and the rest.  *)
SubValues(d, v) ==
    /\ ld.pc = "subvals" /\ <<d, v>> \in ld.subs
    /\ ld' = [ld EXCEPT !.pc = "subindex", !.at = {<<d, v>>},
                        !.subs = @ \ {<<d, v>>},
                        !.got = @ \cup Found(d, v, "default")]

SubIndex(d, v) ==
    /\ ld.pc = "subindex" /\ <<d, v>> \in ld.at
    /\ ld' = IF v \in idx[d] THEN [ld EXCEPT !.pc = "repo"] ELSE Failed

LoaderReads ==
    /\ \/ \E c \in Chart : FindChart(c)
       \/ GetControllerRepo
       \/ AddDependencies
       \/ \E c \in Chart, v \in Version :
             \/ LoadIndex(c, v) \/ FindAgain(c, v)
             \/ SubValues(c, v) \/ SubIndex(c, v)
             \/ \E r \in Read : ReadPart(c, v, r)
    /\ UNCHANGED helm

(* Update: nothing is installed yet, so helm installs what was collected.  *)
Install ==
    /\ ld.pc = "install"
    /\ helm' = [installed |-> TRUE, got |-> ld.got, early |-> ld.early]
    /\ ld' = IdleLoader

LoaderStep == (LoaderReads \/ Install) /\ UNCHANGED <<vars, sure, lost>>

-----------------------------------------------------------------------------
(* A success stands for the versions the round was about, until the Chart  *)
(* changes: the status alone stays as it is when versions are added.       *)
RoundSucceeded(c) == /\ cw.pc = "status" /\ cw'.pc = "idle" /\ c \in cw.cur
                     /\ cw.goal = "success" /\ cw.obj.vers = chart'[c].vers

NextSure ==
    {p \in Chart \X Version :
        LET c == p[1] IN
        /\ chart'[c].exists /\ p[2] \in chart'[c].vers
        /\ chart'[c].st = "success"
        /\ (p \in sure /\ chart'[c].vers = chart[c].vers) \/ RoundSucceeded(c)}

ManagerStep == /\ Next
               /\ sure' = NextSure
               /\ lost' = (lost \/ (repo.exists /\ ~repo'.exists))
               /\ UNCHANGED <<ld, helm>>

DeliveryInit == /\ Init /\ ld = IdleLoader /\ helm = NoRelease
                /\ sure = {} /\ lost = FALSE

DeliveryNext == ManagerStep \/ LoaderStep

DeliverySpec == DeliveryInit /\ [][DeliveryNext]_allvars

-----------------------------------------------------------------------------
(* Types, and what the loader has in hand in each phase.                   *)
DeliveryTypeOK ==
    /\ ld \in Loader /\ helm \in Release /\ sure \subseteq Chart \X Version
    /\ lost \in BOOLEAN
    /\ (ld.pc \in {"find", "subindex", "repo", "again", "read"}) <=> (ld.at # {})
    /\ ld.at \subseteq Needed /\ Cardinality(ld.at) <= 1
    /\ (ld.pc = "read") <=> (ld.todo # {})
    /\ ld.pc = "install" => ld.subs = {} /\ HasFile(Wanted, ld.got)

(* "If every chart which is needed for a helm release, which includes      *)
(* dependency charts, is present a release resource can be created and     *)
(* the operator will install the defined release"                          *)
(* (docs/content/architecture/_index.md:9).  When all of them report a     *)
(* success for the version, the release is handed over whole, whatever     *)
(* the manager does meanwhile, unless a chart or the Repository is         *)
(* removed.  A release made before is installed all the same, with what is *)
(* there: without default values, without crds, without its dependencies.  *)
ReadyMeansWhole ==
    helm.installed /\ helm.got # Whole =>
        helm.early \/ lost \/ \E p \in Needed : Interrupted(p[1])

(* Files and templates come from two lists of the same configmaps.  They   *)
(* agree, also in a release made too early, unless the chart is removed    *)
(* between them: nothing else takes a configmap away.                      *)
TemplatesComeWithFiles ==
    helm.installed => \A p \in Chart \X Version :
        <<p, "files">> \in helm.got =>
            <<p, "templates">> \in helm.got \/ p[1] \in deleted
=============================================================================
