---------------------------- MODULE AgentProofs -----------------------------
(***************************************************************************)
(* Proofs about Agent for every set of releases, values and versions,      *)
(* every number of workers and every bound: type correctness; helm is only *)
(* called on behalf of a Release object; and, provided the lookup of the   *)
(* helm release does not fail, a helm release never outlives its object,   *)
(* and the controller implements ReleaseLifecycle.                         *)
(*                                                                         *)
(* Owned is not inductive: an install begins long after the object was     *)
(* read, so one has to know that the copy a worker holds, however stale,   *)
(* carries a finalizer only if the object still does, that only a worker   *)
(* past the finalizer calls helm, and that the finalizer is dropped only   *)
(* after the uninstall.  A key has one worker, so nobody else drops it.    *)
(***************************************************************************)
EXTENDS Agent, TLAPS

-----------------------------------------------------------------------------
(* Types of the constants behind the records.                              *)

LEMMA NoValsType == NoVals \in [Values -> Nat]
  BY DEF NoVals

LEMMA NoObjType == NoObj \in Obj
  <1>1. (CHOOSE x \in Version : TRUE) \in Version
    BY VersionAssumption
  <1>. QED
    BY <1>1 DEF NoObj, Obj, Cond

LEMMA NoHelmType == NoHelm \in HelmRecord
  <1>1. (CHOOSE x \in Version : TRUE) \in Version
    BY VersionAssumption
  <1>. QED
    BY <1>1, NoValsType DEF NoHelm, HelmRecord

LEMMA IdleWorkerType == IdleWorker \in Worker
  BY NoObjType, NoValsType DEF IdleWorker, Worker, ReleasePC, Goal

(* The control-flow operators of the release controller keep a worker a    *)
(* worker.                                                                 *)
LEMMA SyncType ==
  ASSUME NEW c \in Worker, NEW goal \in Goal, NEW rev \in Nat
  PROVE  Sync(c, goal, rev) \in Worker
  BY DEF Sync, Worker, ReleasePC

LEMMA RetryType == ASSUME NEW c \in Worker PROVE Retry(c) \in Worker
  BY DEF Retry, Worker, ReleasePC

LEMMA DoneType == ASSUME NEW c \in Worker PROVE Done(c) \in Worker
  BY DEF Done, Worker, ReleasePC

LEMMA AfterInitType == ASSUME NEW c \in Worker PROVE AfterInit(c) \in Worker
  <1>1. Sync(c, "initError", 0) \in Worker
    BY SyncType DEF Goal
  <1>. QED
    BY <1>1, RetryType DEF AfterInit, Worker, ReleasePC

LEMMA AfterNewType == ASSUME NEW c \in Worker PROVE AfterNew(c) \in Worker
  <1>1. Sync(c, "init", 0) \in Worker
    BY SyncType DEF Goal
  <1>. QED
    BY <1>1, AfterInitType DEF AfterNew

LEMMA AfterSyncType == ASSUME NEW c \in Worker PROVE AfterSync(c) \in Worker
  BY AfterInitType, RetryType, DoneType DEF AfterSync

LEMMA AfterRefsType == ASSUME NEW c \in Worker PROVE AfterRefs(c) \in Worker
  BY DEF AfterRefs, Worker, ReleasePC

LEMMA BeginType == ASSUME NEW o \in Obj PROVE Begin(o) \in Worker
  <1>. DEFINE c == [IdleWorker EXCEPT !.obj = o, !.fresh = TRUE]
              d == [c EXCEPT !.todo = o.refs]
  <1>1. c \in Worker /\ d \in Worker
    BY IdleWorkerType DEF Worker, Obj
  <1>2. AfterNew(c) \in Worker /\ AfterRefs(d) \in Worker
    BY <1>1, AfterNewType, AfterRefsType
  <1>. QED
    BY <1>2 DEF Begin

-----------------------------------------------------------------------------
(* Type correctness, one lemma for the frame and one step per action.      *)

(* What users and the values controller make of an object.                 *)
LEMMA ObjType ==
  ASSUME NEW o \in Obj
  PROVE  /\ [o EXCEPT !.deleting = TRUE] \in Obj
         /\ [o EXCEPT !.label = TRUE] \in Obj
         /\ [o EXCEPT !.cond = "valueschange"] \in Obj
         /\ \A refs \in SUBSET Values, ver \in Version :
               [o EXCEPT !.refs = refs, !.ver = ver] \in Obj
  <1>1. [o EXCEPT !.deleting = TRUE] \in Obj /\ [o EXCEPT !.label = TRUE] \in Obj
    BY DEF Obj
  <1>2. [o EXCEPT !.cond = "valueschange"] \in Obj
    BY DEF Obj, Cond
  <1>3. \A refs \in SUBSET Values, ver \in Version :
           [o EXCEPT !.refs = refs, !.ver = ver] \in Obj
    BY DEF Obj
  <1>. QED
    BY <1>1, <1>2, <1>3

LEMMA ContinueType ==
  ASSUME TypeOK, NEW r \in Release, NEW c \in Worker, NEW event,
         Continue(r, c, event)
  PROVE  ctx' \in [Release -> Worker] /\ queue' \subseteq Release
  BY IdleWorkerType DEF Continue, TypeOK

LEMMA StaleType ==
  ASSUME TypeOK, NEW r \in Release
  PROVE  StaleValuesWorker(r) \in ValuesWorker /\ StaleWorker(ctx[r]) \in Worker
  <1>1. StaleValuesWorker(r) \in ValuesWorker
    <2>1. vw \in ValuesWorker
      BY DEF TypeOK
    <2>2. [vw EXCEPT !.fresh = FALSE] \in ValuesWorker
      BY <2>1 DEF ValuesWorker
    <2>. QED
      BY <2>1, <2>2 DEF StaleValuesWorker
  <1>2. StaleWorker(ctx[r]) \in Worker
    <2>1. ctx[r] \in Worker
      BY DEF TypeOK
    <2>. QED
      BY <2>1 DEF StaleWorker, Worker
  <1>. QED
    BY <1>1, <1>2

LEMMA WriteType ==
  ASSUME TypeOK, NEW r \in Release, NEW o \in Obj, NEW c \in Worker, NEW event,
         Write(r, o, c, event)
  PROVE  /\ rel' \in [Release -> Obj] /\ vw' \in ValuesWorker
         /\ ctx' \in [Release -> Worker] /\ queue' \subseteq Release
  BY ContinueType, StaleType DEF Write, TypeOK

LEMMA FaultType ==
  ASSUME TypeOK, NoFault \/ (\E k \in FaultKinds : Fault(k))
  PROVE  faults' \in Nat
  BY DEF TypeOK, NoFault, Fault

LEMMA WriteFailsType ==
  ASSUME TypeOK, NEW c, WriteFails(c)
  PROVE  faults' \in Nat
  BY FaultType DEF WriteFails, FaultKinds

LEMMA InitType == Init => TypeOK
  <1>. SUFFICES ASSUME Init PROVE TypeOK
    OBVIOUS
  <1>1. vw \in ValuesWorker
    BY DEF Init, IdleValuesWorker, ValuesWorker
  <1>. QED
    BY <1>1, NoObjType, NoHelmType, IdleWorkerType DEF Init, TypeOK

LEMMA UserType == ASSUME TypeOK, User PROVE TypeOK'
  <1>1. ASSUME NEW r \in Release, NEW refs \in SUBSET Values,
               NEW ver \in Version, CreateRelease(r, refs, ver)
        PROVE  TypeOK'
    <2>1. [NoObj EXCEPT !.exists = TRUE, !.refs = refs, !.ver = ver] \in Obj
      BY NoObjType DEF Obj
    <2>. QED
      BY <1>1, <2>1 DEF TypeOK, CreateRelease, UserEdit
  <1>2. ASSUME NEW r \in Release, NEW refs \in SUBSET Values,
               NEW ver \in Version, EditRelease(r, refs, ver)
        PROVE  TypeOK'
    <2>1. [rel[r] EXCEPT !.refs = refs, !.ver = ver] \in Obj
      BY ObjType DEF TypeOK
    <2>2. rel' \in [Release -> Obj] /\ ctx' \in [Release -> Worker]
      BY <1>2, <2>1, StaleType DEF TypeOK, EditRelease
    <2>3. vw' \in ValuesWorker
      BY <1>2, StaleType DEF EditRelease
    <2>. QED
      BY <1>2, <2>2, <2>3 DEF TypeOK, EditRelease, UserEdit
  <1>3. ASSUME NEW r \in Release, DeleteRelease(r)
        PROVE  TypeOK'
    <2>1. [rel[r] EXCEPT !.deleting = TRUE] \in Obj
      BY ObjType DEF TypeOK
    <2>2. rel' \in [Release -> Obj] /\ ctx' \in [Release -> Worker]
      BY <1>3, <2>1, NoObjType, StaleType DEF TypeOK, DeleteRelease
    <2>3. vw' \in ValuesWorker
      BY <1>3, StaleType DEF DeleteRelease
    <2>. QED
      BY <1>3, <2>2, <2>3 DEF TypeOK, DeleteRelease, UserEdit
  <1>4. ASSUME NEW v \in Values, EditValues(v)
        PROVE  TypeOK'
    BY <1>4 DEF TypeOK, EditValues, UserEdit
  <1>. QED
    BY <1>1, <1>2, <1>3, <1>4 DEF User

LEMMA RestartType == ASSUME TypeOK, Restart PROVE TypeOK'
  <1>1. IdleValuesWorker \in ValuesWorker
    BY DEF IdleValuesWorker, ValuesWorker
  <1>. QED
    BY <1>1, IdleWorkerType DEF TypeOK, Restart

LEMMA ValuesStepType == ASSUME TypeOK, ValuesStep PROVE TypeOK'
  <1>. USE DEF TypeOK
  <1>a. IdleValuesWorker \in ValuesWorker
    BY DEF IdleValuesWorker, ValuesWorker
  <1>b. ASSUME NEW w \in ValuesWorker PROVE NextRelease(w) \in ValuesWorker
    BY <1>a DEF NextRelease, ValuesWorker
  <1>c. ASSUME NEW r \in Release, NEW o \in Obj, NEW event,
               WriteRelease(r, o, event)
        PROVE  /\ rel' \in [Release -> Obj] /\ ctx' \in [Release -> Worker]
               /\ queue' \subseteq Release
    BY <1>c, StaleType DEF WriteRelease
  <1>d. PokeFails => faults' \in Nat
    BY FaultType DEF PokeFails, FaultKinds
  <1>1. ASSUME NEW v \in Values, StartValues(v) PROVE TypeOK'
    <2>1. [IdleValuesWorker EXCEPT !.cur = {v}, !.todo = val[v].ann]
             \in ValuesWorker
      BY <1>a DEF ValuesWorker
    <2>. QED
      BY <1>1, <2>1, <1>b DEF StartValues
  <1>2. ASSUME NEW r \in Release, GetRelease(r) PROVE TypeOK'
    <2>. DEFINE w == [vw EXCEPT !.todo = @ \ {r}]
    <2>1. w \in ValuesWorker
      BY DEF ValuesWorker
    <2>2. [w EXCEPT !.pc = "mark", !.tgt = {r}, !.fresh = TRUE] \in ValuesWorker
      BY <2>1 DEF ValuesWorker
    <2>3. NextRelease(w) \in ValuesWorker
      BY <2>1, <1>b
    <2>4. vw' \in ValuesWorker /\ skipped' \subseteq Release
      BY <1>2, <2>2, <2>3 DEF GetRelease
    <2>5. faults' \in Nat
      BY <1>2, FaultType DEF GetRelease, FaultKinds
    <2>. QED
      BY <1>2, <2>4, <2>5 DEF GetRelease
  <1>3. ASSUME NEW r \in Release, MarkUnsynced(r) PROVE TypeOK'
    <2>1. [rel[r] EXCEPT !.cond = "valueschange"] \in Obj
      BY ObjType
    <2>2. vw' \in ValuesWorker
      <3>1. [vw EXCEPT !.pc = "poke"] \in ValuesWorker
        BY DEF ValuesWorker
      <3>. QED
        BY <1>3, <3>1 DEF MarkUnsynced
    <2>3. /\ rel' \in [Release -> Obj] /\ ctx' \in [Release -> Worker]
          /\ queue' \subseteq Release /\ faults' \in Nat
      BY <1>3, <2>1, <1>c, <1>d, FaultType DEF MarkUnsynced
    <2>. QED
      BY <1>3, <2>2, <2>3 DEF MarkUnsynced
  <1>4. ASSUME NEW r \in Release, SetLabel(r) PROVE TypeOK'
    <2>1. [rel[r] EXCEPT !.label = TRUE] \in Obj
      BY ObjType
    <2>2. vw' \in ValuesWorker /\ vqueue' \subseteq Values
      BY <1>4, <1>a, <1>b DEF SetLabel, ValuesWorker
    <2>3. /\ rel' \in [Release -> Obj] /\ ctx' \in [Release -> Worker]
          /\ queue' \subseteq Release /\ faults' \in Nat
      BY <1>4, <2>1, <1>c, <1>d, FaultType DEF SetLabel
    <2>. QED
      BY <1>4, <2>2, <2>3 DEF SetLabel
  <1>. QED
    BY <1>1, <1>2, <1>3, <1>4 DEF ValuesStep

(* What getValuesByReference and updateValuesAnnotations leave in memory.  *)
LEMMA ReadReferenceType ==
  ASSUME TypeOK, NEW r \in Release, NEW v \in Values
  PROVE  LET c == ctx[r]
         IN  /\ [c EXCEPT !.todo = @ \ {v},
                          !.unreg = IF r \in val[v].ann THEN @ ELSE @ \cup {v},
                          !.ann[v] = val[v].ann,
                          !.vals[v] = val[v].data] \in Worker
             /\ [c EXCEPT !.todo = @ \ {v}] \in Worker
  <1>. DEFINE c == ctx[r]
  <1>1. c \in Worker /\ val[v].ann \in SUBSET Release /\ val[v].data \in Nat
    BY DEF TypeOK
  <1>2. /\ [c.ann EXCEPT ![v] = val[v].ann] \in [Values -> SUBSET Release]
        /\ [c.vals EXCEPT ![v] = val[v].data] \in [Values -> Nat]
    BY <1>1 DEF Worker
  <1>3. (IF r \in val[v].ann THEN c.unreg ELSE c.unreg \cup {v})
           \in SUBSET Values
    BY <1>1 DEF Worker
  <1>. QED
    BY <1>1, <1>2, <1>3 DEF Worker

LEMMA PatchReferenceType ==
  ASSUME TypeOK, NEW r \in Release, NEW v \in Values
  PROVE  LET c == ctx[r]
         IN  /\ [c EXCEPT !.unreg = @ \ {v}, !.vals[v] = Patched(c, v)] \in Worker
             /\ \A late \in SUBSET Values :
                   [c EXCEPT !.unreg = {},
                             !.vals = [u \in Values |->
                                         IF u \in c.unreg \cup late
                                         THEN 0 ELSE c.vals[u]]] \in Worker
  <1>. DEFINE c == ctx[r]
  <1>1. c \in Worker /\ Patched(c, v) \in Nat
    BY DEF TypeOK, Patched
  <1>2. [c.vals EXCEPT ![v] = Patched(c, v)] \in [Values -> Nat]
    BY <1>1 DEF Worker
  <1>3. [c EXCEPT !.unreg = @ \ {v}, !.vals[v] = Patched(c, v)] \in Worker
    BY <1>1, <1>2 DEF Worker
  <1>4. ASSUME NEW late \in SUBSET Values
        PROVE  [c EXCEPT !.unreg = {},
                         !.vals = [u \in Values |->
                                     IF u \in c.unreg \cup late
                                     THEN 0 ELSE c.vals[u]]] \in Worker
    BY <1>1 DEF Worker
  <1>. QED
    BY <1>3, <1>4

(* One lemma for the calls that only read, one for those that write the    *)
(* Release object, one for those that call helm.                           *)
LEMMA ReadStepType ==
  ASSUME TypeOK, NEW r \in Release,
         \/ StartReconcile(r) \/ LoadChart(r)
         \/ \E v \in Values : GetReference(r, v) \/ RegisterReference(r, v)
  PROVE  TypeOK'
  <1>. DEFINE c == ctx[r]
  <1>. c \in Worker /\ rel[r] \in Obj /\ c.obj \in Obj
    BY DEF TypeOK, Worker
  <1>1. CASE StartReconcile(r)
    <2>1. ctx' \in [Release -> Worker]
      BY <1>1, BeginType, IdleWorkerType DEF StartReconcile, TypeOK
    <2>. QED
      BY <1>1, <2>1 DEF StartReconcile, TypeOK
  <1>2. CASE LoadChart(r)
    <2>1. ASSUME NEW e \in BOOLEAN
          PROVE  AfterNew([c EXCEPT !.err = e]) \in Worker
      <3>1. [c EXCEPT !.err = e] \in Worker
        BY DEF Worker
      <3>. QED
        BY <3>1, AfterNewType
    <2>2. ctx' \in [Release -> Worker] /\ queue' \subseteq Release
      BY <1>2, <2>1, ContinueType DEF LoadChart
    <2>3. faults' \in Nat
      BY <1>2, FaultType DEF LoadChart, FaultKinds
    <2>. QED
      BY <1>2, <2>2, <2>3 DEF LoadChart, TypeOK
  <1>3. ASSUME NEW v \in Values, GetReference(r, v) PROVE TypeOK'
    <2>. DEFINE d == [c EXCEPT !.todo = @ \ {v},
                          !.unreg = IF r \in val[v].ann THEN @ ELSE @ \cup {v},
                          !.ann[v] = val[v].ann,
                          !.vals[v] = val[v].data]
                f == [c EXCEPT !.todo = @ \ {v}]
    <2>1. d \in Worker /\ f \in Worker
      BY ReadReferenceType
    <2>2. AfterRefs(d) \in Worker /\ AfterRefs(f) \in Worker
      BY <2>1, AfterRefsType
    <2>3. ctx' \in [Release -> Worker] /\ queue' \subseteq Release
      BY <1>3, <2>2, ContinueType DEF GetReference
    <2>4. faults' \in Nat
      BY <1>3, FaultType DEF GetReference, FaultKinds
    <2>5. skipped' \subseteq Release
      BY <1>3 DEF GetReference, TypeOK
    <2>. QED
      BY <1>3, <2>3, <2>4, <2>5 DEF GetReference, TypeOK
  <1>4. ASSUME NEW v \in Values, RegisterReference(r, v) PROVE TypeOK'
    <2>. DEFINE d == [c EXCEPT !.unreg = @ \ {v}, !.vals[v] = Patched(c, v)]
                f(late) == [c EXCEPT !.unreg = {},
                                     !.vals = [u \in Values |->
                                                 IF u \in c.unreg \cup late
                                                 THEN 0 ELSE c.vals[u]]]
    <2>1. d \in Worker /\ \A late \in SUBSET Values : f(late) \in Worker
      BY PatchReferenceType
    <2>2. ASSUME NEW late \in SUBSET Values PROVE AfterRefs(f(late)) \in Worker
      BY <2>1, AfterRefsType
    <2>3. AfterRefs(d) \in Worker
      BY <2>1, AfterRefsType
    <2>4. ctx' \in [Release -> Worker] /\ queue' \subseteq Release
      BY <1>4, <2>2, <2>3, ContinueType DEF RegisterReference
    <2>5. faults' \in Nat
      BY <1>4, FaultType DEF RegisterReference, FaultKinds
    <2>6. val' \in [Values -> [data: Nat, ann: SUBSET Release]]
      <3>1. c.ann[v] \cup {r} \in SUBSET Release
        BY DEF Worker
      <3>2. [val EXCEPT ![v].ann = c.ann[v] \cup {r}]
               \in [Values -> [data: Nat, ann: SUBSET Release]]
        BY <3>1 DEF TypeOK
      <3>3. val' = val \/ val' = [val EXCEPT ![v].ann = c.ann[v] \cup {r}]
        BY <1>4 DEF RegisterReference
      <3>. QED
        BY <3>2, <3>3 DEF TypeOK
    <2>7. skipped' \subseteq Release
      <3>1. Overwritten(v, c.ann[v] \cup {r}) \subseteq Release
        BY DEF Overwritten, TypeOK
      <3>. QED
        BY <1>4, <3>1 DEF RegisterReference, TypeOK
    <2>. QED
      BY <1>4, <2>4, <2>5, <2>6, <2>7 DEF RegisterReference, TypeOK
  <1>. QED
    BY <1>1, <1>2, <1>3, <1>4

LEMMA WriteStepType ==
  ASSUME TypeOK, NEW r \in Release,
         \/ RemoveLabel(r) \/ WriteStatus(r)
         \/ AddFinalizer(r) \/ DropFinalizer(r)
  PROVE  TypeOK'
  <1>. DEFINE c == ctx[r]
  <1>. c \in Worker /\ rel[r] \in Obj /\ c.obj \in Obj
    BY DEF TypeOK, Worker
  <1>a. Retry(c) \in Worker
    BY RetryType
  <1>1. CASE RemoveLabel(r)
    <2>. DEFINE o == [c.obj EXCEPT !.label = FALSE]
    <2>1. o \in Obj
      BY DEF Obj
    <2>2. [c EXCEPT !.obj = o] \in Worker
      BY <2>1 DEF Worker
    <2>3. /\ rel' \in [Release -> Obj] /\ vw' \in ValuesWorker
          /\ ctx' \in [Release -> Worker] /\ queue' \subseteq Release
      BY <1>1, <1>a, <2>1, <2>2, WriteType, ContinueType
         DEF RemoveLabel, TypeOK
    <2>4. faults' \in Nat
      BY <1>1, FaultType, WriteFailsType DEF RemoveLabel
    <2>. QED
      BY <1>1, <2>3, <2>4 DEF RemoveLabel, TypeOK
  <1>2. CASE WriteStatus(r)
    <2>. DEFINE o == [c.obj EXCEPT !.cond = c.goal, !.rev = c.hrev]
    <2>1. o \in Obj
      BY DEF Obj, Worker, Goal, Cond
    <2>2. [c EXCEPT !.obj = o] \in Worker
      BY <2>1 DEF Worker
    <2>3. AfterSync([c EXCEPT !.obj = o]) \in Worker /\ AfterSync(c) \in Worker
      BY <2>2, AfterSyncType
    <2>4. /\ rel' \in [Release -> Obj] /\ vw' \in ValuesWorker
          /\ ctx' \in [Release -> Worker] /\ queue' \subseteq Release
      BY <1>2, <1>a, <2>1, <2>3, WriteType, ContinueType
         DEF WriteStatus, TypeOK
    <2>5. faults' \in Nat
      BY <1>2, FaultType, WriteFailsType DEF WriteStatus
    <2>. QED
      BY <1>2, <2>4, <2>5 DEF WriteStatus, TypeOK
  <1>3. CASE AddFinalizer(r)
    <2>. DEFINE o == [c.obj EXCEPT !.fin = TRUE]
    <2>1. o \in Obj
      BY DEF Obj
    <2>2. [c EXCEPT !.pc = "helm", !.obj = o] \in Worker
      BY <2>1 DEF Worker, ReleasePC
    <2>3. /\ rel' \in [Release -> Obj] /\ vw' \in ValuesWorker
          /\ ctx' \in [Release -> Worker] /\ queue' \subseteq Release
      BY <1>3, <1>a, <2>1, <2>2, WriteType, ContinueType
         DEF AddFinalizer, TypeOK
    <2>4. faults' \in Nat
      BY <1>3, FaultType, WriteFailsType DEF AddFinalizer
    <2>. QED
      BY <1>3, <2>3, <2>4 DEF AddFinalizer, TypeOK
  <1>4. CASE DropFinalizer(r)
    <2>1. /\ rel' \in [Release -> Obj] /\ vw' \in ValuesWorker
          /\ ctx' \in [Release -> Worker] /\ queue' \subseteq Release
      BY <1>4, <1>a, NoObjType, WriteType, ContinueType
         DEF DropFinalizer, TypeOK
    <2>2. faults' \in Nat
      BY <1>4, FaultType, WriteFailsType DEF DropFinalizer
    <2>. QED
      BY <1>4, <2>1, <2>2 DEF DropFinalizer, TypeOK
  <1>. QED
    BY <1>1, <1>2, <1>3, <1>4

LEMMA HelmBeginType ==
  ASSUME NEW c \in Worker, NEW rev \in Nat \ {0}
  PROVE  [c EXCEPT !.pc = "helmRun", !.hrev = rev - 1] \in Worker
  <1>1. rev - 1 \in Nat
    OBVIOUS
  <1>. QED
    BY <1>1 DEF Worker, ReleasePC

LEMMA HelmStepType ==
  ASSUME TypeOK, NEW r \in Release,
         RemoveRelease(r) \/ Install(r) \/ KeepRelease(r) \/ Upgrade(r) \/ HelmEnd(r)
  PROVE  TypeOK'
  <1>. DEFINE c == ctx[r]
  <1>. c \in Worker /\ helm[r] \in HelmRecord /\ helm[r].rev \in Nat
       /\ c.hrev \in Nat
    BY DEF TypeOK, Worker, HelmRecord
  <1>a. ASSUME NEW goal \in Goal, NEW rev \in Nat
        PROVE  Sync(c, goal, rev) \in Worker
    BY SyncType
  <1>b. Retry(c) \in Worker /\ [c EXCEPT !.pc = "drop"] \in Worker
    BY RetryType DEF Worker, ReleasePC
  <1>c. ASSUME NEW rev \in Nat \ {0}, HelmBegin(r, c, rev)
        PROVE  /\ helm' \in [Release -> HelmRecord]
               /\ ctx' \in [Release -> Worker] /\ queue' \subseteq Release
    <2>1. [st |-> "pending", rev |-> rev, vals |-> c.vals, ver |-> c.obj.ver]
             \in HelmRecord
      BY DEF HelmRecord, Worker, Obj
    <2>2. [c EXCEPT !.pc = "helmRun", !.hrev = rev - 1] \in Worker
      BY HelmBeginType
    <2>. QED
      BY <1>c, <2>1, <2>2, ContinueType DEF HelmBegin, TypeOK
  <1>d. "updateFailed" \in Goal /\ "success" \in Goal
    BY DEF Goal
  <1>e. ASSUME NEW st \in {"uninstalling", "deployed", "failed"}
        PROVE  [helm EXCEPT ![r].st = st] \in [Release -> HelmRecord]
    BY DEF TypeOK, HelmRecord
  <1>1. CASE RemoveRelease(r)
    <2>1. ctx' \in [Release -> Worker] /\ queue' \subseteq Release
      BY <1>1, <1>b, ContinueType DEF RemoveRelease
    <2>2. helm' \in [Release -> HelmRecord]
      BY <1>1, <1>e, NoHelmType DEF RemoveRelease, TypeOK
    <2>3. faults' \in Nat
      BY <1>1, FaultType DEF RemoveRelease, FaultKinds
    <2>. QED
      BY <1>1, <2>1, <2>2, <2>3 DEF RemoveRelease, TypeOK
  <1>2. CASE Install(r)
    <2>1. /\ helm' \in [Release -> HelmRecord]
          /\ ctx' \in [Release -> Worker] /\ queue' \subseteq Release
      <3>1. CASE HelmBegin(r, c, 1)
        BY <3>1, <1>c
      <3>2. CASE Continue(r, Sync(c, "updateFailed", 0), FALSE) /\ UNCHANGED helm
        BY <3>2, <1>a, <1>d, ContinueType DEF TypeOK
      <3>. QED
        BY <1>2, <3>1, <3>2 DEF Install
    <2>2. faults' \in Nat
      BY <1>2, FaultType DEF Install, FaultKinds
    <2>. QED
      BY <1>2, <2>1, <2>2 DEF Install, TypeOK
  <1>3. CASE KeepRelease(r)
    BY <1>3, <1>a, <1>d, ContinueType, FaultType DEF KeepRelease, TypeOK
  <1>4. CASE Upgrade(r)
    <2>1. /\ helm' \in [Release -> HelmRecord]
          /\ ctx' \in [Release -> Worker] /\ queue' \subseteq Release
      <3>1. CASE HelmBegin(r, c, helm[r].rev + 1)
        <4>1. helm[r].rev + 1 \in Nat \ {0}
          OBVIOUS
        <4>. QED
          BY <3>1, <4>1, <1>c
      <3>2. CASE /\ Continue(r, Sync(c, "updateFailed", helm[r].rev), FALSE)
                 /\ UNCHANGED helm
        BY <3>2, <1>a, <1>d, ContinueType DEF TypeOK
      <3>. QED
        BY <1>4, <3>1, <3>2 DEF Upgrade
    <2>2. faults' \in Nat
      BY <1>4, FaultType DEF Upgrade, FaultKinds
    <2>. QED
      BY <1>4, <2>1, <2>2 DEF Upgrade, TypeOK
  <1>5. CASE HelmEnd(r)
    <2>1. ctx' \in [Release -> Worker] /\ queue' \subseteq Release
      BY <1>5, <1>a, <1>d, ContinueType DEF HelmEnd
    <2>2. helm' \in [Release -> HelmRecord]
      BY <1>5, <1>e DEF HelmEnd
    <2>3. faults' \in Nat
      BY <1>5, FaultType DEF HelmEnd, FaultKinds
    <2>. QED
      BY <1>5, <2>1, <2>2, <2>3 DEF HelmEnd, TypeOK
  <1>. QED
    BY <1>1, <1>2, <1>3, <1>4, <1>5

LEMMA StepType == TypeOK /\ [Next]_vars => TypeOK'
  <1>. SUFFICES ASSUME TypeOK, [Next]_vars PROVE TypeOK'
    OBVIOUS
  <1>1. ASSUME NEW r \in Release, ReleaseStep(r) PROVE TypeOK'
    BY <1>1, ReadStepType, WriteStepType, HelmStepType DEF ReleaseStep
  <1>2. CASE UNCHANGED vars
    BY <1>2 DEF vars, TypeOK
  <1>. QED
    BY <1>1, <1>2, ValuesStepType, UserType, RestartType DEF Next

(* Every variable keeps its type, whatever the constants: in particular a  *)
(* worker's revision counter never goes below zero, and every control-flow *)
(* operator yields a state the worker has.                                 *)
THEOREM TypeCorrect == Spec => []TypeOK
  BY InitType, StepType, PTL DEF Spec
-----------------------------------------------------------------------------
(* Ownership.                                                              *)

ReliableLookup == "lookup" \notin Faults

(* The object o and helm's record h of the same release.                   *)
Sound(o, h) == /\ ReliableLookup /\ h.st # "none" => o.exists /\ o.fin
               /\ h.st = "none" <=> h.rev = 0
               /\ o.deleting => o.exists /\ o.fin

(* What worker c knows about its object o.                                 *)
Holds(o, c) == /\ c.obj.exists
               /\ c.fresh => o = c.obj
               /\ c.obj.fin => o.exists /\ o.fin
               /\ c.obj.deleting => o.deleting /\ c.obj.fin

(* What it has made sure of before the call it makes next.                 *)
AtCall(h, c) == /\ c.pc \in {"helm", "helmRun"} => c.obj.fin
                /\ c.pc = "helmRun" => h.st # "none"
                /\ c.pc = "adopt" => ~c.obj.fin /\ ~c.obj.deleting
                /\ c.pc \in {"remove", "drop"} => c.obj.deleting
                /\ ReliableLookup /\ c.pc = "drop" => h.st = "none"

Works(o, h, c) == c.pc # "idle" => Holds(o, c) /\ AtCall(h, c)

OwnershipInv == /\ TypeOK
                /\ \A r \in Release : /\ Sound(rel[r], helm[r])
                                      /\ Works(rel[r], helm[r], ctx[r])

-----------------------------------------------------------------------------
(* The control flow keeps what a worker knows.                             *)

LEMMA AfterInitWorks ==
  ASSUME NEW c \in Worker, NEW o, NEW h, Holds(o, c)
  PROVE  Works(o, h, AfterInit(c))
  BY DEF AfterInit, Retry, Sync, Works, Holds, AtCall, Worker

LEMMA AfterNewWorks ==
  ASSUME NEW c \in Worker, NEW o, NEW h, Holds(o, c)
  PROVE  Works(o, h, AfterNew(c))
  <1>1. Works(o, h, Sync(c, "init", 0))
    BY DEF Sync, Works, Holds, AtCall, Worker
  <1>. QED
    BY <1>1, AfterInitWorks DEF AfterNew

LEMMA RetryWorks ==
  ASSUME NEW c \in Worker, NEW o, NEW h, Holds(o, c)
  PROVE  Works(o, h, Retry(c)) /\ Works(o, h, Done(c))
  BY DEF Retry, Done, Works, Holds, AtCall, Worker

LEMMA SyncWorks ==
  ASSUME NEW c \in Worker, NEW goal, NEW rev, NEW o, NEW h, Holds(o, c)
  PROVE  Works(o, h, Sync(c, goal, rev))
  BY DEF Sync, Works, Holds, AtCall, Worker

LEMMA AfterSyncWorks ==
  ASSUME NEW c \in Worker, NEW o, NEW h, Holds(o, c)
  PROVE  Works(o, h, AfterSync(c))
  BY AfterInitWorks, RetryWorks DEF AfterSync

LEMMA AfterRefsWorks ==
  ASSUME NEW c \in Worker, NEW o, NEW h, Holds(o, c)
  PROVE  Works(o, h, AfterRefs(c))
  BY DEF AfterRefs, Works, Holds, AtCall, Worker

LEMMA BeginWorks ==
  ASSUME NEW o \in Obj, NEW h, o.exists, o.deleting => o.fin
  PROVE  Works(o, h, Begin(o))
  <1>. DEFINE c == [IdleWorker EXCEPT !.obj = o, !.fresh = TRUE]
              d == [c EXCEPT !.todo = o.refs]
  <1>1. c \in Worker /\ d \in Worker
    BY IdleWorkerType DEF Worker, Obj
  <1>2. Holds(o, c) /\ Holds(o, d)
    BY IdleWorkerType DEF Holds, Worker
  <1>. QED
    BY <1>1, <1>2, AfterNewWorks, AfterRefsWorks DEF Begin

(* A worker that leaves knows nothing and promises nothing.                *)
LEMMA ContinueWorks ==
  ASSUME TypeOK, NEW r \in Release, NEW c \in Worker, NEW event, NEW o, NEW h,
         Works(o, h, c), Continue(r, c, event)
  PROVE  /\ Works(o, h, ctx'[r])
         /\ \A x \in Release \ {r} : ctx'[x] = ctx[x]
  BY DEF Continue, TypeOK, Works, IdleWorker

(* A step that leaves all releases but r alone.                            *)
LEMMA FrameOwnership ==
  ASSUME OwnershipInv, TypeOK', NEW r \in Release,
         \A x \in Release \ {r} :
            rel'[x] = rel[x] /\ helm'[x] = helm[x] /\ ctx'[x] = ctx[x],
         Sound(rel'[r], helm'[r]), Works(rel'[r], helm'[r], ctx'[r])
  PROVE  OwnershipInv'
  BY DEF OwnershipInv

(* A write by another actor: whatever it does to the object, it keeps the  *)
(* finalizer and the deletion, and the worker's copy becomes stale.        *)
LEMMA ForeignWrite ==
  ASSUME NEW o \in Obj, NEW p \in Obj, NEW h, NEW c \in Worker,
         Sound(o, h), Works(o, h, c),
         o.exists => p.exists, p.fin = o.fin, o.deleting => p.deleting,
         p.deleting => p.exists /\ p.fin
  PROVE  Sound(p, h) /\ Works(p, h, StaleWorker(c))
  BY DEF Sound, Works, Holds, AtCall, StaleWorker, Worker

-----------------------------------------------------------------------------
(* Every step preserves the invariant.                                     *)

LEMMA InitOwnership == Init => OwnershipInv
  BY InitType
     DEF Init, OwnershipInv, Sound, Works, NoObj, NoHelm, IdleWorker

LEMMA UserOwnership == ASSUME OwnershipInv, User PROVE OwnershipInv'
  <1>t. TypeOK'
    BY UserType DEF OwnershipInv
  <1>. USE DEF OwnershipInv
  <1>1. ASSUME NEW r \in Release, NEW refs \in SUBSET Values,
               NEW ver \in Version, CreateRelease(r, refs, ver)
        PROVE  OwnershipInv'
    <2>1. /\ rel'[r].exists /\ ~rel'[r].deleting /\ ~rel[r].exists
          /\ helm' = helm /\ ctx' = ctx
          /\ \A x \in Release \ {r} : rel'[x] = rel[x]
      BY <1>1 DEF CreateRelease, TypeOK, NoObj
    <2>2. Sound(rel[r], helm[r]) /\ Works(rel[r], helm[r], ctx[r])
      OBVIOUS
    <2>3. Sound(rel'[r], helm'[r])
      BY <2>1, <2>2 DEF Sound
    <2>4. Works(rel'[r], helm'[r], ctx'[r])
      BY <2>1, <2>2 DEF Works, Holds, AtCall, Sound
    <2>. QED
      BY <1>t, <2>1, <2>3, <2>4, FrameOwnership
  <1>2. ASSUME NEW r \in Release, NEW refs \in SUBSET Values,
               NEW ver \in Version, EditRelease(r, refs, ver)
        PROVE  OwnershipInv'
    <2>1. /\ rel'[r].exists = rel[r].exists
          /\ rel'[r].fin = rel[r].fin
          /\ rel'[r].deleting = rel[r].deleting
          /\ helm' = helm /\ ctx'[r] = StaleWorker(ctx[r])
          /\ \A x \in Release \ {r} : rel'[x] = rel[x] /\ ctx'[x] = ctx[x]
      BY <1>2 DEF EditRelease, TypeOK, Obj
    <2>2. Sound(rel'[r], helm'[r]) /\ Works(rel'[r], helm'[r], ctx'[r])
      <3>1. rel[r] \in Obj /\ rel'[r] \in Obj /\ ctx[r] \in Worker
        BY <1>t DEF TypeOK
      <3>2. Sound(rel[r], helm[r]) /\ Works(rel[r], helm[r], ctx[r])
        OBVIOUS
      <3>3. rel[r].deleting => rel[r].exists /\ rel[r].fin
        BY <3>2 DEF Sound
      <3>. QED
        BY <2>1, <3>1, <3>2, <3>3, ForeignWrite
    <2>. QED
      BY <1>t, <2>1, <2>2, FrameOwnership
  <1>3. ASSUME NEW r \in Release, DeleteRelease(r) PROVE OwnershipInv'
    <2>1. /\ helm' = helm /\ ctx'[r] = StaleWorker(ctx[r])
          /\ \A x \in Release \ {r} : rel'[x] = rel[x] /\ ctx'[x] = ctx[x]
      BY <1>3 DEF DeleteRelease, TypeOK
    <2>2. rel[r] \in Obj /\ rel'[r] \in Obj /\ ctx[r] \in Worker
      BY <1>t DEF TypeOK
    <2>3. Sound(rel[r], helm[r]) /\ Works(rel[r], helm[r], ctx[r])
      OBVIOUS
    <2>4. Sound(rel'[r], helm'[r]) /\ Works(rel'[r], helm'[r], ctx'[r])
      <3>1. CASE rel[r].fin
        <4>1. rel'[r] = [rel[r] EXCEPT !.deleting = TRUE] /\ rel[r].exists
          BY <1>3, <3>1 DEF DeleteRelease, TypeOK
        <4>2. /\ rel'[r].exists /\ rel'[r].fin /\ rel'[r].deleting
          BY <4>1, <2>2, <3>1 DEF Obj
        <4>. QED
          BY <2>1, <2>2, <2>3, <3>1, <4>2, ForeignWrite
      <3>2. CASE ~rel[r].fin
        <4>1. rel'[r] = NoObj
          BY <1>3, <3>2 DEF DeleteRelease, TypeOK
        <4>2. Sound(rel'[r], helm'[r])
          BY <2>1, <2>3, <3>2, <4>1 DEF Sound, NoObj
        <4>3. Works(rel'[r], helm'[r], ctx'[r])
          BY <2>1, <2>2, <2>3, <3>2, <4>1
             DEF Works, Holds, AtCall, StaleWorker, Worker
        <4>. QED
          BY <4>2, <4>3
      <3>. QED
        BY <3>1, <3>2
    <2>. QED
      BY <1>t, <2>1, <2>4, FrameOwnership
  <1>4. ASSUME NEW v \in Values, EditValues(v) PROVE OwnershipInv'
    BY <1>t, <1>4 DEF EditValues
  <1>. QED
    BY <1>1, <1>2, <1>3, <1>4 DEF User

LEMMA RestartOwnership == ASSUME OwnershipInv, Restart PROVE OwnershipInv'
  <1>1. TypeOK'
    BY RestartType DEF OwnershipInv
  <1>. QED
    BY <1>1 DEF OwnershipInv, Restart, Works, IdleWorker

(* The values worker only changes the condition and the label.             *)
LEMMA ValuesStepOwnership == ASSUME OwnershipInv, ValuesStep PROVE OwnershipInv'
  <1>t. TypeOK'
    BY ValuesStepType DEF OwnershipInv
  <1>1. ASSUME NEW r \in Release, NEW o \in Obj, NEW event, WriteRelease(r, o, event),
               o.exists = rel[r].exists, o.fin = rel[r].fin,
               o.deleting = rel[r].deleting, UNCHANGED helm
        PROVE  OwnershipInv'
    <2>1. /\ rel'[r] = o /\ ctx'[r] = StaleWorker(ctx[r])
          /\ \A x \in Release \ {r} : rel'[x] = rel[x] /\ ctx'[x] = ctx[x]
      BY <1>1 DEF WriteRelease, OwnershipInv, TypeOK
    <2>2. rel[r] \in Obj /\ ctx[r] \in Worker
      BY DEF OwnershipInv, TypeOK
    <2>3. Sound(rel[r], helm[r]) /\ Works(rel[r], helm[r], ctx[r])
      BY DEF OwnershipInv
    <2>4. rel[r].deleting => rel[r].exists /\ rel[r].fin
      BY <2>3 DEF Sound
    <2>5. Sound(rel'[r], helm'[r]) /\ Works(rel'[r], helm'[r], ctx'[r])
      BY <1>1, <2>1, <2>2, <2>3, <2>4, ForeignWrite
    <2>. QED
      BY <1>t, <1>1, <2>1, <2>5, FrameOwnership
  <1>2. ASSUME UNCHANGED <<rel, helm, ctx>> PROVE OwnershipInv'
    BY <1>t, <1>2 DEF OwnershipInv
  <1>3. ASSUME NEW r \in Release, MarkUnsynced(r) PROVE OwnershipInv'
    <2>. DEFINE o == [rel[r] EXCEPT !.cond = "valueschange"]
    <2>1. o \in Obj /\ o.exists = rel[r].exists /\ o.fin = rel[r].fin
          /\ o.deleting = rel[r].deleting
      <3>1. rel[r] \in Obj
        BY DEF OwnershipInv, TypeOK
      <3>. QED
        BY <3>1, ObjType DEF Obj
    <2>. QED
      BY <1>1, <1>2, <1>3, <2>1 DEF MarkUnsynced
  <1>4. ASSUME NEW r \in Release, SetLabel(r) PROVE OwnershipInv'
    <2>. DEFINE o == [rel[r] EXCEPT !.label = TRUE]
    <2>1. o \in Obj /\ o.exists = rel[r].exists /\ o.fin = rel[r].fin
          /\ o.deleting = rel[r].deleting
      <3>1. rel[r] \in Obj
        BY DEF OwnershipInv, TypeOK
      <3>. QED
        BY <3>1, ObjType DEF Obj
    <2>. QED
      BY <1>1, <1>2, <1>4, <2>1 DEF SetLabel
  <1>. QED
    BY <1>2, <1>3, <1>4 DEF ValuesStep, StartValues, GetRelease

(* What an active worker may rely on.                                      *)
LEMMA Active ==
  ASSUME OwnershipInv, NEW r \in Release, ctx[r].pc # "idle"
  PROVE  /\ ctx[r] \in Worker /\ ctx[r].obj \in Obj
         /\ rel[r] \in Obj /\ helm[r] \in HelmRecord
         /\ Sound(rel[r], helm[r])
         /\ Holds(rel[r], ctx[r]) /\ AtCall(helm[r], ctx[r])
  BY DEF OwnershipInv, TypeOK, Works, Worker

LEMMA ContinueOwnership ==
  ASSUME OwnershipInv, TypeOK', NEW r \in Release, NEW d \in Worker, NEW event,
         Continue(r, d, event), UNCHANGED rel,
         \A x \in Release \ {r} : helm'[x] = helm[x],
         Sound(rel[r], helm'[r]), Works(rel[r], helm'[r], d)
  PROVE  OwnershipInv'
  <1>1. TypeOK
    BY DEF OwnershipInv
  <1>2. /\ Works(rel[r], helm'[r], ctx'[r])
        /\ \A x \in Release \ {r} : ctx'[x] = ctx[x]
    BY <1>1, ContinueWorks
  <1>. QED
    BY <1>2, FrameOwnership

LEMMA WriteOwnership ==
  ASSUME OwnershipInv, TypeOK', NEW r \in Release, NEW o, NEW d \in Worker,
         NEW event, Write(r, o, d, event), UNCHANGED helm,
         Sound(o, helm[r]), Works(o, helm[r], d)
  PROVE  OwnershipInv'
  <1>1. TypeOK
    BY DEF OwnershipInv
  <1>2. rel'[r] = o /\ \A x \in Release \ {r} : rel'[x] = rel[x]
    BY <1>1 DEF Write, TypeOK
  <1>3. Continue(r, d, event)
    BY DEF Write
  <1>4. /\ Works(o, helm[r], ctx'[r])
        /\ \A x \in Release \ {r} : ctx'[x] = ctx[x]
    BY <1>1, <1>3, ContinueWorks
  <1>. QED
    BY <1>2, <1>4, FrameOwnership

LEMMA ReadStepOwnership ==
  ASSUME OwnershipInv, NEW r \in Release,
         \/ StartReconcile(r) \/ LoadChart(r)
         \/ \E v \in Values : GetReference(r, v) \/ RegisterReference(r, v)
  PROVE  OwnershipInv'
  <1>. DEFINE c == ctx[r]
  <1>t. TypeOK /\ TypeOK'
    BY ReadStepType DEF OwnershipInv
  <1>s. Sound(rel[r], helm[r]) /\ c \in Worker
    BY DEF OwnershipInv, TypeOK
  <1>1. CASE StartReconcile(r)
    <2>1. CASE rel[r].exists
      <3>1. Works(rel[r], helm[r], Begin(rel[r]))
        BY <1>t, <1>s, <2>1, BeginWorks DEF Sound, TypeOK
      <3>2. ctx' = [ctx EXCEPT ![r] = Begin(rel[r])]
        BY <1>1, <2>1 DEF StartReconcile
      <3>. QED
        BY <1>t, <1>s, <1>1, <3>1, <3>2, FrameOwnership
           DEF StartReconcile, TypeOK
    <2>2. CASE ~rel[r].exists
      BY <1>t, <1>s, <1>1, <2>2, FrameOwnership
         DEF StartReconcile, TypeOK, Works, IdleWorker
    <2>. QED
      BY <2>1, <2>2
  <1>2. CASE LoadChart(r)
    <2>1. Holds(rel[r], c)
      BY <1>2, Active DEF LoadChart
    <2>2. ASSUME NEW e \in BOOLEAN
          PROVE  /\ AfterNew([c EXCEPT !.err = e]) \in Worker
                 /\ Works(rel[r], helm[r], AfterNew([c EXCEPT !.err = e]))
      <3>1. [c EXCEPT !.err = e] \in Worker /\ Holds(rel[r], [c EXCEPT !.err = e])
        BY <1>s, <2>1 DEF Worker, Holds
      <3>. QED
        BY <3>1, AfterNewType, AfterNewWorks
    <2>3. /\ UNCHANGED <<rel, helm>>
          /\ \E e \in BOOLEAN : Continue(r, AfterNew([c EXCEPT !.err = e]), FALSE)
      BY <1>2 DEF LoadChart
    <2>. QED
      BY <1>t, <1>s, <2>2, <2>3, ContinueOwnership
  <1>3. ASSUME NEW d \in Worker, d.obj = c.obj, d.fresh = c.fresh,
               c.pc # "idle", Continue(r, AfterRefs(d), FALSE),
               UNCHANGED <<rel, helm>>
        PROVE  OwnershipInv'
    <2>1. Holds(rel[r], d)
      BY <1>3, Active DEF Holds
    <2>2. AfterRefs(d) \in Worker /\ Works(rel[r], helm[r], AfterRefs(d))
      BY <2>1, AfterRefsType, AfterRefsWorks
    <2>. QED
      BY <1>t, <1>s, <1>3, <2>2, ContinueOwnership
  <1>4. ASSUME NEW v \in Values, GetReference(r, v) PROVE OwnershipInv'
    <2>. DEFINE d == [c EXCEPT !.todo = @ \ {v},
                          !.unreg = IF r \in val[v].ann THEN @ ELSE @ \cup {v},
                          !.ann[v] = val[v].ann,
                          !.vals[v] = val[v].data]
                f == [c EXCEPT !.todo = @ \ {v}]
    <2>1. d \in Worker /\ f \in Worker
      BY <1>t, ReadReferenceType
    <2>2. d.obj = c.obj /\ d.fresh = c.fresh /\ f.obj = c.obj /\ f.fresh = c.fresh
      BY <1>s DEF Worker
    <2>3. /\ Continue(r, AfterRefs(d), FALSE) \/ Continue(r, AfterRefs(f), FALSE)
          /\ UNCHANGED <<rel, helm>> /\ c.pc # "idle"
      BY <1>4 DEF GetReference
    <2>. QED
      BY <2>1, <2>2, <2>3, <1>3
  <1>5. ASSUME NEW v \in Values, RegisterReference(r, v) PROVE OwnershipInv'
    <2>. DEFINE d == [c EXCEPT !.unreg = @ \ {v}, !.vals[v] = Patched(c, v)]
                f(late) == [c EXCEPT !.unreg = {},
                                     !.vals = [u \in Values |->
                                                 IF u \in c.unreg \cup late
                                                 THEN 0 ELSE c.vals[u]]]
    <2>1. d \in Worker /\ \A late \in SUBSET Values : f(late) \in Worker
      BY <1>t, PatchReferenceType
    <2>2. /\ d.obj = c.obj /\ d.fresh = c.fresh
          /\ \A late : f(late).obj = c.obj /\ f(late).fresh = c.fresh
      BY <1>s DEF Worker
    <2>3. /\ \/ Continue(r, AfterRefs(d), FALSE)
             \/ \E late \in SUBSET Values : Continue(r, AfterRefs(f(late)), FALSE)
          /\ UNCHANGED <<rel, helm>> /\ c.pc # "idle"
      BY <1>5 DEF RegisterReference
    <2>. QED
      BY <2>1, <2>2, <2>3, <1>3
  <1>. QED
    BY <1>1, <1>2, <1>4, <1>5

LEMMA WriteStepOwnership ==
  ASSUME OwnershipInv, NEW r \in Release,
         \/ RemoveLabel(r) \/ WriteStatus(r)
         \/ AddFinalizer(r) \/ DropFinalizer(r)
  PROVE  OwnershipInv'
  <1>. DEFINE c == ctx[r]
  <1>t. TypeOK /\ TypeOK'
    BY WriteStepType DEF OwnershipInv
  <1>a. c.pc # "idle"
    BY DEF RemoveLabel, WriteStatus, AddFinalizer, DropFinalizer
  <1>b. /\ c \in Worker /\ c.obj \in Obj /\ Sound(rel[r], helm[r])
        /\ Holds(rel[r], c) /\ AtCall(helm[r], c)
    BY <1>a, Active
  <1>. HIDE DEF c
  <1>c. ASSUME Continue(r, Retry(c), FALSE), UNCHANGED <<rel, helm>>
        PROVE  OwnershipInv'
    BY <1>t, <1>b, <1>c, RetryType, RetryWorks, ContinueOwnership
  <1>1. CASE RemoveLabel(r)
    <2>. DEFINE o == [c.obj EXCEPT !.label = FALSE]
                d == [c EXCEPT !.obj = o]
    <2>1. ASSUME c.fresh, Write(r, o, d, UpdatePasses(o)), UNCHANGED helm
          PROVE  OwnershipInv'
      <3>1. d \in Worker
        BY <1>b DEF Worker, Obj
      <3>2. c.pc = "sync"
        BY <1>1 DEF RemoveLabel, c
      <3>3. Sound(o, helm[r]) /\ Works(o, helm[r], d)
        BY <1>b, <2>1, <3>2 DEF Sound, Works, Holds, AtCall, Worker, Obj
      <3>. QED
        BY <1>t, <2>1, <3>1, <3>3, WriteOwnership
    <2>. QED
      BY <1>1, <1>c, <2>1 DEF RemoveLabel, c
  <1>2. CASE WriteStatus(r)
    <2>. DEFINE o == [c.obj EXCEPT !.cond = c.goal, !.rev = c.hrev]
                d == [c EXCEPT !.obj = o]
    <2>1. ASSUME c.fresh, Write(r, o, AfterSync(d), UpdatePasses(o)),
                 UNCHANGED helm
          PROVE  OwnershipInv'
      <3>1. o \in Obj
        BY <1>b DEF Worker, Obj, Goal, Cond
      <3>2. d \in Worker
        BY <1>b, <3>1 DEF Worker
      <3>3. Sound(o, helm[r]) /\ Holds(o, d)
        BY <1>b, <2>1 DEF Sound, Holds, Worker, Obj
      <3>4. AfterSync(d) \in Worker /\ Works(o, helm[r], AfterSync(d))
        BY <3>2, <3>3, AfterSyncType, AfterSyncWorks
      <3>. QED
        BY <1>t, <2>1, <3>3, <3>4, WriteOwnership
    <2>2. ASSUME Continue(r, AfterSync(c), FALSE), UNCHANGED <<rel, helm>>
          PROVE  OwnershipInv'
      BY <1>t, <1>b, <2>2, AfterSyncType, AfterSyncWorks, ContinueOwnership
    <2>. QED
      BY <1>2, <1>c, <2>1, <2>2 DEF WriteStatus, c
  <1>3. CASE AddFinalizer(r)
    <2>. DEFINE o == [c.obj EXCEPT !.fin = TRUE]
                d == [c EXCEPT !.pc = "helm", !.obj = o]
    <2>1. ASSUME c.fresh, Write(r, o, d, UpdatePasses(o)), UNCHANGED helm
          PROVE  OwnershipInv'
      <3>1. d \in Worker
        BY <1>b DEF Worker, Obj, ReleasePC
      <3>2. c.pc = "adopt"
        BY <1>3 DEF AddFinalizer, c
      <3>3. Sound(o, helm[r]) /\ Works(o, helm[r], d)
        BY <1>b, <2>1, <3>2 DEF Sound, Works, Holds, AtCall, Worker, Obj
      <3>. QED
        BY <1>t, <2>1, <3>1, <3>3, WriteOwnership
    <2>. QED
      BY <1>3, <1>c, <2>1 DEF AddFinalizer, c
  <1>4. CASE DropFinalizer(r)
    <2>1. ASSUME Write(r, NoObj, Retry(c), TRUE), UNCHANGED helm
          PROVE  OwnershipInv'
      <3>1. /\ rel'[r] = NoObj /\ ctx'[r] = IdleWorker
            /\ \A x \in Release \ {r} : rel'[x] = rel[x] /\ ctx'[x] = ctx[x]
        BY <1>t, <1>b, <2>1 DEF Write, Continue, Retry, TypeOK, Worker
      <3>2. ReliableLookup => helm[r].st = "none"
        BY <1>4, <1>b DEF DropFinalizer, AtCall, c
      <3>3. Sound(rel'[r], helm'[r])
        BY <1>b, <2>1, <3>1, <3>2 DEF Sound, NoObj
      <3>4. Works(rel'[r], helm'[r], ctx'[r])
        BY <3>1 DEF Works, IdleWorker
      <3>. QED
        BY <1>t, <2>1, <3>1, <3>3, <3>4, FrameOwnership
    <2>. QED
      BY <1>4, <1>c, <2>1 DEF DropFinalizer, c
  <1>. QED
    BY <1>1, <1>2, <1>3, <1>4

LEMMA HelmStepOwnership ==
  ASSUME OwnershipInv, NEW r \in Release,
         RemoveRelease(r) \/ Install(r) \/ KeepRelease(r) \/ Upgrade(r) \/ HelmEnd(r)
  PROVE  OwnershipInv'
  <1>. DEFINE c == ctx[r]
  <1>t. TypeOK /\ TypeOK'
    BY HelmStepType DEF OwnershipInv
  <1>a. c.pc # "idle"
    BY DEF RemoveRelease, Install, KeepRelease, Upgrade, HelmEnd
  <1>b. /\ c \in Worker /\ c.obj \in Obj /\ Sound(rel[r], helm[r])
        /\ Holds(rel[r], c) /\ AtCall(helm[r], c)
        /\ helm[r] \in HelmRecord /\ UNCHANGED rel
    BY <1>a, Active DEF RemoveRelease, Install, KeepRelease, Upgrade, HelmEnd
  <1>. HIDE DEF c
  <1>c. ASSUME NEW d \in Worker, Continue(r, d, FALSE), UNCHANGED helm,
               Works(rel[r], helm[r], d)
        PROVE  OwnershipInv'
    BY <1>t, <1>b, <1>c, ContinueOwnership
  <1>d. ASSUME NEW d \in Worker, Continue(r, d, FALSE), NEW h,
               helm' = [helm EXCEPT ![r] = h],
               Sound(rel[r], h), Works(rel[r], h, d)
        PROVE  OwnershipInv'
    <2>1. helm'[r] = h /\ \A x \in Release \ {r} : helm'[x] = helm[x]
      BY <1>t, <1>d DEF TypeOK
    <2>. QED
      BY <1>t, <1>b, <1>d, <2>1, ContinueOwnership
  <1>e. ASSUME NEW goal \in Goal, NEW rev \in Nat,
               Continue(r, Sync(c, goal, rev), FALSE), UNCHANGED helm
        PROVE  OwnershipInv'
    BY <1>b, <1>c, <1>e, SyncType, SyncWorks
  <1>f. ASSUME NEW rev \in Nat \ {0}, HelmBegin(r, c, rev), c.pc = "helm"
        PROVE  OwnershipInv'
    <2>. DEFINE d == [c EXCEPT !.pc = "helmRun", !.hrev = rev - 1]
                h == [st |-> "pending", rev |-> rev,
                      vals |-> c.vals, ver |-> c.obj.ver]
    <2>1. d \in Worker
      BY <1>b, HelmBeginType
    <2>2. c.obj.fin
      BY <1>b, <1>f DEF AtCall
    <2>3. Sound(rel[r], h) /\ Works(rel[r], h, d)
      BY <1>b, <2>2 DEF Sound, Works, Holds, AtCall, Worker
    <2>. QED
      BY <1>d, <1>f, <2>1, <2>3 DEF HelmBegin
  <1>g. "updateFailed" \in Goal /\ "success" \in Goal
        /\ helm[r].rev \in Nat /\ c.hrev \in Nat
    BY <1>b DEF Goal, HelmRecord, Worker
  <1>1. CASE RemoveRelease(r)
    <2>. DEFINE d == [c EXCEPT !.pc = "drop"]
    <2>1. c.pc = "remove"
      BY <1>1 DEF RemoveRelease, c
    <2>2. d \in Worker
      BY <1>b DEF Worker, ReleasePC
    <2>3. Sound(rel[r], NoHelm) /\ Works(rel[r], NoHelm, d)
      BY <1>b, <2>1 DEF Sound, Works, Holds, AtCall, Worker, NoHelm
    <2>4. ASSUME helm[r].st # "none",
                 helm' = [helm EXCEPT ![r].st = "uninstalling"],
                 Continue(r, Retry(c), FALSE)
          PROVE  OwnershipInv'
      <3>. DEFINE h == [helm[r] EXCEPT !.st = "uninstalling"]
      <3>1. Sound(rel[r], h)
        BY <1>b, <2>4 DEF Sound, HelmRecord
      <3>2. Retry(c) \in Worker /\ Works(rel[r], h, Retry(c))
        BY <1>b, RetryType, RetryWorks
      <3>. QED
        BY <1>d, <2>4, <3>1, <3>2
    <2>5. ASSUME Fault("lookup"), UNCHANGED helm, Continue(r, d, FALSE)
          PROVE  OwnershipInv'
      <3>1. ~ReliableLookup
        BY <2>5 DEF Fault, ReliableLookup
      <3>2. Works(rel[r], helm[r], d)
        BY <1>b, <2>1, <3>1 DEF Works, Holds, AtCall, Worker
      <3>. QED
        BY <1>c, <2>2, <2>5, <3>2
    <2>. QED
      BY <1>1, <1>d, <2>2, <2>3, <2>4, <2>5 DEF RemoveRelease, c
  <1>2. CASE Install(r)
    <2>1. CASE HelmBegin(r, c, 1)
      <3>1. 1 \in Nat \ {0} /\ c.pc = "helm"
        BY <1>2 DEF Install, c
      <3>. QED
        BY <2>1, <3>1, <1>f
    <2>2. CASE Continue(r, Sync(c, "updateFailed", 0), FALSE) /\ UNCHANGED helm
      BY <2>2, <1>e, <1>g
    <2>. QED
      BY <1>2, <2>1, <2>2 DEF Install, c
  <1>3. CASE KeepRelease(r)
    BY <1>3, <1>e, <1>g DEF KeepRelease, c
  <1>4. CASE Upgrade(r)
    <2>1. helm[r].rev + 1 \in Nat \ {0}
      BY <1>g
    <2>. QED
      BY <1>4, <1>e, <1>f, <1>g, <2>1 DEF Upgrade, c
  <1>5. CASE HelmEnd(r)
    <2>1. ASSUME NEW st \in {"deployed", "failed"}, NEW goal \in Goal,
                 NEW rev \in Nat, helm' = [helm EXCEPT ![r].st = st],
                 Continue(r, Sync(c, goal, rev), FALSE)
          PROVE  OwnershipInv'
      <3>. DEFINE h == [helm[r] EXCEPT !.st = st]
      <3>1. helm[r].st # "none"
        BY <1>5, <1>b DEF HelmEnd, AtCall, c
      <3>2. Sound(rel[r], h)
        BY <1>b, <3>1 DEF Sound, HelmRecord
      <3>3. Sync(c, goal, rev) \in Worker /\ Works(rel[r], h, Sync(c, goal, rev))
        BY <1>b, SyncType, SyncWorks
      <3>. QED
        BY <1>d, <2>1, <3>2, <3>3
    <2>. QED
      BY <1>5, <1>g, <2>1 DEF HelmEnd, c
  <1>. QED
    BY <1>1, <1>2, <1>3, <1>4, <1>5

LEMMA StepOwnership == OwnershipInv /\ [Next]_vars => OwnershipInv'
  <1>. SUFFICES ASSUME OwnershipInv, [Next]_vars PROVE OwnershipInv'
    OBVIOUS
  <1>1. ASSUME NEW r \in Release, ReleaseStep(r) PROVE OwnershipInv'
    BY <1>1, ReadStepOwnership, WriteStepOwnership, HelmStepOwnership
       DEF ReleaseStep
  <1>2. CASE UNCHANGED vars
    <2>1. TypeOK'
      BY <1>2, StepType DEF OwnershipInv
    <2>. QED
      BY <1>2, <2>1 DEF vars, OwnershipInv
  <1>. QED
    BY <1>1, <1>2, ValuesStepOwnership, UserOwnership, RestartOwnership DEF Next

LEMMA Ownership == Spec => []OwnershipInv
  BY InitOwnership, StepOwnership, PTL DEF Spec

(* A helm release never outlives its Release object, however many workers, *)
(* restarts, conflicts, failing writes and failing helm calls there are.   *)
THEOREM OwnedAlways == ASSUME ReliableLookup PROVE Spec => []Owned
  <1>1. OwnershipInv => Owned
    BY DEF OwnershipInv, Sound, Owned
  <1>. QED
    BY <1>1, Ownership, PTL

(* Helm's record of r changes only in the hands of r's worker, which takes *)
(* it away only for an object that is being deleted, and begins a revision *)
(* only for one that exists and has the finalizer.                         *)
LEMMA StepOnBehalf ==
  ASSUME OwnershipInv, Next, NEW r \in Release
  PROVE  /\ helm[r].st # "none" /\ helm'[r].st = "none" => rel[r].deleting
         /\ helm'[r].rev > helm[r].rev => rel[r].exists /\ rel[r].fin
  <1>t. TypeOK /\ helm[r] \in HelmRecord
    BY DEF OwnershipInv, TypeOK
  <1>1. CASE helm'[r] = helm[r]
    BY <1>t, <1>1 DEF HelmRecord
  <1>2. ASSUME NEW x \in Release, x # r,
               RemoveRelease(x) \/ Install(x) \/ Upgrade(x) \/ HelmEnd(x)
        PROVE  helm'[r] = helm[r]
    BY <1>t, <1>2 DEF RemoveRelease, Install, Upgrade, HelmEnd, HelmBegin, TypeOK
  <1>3. CASE RemoveRelease(r)
    <2>1. rel[r].deleting
      BY <1>3, Active DEF RemoveRelease, AtCall, Holds
    <2>2. helm'[r] \in {NoHelm, helm[r], [helm[r] EXCEPT !.st = "uninstalling"]}
      BY <1>t, <1>3 DEF RemoveRelease, TypeOK
    <2>3. helm'[r].rev \in {0, helm[r].rev}
      BY <1>t, <2>2 DEF NoHelm, HelmRecord
    <2>. QED
      BY <1>t, <2>1, <2>3 DEF HelmRecord
  <1>4. ASSUME NEW rev \in Nat, HelmBegin(r, ctx[r], rev), ctx[r].pc = "helm"
        PROVE  helm'[r].st # "none" /\ rel[r].exists /\ rel[r].fin
    <2>1. rel[r].exists /\ rel[r].fin
      BY <1>4, Active DEF AtCall, Holds
    <2>2. helm'[r].st = "pending"
      BY <1>t, <1>4 DEF HelmBegin, TypeOK
    <2>. QED
      BY <2>1, <2>2
  <1>5. CASE Install(r)
    BY <1>1, <1>4, <1>5 DEF Install
  <1>6. CASE Upgrade(r)
    <2>1. helm[r].rev + 1 \in Nat
      BY <1>t DEF HelmRecord
    <2>. QED
      BY <1>1, <1>4, <1>6, <2>1 DEF Upgrade
  <1>7. CASE HelmEnd(r)
    <2>1. PICK st \in {"deployed", "failed"} :
                 helm' = [helm EXCEPT ![r].st = st]
      BY <1>7 DEF HelmEnd
    <2>2. helm'[r] = [helm[r] EXCEPT !.st = st]
      BY <1>t, <2>1 DEF TypeOK
    <2>3. helm'[r].rev = helm[r].rev /\ helm'[r].st = st
      BY <1>t, <2>2 DEF HelmRecord
    <2>. QED
      BY <1>t, <2>1, <2>3 DEF HelmRecord
  <1>8. \/ helm' = helm
        \/ \E x \in Release : RemoveRelease(x) \/ Install(x) \/ Upgrade(x)
                              \/ HelmEnd(x)
    <2>1. ASSUME NEW x \in Release, ReleaseStep(x)
          PROVE  \/ helm' = helm
                 \/ RemoveRelease(x) \/ Install(x) \/ Upgrade(x) \/ HelmEnd(x)
      BY <2>1 DEF ReleaseStep, StartReconcile, GetReference, RegisterReference,
                  LoadChart, RemoveLabel, WriteStatus, AddFinalizer,
                  DropFinalizer, KeepRelease
    <2>2. ValuesStep => helm' = helm
      BY DEF ValuesStep, StartValues, GetRelease, MarkUnsynced, SetLabel
    <2>3. User \/ Restart => helm' = helm
      BY DEF User, CreateRelease, EditRelease, DeleteRelease, EditValues, Restart
    <2>. QED
      BY <2>1, <2>2, <2>3 DEF Next
  <1>. QED
    BY <1>1, <1>2, <1>3, <1>5, <1>6, <1>7, <1>8

(* Whatever fails, helm is called only on behalf of an object: an uninstall *)
(* for one being deleted, a new revision for one that exists and has the    *)
(* finalizer.                                                               *)
THEOREM HelmOnlyOnBehalfAlways == Spec => HelmOnlyOnBehalf
  <1>1. OwnershipInv /\ [Next]_vars
          => [\A r \in Release :
                /\ helm[r].st # "none" /\ helm'[r].st = "none" => rel[r].deleting
                /\ helm'[r].rev > helm[r].rev => rel[r].exists /\ rel[r].fin]_vars
    BY StepOnBehalf
  <1>. QED
    BY <1>1, Ownership, PTL DEF Spec, HelmOnlyOnBehalf

-----------------------------------------------------------------------------
(* Refinement: every step of the controller is a step of ReleaseLifecycle, *)
(* or leaves what ReleaseLifecycle speaks of alone.                        *)

Own == [r \in Release |-> OwnState(r)]
Inst == [r \in Release |-> helm[r].rev]

State(o) == IF ~(o.exists /\ o.fin) THEN "free"
            ELSE IF o.deleting THEN "leaving" ELSE "owned"

(* What may happen to the object o and helm's record h of one release.     *)
LifeStep(o, h, o1, h1) ==
  \/ State(o) = "free" /\ State(o1) = "owned" /\ h1.rev = h.rev
  \/ State(o) # "free" /\ State(o1) = State(o) /\ h1.rev = h.rev + 1
  \/ State(o) = "owned" /\ State(o1) = "leaving" /\ h1.rev = h.rev
  \/ State(o) = "leaving" /\ State(o1) = "leaving" /\ h1.rev = 0
  \/ State(o) = "leaving" /\ State(o1) = "free" /\ h.rev = 0 /\ h1.rev = 0
  \/ State(o1) = State(o) /\ h1.rev = h.rev

LEMMA LiftLifeStep ==
  ASSUME NEW r \in Release,
         TypeOK, TypeOK',
         \A x \in Release \ {r} : rel'[x] = rel[x] /\ helm'[x] = helm[x],
         LifeStep(rel[r], helm[r], rel'[r], helm'[r])
  PROVE  [Lifecycle!Next]_<<Own, Inst>>
  <1>1. /\ Own[r] = State(rel[r]) /\ Inst[r] = helm[r].rev
        /\ Own' = [Own EXCEPT ![r] = State(rel'[r])]
        /\ Inst' = [Inst EXCEPT ![r] = helm'[r].rev]
    <2>1. /\ Own' = [x \in Release |-> State(rel'[x])]
          /\ Own = [x \in Release |-> State(rel[x])]
      BY DEF Own, OwnState, State
    <2>2. \A x \in Release : x # r => State(rel'[x]) = State(rel[x])
      OBVIOUS
    <2>3. Inst' = [Inst EXCEPT ![r] = helm'[r].rev]
      BY DEF Inst
    <2>. QED
      BY <2>1, <2>2, <2>3 DEF Inst
  <1>2. [Own EXCEPT ![r] = Own[r]] = Own /\ [Inst EXCEPT ![r] = Inst[r]] = Inst
    BY DEF Own, Inst
  <1>3. \/ Lifecycle!Adopt(r) \/ Lifecycle!NextRevision(r)
        \/ Lifecycle!AskDeletion(r) \/ Lifecycle!Uninstall(r)
        \/ Lifecycle!LetGo(r) \/ UNCHANGED <<Own, Inst>>
    <2>. USE <1>1, <1>2
    <2>1. CASE State(rel[r]) = "free" /\ State(rel'[r]) = "owned"
               /\ helm'[r].rev = helm[r].rev
      <3>1. Lifecycle!Adopt(r)
        BY <2>1 DEF Lifecycle!Adopt, Own, Inst
      <3>. QED
        BY <3>1
    <2>2. CASE State(rel[r]) # "free" /\ State(rel'[r]) = State(rel[r])
               /\ helm'[r].rev = helm[r].rev + 1
      <3>1. Lifecycle!NextRevision(r)
        BY <2>2 DEF Lifecycle!NextRevision, Own, Inst
      <3>. QED
        BY <3>1
    <2>3. CASE State(rel[r]) = "owned" /\ State(rel'[r]) = "leaving"
               /\ helm'[r].rev = helm[r].rev
      <3>1. Lifecycle!AskDeletion(r)
        BY <2>3 DEF Lifecycle!AskDeletion, Own, Inst
      <3>. QED
        BY <3>1
    <2>4. CASE State(rel[r]) = "leaving" /\ State(rel'[r]) = "leaving"
               /\ helm'[r].rev = 0
      <3>1. Lifecycle!Uninstall(r)
        BY <2>4 DEF Lifecycle!Uninstall, Own, Inst
      <3>. QED
        BY <3>1
    <2>5. CASE State(rel[r]) = "leaving" /\ State(rel'[r]) = "free"
               /\ helm[r].rev = 0 /\ helm'[r].rev = 0
      <3>1. Lifecycle!LetGo(r)
        BY <2>5 DEF Lifecycle!LetGo, Own, Inst
      <3>. QED
        BY <3>1
    <2>6. CASE State(rel'[r]) = State(rel[r]) /\ helm'[r].rev = helm[r].rev
      BY <2>6
    <2>. QED
      BY <2>1, <2>2, <2>3, <2>4, <2>5, <2>6 DEF LifeStep
  <1>. QED
    BY <1>3 DEF Lifecycle!Next

LEMMA StutterLife ==
  ASSUME UNCHANGED <<rel, helm>> PROVE [Lifecycle!Next]_<<Own, Inst>>
  <1>1. Own' = Own /\ Inst' = Inst
    BY DEF Own, OwnState, Inst
  <1>. QED
    BY <1>1

(* A write of r's object that keeps the fields the life cycle looks at.    *)
LEMMA SameLife ==
  ASSUME TypeOK, TypeOK', NEW r \in Release, NEW o,
         rel' = [rel EXCEPT ![r] = o], UNCHANGED helm,
         o.exists = rel[r].exists, o.fin = rel[r].fin,
         o.deleting = rel[r].deleting
  PROVE  [Lifecycle!Next]_<<Own, Inst>>
  <1>1. rel'[r] = o /\ \A x \in Release \ {r} : rel'[x] = rel[x]
    BY DEF TypeOK
  <1>2. LifeStep(rel[r], helm[r], rel'[r], helm'[r])
    BY <1>1 DEF LifeStep, State
  <1>. QED
    BY <1>1, <1>2, LiftLifeStep

LEMMA UserLife ==
  ASSUME OwnershipInv, TypeOK', User PROVE [Lifecycle!Next]_<<Own, Inst>>
  <1>t. TypeOK
    BY DEF OwnershipInv
  <1>1. ASSUME NEW r \in Release, NEW refs \in SUBSET Values,
               NEW ver \in Version, CreateRelease(r, refs, ver)
        PROVE  [Lifecycle!Next]_<<Own, Inst>>
    <2>1. /\ ~rel[r].exists /\ ~rel'[r].fin /\ helm' = helm
          /\ \A x \in Release \ {r} : rel'[x] = rel[x]
      BY <1>t, <1>1 DEF CreateRelease, TypeOK, NoObj
    <2>2. LifeStep(rel[r], helm[r], rel'[r], helm'[r])
      BY <2>1 DEF LifeStep, State
    <2>. QED
      BY <1>t, <2>1, <2>2, LiftLifeStep
  <1>2. ASSUME NEW r \in Release, NEW refs \in SUBSET Values,
               NEW ver \in Version, EditRelease(r, refs, ver)
        PROVE  [Lifecycle!Next]_<<Own, Inst>>
    <2>. DEFINE o == [rel[r] EXCEPT !.refs = refs, !.ver = ver]
    <2>1. o.exists = rel[r].exists /\ o.fin = rel[r].fin
          /\ o.deleting = rel[r].deleting
      BY <1>t DEF TypeOK, Obj
    <2>2. rel' = [rel EXCEPT ![r] = o] /\ UNCHANGED helm
      BY <1>2 DEF EditRelease
    <2>. QED
      BY <1>t, <2>1, <2>2, SameLife
  <1>3. ASSUME NEW r \in Release, DeleteRelease(r)
        PROVE  [Lifecycle!Next]_<<Own, Inst>>
    <2>1. /\ helm' = helm /\ ~rel[r].deleting /\ rel[r].exists
          /\ rel'[r] = IF rel[r].fin THEN [rel[r] EXCEPT !.deleting = TRUE]
                                     ELSE NoObj
          /\ \A x \in Release \ {r} : rel'[x] = rel[x]
      BY <1>t, <1>3 DEF DeleteRelease, TypeOK
    <2>2. LifeStep(rel[r], helm[r], rel'[r], helm'[r])
      <3>1. CASE rel[r].fin
        <4>1. rel'[r].exists /\ rel'[r].fin /\ rel'[r].deleting
          BY <1>t, <2>1, <3>1 DEF TypeOK, Obj
        <4>. QED
          BY <2>1, <3>1, <4>1 DEF LifeStep, State
      <3>2. CASE ~rel[r].fin
        BY <2>1, <3>2 DEF LifeStep, State, NoObj
      <3>. QED
        BY <3>1, <3>2
    <2>. QED
      BY <1>t, <2>1, <2>2, LiftLifeStep
  <1>4. ASSUME NEW v \in Values, EditValues(v)
        PROVE  [Lifecycle!Next]_<<Own, Inst>>
    BY <1>4, StutterLife DEF EditValues
  <1>. QED
    BY <1>1, <1>2, <1>3, <1>4 DEF User

LEMMA ValuesStepLife ==
  ASSUME OwnershipInv, TypeOK', ValuesStep PROVE [Lifecycle!Next]_<<Own, Inst>>
  <1>t. TypeOK
    BY DEF OwnershipInv
  <1>1. ASSUME NEW r \in Release, MarkUnsynced(r)
        PROVE  [Lifecycle!Next]_<<Own, Inst>>
    <2>. DEFINE o == [rel[r] EXCEPT !.cond = "valueschange"]
    <2>1. o.exists = rel[r].exists /\ o.fin = rel[r].fin
          /\ o.deleting = rel[r].deleting
      BY <1>t DEF TypeOK, Obj
    <2>2. /\ rel' = [rel EXCEPT ![r] = o] \/ rel' = rel
          /\ UNCHANGED helm
      BY <1>1 DEF MarkUnsynced, WriteRelease
    <2>. QED
      BY <1>t, <2>1, <2>2, SameLife, StutterLife
  <1>2. ASSUME NEW r \in Release, SetLabel(r)
        PROVE  [Lifecycle!Next]_<<Own, Inst>>
    <2>. DEFINE o == [rel[r] EXCEPT !.label = TRUE]
    <2>1. o.exists = rel[r].exists /\ o.fin = rel[r].fin
          /\ o.deleting = rel[r].deleting
      BY <1>t DEF TypeOK, Obj
    <2>2. /\ rel' = [rel EXCEPT ![r] = o] \/ rel' = rel
          /\ UNCHANGED helm
      BY <1>2 DEF SetLabel, WriteRelease
    <2>. QED
      BY <1>t, <2>1, <2>2, SameLife, StutterLife
  <1>. QED
    BY <1>1, <1>2, StutterLife DEF ValuesStep, StartValues, GetRelease

LEMMA WriteStepLife ==
  ASSUME ReliableLookup, OwnershipInv, TypeOK', NEW r \in Release,
         \/ RemoveLabel(r) \/ WriteStatus(r)
         \/ AddFinalizer(r) \/ DropFinalizer(r)
  PROVE  [Lifecycle!Next]_<<Own, Inst>>
  <1>. DEFINE c == ctx[r]
  <1>a. c.pc # "idle"
    BY DEF RemoveLabel, WriteStatus, AddFinalizer, DropFinalizer
  <1>b. /\ TypeOK /\ c \in Worker /\ c.obj \in Obj /\ Sound(rel[r], helm[r])
        /\ Holds(rel[r], c) /\ AtCall(helm[r], c)
        /\ UNCHANGED helm
    BY <1>a, Active
       DEF OwnershipInv, RemoveLabel, WriteStatus, AddFinalizer, DropFinalizer
  <1>. HIDE DEF c
  <1>1. CASE RemoveLabel(r)
    <2>. DEFINE o == [c.obj EXCEPT !.label = FALSE]
    <2>1. rel' = rel \/ (c.fresh /\ rel' = [rel EXCEPT ![r] = o])
      BY <1>1 DEF RemoveLabel, Write, c
    <2>2. o.exists = c.obj.exists /\ o.fin = c.obj.fin
          /\ o.deleting = c.obj.deleting /\ (c.fresh => rel[r] = c.obj)
      BY <1>b DEF Obj, Holds
    <2>. HIDE DEF o
    <2>3. CASE c.fresh /\ rel' = [rel EXCEPT ![r] = o]
      <3>1. o.exists = rel[r].exists /\ o.fin = rel[r].fin
            /\ o.deleting = rel[r].deleting
        BY <2>2, <2>3
      <3>. QED
        BY <1>b, <2>3, <3>1, SameLife
    <2>. QED
      BY <1>b, <2>1, <2>3, StutterLife
  <1>2. CASE WriteStatus(r)
    <2>. DEFINE o == [c.obj EXCEPT !.cond = c.goal, !.rev = c.hrev]
    <2>1. rel' = rel \/ (c.fresh /\ rel' = [rel EXCEPT ![r] = o])
      BY <1>2 DEF WriteStatus, Write, c
    <2>2. o.exists = c.obj.exists /\ o.fin = c.obj.fin
          /\ o.deleting = c.obj.deleting /\ (c.fresh => rel[r] = c.obj)
      BY <1>b DEF Obj, Holds
    <2>. HIDE DEF o
    <2>3. CASE c.fresh /\ rel' = [rel EXCEPT ![r] = o]
      <3>1. o.exists = rel[r].exists /\ o.fin = rel[r].fin
            /\ o.deleting = rel[r].deleting
        BY <2>2, <2>3
      <3>. QED
        BY <1>b, <2>3, <3>1, SameLife
    <2>. QED
      BY <1>b, <2>1, <2>3, StutterLife
  <1>3. CASE AddFinalizer(r)
    <2>. DEFINE o == [c.obj EXCEPT !.fin = TRUE]
    <2>1. rel' = rel \/ (c.fresh /\ rel' = [rel EXCEPT ![r] = o])
      BY <1>3 DEF AddFinalizer, Write, c
    <2>2. CASE c.fresh /\ rel' = [rel EXCEPT ![r] = o]
      <3>1. rel'[r] = o /\ \A x \in Release \ {r} : rel'[x] = rel[x]
        BY <1>b, <2>2 DEF TypeOK
      <3>2. ~c.obj.fin /\ ~c.obj.deleting
        BY <1>3, <1>b DEF AddFinalizer, AtCall, c
      <3>3. ~rel[r].fin /\ o.exists /\ o.fin /\ ~o.deleting
        BY <1>b, <2>2, <3>2 DEF Holds, Obj
      <3>4. LifeStep(rel[r], helm[r], rel'[r], helm'[r])
        BY <1>b, <3>1, <3>3 DEF LifeStep, State
      <3>. QED
        BY <1>b, <3>1, <3>4, LiftLifeStep
    <2>. QED
      BY <1>b, <2>1, <2>2, StutterLife
  <1>4. CASE DropFinalizer(r)
    <2>1. rel' = rel \/ rel' = [rel EXCEPT ![r] = NoObj]
      BY <1>4 DEF DropFinalizer, Write, c
    <2>2. CASE rel' = [rel EXCEPT ![r] = NoObj]
      <3>1. rel'[r] = NoObj /\ \A x \in Release \ {r} : rel'[x] = rel[x]
        BY <1>b, <2>2 DEF TypeOK
      <3>2. c.obj.deleting /\ helm[r].st = "none"
        BY <1>4, <1>b DEF DropFinalizer, AtCall, c
      <3>3. rel[r].deleting /\ rel[r].exists /\ rel[r].fin /\ helm[r].rev = 0
        BY <1>b, <3>2 DEF Holds, Sound
      <3>4. LifeStep(rel[r], helm[r], rel'[r], helm'[r])
        BY <1>b, <3>1, <3>3 DEF LifeStep, State, NoObj
      <3>. QED
        BY <1>b, <3>1, <3>4, LiftLifeStep
    <2>. QED
      BY <1>b, <2>1, <2>2, StutterLife
  <1>. QED
    BY <1>1, <1>2, <1>3, <1>4

LEMMA HelmStepLife ==
  ASSUME ReliableLookup, OwnershipInv, TypeOK', NEW r \in Release,
         RemoveRelease(r) \/ Install(r) \/ KeepRelease(r) \/ Upgrade(r) \/ HelmEnd(r)
  PROVE  [Lifecycle!Next]_<<Own, Inst>>
  <1>. DEFINE c == ctx[r]
  <1>a. c.pc # "idle"
    BY DEF RemoveRelease, Install, KeepRelease, Upgrade, HelmEnd
  <1>b. /\ TypeOK /\ c \in Worker /\ Sound(rel[r], helm[r])
        /\ Holds(rel[r], c) /\ AtCall(helm[r], c)
        /\ helm[r] \in HelmRecord /\ UNCHANGED rel
    BY <1>a, Active
       DEF OwnershipInv, RemoveRelease, Install, KeepRelease, Upgrade, HelmEnd
  <1>. HIDE DEF c
  <1>c. ASSUME NEW h, helm' = [helm EXCEPT ![r] = h],
               LifeStep(rel[r], helm[r], rel[r], h)
        PROVE  [Lifecycle!Next]_<<Own, Inst>>
    <2>1. helm'[r] = h /\ \A x \in Release \ {r} : helm'[x] = helm[x]
      BY <1>b, <1>c DEF TypeOK
    <2>. QED
      BY <1>b, <1>c, <2>1, LiftLifeStep
  <1>d. ASSUME NEW st, helm' = [helm EXCEPT ![r].st = st]
        PROVE  [Lifecycle!Next]_<<Own, Inst>>
    <2>. DEFINE h == [helm[r] EXCEPT !.st = st]
    <2>1. LifeStep(rel[r], helm[r], rel[r], h)
      BY <1>b DEF LifeStep, HelmRecord
    <2>. QED
      BY <1>c, <1>d, <2>1
  <1>e. ASSUME HelmBegin(r, c, helm[r].rev + 1), c.pc = "helm"
        PROVE  [Lifecycle!Next]_<<Own, Inst>>
    <2>. DEFINE h == [st |-> "pending", rev |-> helm[r].rev + 1,
                      vals |-> c.vals, ver |-> c.obj.ver]
    <2>1. State(rel[r]) # "free"
      BY <1>b, <1>e DEF AtCall, Holds, State
    <2>2. LifeStep(rel[r], helm[r], rel[r], h)
      BY <2>1 DEF LifeStep
    <2>. QED
      BY <1>c, <1>e, <2>2 DEF HelmBegin
  <1>1. CASE RemoveRelease(r)
    <2>1. ASSUME helm' = [helm EXCEPT ![r] = NoHelm]
          PROVE  [Lifecycle!Next]_<<Own, Inst>>
      <3>1. c.obj.deleting
        BY <1>1, <1>b DEF RemoveRelease, AtCall, c
      <3>2. rel[r].deleting /\ rel[r].exists /\ rel[r].fin
        BY <1>b, <3>1 DEF Holds, Sound
      <3>3. LifeStep(rel[r], helm[r], rel[r], NoHelm)
        BY <3>2 DEF LifeStep, State, NoHelm
      <3>. QED
        BY <1>c, <2>1, <3>3
    <2>2. ~Fault("lookup")
      BY DEF Fault, ReliableLookup
    <2>. QED
      BY <1>1, <1>d, <2>1, <2>2 DEF RemoveRelease
  <1>2. CASE Install(r)
    <2>1. CASE helm[r].st = "none" /\ HelmBegin(r, c, 1)
      <3>1. helm[r].rev + 1 = 1 /\ c.pc = "helm"
        BY <1>2, <1>b, <2>1 DEF Sound, Install, c
      <3>. QED
        BY <1>e, <2>1, <3>1
    <2>. QED
      BY <1>2, <1>b, <2>1, StutterLife DEF Install, c
  <1>3. CASE KeepRelease(r)
    BY <1>3, <1>b, StutterLife DEF KeepRelease
  <1>4. CASE Upgrade(r)
    BY <1>4, <1>b, <1>e, StutterLife DEF Upgrade, c
  <1>5. CASE HelmEnd(r)
    BY <1>5, <1>d DEF HelmEnd
  <1>. QED
    BY <1>1, <1>2, <1>3, <1>4, <1>5

LEMMA StepLife ==
  ASSUME ReliableLookup
  PROVE  OwnershipInv /\ OwnershipInv' /\ [Next]_vars
            => [Lifecycle!Next]_<<Own, Inst>>
  <1>. SUFFICES ASSUME OwnershipInv, OwnershipInv', [Next]_vars
                PROVE  [Lifecycle!Next]_<<Own, Inst>>
    OBVIOUS
  <1>t. TypeOK'
    BY DEF OwnershipInv
  <1>1. ASSUME NEW r \in Release, ReleaseStep(r)
        PROVE  [Lifecycle!Next]_<<Own, Inst>>
    <2>1. \/ UNCHANGED <<rel, helm>>
          \/ RemoveLabel(r) \/ WriteStatus(r)
          \/ AddFinalizer(r) \/ DropFinalizer(r)
          \/ RemoveRelease(r) \/ Install(r) \/ KeepRelease(r)
          \/ Upgrade(r) \/ HelmEnd(r)
      BY <1>1 DEF ReleaseStep, StartReconcile, GetReference,
                  RegisterReference, LoadChart
    <2>. QED
      BY <1>t, <2>1, WriteStepLife, HelmStepLife, StutterLife
  <1>2. CASE Restart \/ UNCHANGED vars
    BY <1>2, StutterLife DEF Restart, vars
  <1>. QED
    BY <1>t, <1>1, <1>2, UserLife, ValuesStepLife DEF Next

(* The release controller implements ReleaseLifecycle: an object is adopted *)
(* before anything is installed under it, revisions grow one at a time, an  *)
(* uninstall follows a deletion only, and an adopted object is let go only  *)
(* when nothing is installed any more.                                      *)
THEOREM LifecycleImplemented ==
  ASSUME ReliableLookup PROVE Spec => ImplementsLifecycle
  <1>1. Init => Lifecycle!Init
    BY DEF Init, Lifecycle!Init, OwnState, NoObj, NoHelm
  <1>2. OwnershipInv /\ OwnershipInv' /\ [Next]_vars
           => [Lifecycle!Next]_<<[r \in Release |-> OwnState(r)],
                                 [r \in Release |-> helm[r].rev]>>
    BY StepLife DEF Own, Inst
  <1>. QED
    BY <1>1, <1>2, Ownership, PTL DEF Spec, ImplementsLifecycle, Lifecycle!Spec
=============================================================================
