------------------------- MODULE ReleaseReconciler --------------------------
(***************************************************************************)
(* ReleaseReconciler.Reconcile of the agent with release.New, the values   *)
(* references it collects, release.Update and RemoveRelease.  Every action *)
(* makes one call to the apiserver or to helm and runs the code up to the  *)
(* next call.                                                              *)
(*                                                                         *)
(* Left out: the Config object (flags, service account), references        *)
(* between Values objects, and the merge of the values (here: the content  *)
(* read from each reference).                                              *)
(***************************************************************************)
EXTENDS AgentState

-----------------------------------------------------------------------------
(* Control flow between the calls: each operator maps what a worker holds  *)
(* to what it holds when it makes its next call.                           *)

(* Return an error, or RequeueAfter 5 s: the key comes back.  Mutant: the  *)
(* error is logged and swallowed.                                          *)
RetrySwallowed(c) == [c EXCEPT !.pc = "done"]

Retry(c) == [c EXCEPT !.pc = "retry"]
(* Return Result{}, nil. *)
Done(c) == [c EXCEPT !.pc = "done"]

(* syncStatus(goal, rev) *)
Sync(c, goal, rev) == [c EXCEPT !.pc = "sync", !.goal = goal, !.hrev = rev]

(* Reconcile after the initial status: a failed New is reported once and   *)
(* retried; otherwise handleFinalizer decides.  Mutants: helm runs without *)
(* the finalizer; the finalizer goes before the helm release.              *)
AfterInitNotAdopted(c) ==
    IF c.err
    THEN IF c.obj.cond = "initError" THEN Retry(c) ELSE Sync(c, "initError", 0)
    ELSE [c EXCEPT !.pc = IF c.obj.deleting THEN "remove" ELSE "helm"]

AfterInitLetsGoFirst(c) ==
    IF c.err
    THEN IF c.obj.cond = "initError" THEN Retry(c) ELSE Sync(c, "initError", 0)
    ELSE [c EXCEPT !.pc = IF c.obj.deleting THEN "drop"
                          ELSE IF c.obj.fin THEN "helm" ELSE "adopt"]

AfterInit(c) ==
    IF c.err
    THEN IF c.obj.cond = "initError" THEN Retry(c) ELSE Sync(c, "initError", 0)
    ELSE [c EXCEPT !.pc = IF c.obj.deleting THEN "remove"
                          ELSE IF c.obj.fin THEN "helm" ELSE "adopt"]

(* Reconcile after New: a release without a revision gets its first status. *)
AfterNew(c) == IF c.obj.cond = "none" THEN Sync(c, "init", 0) ELSE AfterInit(c)

(* getRefList begins when every reference has been read; New goes on with  *)
(* the chart when the references are registered.                           *)
AfterRefs(c) == [c EXCEPT !.pc = IF c.todo # {} THEN "get"
                                 ELSE IF c.unreg # {} THEN "register"
                                 ELSE "chart"]

(* A release that is being deleted is not loaded: New returns early.       *)
Begin(o) == LET c == [IdleWorker EXCEPT !.obj = o, !.fresh = TRUE]
            IN  IF o.deleting THEN AfterNew(c)
                ELSE AfterRefs([c EXCEPT !.todo = o.refs])

(* syncStatus writes nothing when the condition and the revision are those *)
(* it would write.  Mutant: the revision is not compared.                  *)
UpToDateIgnoresRevision(c) == c.obj.cond = c.goal

UpToDate(c) == c.obj.cond = c.goal /\ c.obj.rev = c.hrev

(* Mutant: a failed install or upgrade is not retried.                     *)
AfterSyncGivesUp(c) == IF c.goal = "init" THEN AfterInit(c)
                       ELSE IF c.goal = "initError" THEN Retry(c) ELSE Done(c)

AfterSync(c) == IF c.goal = "init" THEN AfterInit(c)
                ELSE IF c.goal = "success" THEN Done(c) ELSE Retry(c)

(* The worker of r goes on as c; a worker that returns leaves memory, and  *)
(* r is queued again if it asked for it or if its own write passed the     *)
(* event filter.                                                           *)
Continue(r, c, event) ==
    /\ ctx' = [ctx EXCEPT ![r] = IF c.pc \in {"retry", "done"}
                                 THEN IdleWorker ELSE c]
    /\ queue' = IF event \/ c.pc = "retry" THEN queue \cup {r} ELSE queue

(* The worker of r writes its object, now o, and goes on as c.             *)
Write(r, o, c, event) ==
    /\ rel' = [rel EXCEPT ![r] = o]
    /\ vw' = StaleValuesWorker(r)
    /\ Continue(r, c, event)

(* A write the apiserver refuses: a conflict, the object gone, or no       *)
(* answer.                                                                 *)
WriteFails(c) == (~c.fresh /\ NoFault) \/ Fault("write")

-----------------------------------------------------------------------------
(* Reconcile: read the object.  MaxConcurrentReconciles workers share the  *)
(* queue, and a key is in the hands of one of them at most.  A Get that    *)
(* fails gives the key back: a step that changes nothing.                  *)
StartReconcile(r) ==
    /\ r \in queue /\ Idle(r)
    /\ Cardinality({x \in Release : ~Idle(x)}) < MaxConcurrentReconciles
    /\ queue' = queue \ {r}
    /\ ctx' = [ctx EXCEPT ![r] = IF rel[r].exists THEN Begin(rel[r])
                                                  ELSE IdleWorker]
    /\ skipped' = skipped \ {r}
    /\ UNCHANGED <<rel, val, helm, vqueue, vw, edits, faults, restarts>>

(* getValuesByReference reads one reference; an error only skips it.  The  *)
(* annotation decides whether updateValuesAnnotations will patch.          *)
GetReference(r, v) ==
    LET c == ctx[r] IN
    /\ c.pc = "get" /\ v \in c.todo
    /\ \/ /\ NoFault /\ UNCHANGED skipped
          /\ Continue(r, AfterRefs(
                [c EXCEPT !.todo = @ \ {v},
                          !.unreg = IF r \in val[v].ann THEN @ ELSE @ \cup {v},
                          !.ann[v] = val[v].ann,
                          !.vals[v] = val[v].data]), FALSE)
       \/ /\ Fault("values") /\ skipped' = skipped \cup {r}
          /\ Continue(r, AfterRefs([c EXCEPT !.todo = @ \ {v}]), FALSE)
    /\ UNCHANGED <<rel, val, helm, vqueue, vw, edits, restarts>>

(* The object as decoded from the answer of the patch.  Mutant: the answer *)
(* is thrown away.                                                         *)
PatchedDiscarded(c, v) == c.vals[v]

Patched(c, v) == val[v].data

(* The releases that lose their name in v's annotation when it becomes ann. *)
Overwritten(v, ann) == {x \in val[v].ann \ ann : v \in rel[x].refs}

(* updateValuesAnnotations: a merge patch carries no resourceVersion, so   *)
(* the annotation becomes what was read plus r whatever it is now, and the *)
(* answer refreshes the object.  An error ends getRefList, and New goes on *)
(* with the references before it in the list: the ones still to patch are  *)
(* lost, and any of those that needed no patch.                            *)
RegisterReference(r, v) ==
    LET c == ctx[r] IN
    /\ c.pc = "register" /\ v \in c.unreg
    /\ \/ /\ NoFault
          /\ val' = [val EXCEPT ![v].ann = c.ann[v] \cup {r}]
          /\ skipped' = skipped \cup Overwritten(v, c.ann[v] \cup {r})
          /\ Continue(r, AfterRefs([c EXCEPT !.unreg = @ \ {v},
                                             !.vals[v] = Patched(c, v)]), FALSE)
       \/ /\ Fault("values") /\ skipped' = skipped \cup {r}
          /\ UNCHANGED val
          /\ \E late \in SUBSET {u \in Values : r \in c.ann[u]} :
                Continue(r, AfterRefs(
                   [c EXCEPT !.unreg = {},
                             !.vals = [u \in Values |->
                                         IF u \in c.unreg \cup late
                                         THEN 0 ELSE c.vals[u]]]), FALSE)
    /\ UNCHANGED <<rel, helm, vqueue, vw, edits, restarts>>

(* The rest of New: with references but no values ManageValues fails, and  *)
(* the index, the Chart object and its configmaps may not be there.        *)
LoadChart(r) ==
    LET c == ctx[r]
        noBase == c.obj.refs # {} /\ c.vals = NoVals
    IN
    /\ c.pc = "chart"
    /\ \/ NoFault /\ Continue(r, AfterNew([c EXCEPT !.err = noBase]), FALSE)
       \/ Fault("chart") /\ Continue(r, AfterNew([c EXCEPT !.err = TRUE]), FALSE)
    /\ UNCHANGED <<rel, val, helm, vqueue, vw, skipped, edits, restarts>>

-----------------------------------------------------------------------------
(* syncStatus removes the reconcile label first, in an Update of its own.  *)
RemoveLabel(r) ==
    LET c == ctx[r]
        o == [c.obj EXCEPT !.label = FALSE]
    IN
    /\ c.pc = "sync" /\ c.obj.label
    /\ \/ /\ c.fresh /\ NoFault
          /\ Write(r, o, [c EXCEPT !.obj = o], UpdatePasses(o))
       \/ /\ WriteFails(c)
          /\ Continue(r, Retry(c), FALSE)
          /\ UNCHANGED <<rel, vw>>
    /\ UNCHANGED <<val, helm, vqueue, skipped, edits, restarts>>

(* ... and then updates the status, unless it is up to date. *)
WriteStatus(r) ==
    LET c == ctx[r]
        o == [c.obj EXCEPT !.cond = c.goal, !.rev = c.hrev]
    IN
    /\ c.pc = "sync" /\ ~c.obj.label
    /\ \/ /\ UpToDate(c) /\ NoFault
          /\ Continue(r, AfterSync(c), FALSE)
          /\ UNCHANGED <<rel, vw>>
       \/ /\ ~UpToDate(c) /\ c.fresh /\ NoFault
          /\ Write(r, o, AfterSync([c EXCEPT !.obj = o]), UpdatePasses(o))
       \/ /\ ~UpToDate(c) /\ WriteFails(c)
          /\ Continue(r, Retry(c), FALSE)
          /\ UNCHANGED <<rel, vw>>
    /\ UNCHANGED <<val, helm, vqueue, skipped, edits, restarts>>

-----------------------------------------------------------------------------
(* handleFinalizer adds the finalizer; after its Update Reconcile goes     *)
(* straight on to helm.                                                    *)
AddFinalizer(r) ==
    LET c == ctx[r]
        o == [c.obj EXCEPT !.fin = TRUE]
    IN
    /\ c.pc = "adopt"
    /\ \/ /\ c.fresh /\ NoFault
          /\ Write(r, o, [c EXCEPT !.pc = "helm", !.obj = o], UpdatePasses(o))
       \/ /\ WriteFails(c)
          /\ Continue(r, Retry(c), FALSE)
          /\ UNCHANGED <<rel, vw>>
    /\ UNCHANGED <<val, helm, vqueue, skipped, edits, restarts>>

(* RemoveRelease: any error of the lookup counts as "nothing to remove".   *)
RemoveRelease(r) ==
    LET c == ctx[r] IN
    /\ c.pc = "remove"
    /\ \/ /\ NoFault
          /\ helm' = [helm EXCEPT ![r] = NoHelm]
          /\ Continue(r, [c EXCEPT !.pc = "drop"], FALSE)
       \/ /\ Fault("lookup")
          /\ UNCHANGED helm
          /\ Continue(r, [c EXCEPT !.pc = "drop"], FALSE)
       \/ /\ helm[r].st # "none"
          /\ Fault("helm")
          /\ helm' = [helm EXCEPT ![r].st = "uninstalling"]
          /\ Continue(r, Retry(c), FALSE)
    /\ UNCHANGED <<rel, val, vqueue, vw, skipped, edits, restarts>>

(* The Update without the finalizer makes the object disappear.  Reconcile *)
(* goes on: the chart is not loaded, so Update fails, the status cannot be *)
(* written to an object that is gone, and the key comes back.              *)
DropFinalizer(r) ==
    LET c == ctx[r] IN
    /\ c.pc = "drop"
    /\ \/ c.fresh /\ NoFault /\ Write(r, NoObj, Retry(c), TRUE)
       \/ /\ WriteFails(c)
          /\ Continue(r, Retry(c), FALSE)
          /\ UNCHANGED <<rel, vw>>
    /\ UNCHANGED <<val, helm, vqueue, skipped, edits, restarts>>

-----------------------------------------------------------------------------
(* release.Update *)

(* helm stores the new revision as pending before it touches the cluster.  *)
(* Mutant: the previous revision is taken one too low.                     *)
HelmBeginOffByOne(r, c, rev) ==
    /\ helm' = [helm EXCEPT ![r] = [st |-> "pending", rev |-> rev,
                                    vals |-> c.vals, ver |-> c.obj.ver]]
    /\ Continue(r, [c EXCEPT !.pc = "helmRun", !.hrev = rev - 2], FALSE)

HelmBegin(r, c, rev) ==
    /\ helm' = [helm EXCEPT ![r] = [st |-> "pending", rev |-> rev,
                                    vals |-> c.vals, ver |-> c.obj.ver]]
    /\ Continue(r, [c EXCEPT !.pc = "helmRun", !.hrev = rev - 1], FALSE)

(* A lookup that finds nothing, or fails, leads to an install; helm        *)
(* refuses to install under a name that is in use.                         *)
Install(r) ==
    LET c == ctx[r] IN
    /\ c.pc = "helm"
    /\ \/ helm[r].st = "none" /\ NoFault /\ HelmBegin(r, c, 1)
       \/ /\ \/ helm[r].st = "none" /\ Fault("helm")
             \/ helm[r].st # "none" /\ Fault("lookup")
          /\ Continue(r, Sync(c, "updateFailed", 0), FALSE)
          /\ UNCHANGED helm
    /\ UNCHANGED <<rel, val, vqueue, vw, skipped, edits, restarts>>

(* An existing release is upgraded if and only if its last revision has    *)
(* other values; its status and chart version are not looked at.           *)
ValuesChanged(r, c) == helm[r].vals # c.vals

KeepRelease(r) ==
    LET c == ctx[r] IN
    /\ c.pc = "helm" /\ helm[r].st # "none" /\ ~ValuesChanged(r, c)
    /\ NoFault
    /\ Continue(r, Sync(c, "success", helm[r].rev), FALSE)
    /\ UNCHANGED <<rel, val, helm, vqueue, vw, skipped, edits, restarts>>

(* helm refuses an upgrade while the last revision is pending.             *)
Upgrade(r) ==
    LET c == ctx[r] IN
    /\ c.pc = "helm" /\ helm[r].st # "none" /\ ValuesChanged(r, c)
    /\ \/ helm[r].st # "pending" /\ NoFault /\ HelmBegin(r, c, helm[r].rev + 1)
       \/ /\ (helm[r].st = "pending" /\ NoFault) \/ Fault("helm")
          /\ Continue(r, Sync(c, "updateFailed", helm[r].rev), FALSE)
          /\ UNCHANGED helm
    /\ UNCHANGED <<rel, val, vqueue, vw, skipped, edits, restarts>>

(* The install or upgrade ends; a failure leaves the revision as failed.   *)
HelmEnd(r) ==
    LET c == ctx[r] IN
    /\ c.pc = "helmRun"
    /\ \/ /\ NoFault
          /\ helm' = [helm EXCEPT ![r].st = "deployed"]
          /\ Continue(r, Sync(c, "success", helm[r].rev), FALSE)
       \/ /\ Fault("helm")
          /\ helm' = [helm EXCEPT ![r].st = "failed"]
          /\ Continue(r, Sync(c, "updateFailed", c.hrev), FALSE)
    /\ UNCHANGED <<rel, val, vqueue, vw, skipped, edits, restarts>>

ReleaseStep(r) ==
    \/ StartReconcile(r)
    \/ \E v \in Values : GetReference(r, v) \/ RegisterReference(r, v)
    \/ LoadChart(r)
    \/ RemoveLabel(r) \/ WriteStatus(r)
    \/ AddFinalizer(r) \/ RemoveRelease(r) \/ DropFinalizer(r)
    \/ Install(r) \/ KeepRelease(r) \/ Upgrade(r) \/ HelmEnd(r)
=============================================================================
