----------------------------- MODULE AgentState -----------------------------
(***************************************************************************)
(* The state shared by the reconcilers of the agent process: the Release   *)
(* and Values objects in the kube-apiserver, the records helm keeps, the   *)
(* work queues of the two controllers and what each worker holds in memory *)
(* between two API calls.  The actions of the reconcilers are in           *)
(* ReleaseReconciler and ValuesReconciler, their composition in Agent.     *)
(*                                                                         *)
(* Optimistic concurrency.  A client that Updates an object sends the      *)
(* resourceVersion it read, and the apiserver refuses the write if the     *)
(* object has changed since.  Only the equality of versions matters, so a  *)
(* worker holds a Boolean "fresh": TRUE while the object in the apiserver  *)
(* is the one it holds, set to FALSE by any write of another actor.        *)
(***************************************************************************)
EXTENDS Naturals, FiniteSets

CONSTANTS
    Release,                  \* names of Release objects (one namespace)
    Values,                   \* names of Values objects (same namespace)
    Version,                  \* chart versions a Release can ask for
    MaxConcurrentReconciles,  \* workers of the release controller
    Faults,                   \* kinds of failing calls that are explored
    MaxFaults,                \* bound: failing calls in a behaviour
    MaxEdits,                 \* bound: writes by users in a behaviour
    MaxRestarts               \* bound: restarts of the agent in a behaviour

(* The kinds of failing calls: a read or patch of a Values object, the     *)
(* lookup of chart and index, a helm operation, the lookup of the helm     *)
(* release, and a write to (or read of) a Release object.                  *)
FaultKinds == {"values", "chart", "helm", "lookup", "write"}

ASSUME WorkersAssumption == MaxConcurrentReconciles \in Nat \ {0}
ASSUME FaultsAssumption == Faults \subseteq FaultKinds
ASSUME VersionAssumption == Version # {}
ASSUME BoundsAssumption ==
    MaxFaults \in Nat /\ MaxEdits \in Nat /\ MaxRestarts \in Nat

VARIABLES
    rel,       \* rel[r]: the Release object r in the apiserver
    val,       \* val[v]: the Values object v in the apiserver
    helm,      \* helm[r]: last revision helm stores for release r
    queue,     \* work queue of the release controller
    vqueue,    \* work queue of the values controller
    ctx,       \* ctx[r]: the worker reconciling r (a key has one at most)
    vw,        \* the single worker of the values controller
    skipped,   \* history: releases that missed values since their last
               \* reconciliation began: passed over by the values worker, a
               \* call of their own on a reference failed, or their name was
               \* overwritten in the annotation of a reference
    edits, faults, restarts    \* counters behind the bounds

vars == <<rel, val, helm, queue, vqueue, ctx, vw, skipped,
          edits, faults, restarts>>

-----------------------------------------------------------------------------
(* Objects. *)

(* The message of a Release's "synced" condition; "none" before the first  *)
(* status write.  The condition is True exactly for "success".             *)
Cond == {"none", "init", "initError", "updateFailed", "success",
         "valueschange"}

(* The content of a Values object is a number; 0 stands for "not given".   *)
NoVals == [v \in Values |-> 0]

Obj == [exists: BOOLEAN, refs: SUBSET Values, ver: Version,
        deleting: BOOLEAN,    \* metadata.deletionTimestamp # nil
        fin: BOOLEAN,         \* finalizer.releases.yaho.soer3n.dev
        label: BOOLEAN,       \* yaho.soer3n.dev/reconcile: "true"
        cond: Cond, rev: Nat] \* status.conditions, status.revision

NoObj == [exists |-> FALSE, refs |-> {}, ver |-> CHOOSE x \in Version : TRUE,
          deleting |-> FALSE, fin |-> FALSE, label |-> FALSE,
          cond |-> "none", rev |-> 0]

(* Helm's last revision of a release.  "pending" stands for both           *)
(* pending-install and pending-upgrade.                                    *)
HelmRecord == [st: {"none", "pending", "deployed", "failed", "uninstalling"},
               rev: Nat, vals: [Values -> Nat], ver: Version]

NoHelm == [st |-> "none", rev |-> 0, vals |-> NoVals,
           ver |-> CHOOSE x \in Version : TRUE]

(* A worker of the release controller: the object it read, what New has    *)
(* loaded so far, and the status it is about to write ("goal", "hrev").    *)
ReleasePC == {"idle", "get", "register", "chart", "sync", "adopt", "remove",
              "drop", "helm", "helmRun", "retry", "done"}

Goal == {"none", "init", "initError", "updateFailed", "success"}

Worker == [pc: ReleasePC, obj: Obj, fresh: BOOLEAN,
           todo: SUBSET Values,                 \* references not read yet
           unreg: SUBSET Values,                \* read, annotation to patch
           ann: [Values -> SUBSET Release],     \* their annotation as read
           vals: [Values -> Nat],               \* content collected
           err: BOOLEAN, goal: Goal, hrev: Nat]

IdleWorker == [pc |-> "idle", obj |-> NoObj, fresh |-> FALSE, todo |-> {},
               unreg |-> {}, ann |-> [v \in Values |-> {}],
               vals |-> NoVals, err |-> FALSE, goal |-> "none", hrev |-> 0]

(* The values worker: the object it reconciles and the release it pokes    *)
(* (each a set of at most one element), and the releases still to visit.   *)
ValuesWorker == [pc: {"idle", "next", "mark", "poke"}, cur: SUBSET Values,
                 todo: SUBSET Release, tgt: SUBSET Release, fresh: BOOLEAN]

IdleValuesWorker == [pc |-> "idle", cur |-> {}, todo |-> {}, tgt |-> {},
                     fresh |-> FALSE]

-----------------------------------------------------------------------------
(* Shared helpers. *)

Synced(o) == o.cond = "success"

(* The call may fail in a way of kind k; uses up one of MaxFaults.         *)
Fault(k) == /\ k \in Faults
            /\ faults < MaxFaults
            /\ faults' = faults + 1

NoFault == faults' = faults

(* SetupWithManager's event filter, Or(GenerationChanged, label selector). *)
(* Status and metadata writes leave the generation alone, so such an       *)
(* update passes exactly when the written object carries the label.        *)
(* Mutant: the label predicate is missing.                                 *)
UpdatePassesByGenerationOnly(new) == FALSE

UpdatePasses(new) == new.label

(* A write of r by someone else than its worker makes what the worker      *)
(* holds stale; likewise for the values worker.                            *)
StaleWorker(c) == [c EXCEPT !.fresh = FALSE]
StaleValuesWorker(r) ==
    IF r \in vw.tgt THEN [vw EXCEPT !.fresh = FALSE] ELSE vw

Idle(r) == ctx[r].pc = "idle"
Quiet(r) == Idle(r) /\ r \notin queue

-----------------------------------------------------------------------------
(* Writes by users, each counted against MaxEdits. *)

UserEdit == /\ edits < MaxEdits
            /\ edits' = edits + 1

CreateRelease(r, refs, ver) ==
    /\ ~rel[r].exists
    /\ UserEdit
    /\ rel' = [rel EXCEPT ![r] = [NoObj EXCEPT !.exists = TRUE,
                                              !.refs = refs, !.ver = ver]]
    /\ queue' = queue \cup {r}
    /\ UNCHANGED <<val, helm, vqueue, ctx, vw, skipped, faults, restarts>>

(* A change of the spec bumps the generation.  The last reference is never *)
(* dropped: helm keeps the old configuration when an upgrade brings none.  *)
EditRelease(r, refs, ver) ==
    /\ rel[r].exists
    /\ <<refs, ver>> # <<rel[r].refs, rel[r].ver>>
    /\ refs = {} => rel[r].refs = {}
    /\ UserEdit
    /\ rel' = [rel EXCEPT ![r] = [@ EXCEPT !.refs = refs, !.ver = ver]]
    /\ queue' = queue \cup {r}
    /\ ctx' = [ctx EXCEPT ![r] = StaleWorker(@)]
    /\ vw' = StaleValuesWorker(r)
    /\ UNCHANGED <<val, helm, vqueue, skipped, faults, restarts>>

(* Deleting an object that has a finalizer sets its deletionTimestamp,     *)
(* which bumps the generation; without one the object is gone.             *)
DeleteRelease(r) ==
    /\ rel[r].exists /\ ~rel[r].deleting
    /\ UserEdit
    /\ rel' = [rel EXCEPT ![r] = IF @.fin THEN [@ EXCEPT !.deleting = TRUE]
                                          ELSE NoObj]
    /\ queue' = queue \cup {r}
    /\ ctx' = [ctx EXCEPT ![r] = StaleWorker(@)]
    /\ vw' = StaleValuesWorker(r)
    /\ UNCHANGED <<val, helm, vqueue, skipped, faults, restarts>>

EditValues(v) ==
    /\ UserEdit
    /\ val' = [val EXCEPT ![v].data = @ + 1]
    /\ vqueue' = vqueue \cup {v}
    /\ UNCHANGED <<rel, helm, queue, ctx, vw, skipped, faults, restarts>>

User == \/ \E r \in Release, refs \in SUBSET Values, ver \in Version :
              CreateRelease(r, refs, ver) \/ EditRelease(r, refs, ver)
        \/ \E r \in Release : DeleteRelease(r)
        \/ \E v \in Values : EditValues(v)

(* The agent dies between any two calls and starts again: the workers'     *)
(* memory is gone, and listing the objects queues every one of them.       *)
Restart ==
    /\ restarts < MaxRestarts
    /\ restarts' = restarts + 1
    /\ ctx' = [r \in Release |-> IdleWorker]
    /\ vw' = IdleValuesWorker
    /\ queue' = {r \in Release : rel[r].exists}
    /\ vqueue' = Values
    /\ UNCHANGED <<rel, val, helm, skipped, edits, faults>>

Init ==
    /\ rel = [r \in Release |-> NoObj]
    /\ val = [v \in Values |-> [data |-> 1, ann |-> {}]]
    /\ helm = [r \in Release |-> NoHelm]
    /\ queue = {} /\ vqueue = {}
    /\ ctx = [r \in Release |-> IdleWorker]
    /\ vw = IdleValuesWorker
    /\ skipped = {}
    /\ edits = 0 /\ faults = 0 /\ restarts = 0
=============================================================================
