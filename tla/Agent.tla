------------------------------- MODULE Agent --------------------------------
(***************************************************************************)
(* The agent process: the release controller (MaxConcurrentReconciles      *)
(* workers) and the values controller (one worker) over the apiserver and  *)
(* helm, with users editing objects, calls that fail and restarts.         *)
(***************************************************************************)
EXTENDS ReleaseReconciler, ValuesReconciler

Next == \/ \E r \in Release : ReleaseStep(r)
        \/ ValuesStep
        \/ User
        \/ Restart

Spec == Init /\ [][Next]_vars

(* The workers are goroutines that never stop taking keys from their       *)
(* queues; users and failures owe nothing.                                 *)
Fairness == /\ \A r \in Release : WF_vars(ReleaseStep(r))
            /\ WF_vars(ValuesStep)

FairSpec == Spec /\ Fairness

-----------------------------------------------------------------------------
TypeOK ==
    /\ rel \in [Release -> Obj]
    /\ val \in [Values -> [data: Nat, ann: SUBSET Release]]
    /\ helm \in [Release -> HelmRecord]
    /\ queue \subseteq Release /\ vqueue \subseteq Values
    /\ ctx \in [Release -> Worker]
    /\ vw \in ValuesWorker
    /\ skipped \subseteq Release
    /\ edits \in Nat /\ faults \in Nat /\ restarts \in Nat

(* A helm release never outlives the Release object it was installed for,  *)
(* and that object carries the finalizer: a deletion cannot leave it       *)
(* behind (handleFinalizer and RemoveRelease against installs in flight).  *)
Owned == \A r \in Release :
            helm[r].st # "none" => rel[r].exists /\ rel[r].fin

(* A release nobody works on and that claims to be synced (or was, before  *)
(* its values changed) reports the revision helm has: syncStatus skips     *)
(* writes, but never one that matters.                                     *)
ReportedRevision ==
    \A r \in Release :
        Quiet(r) /\ rel[r].exists /\ rel[r].cond \in {"success", "valueschange"}
            => helm[r].st # "none" /\ rel[r].rev = helm[r].rev

(* The controller never forgets a release: one that is not queued and in   *)
(* nobody's hands is settled, or the values worker is about to poke it.    *)
(* It fails when a marked release is left without its label, when an       *)
(* in-flight reconciliation swallows an edit, a poke or a deletion.        *)
Settled(r) == Synced(rel[r]) /\ ~rel[r].label /\ ~rel[r].deleting
BeingPoked(r) == vw.pc = "poke" /\ r \in vw.tgt /\ vw.fresh
NeverForgotten ==
    \A r \in Release :
        rel[r].exists /\ Quiet(r) => Settled(r) \/ BeingPoked(r)

(* The values a release should have now.                                   *)
Wanted(r) == [v \in Values |-> IF v \in rel[r].refs THEN val[v].data ELSE 0]

(* "Release revision and values should be modified after applying new      *)
(* values resource and updating existing resource with added reference"    *)
(* (docs/content/usage/releases.md:157): when all workers are idle and     *)
(* nothing is queued, a synced release has the values of its references.   *)
AllQuiet == queue = {} /\ vqueue = {} /\ vw.pc = "idle"
            /\ \A r \in Release : Idle(r)
ValuesApplied ==
    AllQuiet => \A r \in Release :
        rel[r].exists /\ Synced(rel[r]) => helm[r].vals = Wanted(r)

(* What does hold: a quiet synced release misses the values of its         *)
(* references only if a change is still on its way, if the values worker   *)
(* passed it over while it was unsynced, if a call on a reference failed,  *)
(* or if its name was overwritten in an annotation (even if it is there    *)
(* again, restored by a third release that had read it before).  In        *)
(* particular an edit that finds the release synced and registered since   *)
(* its last reconciliation always gets through, whatever is in flight.     *)
OnItsWay(r) == \/ vqueue # {} \/ vw.pc # "idle"
StaleOnlyIfMissed ==
    \A r \in Release :
        rel[r].exists /\ Quiet(r) /\ Synced(rel[r])
            => helm[r].vals = Wanted(r) \/ OnItsWay(r) \/ r \in skipped

(* With failing writes a release can be forgotten in one way only: the     *)
(* values worker has marked it and then could not set its label; marking   *)
(* it again is refused because it is no longer synced.                     *)
ForgottenOnlyIfMarked ==
    \A r \in Release :
        rel[r].exists /\ Quiet(r)
            => Settled(r) \/ (rel[r].cond = "valueschange" /\ ~rel[r].deleting)

(* Whatever fails and whoever restarts, a helm release is removed only     *)
(* when the Release object it belongs to is being deleted, and an install  *)
(* or upgrade begins only while that object exists.                        *)
HelmOnlyOnBehalf ==
    [][\A r \in Release :
          /\ helm[r].st # "none" /\ helm'[r].st = "none" => rel[r].deleting
          /\ helm'[r].rev > helm[r].rev => rel[r].exists /\ rel[r].fin]_vars

(* The controller implements the life cycle of ReleaseLifecycle: an object *)
(* without the finalizer is free.                                          *)
OwnState(r) == IF ~(rel[r].exists /\ rel[r].fin) THEN "free"
               ELSE IF rel[r].deleting THEN "leaving" ELSE "owned"

Lifecycle == INSTANCE ReleaseLifecycle
                WITH own  <- [r \in Release |-> OwnState(r)],
                     inst <- [r \in Release |-> helm[r].rev]

ImplementsLifecycle == Lifecycle!Spec

(* "all up to date" (controllers/agent/release_controller.go:207): the     *)
(* last revision of a settled release is deployed.                         *)
SyncedIsDeployed ==
    \A r \in Release :
        rel[r].exists /\ Quiet(r) /\ Synced(rel[r]) => helm[r].st = "deployed"

(* "Check if something changed regarding the existing release"             *)
(* (internal/release/release.go:138): a settled release runs the chart     *)
(* version its spec asks for.                                              *)
SyncedHasVersion ==
    \A r \in Release :
        rel[r].exists /\ Quiet(r) /\ Synced(rel[r])
            => helm[r].ver = rel[r].ver

-----------------------------------------------------------------------------
(* A deleted release eventually goes away, with its helm release.          *)
DeletionCompletes ==
    \A r \in Release : rel[r].deleting ~> ~rel[r].exists

(* When users and failures stop, every release settles for good, unless    *)
(* a restart left helm's last revision pending.                            *)
EventuallySettled ==
    \A r \in Release :
        <>[](~rel[r].exists \/ Settled(r) \/ helm[r].st = "pending")
=============================================================================
