----------------------- MODULE ReleaseGroupReconciler -----------------------
(***************************************************************************)
(* ReleaseGroupReconciler.Reconcile of the agent: a ReleaseGroup lists     *)
(* releases; the controller creates a Release object for each of them,     *)
(* deletes those that carry the group's label and are no longer listed,    *)
(* and deletes the listed ones with the group.  One worker; two goroutines *)
(* feed it the removals and creations over unbuffered channels.            *)
(*                                                                         *)
(* Release objects live as ReleaseLifecycle says: an object adopted by the *)
(* release controller stays, as "leaving", until its helm release is gone. *)
(* A group is one namespace's, its label is its name, and of the spec of a *)
(* listed release only the name is kept: an object that exists is never    *)
(* updated.                                                                *)
(***************************************************************************)
EXTENDS Naturals

CONSTANTS
    Group,        \* names (and labels) of ReleaseGroup objects
    Name,         \* names of the releases they list
    MaxFaults,    \* bound: failing calls in a behaviour
    MaxEdits,     \* bound: writes by users in a behaviour
    MaxRestarts   \* bound: restarts of the agent in a behaviour

ASSUME GroupBounds ==
    MaxFaults \in Nat /\ MaxEdits \in Nat /\ MaxRestarts \in Nat

VARIABLES
    group,      \* group[g]: the ReleaseGroup object in the apiserver
    rel,        \* rel[n]: the Release object: its stage and its label
    queue,      \* work queue of the controller
    w,          \* the worker and its two goroutines
    passed,     \* history: releases the group's worker passed over, see Lookup
    edits, faults, restarts

vars == <<group, rel, queue, w, passed, edits, faults, restarts>>

GroupObj == [exists: BOOLEAN, deleting: BOOLEAN, fin: BOOLEAN,
             spec: SUBSET Name]

NoGroup == [exists |-> FALSE, deleting |-> FALSE, fin |-> FALSE, spec |-> {}]

(* The label of a Release object is a set of one group, empty when there   *)
(* is no object.                                                           *)
NoRelease == [st |-> "absent", label |-> {}]

ReleaseObj == {NoRelease}
              \cup [st: {"new", "owned", "leaving"}, label: {{g} : g \in Group}]

Feeder == {"remover", "creator"}

Worker == [pc: {"idle", "finalize", "adopt", "list", "serve"},
           cur: SUBSET Group, obj: GroupObj, fresh: BOOLEAN,
           remove: SUBSET Name, create: SUBSET Name, \* still to be sent
           found: SUBSET Name,                       \* looked up, not there
           feeding: SUBSET Feeder, quits: 0..1]

IdleWorker == [pc |-> "idle", cur |-> {}, obj |-> NoGroup, fresh |-> FALSE,
               remove |-> {}, create |-> {}, found |-> {},
               feeding |-> {}, quits |-> 0]

NoFault == faults' = faults
Fault == faults < MaxFaults /\ faults' = faults + 1

-----------------------------------------------------------------------------
(* Reconcile: Get, whose error is returned so that the key comes back, and *)
(* handleFinalizer decides.                                                *)
Begin(g) ==
    LET o == group[g] IN
    [IdleWorker EXCEPT
        !.pc = IF o.deleting THEN "finalize"
               ELSE IF o.fin THEN "list" ELSE "adopt",
        !.cur = {g}, !.obj = o, !.fresh = TRUE,
        !.remove = IF o.deleting THEN o.spec ELSE {}]

Start(g) ==
    /\ w.pc = "idle" /\ g \in queue
    /\ \/ /\ NoFault
          /\ queue' = queue \ {g}
          /\ w' = IF group[g].exists THEN Begin(g) ELSE IdleWorker
       \/ Fault /\ UNCHANGED <<queue, w>>
    /\ UNCHANGED <<group, rel, passed, edits, restarts>>

(* Delete of a Release object, by name: without a finalizer it is gone at  *)
(* once.  An error is only logged.                                         *)
Deleted(o) == IF o.st \in {"absent", "new"} THEN NoRelease
              ELSE [o EXCEPT !.st = "leaving"]

(* A release of another group that is deleted counts as passed over for    *)
(* the group that lists it.                                                *)
removeRelease(n) ==
    \/ /\ NoFault
       /\ rel' = [rel EXCEPT ![n] = Deleted(@)]
       /\ passed' = passed \cup ((rel[n].label \ w.cur) \X {n})
    \/ Fault /\ UNCHANGED <<rel, passed>>

(* The group is being deleted: its listed releases are deleted one by one  *)
(* (the worker's "remove" is what is left of the list) ...                 *)
FinalizeRemove(n) ==
    /\ w.pc = "finalize" /\ n \in w.remove
    /\ removeRelease(n)
    /\ w' = [w EXCEPT !.remove = @ \ {n}]
    /\ UNCHANGED <<group, queue, edits, restarts>>

(* ... and the Update without the finalizer lets the object go.  An error  *)
(* is returned, and the key comes back; any write of the object queues it  *)
(* too, as the controller has no event filter.  Mutants: errors are        *)
(* swallowed; an event filter on the generation.                           *)
RequeuedNever(g) == queue
Requeued(g) == queue \cup {g}
SeenNever(g) == queue
Seen(g) == queue \cup {g}

(* (Mutant: a write that does not check the resourceVersion it read.)      *)
UpToDateAlways == TRUE
UpToDate == w.fresh
WriteFails == (~UpToDate /\ NoFault) \/ Fault

DropFinalizer(g) ==
    /\ w.pc = "finalize" /\ w.cur = {g} /\ w.remove = {}
    /\ w' = IdleWorker
    /\ \/ /\ UpToDate /\ NoFault
          /\ group' = [group EXCEPT ![g] = NoGroup]
          /\ queue' = queue \cup {g}
       \/ /\ WriteFails
          /\ queue' = Requeued(g)
          /\ UNCHANGED group
    /\ UNCHANGED <<rel, passed, edits, restarts>>

(* After adding its finalizer Reconcile returns; the event of this Update  *)
(* starts the next one.                                                    *)
AddFinalizer(g) ==
    /\ w.pc = "adopt" /\ w.cur = {g}
    /\ w' = IdleWorker
    /\ \/ /\ UpToDate /\ NoFault
          /\ group' = [group EXCEPT ![g].fin = TRUE]
          /\ queue' = Seen(g)
       \/ /\ WriteFails
          /\ queue' = Requeued(g)
          /\ UNCHANGED group
    /\ UNCHANGED <<rel, passed, edits, restarts>>

-----------------------------------------------------------------------------
(* List the objects with the group's label; the error is only logged, and  *)
(* the list is then empty.  Then the goroutines start.                     *)
List(g) ==
    /\ w.pc = "list" /\ w.cur = {g}
    /\ \E items \in {{n \in Name : g \in rel[n].label}, {}} :
          /\ IF items = {n \in Name : g \in rel[n].label} THEN NoFault ELSE Fault
          /\ w' = [w EXCEPT !.pc = "serve", !.feeding = Feeder,
                            !.remove = items \ w.obj.spec,
                            !.create = w.obj.spec]
    /\ UNCHANGED <<group, rel, queue, passed, edits, restarts>>

(* case f := <-remove *)
Remove(n) ==
    /\ w.pc = "serve" /\ w.found = {} /\ n \in w.remove
    /\ removeRelease(n)
    /\ w' = [w EXCEPT !.remove = @ \ {n}]
    /\ UNCHANGED <<group, queue, edits, restarts>>

(* case g := <-create: deployRelease looks the object up.  If it is there, *)
(* or cannot be read, nothing is done.  It is passed over when the object  *)
(* found is on its way out or another group's.                             *)
Lookup(n) ==
    /\ w.pc = "serve" /\ w.found = {} /\ n \in w.create
    /\ LET c == [w EXCEPT !.create = @ \ {n}]
           over == rel[n].st = "leaving" \/ rel[n].label \cap w.cur = {}
       IN \/ /\ rel[n].st = "absent" /\ NoFault
             /\ w' = [c EXCEPT !.found = {n}]
             /\ passed' = passed \ (w.cur \X {n})
          \/ /\ rel[n].st # "absent" /\ NoFault
             /\ w' = c
             /\ passed' = IF over THEN passed \cup (w.cur \X {n})
                                  ELSE passed \ (w.cur \X {n})
          \/ Fault /\ w' = c /\ UNCHANGED passed
    /\ UNCHANGED <<group, rel, queue, edits, restarts>>

(* ... and creates it.  An error is only logged. *)
Create(n) ==
    /\ w.pc = "serve" /\ n \in w.found
    /\ w' = [w EXCEPT !.found = {}]
    /\ \/ rel' = [rel EXCEPT ![n] = [st |-> "new", label |-> w.cur]] /\ NoFault
       \/ Fault /\ UNCHANGED rel
    /\ UNCHANGED <<group, queue, passed, edits, restarts>>

(* case v := <-quit: a goroutine has sent all it had.  Mutants: Reconcile  *)
(* returns when the first one is done; it waits for a third.               *)
AllServedByOne(quits) == quits >= 1
AllServedByMore(quits) == quits > 2
AllServed(quits) == quits = 2

Pending(f) == IF f = "remover" THEN w.remove ELSE w.create

Quit(f) ==
    /\ w.pc = "serve" /\ w.found = {}
    /\ f \in w.feeding /\ Pending(f) = {}
    /\ w' = IF AllServed(w.quits + 1) THEN IdleWorker
            ELSE [w EXCEPT !.feeding = @ \ {f}, !.quits = @ + 1]
    /\ UNCHANGED <<group, rel, queue, passed, edits, faults, restarts>>

GroupStep == \/ \E g \in Group : \/ Start(g) \/ DropFinalizer(g)
                                 \/ AddFinalizer(g) \/ List(g)
             \/ \E n \in Name : \/ FinalizeRemove(n) \/ Remove(n)
                                \/ Lookup(n) \/ Create(n)
             \/ \E f \in Feeder : Quit(f)

-----------------------------------------------------------------------------
(* The release controller, as ReleaseLifecycle describes it.               *)
ReleaseAdopted(n) ==
    /\ rel[n].st = "new"
    /\ rel' = [rel EXCEPT ![n].st = "owned"]
    /\ UNCHANGED <<group, queue, w, passed, edits, faults, restarts>>

ReleaseLetGo(n) ==
    /\ rel[n].st = "leaving"
    /\ rel' = [rel EXCEPT ![n] = NoRelease]
    /\ UNCHANGED <<group, queue, w, passed, edits, faults, restarts>>

(* Writes by users; each queues the group and makes the worker's copy stale. *)
UserWrite(g, o) ==
    /\ edits < MaxEdits
    /\ edits' = edits + 1
    /\ group' = [group EXCEPT ![g] = o]
    /\ queue' = queue \cup {g}
    /\ w' = IF g \in w.cur THEN [w EXCEPT !.fresh = FALSE] ELSE w
    /\ UNCHANGED <<rel, passed, faults, restarts>>

CreateGroup(g, spec) ==
    /\ ~group[g].exists
    /\ UserWrite(g, [NoGroup EXCEPT !.exists = TRUE, !.spec = spec])

EditGroup(g, spec) ==
    /\ group[g].exists /\ spec # group[g].spec
    /\ UserWrite(g, [group[g] EXCEPT !.spec = spec])

DeleteGroup(g) ==
    /\ group[g].exists /\ ~group[g].deleting
    /\ UserWrite(g, IF group[g].fin THEN [group[g] EXCEPT !.deleting = TRUE]
                    ELSE NoGroup)

(* The agent dies and starts again: its memory is gone, every group queued. *)
Restart ==
    /\ restarts < MaxRestarts
    /\ restarts' = restarts + 1
    /\ w' = IdleWorker
    /\ queue' = {g \in Group : group[g].exists}
    /\ UNCHANGED <<group, rel, passed, edits, faults>>

(* Releases may carry the label of a group before there is one: labelled   *)
(* by hand, or left when a Delete failed in an earlier life of the group.  *)
Init == /\ group = [g \in Group |-> NoGroup]
        /\ rel \in [Name -> {o \in ReleaseObj : o.st \in {"absent", "owned"}}]
        /\ queue = {} /\ w = IdleWorker /\ passed = {}
        /\ edits = 0 /\ faults = 0 /\ restarts = 0

Next == \/ GroupStep
        \/ \E n \in Name : ReleaseAdopted(n) \/ ReleaseLetGo(n)
        \/ \E g \in Group, spec \in SUBSET Name :
              CreateGroup(g, spec) \/ EditGroup(g, spec)
        \/ \E g \in Group : DeleteGroup(g)
        \/ Restart

Spec == Init /\ [][Next]_vars

(* The worker and its goroutines keep running.  Nothing is asked of the    *)
(* release controller or of users.                                         *)
FairSpec == Spec /\ WF_vars(GroupStep)

-----------------------------------------------------------------------------
GroupTypeOK ==
    /\ group \in [Group -> GroupObj]
    /\ rel \in [Name -> ReleaseObj]
    /\ queue \subseteq Group
    /\ w \in Worker
    /\ passed \subseteq Group \X Name
    /\ edits \in Nat /\ faults \in Nat /\ restarts \in Nat

Served(g) == group[g].exists /\ ~group[g].deleting
             /\ g \notin queue /\ g \notin w.cur

(* Without failing calls no release outlives its entry in the list: when a *)
(* group has been served, every live release that carries its label is     *)
(* listed, even one created from a list that was already out of date.      *)
NoStray ==
    faults = 0 =>
        \A g \in Group, n \in Name :
            Served(g) /\ rel[n].label = {g} /\ rel[n].st # "leaving"
                => n \in group[g].spec

(* "create/update release resource" for every specified release            *)
(* (docs/content/architecture/release.md:174).  Without failing calls a    *)
(* listed release is missing in one way only: the worker passed it over    *)
(* because its object was still on its way out or belonged to another      *)
(* group, or another group deleted it.                                     *)
MissingOnlyIfPassed ==
    faults = 0 =>
        \A g \in Group, n \in Name :
            Served(g) /\ n \in group[g].spec
                => rel[n].st # "absent" \/ <<g, n>> \in passed

(* Reconcile never leaves a goroutine behind blocked on a channel nobody   *)
(* reads: when it returns both have sent all they had.                     *)
NoGoroutineLeft ==
    [][w.pc = "serve" /\ w'.pc = "idle" /\ restarts' = restarts
          => w.remove = {} /\ w.create = {} /\ w.found = {}]_vars

(* Without failing calls a group that goes away takes with it every        *)
(* release it lists at that moment: the list its worker went through is    *)
(* not an older one, even when users edit the group while it is deleted.   *)
GroupTakesListed ==
    [][\A g \in Group :
          faults = 0 /\ group[g].fin /\ ~group'[g].exists =>
              \A n \in group[g].spec :
                  rel'[n].label = {g} => rel'[n].st = "leaving"]_vars

(* A deleted group goes away.                                              *)
GroupDeletionCompletes ==
    \A g \in Group : group[g].deleting ~> ~group[g].exists
=============================================================================
