------------------------ MODULE RepoGroupReconciler -------------------------
(***************************************************************************)
(* RepoGroupReconciler.Reconcile of the manager: a RepoGroup lists specs   *)
(* of repositories; the controller deletes the Repositories that carry the *)
(* group's label and are not listed, creates the listed ones and writes    *)
(* the listed spec into those that exist.  It has one worker with two      *)
(* goroutines, no finalizer, no event filter and does not watch            *)
(* Repositories; errors are logged, except the one of its first Get.       *)
(*                                                                         *)
(* Repositories have an owner, so that the garbage collector deletes them  *)
(* after their group, and a finalizer of the repository controller: once   *)
(* adopted they stay, as "leaving", until that controller lets them go.    *)
(***************************************************************************)
EXTENDS Naturals, FiniteSets

CONSTANTS
    Group,        \* names of RepoGroup objects; each has a label of its own
    Name,         \* names of repositories
    Version,      \* what the spec of a repository may be
    MaxFaults,    \* bound: failing calls in a behaviour
    MaxEdits,     \* bound: writes by users in a behaviour
    MaxRestarts   \* bound: restarts of the manager in a behaviour

ASSUME RepoGroupBounds ==
    /\ Version \subseteq Nat \ {0}
    /\ MaxFaults \in Nat /\ MaxEdits \in Nat /\ MaxRestarts \in Nat

VARIABLES
    group,      \* group[g]: the RepoGroup object in the apiserver
    repo,       \* repo[n]: the Repository object
    queue,      \* work queue of the controller
    w,          \* the worker and its two goroutines
    missed,     \* history: listed repositories that did not get their spec
    edits, faults, restarts

vars == <<group, repo, queue, w, missed, edits, faults, restarts>>

(* A group's list gives every repository a spec, 0 if it is not listed.    *)
(* The uid tells a group from an earlier one of the same name.             *)
List == [Name -> Version \cup {0}]
NoList == [n \in Name |-> 0]
Listed(l) == {n \in Name : l[n] # 0}

GroupObj == [exists: BOOLEAN, uid: Nat, list: List]
NoGroup == [exists |-> FALSE, uid |-> 0, list |-> NoList]

(* Label and owner of a Repository are sets of at most one element.        *)
RepoObj == [st: {"absent", "new", "owned", "leaving"}, label: SUBSET Group,
            owner: SUBSET (Group \X Nat), spec: Version \cup {0}]
NoRepo == [st |-> "absent", label |-> {}, owner |-> {}, spec |-> 0]

Feeder == {"remover", "creator"}

Worker == [pc: {"idle", "list", "serve"}, cur: SUBSET Group, obj: GroupObj,
           remove: SUBSET Name, create: SUBSET Name, \* still to be sent
           absent: SUBSET Name,                      \* Get said NotFound
           read: SUBSET Name, fresh: BOOLEAN,        \* Get returned a copy
           feeding: SUBSET Feeder]

IdleWorker == [pc |-> "idle", cur |-> {}, obj |-> NoGroup, remove |-> {},
               create |-> {}, absent |-> {}, read |-> {}, fresh |-> FALSE,
               feeding |-> {}]

NoFault == faults' = faults
Fault == faults < MaxFaults /\ faults' = faults + 1

-----------------------------------------------------------------------------
(* Get of the group; its error brings the key back.                        *)
Start(g) ==
    /\ w.pc = "idle" /\ g \in queue
    /\ \/ /\ NoFault
          /\ queue' = queue \ {g}
          /\ w' = IF group[g].exists
                  THEN [IdleWorker EXCEPT !.pc = "list", !.cur = {g},
                                          !.obj = group[g]]
                  ELSE IdleWorker
       \/ Fault /\ UNCHANGED <<queue, w>>
    /\ UNCHANGED <<group, repo, missed, edits, restarts>>

(* List the Repositories with the group's label; if it fails the list is   *)
(* empty.  Then the goroutines start.                                      *)
Labelled(g) == {n \in Name : g \in repo[n].label}

ListRepos(g) ==
    /\ w.pc = "list" /\ w.cur = {g}
    /\ \E items \in {Labelled(g), {}} :
          /\ IF items = Labelled(g) THEN NoFault ELSE Fault
          /\ w' = [w EXCEPT !.pc = "serve", !.feeding = Feeder,
                            !.remove = items \ Listed(w.obj.list),
                            !.create = Listed(w.obj.list)]
    /\ UNCHANGED <<group, repo, queue, missed, edits, restarts>>

(* Delete by name: without a finalizer the object is gone at once.         *)
Deleted(o) == IF o.st \in {"absent", "new"} THEN NoRepo
              ELSE [o EXCEPT !.st = "leaving"]

(* A write of n by somebody else makes a copy the worker has of it old.    *)
Stale(n) == IF n \in w.read THEN [w EXCEPT !.fresh = FALSE] ELSE w

Alive(n) == repo[n].st \in {"new", "owned"}

(* Who lists n, and with another spec than s.                              *)
Listing(n) == {g \in Group : group[g].list[n] # 0}
Other(n, s) == {g \in Listing(n) : group[g].list[n] # s}

Busy == w.absent # {} \/ w.read # {}

(* case f := <-remove: removeRepo.                                         *)
removeRepo(n) ==
    /\ w.pc = "serve" /\ ~Busy /\ n \in w.remove
    /\ w' = [w EXCEPT !.remove = @ \ {n}]
    /\ \/ /\ NoFault
          /\ repo' = [repo EXCEPT ![n] = Deleted(@)]
          /\ missed' = IF Alive(n) THEN missed \cup (Listing(n) \X {n})
                       ELSE missed
       \/ Fault /\ UNCHANGED <<repo, missed>>
    /\ UNCHANGED <<group, queue, edits, restarts>>

(* case g := <-create: deployRepo looks the object up ...                  *)
GetRepo(n) ==
    /\ w.pc = "serve" /\ ~Busy /\ n \in w.create
    /\ LET c == [w EXCEPT !.create = @ \ {n}] IN
       \/ /\ NoFault
          /\ w' = IF repo[n].st = "absent" THEN [c EXCEPT !.absent = {n}]
                  ELSE [c EXCEPT !.read = {n}, !.fresh = TRUE]
          /\ missed' = missed \ (w.cur \X {n})
       \/ Fault /\ w' = c /\ UNCHANGED missed
    /\ UNCHANGED <<group, repo, queue, edits, restarts>>

(* ... and creates it, owned by the group that was read ...  Mutant:       *)
(* without the owner.                                                      *)
OwnersNone == {}
Owners == {<<g, w.obj.uid>> : g \in w.cur}

CreateRepo(n) ==
    /\ w.pc = "serve" /\ n \in w.absent
    /\ w' = [w EXCEPT !.absent = {}]
    /\ \/ /\ NoFault
          /\ repo' = [repo EXCEPT ![n] =
                 [st |-> "new", label |-> w.cur, owner |-> Owners,
                  spec |-> w.obj.list[n]]]
          /\ missed' = missed \cup (Other(n, w.obj.list[n]) \X {n})
       \/ Fault /\ UNCHANGED <<repo, missed>>
    /\ UNCHANGED <<group, queue, edits, restarts>>

(* ... or updates it with the metadata just read: label and owner stay as  *)
(* they are, and a write that came between makes the apiserver refuse.     *)
(* Mutant: the spec of the copy is kept.                                   *)
SpecWrittenNot(n) == repo[n].spec
SpecWritten(n) == w.obj.list[n]

UpdateRepo(n) ==
    /\ w.pc = "serve" /\ n \in w.read
    /\ w' = [w EXCEPT !.read = {}, !.fresh = FALSE]
    /\ \/ /\ NoFault /\ w.fresh
          /\ repo' = [repo EXCEPT ![n].spec = SpecWritten(n)]
          /\ missed' = missed \cup (Other(n, w.obj.list[n]) \X {n})
                \cup IF repo[n].st = "leaving" THEN w.cur \X {n} ELSE {}
       \/ /\ NoFault /\ ~w.fresh
          /\ missed' = missed \cup (w.cur \X {n})
          /\ UNCHANGED repo
       \/ Fault /\ UNCHANGED <<repo, missed>>
    /\ UNCHANGED <<group, queue, edits, restarts>>

(* case v := <-quit: Reconcile returns when both goroutines have sent all  *)
(* they had.  Mutants: when one has; it waits for a third.                 *)
AllServedByOne(feeding) == Cardinality(feeding) <= 1
AllServedByMore(feeding) == FALSE
AllServed(feeding) == feeding = {}

Pending(f) == IF f = "remover" THEN w.remove ELSE w.create

Quit(f) ==
    /\ w.pc = "serve" /\ ~Busy
    /\ f \in w.feeding /\ Pending(f) = {}
    /\ w' = IF AllServed(w.feeding \ {f}) THEN IdleWorker
            ELSE [w EXCEPT !.feeding = @ \ {f}]
    /\ UNCHANGED <<group, repo, queue, missed, edits, faults, restarts>>

RepoGroupStep ==
    \/ \E g \in Group : Start(g) \/ ListRepos(g)
    \/ \E n \in Name : removeRepo(n) \/ GetRepo(n) \/ CreateRepo(n) \/ UpdateRepo(n)
    \/ \E f \in Feeder : Quit(f)

-----------------------------------------------------------------------------
(* The repository controller: it adopts a Repository, writes its status    *)
(* when that changes, and lets go of one that is being deleted.            *)
RepoAdopted(n) ==
    /\ repo[n].st = "new"
    /\ repo' = [repo EXCEPT ![n].st = "owned"]
    /\ w' = Stale(n)
    /\ UNCHANGED <<group, queue, missed, edits, faults, restarts>>

StatusWritten(n) ==
    /\ repo[n].st = "owned" /\ n \in w.read /\ w.fresh
    /\ w' = Stale(n)
    /\ UNCHANGED <<group, repo, queue, missed, edits, faults, restarts>>

RepoLetGo(n) ==
    /\ repo[n].st = "leaving"
    /\ repo' = [repo EXCEPT ![n] = NoRepo]
    /\ w' = Stale(n)
    /\ UNCHANGED <<group, queue, missed, edits, faults, restarts>>

(* The collector deletes a Repository whose owner is gone, also when a new *)
(* group has its name.                                                     *)
OwnerGone(n) ==
    \E o \in repo[n].owner : ~(group[o[1]].exists /\ group[o[1]].uid = o[2])

CollectGarbage(n) ==
    /\ Alive(n) /\ OwnerGone(n)
    /\ repo' = [repo EXCEPT ![n] = Deleted(@)]
    /\ w' = Stale(n)
    /\ missed' = missed \cup (Listing(n) \X {n})
    /\ UNCHANGED <<group, queue, edits, faults, restarts>>

(* Writes by users; each is an event that queues the group.                *)
UserWrite(g, o) ==
    /\ edits < MaxEdits
    /\ edits' = edits + 1
    /\ group' = [group EXCEPT ![g] = o]
    /\ queue' = queue \cup {g}
    /\ UNCHANGED <<repo, w, missed, faults, restarts>>

CreateGroup(g, list) ==
    /\ ~group[g].exists
    /\ UserWrite(g, [exists |-> TRUE, uid |-> edits + 1, list |-> list])

EditGroup(g, list) ==
    /\ group[g].exists /\ list # group[g].list
    /\ UserWrite(g, [group[g] EXCEPT !.list = list])

DeleteGroup(g) == group[g].exists /\ UserWrite(g, NoGroup)

(* The manager dies and starts again: every group is queued.               *)
Restart ==
    /\ restarts < MaxRestarts
    /\ restarts' = restarts + 1
    /\ w' = IdleWorker
    /\ queue' = {g \in Group : group[g].exists}
    /\ UNCHANGED <<group, repo, missed, edits, faults>>

(* There may be Repositories that users have made, without a label.        *)
Init == /\ group = [g \in Group |-> NoGroup]
        /\ \E made \in SUBSET Name, s \in Version :
              repo = [n \in Name |-> IF n \in made
                        THEN [NoRepo EXCEPT !.st = "owned", !.spec = s]
                        ELSE NoRepo]
        /\ queue = {} /\ w = IdleWorker /\ missed = {}
        /\ edits = 0 /\ faults = 0 /\ restarts = 0

Next == \/ RepoGroupStep
        \/ \E n \in Name : \/ RepoAdopted(n) \/ StatusWritten(n)
                           \/ RepoLetGo(n) \/ CollectGarbage(n)
        \/ \E g \in Group, list \in List :
              CreateGroup(g, list) \/ EditGroup(g, list)
        \/ \E g \in Group : DeleteGroup(g)
        \/ Restart

Spec == Init /\ [][Next]_vars

(* The worker and its goroutines keep running, and so does the collector.  *)
(* Nothing is asked of users or of the repository controller.              *)
FairSpec == Spec /\ WF_vars(RepoGroupStep)
                 /\ \A n \in Name : WF_vars(CollectGarbage(n))

-----------------------------------------------------------------------------
(* Types, and the bookkeeping of the goroutines: what is still to be sent  *)
(* has a goroutine that sends it, and the worker waits for none that is    *)
(* gone.                                                                   *)
RepoGroupTypeOK ==
    /\ group \in [Group -> GroupObj]
    /\ repo \in [Name -> RepoObj]
    /\ queue \subseteq Group
    /\ w \in Worker
    /\ (w.pc = "serve") <=> (w.feeding # {})
    /\ w.remove # {} => "remover" \in w.feeding
    /\ w.create # {} => "creator" \in w.feeding
    /\ missed \subseteq Group \X Name
    /\ edits \in Nat /\ faults \in Nat /\ restarts \in Nat

Served(g) == group[g].exists /\ g \notin queue /\ g \notin w.cur

(* Without failing calls no Repository outlives its entry in the list:     *)
(* when a group has been served, every live one with its label is listed,  *)
(* whatever was edited while the worker went through an older list.        *)
NoStrayRepo ==
    faults = 0 =>
        \A g \in Group : Served(g) =>
            \A n \in Labelled(g) : Alive(n) => n \in Listed(group[g].list)

(* "create/update repository resource" (docs/content/architecture/         *)
(* repository.md): without failing calls a listed repository lacks the     *)
(* listed spec in few ways only: the update lost to a write that came      *)
(* after its Get (and is not repeated), the object was on its way out or   *)
(* was deleted by the collector or a worker, or another group wrote it.    *)
SpecUnlessMissed ==
    faults = 0 =>
        \A g \in Group : Served(g) =>
            \A n \in Listed(group[g].list) :
                \/ Alive(n) /\ repo[n].spec = group[g].list[n]
                \/ <<g, n>> \in missed

(* When there are no groups any more, nothing they created stays, not even *)
(* a Repository created from a group that was deleted meanwhile.           *)
GroupsCleanedUp ==
    <>[](\A g \in Group : ~group[g].exists) =>
        <>[](\A n \in Name : Alive(n) => repo[n].label = {})
=============================================================================
