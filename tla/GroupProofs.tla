----------------------------- MODULE GroupProofs -----------------------------
(***************************************************************************)
(* Proofs about ReleaseGroupReconciler for every set of groups and release *)
(* names and every bound.                                                  *)
(*                                                                         *)
(* No property is inductive: the worker acts on a group it has read        *)
(* before, and while it does much is still undone.  RoundInv says that a   *)
(* copy which is out of date has its group in the queue (so that what is   *)
(* done from it will be done again), that each goroutine which still has   *)
(* something to send is there to send it, and that whatever is not as the  *)
(* group lists it is in the hands of the worker, waiting to be listed,     *)
(* sent, created or deleted.                                               *)
(***************************************************************************)
EXTENDS ReleaseGroupReconciler, TLAPS

(* A round works for one group; outside "serve" no goroutine is up, and in *)
(* it each of the two either still sends or has sent all and quit.         *)
WorkerInv ==
    /\ w.pc = "idle" => w = IdleWorker
    /\ w.pc # "idle" => \E g \in Group : w.cur = {g}
    /\ w.pc \in {"adopt", "list"} => w.remove = {}
    /\ w.pc \in {"finalize", "adopt", "list"} => w.create = {} /\ w.found = {}
    /\ w.pc = "finalize" => w.obj.deleting
    /\ w.pc = "serve" => w.remove \cap w.obj.spec = {}
    /\ w.create \cup w.found \subseteq w.obj.spec
    /\ \A n \in w.found : w.found = {n} /\ rel[n].st = "absent"

FeedInv ==
    /\ w.pc # "serve" => w.quits = 0
    /\ w.pc = "serve" => /\ w.remove # {} => "remover" \in w.feeding
                         /\ w.create # {} => "creator" \in w.feeding
                         /\ \/ w.quits = 0 /\ w.feeding = Feeder
                            \/ w.quits = 1 /\ \E f \in Feeder : w.feeding = {f}

(* The copy is the group as it is now, unless the group is queued again.   *)
CopyInv ==
    /\ \A g \in Group : group[g].fin => group[g].exists
    /\ \A g \in w.cur : IF w.fresh THEN group[g].exists /\ group[g] = w.obj
                                   ELSE g \in queue

Current(g) == group[g].exists /\ ~group[g].deleting /\ g \notin queue

Awaits(g) == g \in w.cur /\ w.pc \in {"adopt", "list"}

Live(g, n) == rel[n].label = {g} /\ rel[n].st # "leaving"

(* A live release with the label of g that is not listed is to be removed. *)
StrayInv ==
    \A g \in Group, n \in Name :
        Current(g) /\ Live(g, n) =>
            n \in group[g].spec \/ Awaits(g) \/ (g \in w.cur /\ n \in w.remove)

(* A listed release is live and the group's own, or was passed over, or is *)
(* still to be created.                                                    *)
ListedInv ==
    \A g \in Group : Current(g) => \A n \in group[g].spec :
        \/ Live(g, n) \/ <<g, n>> \in passed \/ Awaits(g)
        \/ g \in w.cur /\ n \in w.create \cup w.found

(* Of the listed releases of a group that goes, those not yet deleted are  *)
(* on what is left of the worker's list.                                   *)
FinalizeInv ==
    w.pc = "finalize" =>
        \A n \in w.obj.spec : \A g \in w.cur : Live(g, n) => n \in w.remove

RoundInv == /\ GroupTypeOK /\ WorkerInv /\ FeedInv /\ CopyInv
            /\ faults = 0 => StrayInv /\ ListedInv /\ FinalizeInv

-----------------------------------------------------------------------------
(* Types.                                                                  *)

LEMMA NoGroupType == NoGroup \in GroupObj
  BY DEF NoGroup, GroupObj

LEMMA IdleType == IdleWorker \in Worker
  BY NoGroupType DEF IdleWorker, Worker

(* What a Release object is, field by field.                               *)
LEMMA ReleaseType ==
  ASSUME NEW o
  PROVE  o \in ReleaseObj <=>
            \/ o = NoRelease
            \/ \E s \in {"new", "owned", "leaving"}, g \in Group :
                  o = [st |-> s, label |-> {g}]
  BY DEF ReleaseObj

LEMMA DeletedType ==
  ASSUME NEW o \in ReleaseObj
  PROVE  /\ Deleted(o) \in ReleaseObj
         /\ Deleted(o).st \in {"absent", "leaving"}
         /\ Deleted(o).label \subseteq o.label
         /\ o.st = "absent" => Deleted(o).st = "absent"
  <1>1. CASE o = NoRelease
    BY <1>1, ReleaseType DEF Deleted, NoRelease
  <1>2. ASSUME NEW s \in {"new", "owned", "leaving"}, NEW g \in Group,
               o = [st |-> s, label |-> {g}]
        PROVE  Deleted(o) \in {NoRelease, [st |-> "leaving", label |-> {g}]}
    BY <1>2 DEF Deleted
  <1>3. ASSUME NEW s \in {"new", "owned", "leaving"}, NEW g \in Group,
               o = [st |-> s, label |-> {g}]
        PROVE  Deleted(o) \in ReleaseObj
    BY <1>2, <1>3, ReleaseType
  <1>. QED
    BY <1>1, <1>2, <1>3, ReleaseType DEF NoRelease

(* An object with the label of a group exists.                             *)
LEMMA LabelledExists ==
  ASSUME NEW o \in ReleaseObj, NEW g \in Group
  PROVE  /\ g \in o.label <=> o.label = {g}
         /\ o.label = {g} => o.st # "absent"
         /\ o.st = "absent" => o = NoRelease
  BY ReleaseType DEF NoRelease

LEMMA InitType == Init => GroupTypeOK
  <1>1. ASSUME Init PROVE group \in [Group -> GroupObj]
    BY <1>1, NoGroupType DEF Init
  <1>2. ASSUME Init PROVE rel \in [Name -> ReleaseObj]
    BY <1>2 DEF Init
  <1>. QED
    BY <1>1, <1>2, IdleType DEF Init, GroupTypeOK

(* What the worker takes up.                                               *)
LEMMA BeginType ==
  ASSUME NEW g \in Group, group[g] \in GroupObj
  PROVE  /\ Begin(g) \in Worker
         /\ Begin(g).pc = IF group[g].deleting THEN "finalize"
                          ELSE IF group[g].fin THEN "list" ELSE "adopt"
         /\ Begin(g).cur = {g} /\ Begin(g).obj = group[g] /\ Begin(g).fresh
         /\ Begin(g).remove = IF group[g].deleting THEN group[g].spec ELSE {}
         /\ Begin(g).create = {} /\ Begin(g).found = {} /\ Begin(g).quits = 0
  <1>. DEFINE pc == IF group[g].deleting THEN "finalize"
                    ELSE IF group[g].fin THEN "list" ELSE "adopt"
              remove == IF group[g].deleting THEN group[g].spec ELSE {}
  <1>1. /\ pc \in {"idle", "finalize", "adopt", "list", "serve"}
        /\ remove \in SUBSET Name
    BY DEF GroupObj
  <1>2. Begin(g) = [pc |-> pc, cur |-> {g}, obj |-> group[g], fresh |-> TRUE,
                    remove |-> remove, create |-> {}, found |-> {},
                    feeding |-> {}, quits |-> 0]
    <2>1. Begin(g) = [IdleWorker EXCEPT !.pc = pc, !.cur = {g}, !.obj = group[g],
                                        !.fresh = TRUE, !.remove = remove]
      BY Zenon DEF Begin
    <2>. HIDE DEF pc, remove
    <2>. QED
      BY <2>1 DEF IdleWorker
  <1>. HIDE DEF pc, remove
  <1>3. /\ Begin(g) \in Worker /\ Begin(g).pc = pc
        /\ Begin(g).cur = {g} /\ Begin(g).obj = group[g] /\ Begin(g).fresh
        /\ Begin(g).remove = remove
        /\ Begin(g).create = {} /\ Begin(g).found = {} /\ Begin(g).quits = 0
    BY <1>1, <1>2 DEF Worker
  <1>. QED
    BY <1>3 DEF pc, remove

LEMMA StartType ==
  ASSUME GroupTypeOK, NEW g \in Group, Start(g)
  PROVE  GroupTypeOK'
  <1>1. Begin(g) \in Worker
    BY BeginType DEF GroupTypeOK
  <1>. QED
    BY <1>1, IdleType, GroupBounds DEF Start, NoFault, Fault, GroupTypeOK

LEMMA RemovalType ==
  ASSUME GroupTypeOK, NEW n \in Name, removeRelease(n)
  PROVE  /\ rel' \in [Name -> ReleaseObj] /\ passed' \subseteq Group \X Name
         /\ faults' \in Nat
  <1>1. Deleted(rel[n]) \in ReleaseObj
    BY DeletedType DEF GroupTypeOK
  <1>2. rel[n].label \subseteq Group
    BY ReleaseType DEF GroupTypeOK, NoRelease
  <1>. QED
    BY <1>1, <1>2, GroupBounds DEF removeRelease, NoFault, Fault, GroupTypeOK

LEMMA FinalizeRemoveType ==
  ASSUME GroupTypeOK, NEW n \in Name, FinalizeRemove(n)
  PROVE  GroupTypeOK'
  <1>1. w' \in Worker
    BY DEF FinalizeRemove, GroupTypeOK, Worker
  <1>. QED
    BY <1>1, RemovalType DEF FinalizeRemove, GroupTypeOK

LEMMA FinalizerType ==
  ASSUME GroupTypeOK, NEW g \in Group, DropFinalizer(g) \/ AddFinalizer(g)
  PROVE  GroupTypeOK'
  <1>1. group' \in [Group -> GroupObj]
    <2>1. [group[g] EXCEPT !.fin = TRUE] \in GroupObj
      BY DEF GroupTypeOK, GroupObj
    <2>. QED
      BY <2>1, NoGroupType DEF DropFinalizer, AddFinalizer, GroupTypeOK
  <1>2. queue' \subseteq Group
    BY DEF DropFinalizer, AddFinalizer, GroupTypeOK, Requeued, Seen
  <1>3. faults' \in Nat
    <2>1. faults \in Nat /\ (NoFault \/ WriteFails)
      BY DEF DropFinalizer, AddFinalizer, GroupTypeOK
    <2>. QED
      BY <2>1, GroupBounds DEF WriteFails, NoFault, Fault
  <1>. QED
    BY <1>1, <1>2, <1>3, IdleType DEF DropFinalizer, AddFinalizer, GroupTypeOK

LEMMA ListType ==
  ASSUME GroupTypeOK, NEW g \in Group, List(g)
  PROVE  GroupTypeOK'
  <1>1. PICK items \in SUBSET Name :
           w' = [w EXCEPT !.pc = "serve", !.feeding = Feeder,
                          !.remove = items \ w.obj.spec,
                          !.create = w.obj.spec]
    BY DEF List
  <1>2. w' \in Worker
    BY <1>1 DEF GroupTypeOK, Worker, GroupObj
  <1>3. faults' \in Nat
    BY GroupBounds DEF List, GroupTypeOK, NoFault, Fault
  <1>. QED
    BY <1>2, <1>3 DEF List, GroupTypeOK

LEMMA RemoveType ==
  ASSUME GroupTypeOK, NEW n \in Name, Remove(n)
  PROVE  GroupTypeOK'
  <1>1. w' \in Worker
    BY DEF Remove, GroupTypeOK, Worker
  <1>. QED
    BY <1>1, RemovalType DEF Remove, GroupTypeOK

LEMMA LookupType ==
  ASSUME GroupTypeOK, NEW n \in Name, Lookup(n)
  PROVE  GroupTypeOK'
  <1>. DEFINE c == [w EXCEPT !.create = @ \ {n}]
  <1>1. c \in Worker /\ [c EXCEPT !.found = {n}] \in Worker
    BY DEF GroupTypeOK, Worker
  <1>2. w' \in {c, [c EXCEPT !.found = {n}]}
    BY DEF Lookup
  <1>3. passed' \subseteq Group \X Name
    BY DEF Lookup, GroupTypeOK, Worker
  <1>4. faults' \in Nat
    BY GroupBounds DEF Lookup, GroupTypeOK, NoFault, Fault
  <1>. QED
    BY <1>1, <1>2, <1>3, <1>4 DEF Lookup, GroupTypeOK

LEMMA CreateType ==
  ASSUME RoundInv, NEW n \in Name, Create(n)
  PROVE  GroupTypeOK'
  <1>1. PICK g \in Group : w.cur = {g}
    BY DEF Create, RoundInv, WorkerInv
  <1>2. rel' \in [Name -> ReleaseObj]
    BY <1>1, ReleaseType DEF Create, RoundInv, GroupTypeOK
  <1>3. w' \in Worker
    BY DEF Create, RoundInv, GroupTypeOK, Worker
  <1>4. faults' \in Nat
    BY GroupBounds DEF Create, RoundInv, GroupTypeOK, NoFault, Fault
  <1>. QED
    BY <1>2, <1>3, <1>4 DEF Create, RoundInv, GroupTypeOK

LEMMA QuitType ==
  ASSUME GroupTypeOK, NEW f \in Feeder, Quit(f)
  PROVE  GroupTypeOK'
  <1>1. CASE AllServed(w.quits + 1)
    BY <1>1, IdleType DEF Quit, GroupTypeOK
  <1>2. CASE ~AllServed(w.quits + 1)
    <2>1. w.quits \in {0, 1}
      BY DEF GroupTypeOK, Worker
    <2>2. w.quits + 1 \in 0..1
      BY <1>2, <2>1 DEF AllServed
    <2>3. w' = [w EXCEPT !.feeding = @ \ {f}, !.quits = w.quits + 1]
      BY <1>2 DEF Quit
    <2>. QED
      BY <2>2, <2>3 DEF Quit, GroupTypeOK, Worker
  <1>. QED
    BY <1>1, <1>2

LEMMA OthersType ==
  ASSUME GroupTypeOK, NEW n \in Name, ReleaseAdopted(n) \/ ReleaseLetGo(n)
  PROVE  GroupTypeOK'
  <1>1. NoRelease \in ReleaseObj
    BY DEF ReleaseObj
  <1>2. ASSUME rel[n].st = "new" PROVE [rel[n] EXCEPT !.st = "owned"] \in ReleaseObj
    BY <1>2, ReleaseType DEF GroupTypeOK, NoRelease
  <1>3. rel' \in [Name -> ReleaseObj]
    BY <1>1, <1>2 DEF ReleaseAdopted, ReleaseLetGo, GroupTypeOK
  <1>. QED
    BY <1>3 DEF ReleaseAdopted, ReleaseLetGo, GroupTypeOK

(* The object a user writes is one, and none has its finalizer that is not *)
(* there.                                                                  *)
LEMMA UserWrites ==
  ASSUME GroupTypeOK, CopyInv, NEW g \in Group, NEW spec \in SUBSET Name,
         CreateGroup(g, spec) \/ EditGroup(g, spec) \/ DeleteGroup(g)
  PROVE  \E o \in GroupObj : UserWrite(g, o) /\ (o.fin => o.exists)
                             /\ (group[g].fin => o.exists)
  <1>1. CASE CreateGroup(g, spec)
    BY <1>1, NoGroupType DEF CreateGroup, NoGroup, GroupObj, CopyInv
  <1>2. CASE EditGroup(g, spec)
    BY <1>2 DEF EditGroup, GroupTypeOK, GroupObj, CopyInv
  <1>3. CASE DeleteGroup(g)
    <2>1. CASE group[g].fin
      <3>1. UserWrite(g, [group[g] EXCEPT !.deleting = TRUE])
        BY <1>3, <2>1 DEF DeleteGroup
      <3>2. /\ [group[g] EXCEPT !.deleting = TRUE] \in GroupObj
            /\ [group[g] EXCEPT !.deleting = TRUE].exists
        BY <1>3 DEF DeleteGroup, GroupTypeOK, GroupObj
      <3>. QED
        BY <3>1, <3>2
    <2>2. CASE ~group[g].fin
      BY <1>3, <2>2, NoGroupType DEF DeleteGroup, NoGroup
    <2>. QED
      BY <2>1, <2>2
  <1>. QED
    BY <1>1, <1>2, <1>3

LEMMA UserType ==
  ASSUME GroupTypeOK, NEW g \in Group, NEW o \in GroupObj, UserWrite(g, o)
  PROVE  GroupTypeOK'
  <1>1. w' \in Worker
    BY DEF UserWrite, GroupTypeOK, Worker
  <1>. QED
    BY <1>1, GroupBounds DEF UserWrite, GroupTypeOK

LEMMA RestartType ==
  ASSUME GroupTypeOK, Restart
  PROVE  GroupTypeOK'
  BY IdleType, GroupBounds DEF Restart, GroupTypeOK

LEMMA NextType == RoundInv /\ [Next]_vars => GroupTypeOK'
  <1>. SUFFICES ASSUME RoundInv, [Next]_vars PROVE GroupTypeOK'
    OBVIOUS
  <1>0. GroupTypeOK /\ CopyInv
    BY DEF RoundInv
  <1>1. CASE GroupStep
    BY <1>0, <1>1, StartType, FinalizerType, ListType, FinalizeRemoveType,
       RemoveType, LookupType, CreateType, QuitType DEF GroupStep
  <1>2. CASE \E n \in Name : ReleaseAdopted(n) \/ ReleaseLetGo(n)
    BY <1>0, <1>2, OthersType
  <1>3. ASSUME NEW g \in Group, NEW spec \in SUBSET Name,
               CreateGroup(g, spec) \/ EditGroup(g, spec) \/ DeleteGroup(g)
        PROVE  GroupTypeOK'
    BY <1>0, <1>3, UserWrites, UserType
  <1>4. CASE Restart
    BY <1>0, <1>4, RestartType
  <1>5. CASE UNCHANGED vars
    BY <1>0, <1>5 DEF vars, GroupTypeOK
  <1>. QED
    BY <1>1, <1>2, <1>3, <1>4, <1>5 DEF Next

-----------------------------------------------------------------------------
(* What a round knows, and what it still has to do.                        *)

LEMMA IdleFields ==
  /\ IdleWorker.pc = "idle" /\ IdleWorker.cur = {} /\ IdleWorker.remove = {}
  /\ IdleWorker.create = {} /\ IdleWorker.found = {} /\ IdleWorker.quits = 0
  BY DEF IdleWorker

LEMMA InitRound == Init => RoundInv
  <1>. SUFFICES ASSUME Init PROVE RoundInv
    OBVIOUS
  <1>1. GroupTypeOK
    BY InitType
  <1>2. WorkerInv /\ FeedInv /\ CopyInv
    BY IdleFields DEF Init, WorkerInv, FeedInv, CopyInv, NoGroup
  <1>3. StrayInv /\ ListedInv /\ FinalizeInv
    BY IdleFields DEF Init, StrayInv, ListedInv, FinalizeInv, Current, NoGroup
  <1>. QED
    BY <1>1, <1>2, <1>3 DEF RoundInv

(* If nothing has failed after a step, nothing had before, and the step    *)
(* did not fail.                                                           *)
LEMMA Faultless ==
  ASSUME GroupTypeOK, faults' = 0, NoFault \/ Fault
  PROVE  NoFault /\ faults = 0 /\ ~Fault
  BY DEF GroupTypeOK, NoFault, Fault

(* A copy that is not out of date is the group.                            *)
LEMMA CopyIsCurrent ==
  ASSUME RoundInv, NEW g \in w.cur, g \notin queue
  PROVE  w.fresh /\ group[g] = w.obj /\ group[g].exists
  BY DEF RoundInv, CopyInv

LEMMA StartRound ==
  ASSUME RoundInv, GroupTypeOK', NEW g \in Group, Start(g)
  PROVE  RoundInv'
  <1>. DEFINE c == Begin(g)
  <1>1. /\ c.pc = IF group[g].deleting THEN "finalize"
                  ELSE IF group[g].fin THEN "list" ELSE "adopt"
        /\ c.cur = {g} /\ c.obj = group[g] /\ c.fresh
        /\ c.remove = IF group[g].deleting THEN group[g].spec ELSE {}
        /\ c.create = {} /\ c.found = {} /\ c.quits = 0
    BY BeginType DEF RoundInv, GroupTypeOK
  <1>. HIDE DEF c
  <1>2. w = IdleWorker
    BY DEF Start, RoundInv, WorkerInv
  <1>3. \/ NoFault /\ queue' = queue \ {g} /\ w' = c /\ group[g].exists
        \/ NoFault /\ queue' = queue \ {g} /\ w' = IdleWorker /\ ~group[g].exists
        \/ Fault /\ queue' = queue /\ w' = IdleWorker
    BY <1>2 DEF Start, c
  <1>4. group' = group /\ rel' = rel /\ passed' = passed
    BY DEF Start
  <1>5. WorkerInv'
    BY <1>1, <1>3, IdleFields DEF WorkerInv
  <1>6. FeedInv' /\ CopyInv'
    BY <1>1, <1>3, <1>4, IdleFields DEF FeedInv, CopyInv, RoundInv
  <1>7. ASSUME faults' = 0 PROVE StrayInv' /\ ListedInv' /\ FinalizeInv'
    <2>1. NoFault /\ faults = 0 /\ ~Fault
      BY <1>3, <1>7, Faultless DEF RoundInv
    <2>2. StrayInv /\ ListedInv
      BY <2>1 DEF RoundInv
    <2>3. \A x \in Group : Current(x)' => Current(x) \/ (x = g /\ w' = c)
      BY <1>3, <1>4, <2>1 DEF Current
    <2>4. Current(g)' /\ w' = c => Awaits(g)'
      BY <1>1, <1>4 DEF Current, Awaits
    <2>5. ~Awaits(g) /\ \A x \in Group : x \notin w.cur
      BY <1>2, IdleFields DEF Awaits
    <2>6. \A x \in Group : Current(x)' => Current(x) \/ Awaits(x)'
      BY <2>3, <2>4
    <2>7. \A x \in Group : ~Awaits(x)
      BY <2>5 DEF Awaits
    <2>8. StrayInv'
      BY <1>4, <2>2, <2>5, <2>6, <2>7 DEF StrayInv, Live
    <2>9. ListedInv'
      BY <1>4, <2>2, <2>5, <2>6, <2>7 DEF ListedInv, Live
    <2>10. FinalizeInv'
      BY <1>1, <1>3, <2>1, IdleFields DEF FinalizeInv
    <2>. QED
      BY <2>8, <2>9, <2>10
  <1>. QED
    BY <1>5, <1>6, <1>7 DEF RoundInv

(* The two writes of the finalizer end the round.  Without a failing call  *)
(* the group is queued, or a copy that was out of date had it queued.      *)
LEMMA FinalizerRound ==
  ASSUME RoundInv, GroupTypeOK', NEW g \in Group,
         DropFinalizer(g) \/ AddFinalizer(g)
  PROVE  RoundInv'
  <1>1. /\ w' = IdleWorker /\ UNCHANGED <<rel, passed>>
        /\ w.cur = {g}
        /\ w.pc = "finalize" \/ w.pc = "adopt"
    BY DEF DropFinalizer, AddFinalizer
  <1>2. queue' = queue \cup {g}
    BY DEF DropFinalizer, AddFinalizer, Requeued, Seen
  <1>3. \/ group' = [group EXCEPT ![g] = NoGroup]
        \/ group' = [group EXCEPT ![g].fin = TRUE] /\ w.fresh
        \/ group' = group
    BY DEF DropFinalizer, AddFinalizer, UpToDate
  <1>4. \A x \in Group \ {g} : group'[x] = group[x]
    BY <1>3 DEF RoundInv, GroupTypeOK
  <1>5. group'[g].fin => group'[g].exists
    <2>1. CASE group' = [group EXCEPT ![g] = NoGroup]
      BY <2>1 DEF NoGroup, RoundInv, GroupTypeOK
    <2>2. CASE group' = [group EXCEPT ![g].fin = TRUE] /\ w.fresh
      <3>1. group[g].exists
        BY <1>1, <2>2 DEF RoundInv, CopyInv
      <3>. QED
        BY <2>2, <3>1 DEF RoundInv, GroupTypeOK, GroupObj
    <2>3. CASE group' = group
      BY <2>3 DEF RoundInv, CopyInv
    <2>. QED
      BY <1>3, <2>1, <2>2, <2>3
  <1>6. WorkerInv' /\ FeedInv' /\ CopyInv'
    BY <1>1, <1>4, <1>5, IdleFields DEF WorkerInv, FeedInv, CopyInv, RoundInv
  <1>7. \A x \in Group : Current(x)' => Current(x) /\ x # g /\ group'[x] = group[x]
    BY <1>2, <1>4 DEF Current
  <1>8. \A x \in Group \ {g} : x \notin w.cur /\ ~Awaits(x)
    BY <1>1 DEF Awaits
  <1>9. ASSUME faults' = 0 PROVE StrayInv' /\ ListedInv' /\ FinalizeInv'
    <2>1. faults = 0
      BY <1>9, Faultless DEF DropFinalizer, AddFinalizer, WriteFails, RoundInv
    <2>2. StrayInv /\ ListedInv
      BY <2>1 DEF RoundInv
    <2>3. StrayInv'
      BY <1>1, <1>7, <1>8, <2>2 DEF StrayInv, Live
    <2>4. ListedInv'
      BY <1>1, <1>7, <1>8, <2>2 DEF ListedInv, Live
    <2>5. FinalizeInv'
      BY <1>1, IdleFields DEF FinalizeInv
    <2>. QED
      BY <2>3, <2>4, <2>5
  <1>. QED
    BY <1>6, <1>9 DEF RoundInv

LEMMA ListRound ==
  ASSUME RoundInv, GroupTypeOK', NEW g \in Group, List(g)
  PROVE  RoundInv'
  <1>. DEFINE labelled == {n \in Name : g \in rel[n].label}
  <1>1. PICK items \in {labelled, {}} :
          /\ IF items = labelled THEN NoFault ELSE Fault
          /\ w' = [w EXCEPT !.pc = "serve", !.feeding = Feeder,
                            !.remove = items \ w.obj.spec,
                            !.create = w.obj.spec]
    BY DEF List
  <1>. HIDE DEF labelled
  <1>2. /\ w'.pc = "serve" /\ w'.cur = {g} /\ w'.obj = w.obj
        /\ w'.fresh = w.fresh
        /\ w'.remove = items \ w.obj.spec /\ w'.create = w.obj.spec
        /\ w'.found = w.found /\ w'.feeding = Feeder /\ w'.quits = w.quits
    BY <1>1 DEF List, RoundInv, GroupTypeOK, Worker
  <1>3. UNCHANGED <<group, rel, queue, passed>> /\ w.cur = {g} /\ w.pc = "list"
    BY DEF List
  <1>4. w.found = {} /\ w.create = {}
    BY <1>3 DEF RoundInv, WorkerInv
  <1>5. WorkerInv'
    BY <1>2, <1>4 DEF WorkerInv
  <1>6. FeedInv' /\ CopyInv'
    <2>1. w.quits = 0
      BY <1>3 DEF RoundInv, FeedInv
    <2>. QED
      BY <1>2, <1>3, <2>1 DEF FeedInv, CopyInv, RoundInv, Feeder
  <1>7. ASSUME faults' = 0 PROVE StrayInv' /\ ListedInv' /\ FinalizeInv'
    <2>1. faults = 0 /\ ~Fault
      BY <1>1, <1>7, Faultless DEF RoundInv
    <2>2. items = labelled /\ StrayInv /\ ListedInv
      BY <1>1, <2>1 DEF RoundInv
    <2>3. Current(g) => w.obj = group[g]
      BY <1>3, CopyIsCurrent DEF Current
    <2>4. StrayInv'
      <3>1. ASSUME NEW x \in Group, NEW n \in Name, Current(x), Live(x, n)
            PROVE  \/ n \in group[x].spec
                   \/ x \in w'.cur /\ n \in w'.remove
        <4>1. CASE x = g
          BY <1>2, <2>2, <2>3, <3>1, <4>1 DEF Live, labelled
        <4>2. CASE x # g
          BY <1>3, <2>2, <3>1, <4>2 DEF StrayInv, Awaits
        <4>. QED
          BY <4>1, <4>2
      <3>. QED
        BY <1>3, <3>1 DEF StrayInv, Live, Current
    <2>5. ListedInv'
      <3>1. ASSUME NEW x \in Group, Current(x), NEW n \in group[x].spec
            PROVE  \/ Live(x, n) \/ <<x, n>> \in passed
                   \/ x \in w'.cur /\ n \in w'.create
        <4>1. CASE x = g
          BY <1>2, <2>3, <3>1, <4>1
        <4>2. CASE x # g
          BY <1>3, <2>2, <3>1, <4>2 DEF ListedInv, Awaits
        <4>. QED
          BY <4>1, <4>2
      <3>. QED
        BY <1>3, <3>1 DEF ListedInv, Live, Current
    <2>6. FinalizeInv'
      BY <1>2 DEF FinalizeInv
    <2>. QED
      BY <2>4, <2>5, <2>6
  <1>. QED
    BY <1>5, <1>6, <1>7 DEF RoundInv

(* What a removal leaves: the object is gone or going, a release of        *)
(* another group that is deleted is marked as passed over.                 *)
LEMMA Removal ==
  ASSUME GroupTypeOK, NEW n \in Name, removeRelease(n), ~Fault
  PROVE  /\ \A x \in Name \ {n} : rel'[x] = rel[x]
         /\ rel'[n].st \in {"absent", "leaving"}
         /\ rel[n].st = "absent" => rel'[n].st = "absent"
         /\ \A g \in Group : ~Live(g, n)'
         /\ passed \subseteq passed'
         /\ \A g \in Group : g \in rel[n].label /\ g \notin w.cur
                                => <<g, n>> \in passed'
  <1>1. /\ rel' = [rel EXCEPT ![n] = Deleted(@)]
        /\ passed' = passed \cup ((rel[n].label \ w.cur) \X {n})
    BY DEF removeRelease
  <1>2. rel[n] \in ReleaseObj
    BY DEF GroupTypeOK
  <1>3. rel'[n] = Deleted(rel[n]) /\ \A x \in Name \ {n} : rel'[x] = rel[x]
    BY <1>1 DEF GroupTypeOK
  <1>4. /\ Deleted(rel[n]) \in ReleaseObj
        /\ Deleted(rel[n]).st \in {"absent", "leaving"}
        /\ rel[n].st = "absent" => Deleted(rel[n]).st = "absent"
    BY <1>2, DeletedType
  <1>5. \A g \in Group : ~Live(g, n)'
    BY <1>3, <1>4, LabelledExists DEF Live
  <1>. QED
    BY <1>1, <1>3, <1>4, <1>5

(* A removal keeps what is known of current groups: what is deleted is not *)
(* listed by its group, or is marked.                                      *)
LEMMA RemovalKeeps ==
  ASSUME GroupTypeOK, NEW n \in Name, removeRelease(n), ~Fault,
         UNCHANGED <<group, queue>>, w'.pc = w.pc, w'.cur = w.cur,
         w'.remove = w.remove \ {n}, w'.create = w.create, w'.found = w.found,
         \A g \in w.cur : Current(g) => n \notin group[g].spec
  PROVE  (StrayInv => StrayInv') /\ (ListedInv => ListedInv')
  <1>1. /\ \A x \in Name \ {n} : rel'[x] = rel[x]
        /\ \A g \in Group : ~Live(g, n)'
        /\ passed \subseteq passed'
        /\ \A g \in Group : g \in rel[n].label /\ g \notin w.cur
                               => <<g, n>> \in passed'
    BY Removal
  <1>2. ASSUME StrayInv PROVE StrayInv'
    <2>1. ASSUME NEW g \in Group, NEW m \in Name, Current(g), Live(g, m)'
          PROVE  n # m /\ (\/ m \in group[g].spec \/ Awaits(g)
                           \/ g \in w.cur /\ m \in w.remove)
      BY <1>1, <1>2, <2>1 DEF StrayInv, Live
    <2>. QED
      BY <2>1 DEF StrayInv, Current, Awaits
  <1>3. ASSUME ListedInv PROVE ListedInv'
    <2>1. ASSUME NEW g \in Group, Current(g), NEW m \in group[g].spec
          PROVE  \/ Live(g, m)' \/ <<g, m>> \in passed' \/ Awaits(g)
                 \/ g \in w.cur /\ m \in w.create \cup w.found
      <3>1. m \in Name
        BY <2>1 DEF GroupTypeOK, GroupObj
      <3>2. CASE m = n
        BY <1>1, <1>3, <2>1, <3>2 DEF ListedInv, Live
      <3>3. CASE m # n
        BY <1>1, <1>3, <2>1, <3>1, <3>3 DEF ListedInv, Live
      <3>. QED
        BY <3>2, <3>3
    <2>. QED
      BY <2>1 DEF ListedInv, Current, Awaits
  <1>. QED
    BY <1>2, <1>3

LEMMA RemoveRound ==
  ASSUME RoundInv, GroupTypeOK', NEW n \in Name, FinalizeRemove(n) \/ Remove(n)
  PROVE  RoundInv'
  <1>1. /\ w'.pc = w.pc /\ w'.cur = w.cur /\ w'.obj = w.obj /\ w'.fresh = w.fresh
        /\ w'.remove = w.remove \ {n} /\ w'.create = w.create
        /\ w'.found = w.found /\ w'.feeding = w.feeding /\ w'.quits = w.quits
    BY DEF FinalizeRemove, Remove, RoundInv, GroupTypeOK, Worker
  <1>2. /\ UNCHANGED <<group, queue>> /\ w.pc \in {"finalize", "serve"}
        /\ w.found = {} /\ removeRelease(n) /\ n \in w.remove
    BY DEF FinalizeRemove, Remove, RoundInv, WorkerInv
  <1>3. WorkerInv'
    BY <1>1, <1>2 DEF RoundInv, WorkerInv
  <1>4. FeedInv' /\ CopyInv'
    BY <1>1, <1>2 DEF RoundInv, FeedInv, CopyInv
  <1>5. ASSUME faults' = 0 PROVE StrayInv' /\ ListedInv' /\ FinalizeInv'
    <2>1. faults = 0 /\ ~Fault
      BY <1>2, <1>5, Faultless DEF removeRelease, RoundInv
    <2>2. StrayInv /\ ListedInv /\ FinalizeInv
      BY <2>1 DEF RoundInv
    <2>3. \A g \in w.cur : Current(g) => n \notin group[g].spec
      <3>1. ASSUME NEW g \in w.cur, Current(g) PROVE n \notin group[g].spec
        <4>1. w.obj = group[g] /\ ~w.obj.deleting
          BY <3>1, CopyIsCurrent DEF Current
        <4>2. w.pc = "serve"
          BY <1>2, <4>1 DEF RoundInv, WorkerInv
        <4>. QED
          BY <1>2, <4>1, <4>2 DEF RoundInv, WorkerInv
      <3>. QED
        BY <3>1
    <2>4. StrayInv' /\ ListedInv'
      BY <1>1, <1>2, <2>1, <2>2, <2>3, RemovalKeeps DEF RoundInv
    <2>5. FinalizeInv'
      <3>1. ASSUME NEW m \in w.obj.spec, NEW g \in w.cur, Live(g, m)'
            PROVE  m # n /\ Live(g, m)
        <4>1. m \in Name /\ g \in Group
          BY DEF RoundInv, GroupTypeOK, Worker, GroupObj
        <4>2. m # n /\ rel'[m] = rel[m]
          BY <1>2, <2>1, <3>1, <4>1, Removal DEF RoundInv
        <4>. QED
          BY <3>1, <4>2 DEF Live
      <3>. QED
        BY <1>1, <2>2, <3>1 DEF FinalizeInv
    <2>. QED
      BY <2>4, <2>5
  <1>. QED
    BY <1>3, <1>4, <1>5 DEF RoundInv

LEMMA LookupRound ==
  ASSUME RoundInv, GroupTypeOK', NEW n \in Name, Lookup(n)
  PROVE  RoundInv'
  <1>. DEFINE c == [w EXCEPT !.create = @ \ {n}]
              over == rel[n].st = "leaving" \/ rel[n].label \cap w.cur = {}
  <1>1. /\ c \in Worker /\ c.pc = w.pc /\ c.cur = w.cur /\ c.obj = w.obj
        /\ c.fresh = w.fresh /\ c.remove = w.remove /\ c.create = w.create \ {n}
        /\ c.found = {} /\ c.feeding = w.feeding /\ c.quits = w.quits
    BY DEF Lookup, RoundInv, GroupTypeOK, Worker
  <1>2. \/ /\ rel[n].st = "absent" /\ NoFault /\ w' = [c EXCEPT !.found = {n}]
           /\ passed' = passed \ (w.cur \X {n})
        \/ /\ rel[n].st # "absent" /\ NoFault /\ w' = c
           /\ passed' = IF over THEN passed \cup (w.cur \X {n})
                                ELSE passed \ (w.cur \X {n})
        \/ Fault /\ w' = c
    BY DEF Lookup
  <1>3. /\ UNCHANGED <<group, rel, queue>> /\ w.pc = "serve"
        /\ n \in w.create
    BY DEF Lookup
  <1>. HIDE DEF c, over
  <1>4. /\ w'.pc = "serve" /\ w'.cur = w.cur /\ w'.obj = w.obj
        /\ w'.fresh = w.fresh /\ w'.remove = w.remove
        /\ w'.create = w.create \ {n} /\ w'.feeding = w.feeding
        /\ w'.quits = w.quits
        /\ w'.found = {} \/ (w'.found = {n} /\ rel[n].st = "absent")
    BY <1>1, <1>2, <1>3 DEF Worker
  <1>5. PICK g \in Group : w.cur = {g}
    BY <1>3 DEF RoundInv, WorkerInv
  <1>6. WorkerInv'
    BY <1>3, <1>4 DEF RoundInv, WorkerInv
  <1>7. FeedInv' /\ CopyInv'
    BY <1>3, <1>4 DEF RoundInv, FeedInv, CopyInv
  <1>8. ASSUME faults' = 0 PROVE StrayInv' /\ ListedInv' /\ FinalizeInv'
    <2>1. faults = 0 /\ ~Fault
      BY <1>2, <1>8, Faultless DEF RoundInv
    <2>2. StrayInv /\ ListedInv
      BY <2>1 DEF RoundInv
    <2>3. StrayInv'
      BY <1>3, <1>4, <2>2 DEF StrayInv, Current, Awaits, Live
    <2>4. \/ w'.found = {n}
          \/ <<g, n>> \in passed'
          \/ Live(g, n)
      <3>1. CASE rel[n].st = "absent"
        BY <1>1, <1>2, <2>1, <3>1 DEF Worker
      <3>2. CASE rel[n].st # "absent" /\ over
        BY <1>2, <1>5, <2>1, <3>2
      <3>3. CASE ~over
        <4>1. rel[n] \in ReleaseObj /\ g \in rel[n].label
          BY <1>5, <3>3 DEF over, RoundInv, GroupTypeOK
        <4>. QED
          BY <3>3, <4>1, LabelledExists DEF over, Live
      <3>. QED
        BY <3>1, <3>2, <3>3
    <2>5. ListedInv'
      <3>1. ASSUME NEW x \in Group, Current(x), NEW m \in group[x].spec
            PROVE  \/ Live(x, m) \/ <<x, m>> \in passed'
                   \/ x \in w'.cur /\ m \in w'.create \cup w'.found
        <4>1. ~Awaits(x)
          BY <1>3 DEF Awaits
        <4>2. CASE x = g /\ m = n
          BY <1>4, <1>5, <2>4, <4>2
        <4>3. CASE ~(x = g /\ m = n)
          <5>1. <<x, m>> \in passed => <<x, m>> \in passed'
            BY <1>2, <1>5, <2>1, <4>3
          <5>2. x \in w.cur => m # n
            BY <1>5, <4>3
          <5>3. w.found = {}
            BY DEF Lookup
          <5>. QED
            BY <1>4, <2>2, <3>1, <4>1, <5>1, <5>2, <5>3 DEF ListedInv
        <4>. QED
          BY <4>2, <4>3
      <3>. QED
        BY <1>3, <3>1 DEF ListedInv, Current, Live
    <2>6. FinalizeInv'
      BY <1>4 DEF FinalizeInv
    <2>. QED
      BY <2>3, <2>5, <2>6
  <1>. QED
    BY <1>6, <1>7, <1>8 DEF RoundInv

LEMMA CreateRound ==
  ASSUME RoundInv, GroupTypeOK', NEW n \in Name, Create(n)
  PROVE  RoundInv'
  <1>1. /\ w'.pc = "serve" /\ w'.cur = w.cur /\ w'.obj = w.obj
        /\ w'.fresh = w.fresh /\ w'.remove = w.remove /\ w'.create = w.create
        /\ w'.found = {} /\ w'.feeding = w.feeding /\ w'.quits = w.quits
    BY DEF Create, RoundInv, GroupTypeOK, Worker
  <1>2. /\ UNCHANGED <<group, queue, passed>> /\ w.pc = "serve"
        /\ w.found = {n} /\ n \in w.obj.spec /\ rel[n].st = "absent"
    BY DEF Create, RoundInv, WorkerInv
  <1>3. PICK g \in Group : w.cur = {g}
    BY <1>2 DEF RoundInv, WorkerInv
  <1>4. WorkerInv'
    BY <1>1, <1>2 DEF RoundInv, WorkerInv
  <1>5. FeedInv' /\ CopyInv'
    BY <1>1, <1>2 DEF RoundInv, FeedInv, CopyInv
  <1>6. ASSUME faults' = 0 PROVE StrayInv' /\ ListedInv' /\ FinalizeInv'
    <2>1. faults = 0 /\ ~Fault
      BY <1>6, Faultless DEF Create, RoundInv
    <2>2. StrayInv /\ ListedInv
      BY <2>1 DEF RoundInv
    <2>3. /\ rel'[n] = [st |-> "new", label |-> {g}]
          /\ \A x \in Name \ {n} : rel'[x] = rel[x]
      BY <1>3, <2>1 DEF Create, RoundInv, GroupTypeOK
    <2>4. \A x \in Group : Current(x) /\ x \in w.cur => n \in group[x].spec
      BY <1>2, CopyIsCurrent DEF Current
    <2>5. \A x \in Group, m \in Name :
            /\ Live(x, m)' => Live(x, m) \/ (m = n /\ x = g)
            /\ Live(x, m) /\ m # n => Live(x, m)'
      BY <2>3 DEF Live
    <2>6. Live(g, n)' /\ \A x \in Group : ~Live(x, n)
      <3>1. rel[n] = NoRelease
        BY <1>2, LabelledExists DEF RoundInv, GroupTypeOK
      <3>. QED
        BY <2>3, <3>1 DEF Live, NoRelease
    <2>7. StrayInv'
      <3>1. ASSUME NEW x \in Group, NEW m \in Name, Current(x), Live(x, m)'
            PROVE  \/ m \in group[x].spec \/ Awaits(x)
                   \/ x \in w.cur /\ m \in w.remove
        BY <1>3, <2>2, <2>4, <2>5, <3>1 DEF StrayInv
      <3>. QED
        BY <1>1, <1>2, <3>1 DEF StrayInv, Current, Awaits
    <2>8. ListedInv'
      <3>1. ASSUME NEW x \in Group, Current(x), NEW m \in group[x].spec
            PROVE  \/ Live(x, m)' \/ <<x, m>> \in passed
                   \/ x \in w.cur /\ m \in w.create
        <4>1. m \in Name /\ ~Awaits(x)
          BY <1>2, <3>1 DEF Awaits, RoundInv, GroupTypeOK, GroupObj
        <4>2. CASE m # n
          BY <1>2, <2>2, <2>5, <3>1, <4>1, <4>2 DEF ListedInv
        <4>3. CASE m = n /\ x = g
          BY <2>6, <4>3
        <4>4. CASE m = n /\ x # g
          BY <1>3, <2>2, <2>6, <3>1, <4>1, <4>4 DEF ListedInv
        <4>. QED
          BY <4>2, <4>3, <4>4
      <3>. QED
        BY <1>1, <1>2, <3>1 DEF ListedInv, Current
    <2>9. FinalizeInv'
      BY <1>1 DEF FinalizeInv
    <2>. QED
      BY <2>7, <2>8, <2>9
  <1>. QED
    BY <1>4, <1>5, <1>6 DEF RoundInv

(* When both have quit, nothing is left to be sent.                        *)
LEMMA QuitsDone ==
  ASSUME RoundInv, NEW f \in Feeder, Quit(f), AllServed(w.quits + 1)
  PROVE  w.remove = {} /\ w.create = {} /\ w.found = {}
  <1>1. w.quits # 0 /\ w.pc = "serve" /\ w.found = {}
    BY DEF Quit, AllServed, RoundInv, GroupTypeOK, Worker
  <1>2. w.feeding = {f}
    BY <1>1 DEF Quit, RoundInv, FeedInv
  <1>. QED
    BY <1>1, <1>2 DEF Quit, Pending, RoundInv, FeedInv, Feeder

LEMMA QuitRound ==
  ASSUME RoundInv, GroupTypeOK', NEW f \in Feeder, Quit(f)
  PROVE  RoundInv'
  <1>1. UNCHANGED <<group, rel, queue, passed, faults>> /\ w.pc = "serve"
        /\ w.found = {}
    BY DEF Quit
  <1>2. CASE AllServed(w.quits + 1)
    <2>1. w' = IdleWorker /\ w.remove = {} /\ w.create = {}
      BY <1>2, QuitsDone DEF Quit
    <2>2. WorkerInv' /\ FeedInv' /\ CopyInv'
      BY <1>1, <2>1, IdleFields DEF RoundInv, WorkerInv, FeedInv, CopyInv
    <2>3. StrayInv => StrayInv'
      BY <1>1, <2>1 DEF StrayInv, Current, Awaits, Live
    <2>4. ListedInv => ListedInv'
      BY <1>1, <2>1 DEF ListedInv, Current, Awaits, Live
    <2>5. FinalizeInv'
      BY <2>1, IdleFields DEF FinalizeInv
    <2>. QED
      BY <1>1, <2>2, <2>3, <2>4, <2>5 DEF RoundInv
  <1>3. CASE ~AllServed(w.quits + 1)
    <2>1. /\ w'.pc = w.pc /\ w'.cur = w.cur /\ w'.obj = w.obj
          /\ w'.fresh = w.fresh /\ w'.remove = w.remove
          /\ w'.create = w.create /\ w'.found = w.found
          /\ w'.feeding = w.feeding \ {f} /\ w'.quits = w.quits + 1
      BY <1>1, <1>3 DEF Quit, RoundInv, GroupTypeOK, Worker
    <2>2. w.quits = 0 /\ w.feeding = Feeder
      BY <1>1, <1>3 DEF AllServed, RoundInv, FeedInv
    <2>3. WorkerInv' /\ CopyInv'
      BY <1>1, <2>1 DEF RoundInv, WorkerInv, CopyInv
    <2>4. FeedInv'
      BY <1>1, <2>1, <2>2 DEF Quit, Pending, FeedInv, Feeder
    <2>5. StrayInv => StrayInv'
      BY <1>1, <2>1 DEF StrayInv, Current, Awaits, Live
    <2>6. ListedInv => ListedInv'
      BY <1>1, <2>1 DEF ListedInv, Current, Awaits, Live
    <2>7. FinalizeInv'
      BY <1>1, <2>1 DEF FinalizeInv
    <2>. QED
      BY <1>1, <2>3, <2>4, <2>5, <2>6, <2>7 DEF RoundInv
  <1>. QED
    BY <1>2, <1>3

(* The release controller: a live release stays live, and one that leaves  *)
(* was not live before.                                                    *)
LEMMA OthersRound ==
  ASSUME RoundInv, GroupTypeOK', NEW n \in Name,
         ReleaseAdopted(n) \/ ReleaseLetGo(n)
  PROVE  RoundInv'
  <1>1. UNCHANGED <<group, queue, w, passed, faults>>
    BY DEF ReleaseAdopted, ReleaseLetGo
  <1>2. /\ \A x \in Name \ {n} : rel'[x] = rel[x]
        /\ rel[n].st # "absent"
        /\ \A g \in Group : Live(g, n)' <=> Live(g, n)
    <2>1. CASE ReleaseAdopted(n)
      <3>1. PICK g \in Group : rel[n] = [st |-> "new", label |-> {g}]
        BY <2>1, ReleaseType DEF ReleaseAdopted, RoundInv, GroupTypeOK, NoRelease
      <3>2. /\ rel'[n] = [rel[n] EXCEPT !.st = "owned"]
            /\ \A x \in Name \ {n} : rel'[x] = rel[x]
        BY <2>1 DEF ReleaseAdopted, RoundInv, GroupTypeOK
      <3>3. rel'[n].st = "owned" /\ rel'[n].label = rel[n].label
        BY <3>1, <3>2
      <3>. QED
        BY <3>1, <3>2, <3>3 DEF Live
    <2>2. CASE ReleaseLetGo(n)
      BY <2>2 DEF ReleaseLetGo, Live, NoRelease, RoundInv, GroupTypeOK
    <2>. QED
      BY <2>1, <2>2
  <1>3. \A g \in Group, m \in Name : Live(g, m)' <=> Live(g, m)
    BY <1>2 DEF Live
  <1>4. WorkerInv'
    <2>1. w.found \subseteq Name
      BY DEF RoundInv, GroupTypeOK, Worker
    <2>. QED
      BY <1>1, <1>2, <2>1 DEF RoundInv, WorkerInv
  <1>5. FeedInv' /\ CopyInv'
    BY <1>1 DEF RoundInv, FeedInv, CopyInv
  <1>6. ASSUME faults = 0 PROVE StrayInv' /\ ListedInv' /\ FinalizeInv'
    <2>1. StrayInv /\ ListedInv /\ FinalizeInv
      BY <1>6 DEF RoundInv
    <2>2. StrayInv'
      BY <1>1, <1>3, <2>1 DEF StrayInv, Current, Awaits
    <2>3. ListedInv'
      <3>1. \A g \in Group : group[g].spec \subseteq Name
        BY DEF RoundInv, GroupTypeOK, GroupObj
      <3>. QED
        BY <1>1, <1>3, <2>1, <3>1 DEF ListedInv, Current, Awaits
    <2>4. FinalizeInv'
      <3>1. w.obj.spec \subseteq Name /\ w.cur \subseteq Group
        BY DEF RoundInv, GroupTypeOK, Worker, GroupObj
      <3>. QED
        BY <1>1, <1>3, <2>1, <3>1 DEF FinalizeInv
    <2>. QED
      BY <2>2, <2>3, <2>4
  <1>. QED
    BY <1>1, <1>4, <1>5, <1>6 DEF RoundInv

(* A write of a user queues the group, so nothing is claimed of it until   *)
(* it is served, and marks the worker's copy of it as out of date.         *)
LEMMA UserRound ==
  ASSUME RoundInv, GroupTypeOK', NEW g \in Group, NEW o \in GroupObj,
         UserWrite(g, o), o.fin => o.exists
  PROVE  RoundInv'
  <1>1. /\ group' = [group EXCEPT ![g] = o] /\ queue' = queue \cup {g}
        /\ UNCHANGED <<rel, passed, faults>>
    BY DEF UserWrite
  <1>2. /\ w'.pc = w.pc /\ w'.cur = w.cur /\ w'.obj = w.obj
        /\ w'.remove = w.remove /\ w'.create = w.create /\ w'.found = w.found
        /\ w'.feeding = w.feeding /\ w'.quits = w.quits
        /\ w'.fresh = (w.fresh /\ g \notin w.cur)
        /\ g \notin w.cur => w' = w
    BY DEF UserWrite, RoundInv, GroupTypeOK, Worker
  <1>3. \A x \in Group \ {g} : group'[x] = group[x]
    BY <1>1 DEF RoundInv, GroupTypeOK
  <1>4. \A x \in Group : Current(x)' => Current(x) /\ group'[x] = group[x]
    BY <1>1, <1>3 DEF Current
  <1>5. WorkerInv'
    <2>1. w.pc = "idle" => w' = w
      BY <1>2, IdleFields DEF RoundInv, WorkerInv
    <2>. QED
      BY <1>1, <1>2, <2>1 DEF RoundInv, WorkerInv
  <1>6. FeedInv'
    BY <1>2 DEF RoundInv, FeedInv
  <1>7. CopyInv'
    <2>1. group'[g] = o /\ w.cur \subseteq Group
      BY <1>1 DEF RoundInv, GroupTypeOK, Worker
    <2>2. \A x \in Group : group'[x].fin => group'[x].exists
      BY <1>3, <2>1 DEF RoundInv, CopyInv
    <2>3. CASE g \in w.cur
      <3>1. w.cur = {g}
        BY <2>3, IdleFields DEF RoundInv, WorkerInv
      <3>. QED
        BY <1>1, <1>2, <2>2, <2>3, <3>1 DEF CopyInv
    <2>4. CASE g \notin w.cur
      BY <1>1, <1>2, <1>3, <2>1, <2>2, <2>4 DEF RoundInv, CopyInv
    <2>. QED
      BY <2>3, <2>4
  <1>8. StrayInv => StrayInv'
    BY <1>1, <1>2, <1>4 DEF StrayInv, Live, Awaits
  <1>9. ListedInv => ListedInv'
    BY <1>1, <1>2, <1>4 DEF ListedInv, Live, Awaits
  <1>10. FinalizeInv => FinalizeInv'
    BY <1>1, <1>2 DEF FinalizeInv, Live
  <1>. QED
    BY <1>1, <1>5, <1>6, <1>7, <1>8, <1>9, <1>10 DEF RoundInv

LEMMA RestartRound ==
  ASSUME RoundInv, GroupTypeOK', Restart
  PROVE  RoundInv'
  <1>1. w' = IdleWorker /\ UNCHANGED <<group, rel, passed>>
        /\ queue' = {g \in Group : group[g].exists}
    BY DEF Restart
  <1>2. \A g \in Group : ~Current(g)'
    BY <1>1 DEF Current
  <1>3. WorkerInv' /\ FeedInv' /\ CopyInv'
    BY <1>1, IdleFields DEF WorkerInv, FeedInv, CopyInv, RoundInv
  <1>4. StrayInv' /\ ListedInv' /\ FinalizeInv'
    BY <1>1, <1>2, IdleFields DEF StrayInv, ListedInv, FinalizeInv
  <1>. QED
    BY <1>3, <1>4 DEF RoundInv

LEMMA NextRound == RoundInv /\ [Next]_vars => RoundInv'
  <1>. SUFFICES ASSUME RoundInv, [Next]_vars PROVE RoundInv'
    OBVIOUS
  <1>1. GroupTypeOK'
    BY NextType
  <1>2. CASE GroupStep
    BY <1>1, <1>2, StartRound, FinalizerRound, ListRound, RemoveRound,
       LookupRound, CreateRound, QuitRound DEF GroupStep
  <1>3. CASE \E n \in Name : ReleaseAdopted(n) \/ ReleaseLetGo(n)
    BY <1>1, <1>3, OthersRound
  <1>4. ASSUME NEW g \in Group, NEW spec \in SUBSET Name,
               CreateGroup(g, spec) \/ EditGroup(g, spec) \/ DeleteGroup(g)
        PROVE  RoundInv'
    <2>1. PICK o \in GroupObj : UserWrite(g, o) /\ (o.fin => o.exists)
      BY <1>4, UserWrites DEF RoundInv
    <2>. QED
      BY <1>1, <2>1, UserRound
  <1>5. CASE Restart
    BY <1>1, <1>5, RestartRound
  <1>6. CASE UNCHANGED vars
    BY <1>1, <1>6
    DEF vars, RoundInv, WorkerInv, FeedInv, CopyInv, StrayInv, ListedInv,
        FinalizeInv, Current, Awaits, Live
  <1>. QED
    BY <1>2, <1>3, <1>4, <1>5, <1>6 DEF Next

LEMMA RoundAlways == Spec => []RoundInv
  <1>. QED
    BY InitRound, NextRound, PTL DEF Spec

-----------------------------------------------------------------------------
(* The theorems.                                                           *)

(* Every variable of the controller keeps its type.                        *)
THEOREM GroupTypeCorrect == Spec => []GroupTypeOK
  <1>1. RoundInv => GroupTypeOK
    BY DEF RoundInv
  <1>. QED
    BY <1>1, RoundAlways, PTL

(* As long as no call fails, a group that has been served leaves no live   *)
(* release with its label that it does not list.                           *)
THEOREM NoStrayAlways == Spec => []NoStray
  <1>1. RoundInv => NoStray
    <2>. SUFFICES ASSUME RoundInv, faults = 0, NEW g \in Group, NEW n \in Name,
                         Served(g), rel[n].label = {g}, rel[n].st # "leaving"
                  PROVE  n \in group[g].spec
      BY DEF NoStray
    <2>. QED
      BY DEF RoundInv, StrayInv, Served, Current, Awaits, Live
  <1>. QED
    BY <1>1, RoundAlways, PTL

(* As long as no call fails, a release that a served group lists is there, *)
(* or was passed over.                                                     *)
THEOREM MissingOnlyIfPassedAlways == Spec => []MissingOnlyIfPassed
  <1>1. RoundInv => MissingOnlyIfPassed
    <2>. SUFFICES ASSUME RoundInv, faults = 0, NEW g \in Group, NEW n \in Name,
                         Served(g), n \in group[g].spec, <<g, n>> \notin passed
                  PROVE  rel[n].st # "absent"
      BY DEF MissingOnlyIfPassed
    <2>1. Live(g, n)
      BY DEF RoundInv, ListedInv, Served, Current, Awaits
    <2>. QED
      BY <2>1, LabelledExists DEF Live, RoundInv, GroupTypeOK
  <1>. QED
    BY <1>1, RoundAlways, PTL

(* Reconcile returns only when both goroutines have sent all they had,     *)
(* failing calls or not.                                                   *)
THEOREM NoGoroutineLeftAlways == Spec => NoGoroutineLeft
  <1>. DEFINE A == w.pc = "serve" /\ w'.pc = "idle" /\ restarts' = restarts
                      => w.remove = {} /\ w.create = {} /\ w.found = {}
  <1>1. RoundInv /\ [Next]_vars => [A]_vars
    <2>. SUFFICES ASSUME RoundInv, Next, w.pc = "serve", w'.pc = "idle",
                         restarts' = restarts
                  PROVE  w.remove = {} /\ w.create = {} /\ w.found = {}
      OBVIOUS
    <2>1. w \in Worker /\ restarts \in Nat
      BY DEF RoundInv, GroupTypeOK
    <2>2. ~Restart
      BY <2>1 DEF Restart
    <2>3. w'.pc # w.pc
      OBVIOUS
    <2>4. PICK f \in Feeder : Quit(f)
      <3>1. ASSUME NEW g \in Group, NEW spec,
                   CreateGroup(g, spec) \/ EditGroup(g, spec) \/ DeleteGroup(g)
            PROVE  FALSE
        <4>1. w'.pc = w.pc
          BY <2>1, <3>1 DEF CreateGroup, EditGroup, DeleteGroup, UserWrite, Worker
        <4>. QED
          BY <2>3, <4>1
      <3>2. ASSUME NEW n \in Name, ReleaseAdopted(n) \/ ReleaseLetGo(n)
            PROVE  FALSE
        BY <2>3, <3>2 DEF ReleaseAdopted, ReleaseLetGo
      <3>3. ASSUME NEW g \in Group,
                   Start(g) \/ DropFinalizer(g) \/ AddFinalizer(g) \/ List(g)
            PROVE  FALSE
        BY <3>3 DEF Start, DropFinalizer, AddFinalizer, List
      <3>4. ASSUME NEW n \in Name,
                   FinalizeRemove(n) \/ Remove(n) \/ Lookup(n) \/ Create(n)
            PROVE  FALSE
        <4>1. w'.pc = w.pc
          BY <2>1, <3>4 DEF FinalizeRemove, Remove, Lookup, Create, Worker
        <4>. QED
          BY <2>3, <4>1
      <3>. QED
        BY <2>2, <3>1, <3>2, <3>3, <3>4 DEF Next, GroupStep
    <2>5. AllServed(w.quits + 1)
      BY <2>1, <2>3, <2>4 DEF Quit, Worker
    <2>. QED
      BY <2>4, <2>5, QuitsDone
  <1>. QED
    BY <1>1, RoundAlways, PTL DEF Spec, NoGoroutineLeft

(* As long as no call fails, a group goes away only when every release it  *)
(* lists and owns at that moment is gone or going.                         *)
THEOREM GroupTakesListedAlways == Spec => GroupTakesListed
  <1>. DEFINE A == \A g \in Group :
                      faults = 0 /\ group[g].fin /\ ~group'[g].exists =>
                          \A n \in group[g].spec :
                              rel'[n].label = {g} => rel'[n].st = "leaving"
  <1>1. RoundInv /\ [Next]_vars => [A]_vars
    <2>. SUFFICES ASSUME RoundInv, Next, NEW g \in Group, faults = 0,
                         group[g].fin, ~group'[g].exists,
                         NEW n \in group[g].spec
                  PROVE  ~Live(g, n)'
      BY DEF Live
    <2>1. group[g].exists /\ n \in Name
      BY DEF RoundInv, CopyInv, GroupTypeOK, GroupObj
    <2>2. group' # group
      BY <2>1
    <2>3. DropFinalizer(g)
      <3>1. ASSUME NEW h \in Group, NEW spec \in SUBSET Name,
                   CreateGroup(h, spec) \/ EditGroup(h, spec) \/ DeleteGroup(h)
            PROVE  FALSE
        <4>1. PICK o : UserWrite(h, o) /\ (group[h].fin => o.exists)
          BY <3>1, UserWrites DEF RoundInv
        <4>2. CASE h = g
          BY <4>1, <4>2 DEF UserWrite, RoundInv, GroupTypeOK
        <4>3. CASE h # g
          BY <2>1, <4>1, <4>3 DEF UserWrite, RoundInv, GroupTypeOK
        <4>. QED
          BY <4>2, <4>3
      <3>2. ASSUME NEW h \in Group, AddFinalizer(h)
            PROVE  FALSE
        BY <2>1, <3>2 DEF AddFinalizer, RoundInv, GroupTypeOK, GroupObj
      <3>3. ASSUME NEW h \in Group, DropFinalizer(h), h # g
            PROVE  FALSE
        BY <2>1, <3>3 DEF DropFinalizer, RoundInv, GroupTypeOK
      <3>4. PICK h \in Group : DropFinalizer(h)
        BY <2>2, <3>1, <3>2
        DEF Next, GroupStep, Start, List, FinalizeRemove, Remove, Lookup, Create,
            Quit, ReleaseAdopted, ReleaseLetGo, Restart
      <3>. QED
        BY <3>3, <3>4
    <2>4. /\ w.pc = "finalize" /\ w.cur = {g} /\ w.remove = {} /\ rel' = rel
          /\ w.fresh
      BY <2>2, <2>3 DEF DropFinalizer, UpToDate
    <2>5. w.obj = group[g]
      BY <2>4 DEF RoundInv, CopyInv
    <2>. QED
      BY <2>4, <2>5 DEF RoundInv, FinalizeInv, Live
  <1>. QED
    BY <1>1, RoundAlways, PTL DEF Spec, GroupTakesListed
=============================================================================
