-------------------------- MODULE RepoGroupProofs ---------------------------
(***************************************************************************)
(* Proofs about RepoGroupReconciler for every set of groups, repositories  *)
(* and versions and every bound.                                           *)
(*                                                                         *)
(* Neither property is inductive: the worker acts on a group it has read   *)
(* before, and in the middle of a round much is still undone.  RoundInv    *)
(* says that a copy which is old has its group in the queue (so that what  *)
(* is done from it will be done again), and that whatever is not as listed *)
(* is in the hands of the worker: waiting to be listed, sent or written.   *)
(***************************************************************************)
EXTENDS RepoGroupReconciler, TLAPS

(* The worker has one group, and sends and creates what its copy lists.    *)
WorkerInv ==
    /\ w.pc = "idle" => w = IdleWorker
    /\ w.pc # "idle" => \E g \in Group : w.cur = {g}
    /\ w.create \cup w.absent \cup w.read \subseteq Listed(w.obj.list)
    /\ \A n \in w.absent \cup w.read : w.absent \cup w.read = {n}
    /\ \A n \in w.absent : repo[n].st = "absent"
    /\ \A n \in w.read : w.fresh => repo[n].st # "absent"

(* The copy is the group, unless the group is queued again.                *)
CopyInv == \A g \in w.cur : g \in queue \/ (group[g].exists /\ group[g] = w.obj)

Current(g) == group[g].exists /\ g \notin queue

(* A repository with the label of g that is not listed is to be removed.   *)
StrayInv ==
    \A g \in Group : Current(g) => \A n \in Labelled(g) :
        Alive(n) => \/ n \in Listed(group[g].list)
                    \/ g \in w.cur /\ (w.pc = "list" \/ n \in w.remove)

(* A listed repository without its spec is to be written, or is missed.    *)
SpecInv ==
    \A g \in Group : Current(g) => \A n \in Listed(group[g].list) :
        \/ Alive(n) /\ repo[n].spec = group[g].list[n]
        \/ <<g, n>> \in missed
        \/ /\ g \in w.cur
           /\ w.pc = "list" \/ n \in w.create \cup w.absent \cup w.read

RoundInv == /\ RepoGroupTypeOK /\ WorkerInv /\ CopyInv
            /\ faults = 0 => StrayInv /\ SpecInv

-----------------------------------------------------------------------------
(* Types.                                                                  *)

LEMMA NoGroupType == NoGroup \in GroupObj
  BY DEF NoGroup, GroupObj, NoList, List

LEMMA NoRepoType == NoRepo \in RepoObj
  BY DEF NoRepo, RepoObj

LEMMA IdleType == IdleWorker \in Worker
  BY NoGroupType DEF IdleWorker, Worker

LEMMA DeletedType == ASSUME NEW o \in RepoObj PROVE Deleted(o) \in RepoObj
  BY NoRepoType DEF Deleted, RepoObj

LEMMA StaleType ==
  ASSUME NEW n, w \in Worker
  PROVE  Stale(n) \in Worker /\ Stale(n) = [w EXCEPT !.fresh = Stale(n).fresh]
  BY DEF Stale, Worker

LEMMA InitType == Init => RepoGroupTypeOK
  <1>. SUFFICES ASSUME Init PROVE RepoGroupTypeOK
    OBVIOUS
  <1>1. group \in [Group -> GroupObj]
    BY NoGroupType DEF Init
  <1>2. repo \in [Name -> RepoObj]
    <2>1. PICK made \in SUBSET Name, s \in Version :
            repo = [n \in Name |-> IF n \in made
                        THEN [NoRepo EXCEPT !.st = "owned", !.spec = s]
                        ELSE NoRepo]
      BY DEF Init
    <2>2. [NoRepo EXCEPT !.st = "owned", !.spec = s] \in RepoObj
      BY NoRepoType DEF RepoObj
    <2>. QED
      BY <2>1, <2>2, NoRepoType
  <1>3. w \in Worker /\ w.pc = "idle" /\ w.feeding = {}
        /\ w.remove = {} /\ w.create = {}
    BY IdleType DEF Init, IdleWorker
  <1>. QED
    BY <1>1, <1>2, <1>3 DEF Init, RepoGroupTypeOK

(* The calls of a round.                                                   *)
LEMMA StartType ==
  ASSUME RepoGroupTypeOK, NEW g \in Group, Start(g)
  PROVE  RepoGroupTypeOK'
  <1>1. faults' \in Nat /\ queue' \subseteq Group
    BY RepoGroupBounds DEF Start, NoFault, Fault, RepoGroupTypeOK
  <1>2. w' \in Worker /\ w'.pc # "serve" /\ w'.feeding = {}
        /\ w'.remove = {} /\ w'.create = {}
    <2>. DEFINE c == [IdleWorker EXCEPT !.pc = "list", !.cur = {g}, !.obj = group[g]]
    <2>1. c \in Worker /\ c.pc # "serve" /\ c.feeding = {}
          /\ c.remove = {} /\ c.create = {}
      <3>1. group[g] \in GroupObj
        BY DEF RepoGroupTypeOK
      <3>. QED
        BY <3>1 DEF IdleWorker, Worker
    <2>2. w' \in {c, IdleWorker, w}
      BY DEF Start
    <2>3. w' = w => w'.pc = "idle"
      BY DEF Start
    <2>4. CASE w' = w
      BY <2>3, <2>4 DEF RepoGroupTypeOK
    <2>5. CASE w' = IdleWorker
      BY <2>5, IdleType DEF IdleWorker
    <2>6. CASE w' = c
      BY <2>6, <2>1
    <2>. QED
      BY <2>2, <2>4, <2>5, <2>6
  <1>. QED
    BY <1>1, <1>2 DEF Start, RepoGroupTypeOK

LEMMA ListType ==
  ASSUME RepoGroupTypeOK, NEW g \in Group, ListRepos(g)
  PROVE  RepoGroupTypeOK'
  <1>1. PICK items \in SUBSET Name :
           w' = [w EXCEPT !.pc = "serve", !.feeding = Feeder,
                          !.remove = items \ Listed(w.obj.list),
                          !.create = Listed(w.obj.list)]
    BY DEF ListRepos, Labelled
  <1>2. faults' \in Nat
    BY RepoGroupBounds DEF ListRepos, NoFault, Fault, RepoGroupTypeOK
  <1>3. w' \in Worker /\ w'.pc = "serve" /\ w'.feeding = {"remover", "creator"}
    BY <1>1 DEF RepoGroupTypeOK, Worker, Listed, Feeder
  <1>. QED
    BY <1>2, <1>3 DEF ListRepos, RepoGroupTypeOK

LEMMA RemoveType ==
  ASSUME RepoGroupTypeOK, NEW n \in Name, removeRepo(n)
  PROVE  RepoGroupTypeOK'
  <1>1. faults' \in Nat
    BY RepoGroupBounds DEF removeRepo, NoFault, Fault, RepoGroupTypeOK
  <1>2. repo' \in [Name -> RepoObj]
    BY DeletedType DEF removeRepo, RepoGroupTypeOK
  <1>3. missed' \subseteq Group \X Name
    BY DEF removeRepo, RepoGroupTypeOK, Listing
  <1>4. w' \in Worker /\ w'.pc = w.pc /\ w'.feeding = w.feeding
        /\ w'.create = w.create /\ w'.remove \subseteq w.remove
    BY DEF removeRepo, RepoGroupTypeOK, Worker
  <1>. QED
    BY <1>1, <1>2, <1>3, <1>4 DEF removeRepo, RepoGroupTypeOK

LEMMA GetType ==
  ASSUME RepoGroupTypeOK, NEW n \in Name, GetRepo(n)
  PROVE  RepoGroupTypeOK'
  <1>1. faults' \in Nat
    BY RepoGroupBounds DEF GetRepo, NoFault, Fault, RepoGroupTypeOK
  <1>2. missed' \subseteq Group \X Name
    BY DEF GetRepo, RepoGroupTypeOK
  <1>3. w' \in Worker /\ w'.pc = w.pc /\ w'.feeding = w.feeding
        /\ w'.remove = w.remove /\ w'.create \subseteq w.create
    <2>. DEFINE c == [w EXCEPT !.create = @ \ {n}]
    <2>1. w' \in {c, [c EXCEPT !.absent = {n}],
                  [c EXCEPT !.read = {n}, !.fresh = TRUE]}
      BY DEF GetRepo
    <2>2. c \in Worker /\ c.pc = w.pc /\ c.feeding = w.feeding
          /\ c.remove = w.remove /\ c.create \subseteq w.create
      BY DEF RepoGroupTypeOK, Worker
    <2>. HIDE DEF c
    <2>3. CASE w' = c
      BY <2>2, <2>3
    <2>4. CASE w' = [c EXCEPT !.absent = {n}]
      BY <2>2, <2>4 DEF Worker
    <2>5. CASE w' = [c EXCEPT !.read = {n}, !.fresh = TRUE]
      BY <2>2, <2>5 DEF Worker
    <2>. QED
      BY <2>1, <2>3, <2>4, <2>5
  <1>. QED
    BY <1>1, <1>2, <1>3 DEF GetRepo, RepoGroupTypeOK

LEMMA CreateType ==
  ASSUME RepoGroupTypeOK, NEW n \in Name, CreateRepo(n)
  PROVE  RepoGroupTypeOK'
  <1>1. faults' \in Nat
    BY RepoGroupBounds DEF CreateRepo, NoFault, Fault, RepoGroupTypeOK
  <1>2. w.cur \subseteq Group /\ w.obj.uid \in Nat
        /\ w.obj.list[n] \in Version \cup {0}
    BY DEF RepoGroupTypeOK, Worker, GroupObj, List
  <1>3. Owners \subseteq Group \X Nat
    BY <1>2 DEF Owners
  <1>4. [st |-> "new", label |-> w.cur, owner |-> Owners,
         spec |-> w.obj.list[n]] \in RepoObj
    BY <1>2, <1>3 DEF RepoObj
  <1>5. repo' \in [Name -> RepoObj]
    BY <1>4 DEF CreateRepo, RepoGroupTypeOK
  <1>6. missed' \subseteq Group \X Name
    BY DEF CreateRepo, RepoGroupTypeOK, Other, Listing
  <1>7. w' \in Worker /\ w'.pc = w.pc /\ w'.feeding = w.feeding
        /\ w'.remove = w.remove /\ w'.create = w.create
    BY DEF CreateRepo, RepoGroupTypeOK, Worker
  <1>. QED
    BY <1>1, <1>5, <1>6, <1>7 DEF CreateRepo, RepoGroupTypeOK

LEMMA UpdateType ==
  ASSUME RepoGroupTypeOK, NEW n \in Name, UpdateRepo(n)
  PROVE  RepoGroupTypeOK'
  <1>1. faults' \in Nat
    BY RepoGroupBounds DEF UpdateRepo, NoFault, Fault, RepoGroupTypeOK
  <1>2. SpecWritten(n) \in Version \cup {0} /\ w.cur \subseteq Group
    BY DEF SpecWritten, RepoGroupTypeOK, Worker, GroupObj, List
  <1>3. [repo[n] EXCEPT !.spec = SpecWritten(n)] \in RepoObj
    BY <1>2 DEF RepoGroupTypeOK, RepoObj
  <1>4. repo' \in [Name -> RepoObj]
    BY <1>3 DEF UpdateRepo, RepoGroupTypeOK
  <1>5. missed' \subseteq Group \X Name
    BY <1>2 DEF UpdateRepo, RepoGroupTypeOK, Other, Listing
  <1>6. w' \in Worker /\ w'.pc = w.pc /\ w'.feeding = w.feeding
        /\ w'.remove = w.remove /\ w'.create = w.create
    BY DEF UpdateRepo, RepoGroupTypeOK, Worker
  <1>. QED
    BY <1>1, <1>4, <1>5, <1>6 DEF UpdateRepo, RepoGroupTypeOK

LEMMA QuitType ==
  ASSUME RepoGroupTypeOK, NEW f \in Feeder, Quit(f)
  PROVE  RepoGroupTypeOK'
  <1>1. CASE AllServed(w.feeding \ {f})
    BY <1>1, IdleType DEF Quit, RepoGroupTypeOK, IdleWorker
  <1>2. CASE ~AllServed(w.feeding \ {f})
    <2>1. w' = [w EXCEPT !.feeding = w.feeding \ {f}]
      BY <1>2 DEF Quit
    <2>2. w' \in Worker /\ w'.pc = "serve" /\ w'.feeding # {}
      BY <1>2, <2>1 DEF Quit, RepoGroupTypeOK, Worker, AllServed
    <2>5. /\ w \in Worker
          /\ w.remove # {} => "remover" \in w.feeding
          /\ w.create # {} => "creator" \in w.feeding
      BY DEF Quit, RepoGroupTypeOK
    <2>6. w'.feeding = w.feeding \ {f} /\ w'.remove = w.remove /\ w'.create = w.create
      BY <2>1, <2>5 DEF Worker
    <2>7. Pending(f) = {}
      BY DEF Quit
    <2>3. w'.remove # {} => "remover" \in w'.feeding
      BY <2>5, <2>6, <2>7 DEF Pending
    <2>4. w'.create # {} => "creator" \in w'.feeding
      BY <2>5, <2>6, <2>7 DEF Pending, Feeder
    <2>. QED
      BY <2>2, <2>3, <2>4 DEF Quit, RepoGroupTypeOK
  <1>. QED
    BY <1>1, <1>2

(* The other controllers, the collector, users and the restart.            *)
LEMMA OthersType ==
  ASSUME RepoGroupTypeOK, NEW n \in Name,
         RepoAdopted(n) \/ StatusWritten(n) \/ RepoLetGo(n) \/ CollectGarbage(n)
  PROVE  RepoGroupTypeOK'
  <1>1. repo' \in [Name -> RepoObj]
    <2>1. [repo[n] EXCEPT !.st = "owned"] \in RepoObj /\ Deleted(repo[n]) \in RepoObj
      BY DeletedType DEF RepoGroupTypeOK, RepoObj
    <2>. QED
      BY <2>1, NoRepoType
      DEF RepoGroupTypeOK, RepoAdopted, StatusWritten, RepoLetGo, CollectGarbage
  <1>2. missed' \subseteq Group \X Name
    BY DEF RepoGroupTypeOK, RepoAdopted, StatusWritten, RepoLetGo, CollectGarbage,
           Listing
  <1>3. w' = Stale(n) /\ UNCHANGED <<group, queue, edits, faults, restarts>>
    BY DEF RepoAdopted, StatusWritten, RepoLetGo, CollectGarbage
  <1>4. w' \in Worker /\ w'.pc = w.pc /\ w'.feeding = w.feeding
        /\ w'.remove = w.remove /\ w'.create = w.create
    BY <1>3 DEF Stale, RepoGroupTypeOK, Worker
  <1>. QED
    BY <1>1, <1>2, <1>3, <1>4 DEF RepoGroupTypeOK

LEMMA UserType ==
  ASSUME RepoGroupTypeOK, NEW g \in Group, NEW list \in List,
         CreateGroup(g, list) \/ EditGroup(g, list) \/ DeleteGroup(g)
  PROVE  RepoGroupTypeOK'
  <1>1. PICK o \in GroupObj : UserWrite(g, o)
    <2>1. [exists |-> TRUE, uid |-> edits + 1, list |-> list] \in GroupObj
          /\ [group[g] EXCEPT !.list = list] \in GroupObj
      BY DEF RepoGroupTypeOK, GroupObj
    <2>. QED
      BY <2>1, NoGroupType DEF CreateGroup, EditGroup, DeleteGroup
  <1>. QED
    BY <1>1, RepoGroupBounds DEF UserWrite, RepoGroupTypeOK

LEMMA RestartType ==
  ASSUME RepoGroupTypeOK, Restart
  PROVE  RepoGroupTypeOK'
  BY IdleType, RepoGroupBounds DEF Restart, RepoGroupTypeOK, IdleWorker

LEMMA NextType == RepoGroupTypeOK /\ [Next]_vars => RepoGroupTypeOK'
  <1>. SUFFICES ASSUME RepoGroupTypeOK, [Next]_vars PROVE RepoGroupTypeOK'
    OBVIOUS
  <1>1. CASE RepoGroupStep
    BY <1>1, StartType, ListType, RemoveType, GetType, CreateType, UpdateType,
       QuitType DEF RepoGroupStep
  <1>2. CASE \E n \in Name : \/ RepoAdopted(n) \/ StatusWritten(n)
                            \/ RepoLetGo(n) \/ CollectGarbage(n)
    BY <1>2, OthersType
  <1>3. CASE \E g \in Group, list \in List :
                CreateGroup(g, list) \/ EditGroup(g, list)
    BY <1>3, UserType
  <1>4. ASSUME NEW g \in Group, DeleteGroup(g)
        PROVE  RepoGroupTypeOK'
    <2>1. NoList \in List
      BY DEF NoList, List
    <2>. QED
      BY <1>4, <2>1, UserType
  <1>5. CASE Restart
    BY <1>5, RestartType
  <1>6. CASE UNCHANGED vars
    BY <1>6 DEF vars, RepoGroupTypeOK
  <1>. QED
    BY <1>1, <1>2, <1>3, <1>4, <1>5, <1>6 DEF Next

(* Every variable keeps its type, and the bookkeeping of worker and        *)
(* goroutines is right in every state: none waits for one that is gone.    *)
THEOREM RepoGroupTypeCorrect == Spec => []RepoGroupTypeOK
  <1>. QED
    BY InitType, NextType, PTL DEF Spec

-----------------------------------------------------------------------------
(* What a round knows, and what it still has to do.                        *)

LEMMA InitRound == Init => RoundInv
  <1>. SUFFICES ASSUME Init PROVE RoundInv
    OBVIOUS
  <1>1. RepoGroupTypeOK
    BY InitType
  <1>2. WorkerInv /\ CopyInv
    BY DEF Init, WorkerInv, CopyInv, IdleWorker
  <1>3. \A g \in Group : ~Current(g)
    BY DEF Init, Current, NoGroup
  <1>. QED
    BY <1>1, <1>2, <1>3 DEF RoundInv, StrayInv, SpecInv

(* If nothing has failed after a step, nothing had before, and the step    *)
(* did not fail.                                                           *)
LEMMA Faultless ==
  ASSUME RepoGroupTypeOK, faults' = 0, NoFault \/ Fault
  PROVE  NoFault /\ faults = 0
  BY DEF RepoGroupTypeOK, NoFault, Fault

LEMMA StartRound ==
  ASSUME RoundInv, RepoGroupTypeOK', NEW g \in Group, Start(g)
  PROVE  RoundInv'
  <1>. DEFINE c == [IdleWorker EXCEPT !.pc = "list", !.cur = {g}, !.obj = group[g]]
  <1>1. /\ c.pc = "list" /\ c.cur = {g} /\ c.obj = group[g]
        /\ c.create = {} /\ c.absent = {} /\ c.read = {}
    BY DEF IdleWorker
  <1>. HIDE DEF c
  <1>2. w = IdleWorker
    BY DEF Start, RoundInv, WorkerInv
  <1>3. \/ NoFault /\ queue' = queue \ {g} /\ w' = c /\ group[g].exists
        \/ NoFault /\ queue' = queue \ {g} /\ w' = IdleWorker /\ ~group[g].exists
        \/ Fault /\ queue' = queue /\ w' = IdleWorker
    BY <1>2 DEF Start, c
  <1>4. group' = group /\ repo' = repo /\ missed' = missed
    BY DEF Start
  <1>5. IdleWorker.cur = {} /\ IdleWorker.create = {} /\ IdleWorker.absent = {}
        /\ IdleWorker.read = {} /\ IdleWorker.pc = "idle"
    BY DEF IdleWorker
  <1>6. WorkerInv' /\ CopyInv'
    BY <1>1, <1>3, <1>4, <1>5 DEF WorkerInv, CopyInv
  <1>7. ASSUME faults' = 0 PROVE StrayInv' /\ SpecInv'
    <2>1. NoFault /\ faults = 0
      BY <1>3, <1>7, Faultless DEF RoundInv
    <2>2. ~Fault
      BY <2>1 DEF NoFault, Fault, RoundInv, RepoGroupTypeOK
    <2>3. \A x \in Group : Current(x)' => Current(x) \/ (x = g /\ w' = c)
      BY <1>3, <1>4, <2>2 DEF Current
    <2>4. StrayInv /\ SpecInv
      BY <2>1 DEF RoundInv
    <2>5. StrayInv'
      BY <1>1, <1>2, <1>4, <1>5, <2>3, <2>4 DEF StrayInv, Labelled, Alive, Current
    <2>6. SpecInv'
      BY <1>1, <1>2, <1>4, <1>5, <2>3, <2>4 DEF SpecInv, Alive, Listed, Current
    <2>. QED
      BY <2>5, <2>6
  <1>. QED
    BY <1>6, <1>7 DEF RoundInv

LEMMA ListRound ==
  ASSUME RoundInv, RepoGroupTypeOK', NEW g \in Group, ListRepos(g)
  PROVE  RoundInv'
  <1>1. PICK items \in {Labelled(g), {}} :
          /\ IF items = Labelled(g) THEN NoFault ELSE Fault
          /\ w' = [w EXCEPT !.pc = "serve", !.feeding = Feeder,
                            !.remove = items \ Listed(w.obj.list),
                            !.create = Listed(w.obj.list)]
    BY DEF ListRepos
  <1>2. /\ w'.pc = "serve" /\ w'.cur = {g} /\ w'.obj = w.obj
        /\ w'.remove = items \ Listed(w.obj.list) /\ w'.create = Listed(w.obj.list)
        /\ w'.absent = w.absent /\ w'.read = w.read /\ w'.fresh = w.fresh
    BY <1>1 DEF ListRepos, RoundInv, RepoGroupTypeOK, Worker
  <1>3. UNCHANGED <<group, repo, queue, missed>> /\ w.cur = {g}
    BY DEF ListRepos
  <1>4. WorkerInv' /\ CopyInv'
    BY <1>2, <1>3 DEF RoundInv, WorkerInv, CopyInv, Listed
  <1>5. ASSUME faults' = 0 PROVE StrayInv' /\ SpecInv'
    <2>1. NoFault /\ faults = 0 /\ ~Fault
      <3>1. NoFault \/ Fault
        BY <1>1
      <3>. QED
        BY <1>5, <3>1, Faultless DEF RoundInv, NoFault, Fault, RepoGroupTypeOK
    <2>2. items = Labelled(g) /\ StrayInv /\ SpecInv
      BY <1>1, <2>1 DEF RoundInv
    <2>3. Current(g) => w.obj = group[g]
      BY <1>3 DEF RoundInv, CopyInv, Current
    <2>4. StrayInv'
      BY <1>2, <1>3, <2>2, <2>3 DEF StrayInv, Labelled, Alive, Current, Listed
    <2>5. SpecInv'
      BY <1>2, <1>3, <2>2, <2>3 DEF SpecInv, Alive, Current, Listed
    <2>. QED
      BY <2>4, <2>5
  <1>. QED
    BY <1>4, <1>5 DEF RoundInv

LEMMA RemoveRound ==
  ASSUME RoundInv, RepoGroupTypeOK', NEW n \in Name, removeRepo(n)
  PROVE  RoundInv'
  <1>1. /\ w'.pc = w.pc /\ w'.cur = w.cur /\ w'.obj = w.obj
        /\ w'.remove = w.remove \ {n} /\ w'.create = w.create
        /\ w'.absent = {} /\ w'.read = {} /\ w.absent = {} /\ w.read = {}
    BY DEF removeRepo, RoundInv, RepoGroupTypeOK, Worker, Busy
  <1>2. UNCHANGED <<group, queue>> /\ w.pc = "serve"
    BY DEF removeRepo
  <1>3. WorkerInv' /\ CopyInv'
    BY <1>1, <1>2 DEF RoundInv, WorkerInv, CopyInv, Listed
  <1>4. ASSUME faults' = 0 PROVE StrayInv' /\ SpecInv'
    <2>1. NoFault /\ faults = 0 /\ ~Fault
      <3>1. NoFault \/ Fault
        BY DEF removeRepo
      <3>. QED
        BY <1>4, <3>1, Faultless DEF RoundInv, NoFault, Fault, RepoGroupTypeOK
    <2>2. StrayInv /\ SpecInv
      BY <2>1 DEF RoundInv
    <2>3. /\ repo' = [repo EXCEPT ![n] = Deleted(@)]
          /\ missed' = IF Alive(n) THEN missed \cup (Listing(n) \X {n})
                       ELSE missed
      BY <2>1 DEF removeRepo
    <2>4. repo'[n].st \in {"absent", "leaving"}
          /\ \A x \in Name \ {n} : repo'[x] = repo[x]
      <3>1. Deleted(repo[n]).st \in {"absent", "leaving"}
        BY DEF Deleted, NoRepo, RoundInv, RepoGroupTypeOK, RepoObj
      <3>. QED
        BY <2>3, <3>1 DEF RoundInv, RepoGroupTypeOK
    <2>5. StrayInv'
      BY <1>1, <1>2, <2>2, <2>4 DEF StrayInv, Labelled, Alive, Current
    <2>6. SpecInv'
      <3>1. ASSUME NEW x \in Group, Current(x), NEW m \in Listed(group[x].list)
            PROVE  \/ Alive(m)' /\ repo'[m].spec = group[x].list[m]
                   \/ <<x, m>> \in missed'
                   \/ /\ x \in w.cur
                      /\ w.pc = "list" \/ m \in w.create \cup w.absent \cup w.read
        <4>1. CASE m = n /\ Alive(n)
          BY <2>3, <3>1, <4>1 DEF Listing, Listed
        <4>2. CASE m # n \/ ~Alive(n)
          BY <2>2, <2>3, <2>4, <3>1, <4>2 DEF SpecInv, Alive, Listed
        <4>. QED
          BY <4>1, <4>2
      <3>. QED
        BY <1>1, <1>2, <3>1 DEF SpecInv, Current
    <2>. QED
      BY <2>5, <2>6
  <1>. QED
    BY <1>3, <1>4 DEF RoundInv

LEMMA GetRound ==
  ASSUME RoundInv, RepoGroupTypeOK', NEW n \in Name, GetRepo(n)
  PROVE  RoundInv'
  <1>. DEFINE c == [w EXCEPT !.create = @ \ {n}]
  <1>1. c \in Worker /\ c.pc = w.pc /\ c.cur = w.cur /\ c.obj = w.obj
        /\ c.remove = w.remove /\ c.create = w.create \ {n}
        /\ c.absent = {} /\ c.read = {}
    BY DEF GetRepo, Busy, RoundInv, RepoGroupTypeOK, Worker
  <1>. HIDE DEF c
  <1>2. \/ NoFault /\ repo[n].st = "absent" /\ w' = [c EXCEPT !.absent = {n}]
        \/ NoFault /\ repo[n].st # "absent"
                   /\ w' = [c EXCEPT !.read = {n}, !.fresh = TRUE]
        \/ Fault /\ w' = c
    BY DEF GetRepo, c
  <1>3. /\ w'.pc = w.pc /\ w'.cur = w.cur /\ w'.obj = w.obj
        /\ w'.remove = w.remove /\ w'.create = w.create \ {n}
        /\ w'.absent \cup w'.read \subseteq {n}
        /\ w'.absent = {} \/ w'.read = {}
        /\ n \in w'.absent => repo[n].st = "absent"
        /\ n \in w'.read => repo[n].st # "absent"
        /\ NoFault /\ ~Fault => n \in w'.absent \cup w'.read
    <2>1. CASE w' = [c EXCEPT !.absent = {n}] /\ repo[n].st = "absent"
      <3>1. w'.absent = {n} /\ w'.read = {}
        BY <1>1, <2>1 DEF Worker
      <3>. QED
        BY <1>1, <2>1, <3>1 DEF Worker
    <2>2. CASE w' = [c EXCEPT !.read = {n}, !.fresh = TRUE] /\ repo[n].st # "absent"
      <3>1. w'.absent = {} /\ w'.read = {n}
        BY <1>1, <2>2 DEF Worker
      <3>. QED
        BY <1>1, <2>2, <3>1 DEF Worker
    <2>3. CASE Fault /\ w' = c
      BY <1>1, <2>3
    <2>. QED
      BY <1>2, <2>1, <2>2, <2>3
  <1>4. UNCHANGED <<group, repo, queue>> /\ w.pc = "serve" /\ n \in w.create
        /\ w.absent = {} /\ w.read = {}
    BY DEF GetRepo, Busy
  <1>5. WorkerInv' /\ CopyInv'
    BY <1>3, <1>4 DEF RoundInv, WorkerInv, CopyInv, Listed
  <1>6. ASSUME faults' = 0 PROVE StrayInv' /\ SpecInv'
    <2>1. NoFault /\ faults = 0 /\ ~Fault
      BY <1>2, <1>6, Faultless DEF RoundInv, NoFault, Fault, RepoGroupTypeOK
    <2>2. StrayInv /\ SpecInv
      BY <2>1 DEF RoundInv
    <2>3. missed' = missed \ (w.cur \X {n})
      BY <2>1 DEF GetRepo
    <2>4. StrayInv'
      BY <1>3, <1>4, <2>2 DEF StrayInv, Labelled, Alive, Current
    <2>5. SpecInv'
      BY <1>3, <1>4, <2>1, <2>2, <2>3 DEF SpecInv, Alive, Current, Listed
    <2>. QED
      BY <2>4, <2>5
  <1>. QED
    BY <1>5, <1>6 DEF RoundInv

(* What a worker creates or updates from its copy is what its group lists, *)
(* unless the group is queued again.                                       *)
LEMMA CopyIsCurrent ==
  ASSUME RoundInv, NEW g \in w.cur, Current(g)
  PROVE  group[g] = w.obj
  BY DEF RoundInv, CopyInv, Current

LEMMA CreateRound ==
  ASSUME RoundInv, RepoGroupTypeOK', NEW n \in Name, CreateRepo(n)
  PROVE  RoundInv'
  <1>1. /\ w'.pc = w.pc /\ w'.cur = w.cur /\ w'.obj = w.obj
        /\ w'.remove = w.remove /\ w'.create = w.create
        /\ w'.absent = {} /\ w'.read = w.read /\ w'.fresh = w.fresh
    BY DEF CreateRepo, RoundInv, RepoGroupTypeOK, Worker
  <1>2. UNCHANGED <<group, queue>> /\ w.pc = "serve" /\ n \in w.absent
    BY DEF CreateRepo
  <1>3. n \in Listed(w.obj.list) /\ w.cur \subseteq Group
    BY <1>2 DEF RoundInv, WorkerInv, RepoGroupTypeOK, Worker
  <1>. DEFINE new == [st |-> "new", label |-> w.cur, owner |-> Owners,
                      spec |-> w.obj.list[n]]
  <1>4. new.st = "new" /\ new.label = w.cur /\ new.spec = w.obj.list[n]
    OBVIOUS
  <1>. HIDE DEF new
  <1>5. repo' = [repo EXCEPT ![n] = new] \/ (Fault /\ repo' = repo)
    BY DEF CreateRepo, new
  <1>6. /\ repo'[n].st # "absent" \/ repo' = repo
        /\ \A x \in Name \ {n} : repo'[x] = repo[x]
    BY <1>4, <1>5 DEF RoundInv, RepoGroupTypeOK
  <1>7. WorkerInv' /\ CopyInv'
    <2>1. w'.absent \subseteq Name /\ w.read \subseteq Name
      BY DEF RoundInv, RepoGroupTypeOK, Worker
    <2>2. CopyInv'
      BY <1>1, <1>2 DEF RoundInv, CopyInv
    <2>3. \A x \in w.read : w.fresh => repo'[x].st # "absent"
      BY <1>6, <2>1 DEF RoundInv, WorkerInv
    <2>4. w'.create \cup w'.absent \cup w'.read \subseteq Listed(w'.obj.list)
      BY <1>1 DEF RoundInv, WorkerInv, Listed
    <2>5. \A x \in w.read : w.read = {x}
      BY DEF RoundInv, WorkerInv
    <2>6. \E g \in Group : w.cur = {g}
      BY <1>2 DEF RoundInv, WorkerInv
    <2>. QED
      BY <1>1, <1>2, <2>2, <2>3, <2>4, <2>5, <2>6 DEF WorkerInv
  <1>8. ASSUME faults' = 0 PROVE StrayInv' /\ SpecInv'
    <2>1. NoFault /\ faults = 0 /\ ~Fault
      <3>1. NoFault \/ Fault
        BY DEF CreateRepo
      <3>. QED
        BY <1>8, <3>1, Faultless DEF RoundInv, NoFault, Fault, RepoGroupTypeOK
    <2>2. StrayInv /\ SpecInv
      BY <2>1 DEF RoundInv
    <2>3. /\ repo' = [repo EXCEPT ![n] = new]
          /\ missed' = missed \cup (Other(n, w.obj.list[n]) \X {n})
      BY <2>1 DEF CreateRepo, new
    <2>4. repo'[n] = new /\ \A x \in Name \ {n} : repo'[x] = repo[x]
      BY <2>3 DEF RoundInv, RepoGroupTypeOK
    <2>5. StrayInv'
      <3>1. ASSUME NEW x \in Group, Current(x), NEW m \in Name,
                   x \in repo'[m].label, Alive(m)'
            PROVE  \/ m \in Listed(group[x].list)
                   \/ x \in w.cur /\ (w.pc = "list" \/ m \in w.remove)
        <4>1. CASE m = n
          BY <1>3, <1>4, <2>4, <3>1, <4>1, CopyIsCurrent
        <4>2. CASE m # n
          BY <2>2, <2>4, <3>1, <4>2 DEF StrayInv, Labelled, Alive
        <4>. QED
          BY <4>1, <4>2
      <3>. QED
        BY <1>1, <1>2, <3>1 DEF StrayInv, Labelled, Current
    <2>6. SpecInv'
      <3>1. ASSUME NEW x \in Group, Current(x), NEW m \in Listed(group[x].list)
            PROVE  \/ Alive(m)' /\ repo'[m].spec = group[x].list[m]
                   \/ <<x, m>> \in missed'
                   \/ /\ x \in w.cur
                      /\ w.pc = "list" \/ m \in w.create \cup w'.absent \cup w.read
        <4>1. CASE m = n /\ group[x].list[n] = w.obj.list[n]
          BY <1>4, <2>4, <3>1, <4>1 DEF Alive
        <4>2. CASE m = n /\ group[x].list[n] # w.obj.list[n]
          BY <2>3, <3>1, <4>2 DEF Other, Listing, Listed
        <4>3. CASE m # n
          <5>1. w.absent = {n}
            BY <1>2 DEF RoundInv, WorkerInv
          <5>. QED
            BY <1>2, <2>2, <2>3, <2>4, <3>1, <4>3, <5>1 DEF SpecInv, Alive, Listed
        <4>. QED
          BY <4>1, <4>2, <4>3
      <3>. QED
        BY <1>1, <1>2, <3>1 DEF SpecInv, Current
    <2>. QED
      BY <2>5, <2>6
  <1>. QED
    BY <1>7, <1>8 DEF RoundInv

LEMMA UpdateRound ==
  ASSUME RoundInv, RepoGroupTypeOK', NEW n \in Name, UpdateRepo(n)
  PROVE  RoundInv'
  <1>1. /\ w'.pc = w.pc /\ w'.cur = w.cur /\ w'.obj = w.obj
        /\ w'.remove = w.remove /\ w'.create = w.create
        /\ w'.absent = w.absent /\ w'.read = {}
    BY DEF UpdateRepo, RoundInv, RepoGroupTypeOK, Worker
  <1>2. UNCHANGED <<group, queue>> /\ w.pc = "serve" /\ n \in w.read
    BY DEF UpdateRepo
  <1>3. repo' = [repo EXCEPT ![n].spec = SpecWritten(n)] \/ repo' = repo
    BY DEF UpdateRepo
  <1>4. \A x \in Name : /\ repo'[x].st = repo[x].st
                        /\ repo'[x].label = repo[x].label
    BY <1>3 DEF RoundInv, RepoGroupTypeOK, RepoObj
  <1>5. WorkerInv' /\ CopyInv'
    <2>1. w.absent \subseteq Name
      BY DEF RoundInv, RepoGroupTypeOK, Worker
    <2>2. CopyInv'
      BY <1>1, <1>2 DEF RoundInv, CopyInv
    <2>3. \A x \in w.absent : repo'[x].st = "absent"
      BY <1>4, <2>1 DEF RoundInv, WorkerInv
    <2>4. w'.create \cup w'.absent \cup w'.read \subseteq Listed(w'.obj.list)
      BY <1>1 DEF RoundInv, WorkerInv, Listed
    <2>5. \A x \in w.absent : w.absent = {x}
      BY DEF RoundInv, WorkerInv
    <2>6. \E g \in Group : w.cur = {g}
      BY <1>2 DEF RoundInv, WorkerInv
    <2>. QED
      BY <1>1, <1>2, <2>2, <2>3, <2>4, <2>5, <2>6 DEF WorkerInv
  <1>6. ASSUME faults' = 0 PROVE StrayInv' /\ SpecInv'
    <2>1. NoFault /\ faults = 0 /\ ~Fault
      <3>1. NoFault \/ Fault
        BY DEF UpdateRepo
      <3>. QED
        BY <1>6, <3>1, Faultless DEF RoundInv, NoFault, Fault, RepoGroupTypeOK
    <2>2. StrayInv /\ SpecInv
      BY <2>1 DEF RoundInv
    <2>3. StrayInv'
      BY <1>1, <1>2, <1>4, <2>2 DEF StrayInv, Labelled, Alive, Current
    <2>4. SpecInv'
      <3>1. ASSUME NEW x \in Group, Current(x), NEW m \in Listed(group[x].list)
            PROVE  \/ Alive(m)' /\ repo'[m].spec = group[x].list[m]
                   \/ <<x, m>> \in missed'
                   \/ /\ x \in w.cur
                      /\ w.pc = "list" \/ m \in w.create \cup w.absent
        <4>. DEFINE s == w.obj.list[n]
        <4>1. missed \subseteq missed'
          BY <2>1 DEF UpdateRepo
        <4>2. CASE m # n
          <5>1. m \in Name /\ m \notin w.read
            BY <1>2, <3>1, <4>2 DEF Listed, RoundInv, WorkerInv
          <5>2. repo'[m] = repo[m]
            BY <1>3, <4>2, <5>1 DEF RoundInv, RepoGroupTypeOK
          <5>. QED
            BY <2>2, <3>1, <4>1, <5>1, <5>2 DEF SpecInv, Alive
        <4>3. CASE m = n /\ ~w.fresh
          <5>1. missed' = missed \cup (w.cur \X {n}) /\ repo' = repo
            BY <2>1, <4>3 DEF UpdateRepo
          <5>. QED
            BY <2>2, <3>1, <4>3, <5>1 DEF SpecInv, Alive, Listed
        <4>4. CASE m = n /\ w.fresh
          <5>1. /\ repo' = [repo EXCEPT ![n].spec = SpecWritten(n)]
                /\ missed' = missed \cup (Other(n, s) \X {n})
                      \cup IF repo[n].st = "leaving" THEN w.cur \X {n} ELSE {}
            BY <2>1, <4>4 DEF UpdateRepo
          <5>2. repo'[n].spec = s
            BY <5>1 DEF SpecWritten, RoundInv, RepoGroupTypeOK, RepoObj
          <5>3. CASE group[x].list[n] # s
            BY <3>1, <4>4, <5>1, <5>3 DEF Other, Listing, Listed
          <5>4. CASE group[x].list[n] = s /\ Alive(n)
            BY <1>4, <4>4, <5>2, <5>4 DEF Alive
          <5>5. CASE ~Alive(n)
            <6>1. repo[n].st = "leaving"
              BY <1>2, <4>4, <5>5
              DEF Alive, RoundInv, WorkerInv, RepoGroupTypeOK, RepoObj
            <6>2. CASE x \in w.cur
              <7>1. missed' = missed \cup (Other(n, s) \X {n}) \cup (w.cur \X {n})
                BY <5>1, <6>1
              <7>. HIDE DEF s
              <7>. QED
                BY <4>4, <6>2, <7>1
            <6>3. CASE x \notin w.cur
              BY <2>2, <3>1, <4>1, <4>4, <5>5, <6>3 DEF SpecInv
            <6>. QED
              BY <6>2, <6>3
          <5>. QED
            BY <5>3, <5>4, <5>5
        <4>. QED
          BY <4>2, <4>3, <4>4
      <3>. QED
        BY <1>1, <1>2, <3>1 DEF SpecInv, Current
    <2>. QED
      BY <2>3, <2>4
  <1>. QED
    BY <1>5, <1>6 DEF RoundInv

LEMMA QuitRound ==
  ASSUME RoundInv, RepoGroupTypeOK', NEW f \in Feeder, Quit(f)
  PROVE  RoundInv'
  <1>1. UNCHANGED <<group, repo, queue, missed, faults>>
        /\ w.pc = "serve" /\ w.absent = {} /\ w.read = {}
    BY DEF Quit, Busy
  <1>2. CASE AllServed(w.feeding \ {f})
    <2>1. w' = IdleWorker
      BY <1>2 DEF Quit
    <2>2. w.remove = {} /\ w.create = {}
      BY <1>2 DEF Quit, Pending, AllServed, Feeder, RoundInv, RepoGroupTypeOK
    <2>3. w'.pc = "idle" /\ w'.cur = {} /\ w'.create = {} /\ w'.absent = {}
          /\ w'.read = {}
      BY <2>1 DEF IdleWorker
    <2>4. WorkerInv' /\ CopyInv'
      BY <2>1, <2>3 DEF WorkerInv, CopyInv
    <2>5. StrayInv => StrayInv'
      BY <1>1, <2>2 DEF StrayInv, Labelled, Alive, Current
    <2>6. SpecInv => SpecInv'
      BY <1>1, <2>2 DEF SpecInv, Listed, Alive, Current
    <2>. QED
      BY <1>1, <2>4, <2>5, <2>6 DEF RoundInv
  <1>3. CASE ~AllServed(w.feeding \ {f})
    <2>1. /\ w'.pc = w.pc /\ w'.cur = w.cur /\ w'.obj = w.obj
          /\ w'.remove = w.remove /\ w'.create = w.create
          /\ w'.absent = {} /\ w'.read = {}
      BY <1>1, <1>3 DEF Quit, RoundInv, RepoGroupTypeOK, Worker
    <2>2. WorkerInv' /\ CopyInv'
      BY <1>1, <2>1 DEF RoundInv, WorkerInv, CopyInv, Listed
    <2>3. StrayInv => StrayInv'
      BY <1>1, <2>1 DEF StrayInv, Labelled, Alive, Current
    <2>4. SpecInv => SpecInv'
      BY <1>1, <2>1 DEF SpecInv, Listed, Alive, Current
    <2>. QED
      BY <1>1, <2>2, <2>3, <2>4 DEF RoundInv
  <1>. QED
    BY <1>2, <1>3

(* The repository controller and the collector.  A copy of n in the        *)
(* worker's hands becomes old; nothing else of the worker changes.         *)
LEMMA OthersRound ==
  ASSUME RoundInv, RepoGroupTypeOK', NEW n \in Name,
         RepoAdopted(n) \/ StatusWritten(n) \/ RepoLetGo(n) \/ CollectGarbage(n)
  PROVE  RoundInv'
  <1>1. UNCHANGED <<group, queue, faults>> /\ w' = Stale(n)
    BY DEF RepoAdopted, StatusWritten, RepoLetGo, CollectGarbage
  <1>2. /\ w'.pc = w.pc /\ w'.cur = w.cur /\ w'.obj = w.obj
        /\ w'.remove = w.remove /\ w'.create = w.create
        /\ w'.absent = w.absent /\ w'.read = w.read
        /\ w'.fresh => w.fresh /\ n \notin w.read
    BY <1>1 DEF Stale, RoundInv, RepoGroupTypeOK, Worker
  <1>3. w.pc = "idle" => w' = IdleWorker
    <2>1. IdleWorker.read = {}
      BY DEF IdleWorker
    <2>. QED
      BY <1>1, <2>1 DEF Stale, RoundInv, WorkerInv
  <1>4. /\ \A x \in Name \ {n} : repo'[x] = repo[x]
        /\ repo[n].st = "absent" => repo'[n].st = "absent"
        /\ missed \subseteq missed'
    <2>1. CASE RepoAdopted(n)
      BY <2>1 DEF RepoAdopted, RoundInv, RepoGroupTypeOK, RepoObj
    <2>2. CASE StatusWritten(n)
      BY <2>2 DEF StatusWritten
    <2>3. CASE RepoLetGo(n)
      BY <2>3 DEF RepoLetGo, RoundInv, RepoGroupTypeOK, RepoObj
    <2>4. CASE CollectGarbage(n)
      BY <2>4 DEF CollectGarbage, RoundInv, RepoGroupTypeOK, RepoObj, Alive
    <2>. QED
      BY <2>1, <2>2, <2>3, <2>4
  (* n stays as it is for its groups, or it goes.                          *)
  <1>5. \/ /\ Alive(n)' = Alive(n) /\ repo'[n].label = repo[n].label
           /\ repo'[n].spec = repo[n].spec
        \/ ~Alive(n) /\ ~Alive(n)'
        \/ ~Alive(n)' /\ Listing(n) \X {n} \subseteq missed'
    <2>1. CASE RepoAdopted(n)
      BY <2>1 DEF RepoAdopted, Alive, RoundInv, RepoGroupTypeOK, RepoObj
    <2>2. CASE StatusWritten(n)
      BY <2>2 DEF StatusWritten, Alive
    <2>3. CASE RepoLetGo(n)
      BY <2>3 DEF RepoLetGo, NoRepo, Alive, RoundInv, RepoGroupTypeOK
    <2>4. CASE CollectGarbage(n)
      <3>1. Deleted(repo[n]).st \in {"absent", "leaving"}
        BY DEF Deleted, NoRepo, RoundInv, RepoGroupTypeOK, RepoObj
      <3>2. repo'[n] = Deleted(repo[n]) /\ missed' = missed \cup (Listing(n) \X {n})
        BY <2>4 DEF CollectGarbage, RoundInv, RepoGroupTypeOK
      <3>. QED
        BY <3>1, <3>2 DEF Alive
    <2>. QED
      BY <2>1, <2>2, <2>3, <2>4
  <1>6. WorkerInv' /\ CopyInv'
    <2>1. w.absent \cup w.read \subseteq Name
      BY DEF RoundInv, RepoGroupTypeOK, Worker
    <2>2. \A x \in w.absent : repo'[x].st = "absent"
      BY <1>4, <2>1 DEF RoundInv, WorkerInv
    <2>3. \A x \in w.read : w'.fresh => repo'[x].st # "absent"
      BY <1>2, <1>4, <2>1 DEF RoundInv, WorkerInv
    <2>. QED
      BY <1>1, <1>2, <1>3, <2>2, <2>3 DEF RoundInv, WorkerInv, CopyInv, Listed
  <1>7. StrayInv => StrayInv'
    <2>1. ASSUME StrayInv, NEW x \in Group, Current(x), NEW m \in Name,
                 x \in repo'[m].label, Alive(m)'
          PROVE  \/ m \in Listed(group[x].list)
                 \/ x \in w.cur /\ (w.pc = "list" \/ m \in w.remove)
      <3>1. x \in repo[m].label /\ Alive(m)
        BY <1>4, <1>5, <2>1 DEF Alive
      <3>. QED
        BY <2>1, <3>1 DEF StrayInv, Labelled
    <2>. QED
      BY <1>1, <1>2, <2>1 DEF StrayInv, Labelled, Current
  <1>8. SpecInv => SpecInv'
    <2>1. ASSUME SpecInv, NEW x \in Group, Current(x), NEW m \in Listed(group[x].list)
          PROVE  \/ Alive(m)' /\ repo'[m].spec = group[x].list[m]
                 \/ <<x, m>> \in missed'
                 \/ /\ x \in w.cur
                    /\ w.pc = "list" \/ m \in w.create \cup w.absent \cup w.read
      <3>1. m \in Name
        BY DEF Listed
      <3>2. CASE m = n /\ Listing(n) \X {n} \subseteq missed'
        BY <2>1, <3>2 DEF Listing, Listed
      <3>3. CASE ~(m = n /\ Listing(n) \X {n} \subseteq missed')
        BY <1>4, <1>5, <2>1, <3>1, <3>3 DEF SpecInv, Alive
      <3>. QED
        BY <3>2, <3>3
    <2>. QED
      BY <1>1, <1>2, <2>1 DEF SpecInv, Current
  <1>. QED
    BY <1>1, <1>6, <1>7, <1>8 DEF RoundInv

(* An edit queues the group: nothing is claimed of it until it is served.  *)
LEMMA UserRound ==
  ASSUME RoundInv, RepoGroupTypeOK', NEW g \in Group, NEW o, UserWrite(g, o)
  PROVE  RoundInv'
  <1>1. /\ group' = [group EXCEPT ![g] = o] /\ queue' = queue \cup {g}
        /\ UNCHANGED <<repo, w, missed, faults>>
    BY DEF UserWrite
  <1>2. \A x \in Group \ {g} : group'[x] = group[x]
    BY <1>1 DEF RoundInv, RepoGroupTypeOK
  <1>3. \A x \in Group : Current(x)' => Current(x) /\ group'[x] = group[x]
    BY <1>1, <1>2 DEF Current
  <1>4. w.cur \subseteq Group
    BY DEF RoundInv, RepoGroupTypeOK, Worker
  <1>5. WorkerInv' /\ CopyInv'
    BY <1>1, <1>2, <1>4 DEF RoundInv, WorkerInv, CopyInv, Listed
  <1>6. StrayInv => StrayInv'
    BY <1>1, <1>3 DEF StrayInv, Labelled, Alive
  <1>7. SpecInv => SpecInv'
    BY <1>1, <1>3 DEF SpecInv, Alive
  <1>. QED
    BY <1>1, <1>5, <1>6, <1>7 DEF RoundInv

LEMMA RestartRound ==
  ASSUME RoundInv, RepoGroupTypeOK', Restart
  PROVE  RoundInv'
  <1>1. w' = IdleWorker /\ UNCHANGED <<group, repo, missed>>
        /\ queue' = {g \in Group : group[g].exists}
    BY DEF Restart
  <1>2. \A g \in Group : ~Current(g)'
    BY <1>1 DEF Current
  <1>3. WorkerInv' /\ CopyInv'
    BY <1>1 DEF WorkerInv, CopyInv, IdleWorker
  <1>. QED
    BY <1>2, <1>3 DEF RoundInv, StrayInv, SpecInv

LEMMA NextRound == RoundInv /\ [Next]_vars => RoundInv'
  <1>. SUFFICES ASSUME RoundInv, [Next]_vars PROVE RoundInv'
    OBVIOUS
  <1>1. RepoGroupTypeOK'
    BY NextType DEF RoundInv
  <1>2. CASE RepoGroupStep
    BY <1>1, <1>2, StartRound, ListRound, RemoveRound, GetRound, CreateRound,
       UpdateRound, QuitRound DEF RepoGroupStep
  <1>3. CASE \E n \in Name : \/ RepoAdopted(n) \/ StatusWritten(n)
                            \/ RepoLetGo(n) \/ CollectGarbage(n)
    BY <1>1, <1>3, OthersRound
  <1>4. CASE \E g \in Group, list \in List :
                CreateGroup(g, list) \/ EditGroup(g, list)
    BY <1>1, <1>4, UserRound DEF CreateGroup, EditGroup
  <1>5. CASE \E g \in Group : DeleteGroup(g)
    BY <1>1, <1>5, UserRound DEF DeleteGroup
  <1>6. CASE Restart
    BY <1>1, <1>6, RestartRound
  <1>7. CASE UNCHANGED vars
    BY <1>1, <1>7
    DEF vars, RoundInv, WorkerInv, CopyInv, StrayInv, SpecInv, Labelled, Alive,
        Current
  <1>. QED
    BY <1>2, <1>3, <1>4, <1>5, <1>6, <1>7 DEF Next

LEMMA RoundAlways == Spec => []RoundInv
  <1>. QED
    BY InitRound, NextRound, PTL DEF Spec

(* As long as no call fails, a group that has been served leaves no        *)
(* Repository with its label that it does not list.                        *)
THEOREM NoStrayRepoAlways == Spec => []NoStrayRepo
  <1>1. RoundInv => NoStrayRepo
    BY DEF RoundInv, StrayInv, NoStrayRepo, Served, Current
  <1>. QED
    BY <1>1, RoundAlways, PTL

(* As long as no call fails, a listed Repository of a served group has the *)
(* listed spec or is among those known to be missed.                       *)
THEOREM SpecUnlessMissedAlways == Spec => []SpecUnlessMissed
  <1>1. RoundInv => SpecUnlessMissed
    BY DEF RoundInv, SpecInv, SpecUnlessMissed, Served, Current
  <1>. QED
    BY <1>1, RoundAlways, PTL
=============================================================================
