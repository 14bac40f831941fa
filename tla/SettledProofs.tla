---------------------------- MODULE SettledProofs ----------------------------
(***************************************************************************)
(* Proofs about Agent for every value of the constants, whatever fails:    *)
(* a release at rest reports helm's revision and is settled or marked; and *)
(* provided writes do not fail, it is settled or about to be poked.        *)
(*                                                                         *)
(* A release comes to rest when its worker is done, so one has to know     *)
(* what a worker has found out by then (Knows), and that the object it     *)
(* holds is still the one in the apiserver unless the release is queued    *)
(* again: the one write that goes by unnoticed is the mark of the values   *)
(* worker, and then that worker is about to set the label (Tracks).        *)
(***************************************************************************)
EXTENDS AgentProofs

ReliableWrites == "write" \notin Faults

(* What a worker knows of helm's record h, and of its object, before it    *)
(* reports success and when it is done.                                    *)
Knows(h, c) ==
    /\ c.pc \in {"helm", "helmRun"} => ~c.obj.deleting
    /\ c.pc = "sync" /\ c.goal = "success"
          => ~c.obj.deleting /\ h.st # "none" /\ c.hrev = h.rev
    /\ c.pc = "done" => /\ ~c.obj.deleting /\ ~c.obj.label
                        /\ c.obj.cond = "success"
                        /\ h.st # "none" /\ c.obj.rev = h.rev

Marked(o) == [o EXCEPT !.cond = "valueschange"]

(* The object o of a release that is not queued, against its worker's copy *)
(* p: the same, or marked since.                                           *)
Tracks(o, p, poked) ==
    /\ o.exists
    /\ o = p \/ (o = Marked(p) /\ ~o.label)
    /\ ReliableWrites /\ o # p => poked

(* The object o of a release that is not queued and has no worker.         *)
AtRest(o, h, poked) ==
    o.exists => /\ o.cond \in {"success", "valueschange"}
                /\ ~o.label /\ ~o.deleting
                /\ h.st # "none" /\ o.rev = h.rev
                /\ ReliableWrites /\ ~Synced(o) => poked

Settles(r) ==
    r \notin queue =>
        IF Idle(r) THEN AtRest(rel[r], helm[r], BeingPoked(r))
        ELSE Tracks(rel[r], ctx[r].obj, BeingPoked(r))

(* The values worker has one target, which is there and, before it is      *)
(* marked, synced while the worker's copy of it is current.                *)
TargetInv ==
    /\ \A x, y \in vw.tgt : x = y
    /\ \A x \in vw.tgt : vw.fresh => /\ rel[x].exists
                                     /\ vw.pc = "mark" => Synced(rel[x])
    /\ vw.pc \in {"idle", "next"} => vw.tgt = {}

SettleInv == /\ OwnershipInv /\ TargetInv
             /\ \A r \in Release : Knows(helm[r], ctx[r]) /\ Settles(r)

-----------------------------------------------------------------------------
(* The control flow keeps the object and what a worker knows.              *)

LEMMA AfterInitKnows ==
  ASSUME NEW c \in Worker, NEW h
  PROVE  /\ Knows(h, AfterInit(c)) /\ AfterInit(c).obj = c.obj
         /\ AfterInit(c).pc # "idle"
  BY DEF AfterInit, Retry, Sync, Knows, Worker

LEMMA AfterNewKnows ==
  ASSUME NEW c \in Worker, NEW h
  PROVE  /\ Knows(h, AfterNew(c)) /\ AfterNew(c).obj = c.obj
         /\ AfterNew(c).pc # "idle"
  <1>1. /\ Knows(h, Sync(c, "init", 0)) /\ Sync(c, "init", 0).obj = c.obj
        /\ Sync(c, "init", 0).pc # "idle"
    BY DEF Sync, Knows, Worker
  <1>. QED
    BY <1>1, AfterInitKnows DEF AfterNew

LEMMA AfterRefsKnows ==
  ASSUME NEW c \in Worker, NEW h
  PROVE  /\ Knows(h, AfterRefs(c)) /\ AfterRefs(c).obj = c.obj
         /\ AfterRefs(c).pc # "idle"
  BY DEF AfterRefs, Knows, Worker

LEMMA RetryKnows ==
  ASSUME NEW c \in Worker, NEW h
  PROVE  Knows(h, Retry(c)) /\ Retry(c).obj = c.obj /\ Retry(c).pc = "retry"
  BY DEF Retry, Knows, Worker

(* Only a success that is written, or need not be, ends the work.          *)
LEMMA AfterSyncKnows ==
  ASSUME NEW c \in Worker, NEW h,
         c.goal = "success" => /\ ~c.obj.deleting /\ ~c.obj.label
                               /\ c.obj.cond = "success"
                               /\ h.st # "none" /\ c.obj.rev = h.rev
  PROVE  /\ Knows(h, AfterSync(c)) /\ AfterSync(c).obj = c.obj
         /\ AfterSync(c).pc # "idle"
  <1>1. CASE c.goal = "init"
    BY <1>1, AfterInitKnows DEF AfterSync
  <1>2. CASE c.goal = "success"
    BY <1>2 DEF AfterSync, Done, Knows, Worker
  <1>3. CASE c.goal # "init" /\ c.goal # "success"
    BY <1>3, RetryKnows DEF AfterSync
  <1>. QED
    BY <1>1, <1>2, <1>3

LEMMA BeginKnows ==
  ASSUME NEW o \in Obj, NEW h
  PROVE  Knows(h, Begin(o)) /\ Begin(o).obj = o /\ Begin(o).pc # "idle"
  <1>. DEFINE c == [IdleWorker EXCEPT !.obj = o, !.fresh = TRUE]
              d == [c EXCEPT !.todo = o.refs]
  <1>1. c \in Worker /\ d \in Worker /\ c.obj = o /\ d.obj = o
    BY IdleWorkerType DEF Worker, Obj
  <1>. QED
    BY <1>1, AfterNewKnows, AfterRefsKnows DEF Begin

LEMMA IdleKnows == \A h : Knows(h, IdleWorker)
  BY DEF Knows, IdleWorker

LEMMA StaleKnows ==
  ASSUME NEW c \in Worker, NEW h, Knows(h, c)
  PROVE  /\ Knows(h, StaleWorker(c)) /\ StaleWorker(c).obj = c.obj
         /\ StaleWorker(c).pc = c.pc
  BY DEF StaleWorker, Knows, Worker

(* What a worker that is done leaves behind.                               *)
LEMMA DoneRests ==
  ASSUME NEW o \in Obj, NEW c \in Worker, NEW h, NEW poked,
         Tracks(o, c.obj, poked), Knows(h, c), c.pc = "done"
  PROVE  AtRest(o, h, poked)
  <1>1. c.obj \in Obj
    BY DEF Worker
  <1>. QED
    BY <1>1 DEF Tracks, Knows, AtRest, Marked, Synced, Obj

-----------------------------------------------------------------------------
(* Steps of one worker.                                                    *)

(* A write of r makes the values worker's copy of it stale and leaves what *)
(* it holds of others alone.                                               *)
LEMMA StaleTarget ==
  ASSUME TypeOK, TargetInv, NEW r \in Release, vw' = StaleValuesWorker(r),
         \A x \in Release \ {r} : rel'[x] = rel[x]
  PROVE  TargetInv' /\ \A x \in Release \ {r} : BeingPoked(x)' <=> BeingPoked(x)
  <1>1. CASE r \in vw.tgt
    <2>1. vw' = [vw EXCEPT !.fresh = FALSE] /\ vw \in ValuesWorker
      BY <1>1 DEF StaleValuesWorker, TypeOK
    <2>2. /\ vw'.pc = vw.pc /\ vw'.tgt = vw.tgt /\ ~vw'.fresh
          /\ \A x \in vw.tgt : x = r
      BY <1>1, <2>1 DEF ValuesWorker, TargetInv
    <2>. QED
      BY <2>2 DEF TargetInv, BeingPoked
  <1>2. CASE r \notin vw.tgt
    <2>1. vw' = vw /\ vw.tgt \subseteq Release
      BY <1>2 DEF StaleValuesWorker, TypeOK, ValuesWorker
    <2>. QED
      BY <1>2, <2>1 DEF TargetInv, BeingPoked
  <1>. QED
    BY <1>1, <1>2

LEMMA FrameSettle ==
  ASSUME SettleInv, OwnershipInv', TargetInv', NEW r \in Release,
         \A x \in Release \ {r} :
            /\ rel'[x] = rel[x] /\ helm'[x] = helm[x] /\ ctx'[x] = ctx[x]
            /\ x \in queue => x \in queue'
            /\ BeingPoked(x) => BeingPoked(x)',
         Knows(helm'[r], ctx'[r]), Settles(r)'
  PROVE  SettleInv'
  <1>1. ASSUME NEW x \in Release, x # r
        PROVE  Knows(helm'[x], ctx'[x]) /\ Settles(x)'
    <2>1. Knows(helm[x], ctx[x]) /\ Settles(x)
      BY DEF SettleInv
    <2>. QED
      BY <1>1, <2>1 DEF Settles, Idle, AtRest, Tracks
  <1>. QED
    BY <1>1 DEF SettleInv

(* The worker of r goes on as d, or leaves.                                *)
LEMMA ContinueSettle ==
  ASSUME SettleInv, OwnershipInv', NEW r \in Release, NEW d \in Worker,
         NEW event, Continue(r, d, event), UNCHANGED <<rel, vw>>,
         \A x \in Release \ {r} : helm'[x] = helm[x],
         ~Idle(r), d.pc # "idle", d.obj = ctx[r].obj, Knows(helm'[r], d)
  PROVE  SettleInv'
  <1>t. TypeOK /\ TypeOK'
    BY DEF SettleInv, OwnershipInv
  <1>1. /\ \A x \in Release \ {r} : ctx'[x] = ctx[x]
        /\ ctx'[r] = IF d.pc \in {"retry", "done"} THEN IdleWorker ELSE d
        /\ queue \subseteq queue'
        /\ d.pc = "retry" => r \in queue'
    BY <1>t DEF Continue, TypeOK
  <1>2. Knows(helm'[r], ctx'[r])
    BY <1>1, IdleKnows
  <1>3. Settles(r)'
    <2>. SUFFICES ASSUME r \notin queue'
                  PROVE  IF Idle(r)' THEN AtRest(rel[r], helm'[r], BeingPoked(r))
                         ELSE Tracks(rel[r], ctx'[r].obj, BeingPoked(r))
      BY DEF Settles, BeingPoked
    <2>1. Tracks(rel[r], d.obj, BeingPoked(r))
      BY <1>1 DEF SettleInv, Settles
    <2>2. CASE d.pc = "done"
      <3>1. AtRest(rel[r], helm'[r], BeingPoked(r))
        BY <1>t, <2>1, <2>2, DoneRests DEF TypeOK
      <3>2. Idle(r)'
        BY <1>1, <2>2 DEF Idle, IdleWorker
      <3>. QED
        BY <3>1, <3>2
    <2>3. CASE d.pc # "done"
      BY <1>1, <2>1, <2>3 DEF Idle
    <2>. QED
      BY <2>2, <2>3
  <1>4. TargetInv'
    BY DEF SettleInv, TargetInv
  <1>. QED
    BY <1>1, <1>2, <1>3, <1>4, FrameSettle DEF BeingPoked

(* It writes its object, now o.                                            *)
LEMMA WriteSettle ==
  ASSUME SettleInv, OwnershipInv', NEW r \in Release, NEW o \in Obj,
         NEW d \in Worker, NEW event, Write(r, o, d, event), UNCHANGED helm,
         o.exists, ~Idle(r), d.pc # "idle", d.obj = o, Knows(helm[r], d)
  PROVE  SettleInv'
  <1>t. TypeOK
    BY DEF SettleInv, OwnershipInv
  <1>1. /\ \A x \in Release \ {r} : ctx'[x] = ctx[x] /\ rel'[x] = rel[x]
        /\ ctx'[r] = IF d.pc \in {"retry", "done"} THEN IdleWorker ELSE d
        /\ queue \subseteq queue' /\ rel'[r] = o
        /\ d.pc = "retry" => r \in queue'
    BY <1>t DEF Write, Continue, TypeOK
  <1>2. Knows(helm'[r], ctx'[r])
    BY <1>1, IdleKnows
  <1>3. TargetInv' /\ \A x \in Release \ {r} : BeingPoked(x)' <=> BeingPoked(x)
    BY <1>t, <1>1, StaleTarget DEF Write, SettleInv
  <1>4. Settles(r)'
    <2>. SUFFICES ASSUME r \notin queue', NEW poked
                  PROVE  IF Idle(r)' THEN AtRest(o, helm[r], poked)
                         ELSE Tracks(o, ctx'[r].obj, poked)
      BY <1>1 DEF Settles
    <2>1. Tracks(o, d.obj, poked)
      BY DEF Tracks
    <2>2. CASE d.pc = "done"
      <3>1. AtRest(o, helm[r], poked)
        BY <2>1, <2>2, DoneRests
      <3>2. Idle(r)'
        BY <1>1, <2>2 DEF Idle, IdleWorker
      <3>. QED
        BY <3>1, <3>2
    <2>3. CASE d.pc # "done"
      BY <1>1, <2>1, <2>3 DEF Idle
    <2>. QED
      BY <2>2, <2>3
  <1>. QED
    BY <1>1, <1>2, <1>3, <1>4, FrameSettle

(* What a worker at work may rely on.                                      *)
LEMMA AtWork ==
  ASSUME SettleInv, NEW r \in Release, ctx[r].pc # "idle"
  PROVE  /\ ctx[r] \in Worker /\ ctx[r].obj \in Obj /\ helm[r] \in HelmRecord
         /\ Holds(rel[r], ctx[r]) /\ AtCall(helm[r], ctx[r])
         /\ Knows(helm[r], ctx[r]) /\ ~Idle(r)
  BY Active DEF SettleInv, Idle

LEMMA ReadStepSettle ==
  ASSUME SettleInv, OwnershipInv', NEW r \in Release,
         \/ StartReconcile(r) \/ LoadChart(r)
         \/ \E v \in Values : GetReference(r, v) \/ RegisterReference(r, v)
  PROVE  SettleInv'
  <1>. DEFINE c == ctx[r]
  <1>t. TypeOK
    BY DEF SettleInv, OwnershipInv
  <1>1. CASE StartReconcile(r)
    <2>1. /\ UNCHANGED <<rel, helm, vw>>
          /\ ctx'[r] = IF rel[r].exists THEN Begin(rel[r]) ELSE IdleWorker
          /\ \A x \in Release \ {r} : ctx'[x] = ctx[x] /\ (x \in queue => x \in queue')
      BY <1>t, <1>1 DEF StartReconcile, TypeOK
    <2>2. TargetInv'
      BY <2>1 DEF SettleInv, TargetInv
    <2>3. CASE rel[r].exists
      <3>1. /\ Knows(helm[r], Begin(rel[r])) /\ Begin(rel[r]).obj = rel[r]
            /\ Begin(rel[r]).pc # "idle"
        BY <1>t, BeginKnows DEF TypeOK
      <3>2. Settles(r)'
        BY <2>1, <2>3, <3>1 DEF Settles, Idle, Tracks
      <3>. QED
        BY <2>1, <2>2, <2>3, <3>1, <3>2, FrameSettle DEF BeingPoked
    <2>4. CASE ~rel[r].exists
      <3>1. Settles(r)'
        BY <2>1, <2>4 DEF Settles, Idle, IdleWorker, AtRest
      <3>. QED
        BY <2>1, <2>2, <2>4, <3>1, IdleKnows, FrameSettle DEF BeingPoked
    <2>. QED
      BY <2>3, <2>4
  <1>2. CASE LoadChart(r)
    <2>1. c \in Worker /\ ~Idle(r)
      BY <1>2, AtWork DEF LoadChart
    <2>2. PICK e \in BOOLEAN : Continue(r, AfterNew([c EXCEPT !.err = e]), FALSE)
      BY <1>2 DEF LoadChart
    <2>3. [c EXCEPT !.err = e] \in Worker /\ [c EXCEPT !.err = e].obj = c.obj
      BY <2>1 DEF Worker
    <2>4. UNCHANGED <<rel, helm, vw>>
      BY <1>2 DEF LoadChart
    <2>. QED
      BY <2>1, <2>2, <2>3, <2>4, AfterNewType, AfterNewKnows, ContinueSettle
  <1>3. ASSUME NEW d \in Worker, d.obj = c.obj, c.pc # "idle",
               Continue(r, AfterRefs(d), FALSE), UNCHANGED <<rel, helm, vw>>
        PROVE  SettleInv'
    BY <1>3, AtWork, AfterRefsType, AfterRefsKnows, ContinueSettle
  <1>4. ASSUME NEW v \in Values, GetReference(r, v) PROVE SettleInv'
    <2>. DEFINE d == [c EXCEPT !.todo = @ \ {v},
                          !.unreg = IF r \in val[v].ann THEN @ ELSE @ \cup {v},
                          !.ann[v] = val[v].ann,
                          !.vals[v] = val[v].data]
                f == [c EXCEPT !.todo = @ \ {v}]
    <2>1. d \in Worker /\ f \in Worker
      BY <1>t, ReadReferenceType
    <2>2. d.obj = c.obj /\ f.obj = c.obj
      BY <1>t DEF TypeOK, Worker
    <2>3. /\ Continue(r, AfterRefs(d), FALSE) \/ Continue(r, AfterRefs(f), FALSE)
          /\ UNCHANGED <<rel, helm, vw>> /\ c.pc # "idle"
      BY <1>4 DEF GetReference
    <2>. QED
      BY <2>1, <2>2, <2>3, <1>3
  <1>5. ASSUME NEW v \in Values, RegisterReference(r, v) PROVE SettleInv'
    <2>. DEFINE d == [c EXCEPT !.unreg = @ \ {v}, !.vals[v] = Patched(c, v)]
                f(late) == [c EXCEPT !.unreg = {},
                                     !.vals = [u \in Values |->
                                                 IF u \in c.unreg \cup late
                                                 THEN 0 ELSE c.vals[u]]]
    <2>1. d \in Worker /\ \A late \in SUBSET Values : f(late) \in Worker
      BY <1>t, PatchReferenceType
    <2>2. d.obj = c.obj /\ \A late : f(late).obj = c.obj
      BY <1>t DEF TypeOK, Worker
    <2>3. /\ \/ Continue(r, AfterRefs(d), FALSE)
             \/ \E late \in SUBSET Values : Continue(r, AfterRefs(f(late)), FALSE)
          /\ UNCHANGED <<rel, helm, vw>> /\ c.pc # "idle"
      BY <1>5 DEF RegisterReference
    <2>. QED
      BY <2>1, <2>2, <2>3, <1>3
  <1>. QED
    BY <1>1, <1>2, <1>4, <1>5

LEMMA WriteStepSettle ==
  ASSUME SettleInv, OwnershipInv', NEW r \in Release,
         \/ RemoveLabel(r) \/ WriteStatus(r)
         \/ AddFinalizer(r) \/ DropFinalizer(r)
  PROVE  SettleInv'
  <1>. DEFINE c == ctx[r]
  <1>t. TypeOK
    BY DEF SettleInv, OwnershipInv
  <1>a. c.pc # "idle"
    BY DEF RemoveLabel, WriteStatus, AddFinalizer, DropFinalizer
  <1>b. /\ c \in Worker /\ c.obj \in Obj /\ c.obj.exists /\ ~Idle(r)
        /\ Knows(helm[r], c) /\ UNCHANGED helm
    BY <1>a, AtWork
       DEF Holds, RemoveLabel, WriteStatus, AddFinalizer, DropFinalizer
  <1>c. AtCall(helm[r], c)
    BY <1>a, AtWork
  <1>. HIDE DEF c
  <1>d. ASSUME Continue(r, Retry(c), FALSE), UNCHANGED <<rel, vw>>
        PROVE  SettleInv'
    BY <1>b, <1>d, RetryType, RetryKnows, ContinueSettle DEF c
  <1>1. CASE RemoveLabel(r)
    <2>. DEFINE o == [c.obj EXCEPT !.label = FALSE]
                d == [c EXCEPT !.obj = o]
    <2>1. ASSUME Write(r, o, d, UpdatePasses(o))
          PROVE  SettleInv'
      <3>1. o \in Obj /\ o.exists
        BY <1>b DEF Obj
      <3>2. d \in Worker /\ d.obj = o /\ d.pc = "sync"
        BY <1>1, <1>b, <3>1 DEF RemoveLabel, c, Worker
      <3>3. Knows(helm[r], d)
        BY <1>1, <1>b, <3>2 DEF RemoveLabel, c, Knows, Worker, Obj
      <3>. QED
        BY <1>b, <2>1, <3>1, <3>2, <3>3, WriteSettle
    <2>. QED
      BY <1>1, <1>d, <2>1 DEF RemoveLabel, c
  <1>2. CASE WriteStatus(r)
    <2>. DEFINE o == [c.obj EXCEPT !.cond = c.goal, !.rev = c.hrev]
                d == [c EXCEPT !.obj = o]
    <2>0. c.pc = "sync" /\ ~c.obj.label
      BY <1>2 DEF WriteStatus, c
    <2>1. ASSUME Write(r, o, AfterSync(d), UpdatePasses(o))
          PROVE  SettleInv'
      <3>1. o \in Obj /\ o.exists
        BY <1>b DEF Worker, Obj, Goal, Cond
      <3>2. d \in Worker /\ d.obj = o /\ d.goal = c.goal
        BY <1>b, <3>1 DEF Worker
      <3>3. c.goal = "success" => /\ ~o.deleting /\ ~o.label
                                  /\ o.cond = "success"
                                  /\ helm[r].st # "none" /\ o.rev = helm[r].rev
        BY <1>b, <2>0 DEF Knows, Obj
      <3>4. /\ AfterSync(d) \in Worker /\ Knows(helm[r], AfterSync(d))
            /\ AfterSync(d).obj = o /\ AfterSync(d).pc # "idle"
        BY <3>2, <3>3, AfterSyncType, AfterSyncKnows
      <3>. QED
        BY <1>b, <2>1, <3>1, <3>4, WriteSettle
    <2>2. ASSUME UpToDate(c), Continue(r, AfterSync(c), FALSE),
                 UNCHANGED <<rel, vw>>
          PROVE  SettleInv'
      <3>1. c.goal = "success" => /\ ~c.obj.deleting /\ ~c.obj.label
                                  /\ c.obj.cond = "success"
                                  /\ helm[r].st # "none"
                                  /\ c.obj.rev = helm[r].rev
        BY <1>b, <2>0, <2>2 DEF Knows, UpToDate
      <3>2. /\ AfterSync(c) \in Worker /\ Knows(helm[r], AfterSync(c))
            /\ AfterSync(c).obj = c.obj /\ AfterSync(c).pc # "idle"
        BY <1>b, <3>1, AfterSyncType, AfterSyncKnows
      <3>. QED
        BY <1>b, <2>2, <3>2, ContinueSettle DEF c
    <2>. QED
      BY <1>2, <1>d, <2>1, <2>2 DEF WriteStatus, c
  <1>3. CASE AddFinalizer(r)
    <2>. DEFINE o == [c.obj EXCEPT !.fin = TRUE]
                d == [c EXCEPT !.pc = "helm", !.obj = o]
    <2>1. ASSUME Write(r, o, d, UpdatePasses(o))
          PROVE  SettleInv'
      <3>1. ~c.obj.deleting
        BY <1>3, <1>c DEF AddFinalizer, AtCall, c
      <3>2. o \in Obj /\ o.exists /\ ~o.deleting
        BY <1>b, <3>1 DEF Obj
      <3>3. d \in Worker /\ d.obj = o /\ d.pc = "helm"
        BY <1>b, <3>2 DEF Worker, ReleasePC
      <3>4. Knows(helm[r], d)
        BY <3>2, <3>3 DEF Knows
      <3>. QED
        BY <1>b, <2>1, <3>2, <3>3, <3>4, WriteSettle
    <2>. QED
      BY <1>3, <1>d, <2>1 DEF AddFinalizer, c
  <1>4. CASE DropFinalizer(r)
    <2>1. ASSUME Write(r, NoObj, Retry(c), TRUE)
          PROVE  SettleInv'
      <3>1. /\ ctx'[r] = IdleWorker /\ r \in queue' /\ queue \subseteq queue'
            /\ \A x \in Release \ {r} : rel'[x] = rel[x] /\ ctx'[x] = ctx[x]
        BY <1>t, <1>b, <2>1 DEF Write, Continue, Retry, TypeOK, Worker
      <3>2. TargetInv' /\ \A x \in Release \ {r} : BeingPoked(x)' <=> BeingPoked(x)
        BY <1>t, <2>1, <3>1, StaleTarget DEF Write, SettleInv
      <3>. QED
        BY <1>b, <3>1, <3>2, IdleKnows, FrameSettle DEF Settles
    <2>. QED
      BY <1>4, <1>d, <2>1 DEF DropFinalizer, c
  <1>. QED
    BY <1>1, <1>2, <1>3, <1>4

LEMMA HelmStepSettle ==
  ASSUME SettleInv, OwnershipInv', NEW r \in Release,
         RemoveRelease(r) \/ Install(r) \/ KeepRelease(r) \/ Upgrade(r) \/ HelmEnd(r)
  PROVE  SettleInv'
  <1>. DEFINE c == ctx[r]
  <1>t. TypeOK
    BY DEF SettleInv, OwnershipInv
  <1>a. c.pc # "idle" /\ UNCHANGED <<rel, vw>>
    BY DEF RemoveRelease, Install, KeepRelease, Upgrade, HelmEnd
  <1>b. /\ c \in Worker /\ helm[r] \in HelmRecord /\ ~Idle(r)
        /\ AtCall(helm[r], c) /\ Knows(helm[r], c)
    BY <1>a, AtWork
  <1>c. /\ \A x \in Release \ {r} : helm'[x] = helm[x]
        /\ helm'[r] \in HelmRecord
    <2>1. helm' \in [Release -> HelmRecord]
      BY DEF OwnershipInv, TypeOK
    <2>. QED
      BY <1>t, <2>1 DEF RemoveRelease, Install, KeepRelease, Upgrade, HelmEnd,
                        HelmBegin, TypeOK
  <1>. HIDE DEF c
  <1>d. ASSUME NEW d \in Worker, Continue(r, d, FALSE), d.obj = c.obj,
               d.pc # "idle", Knows(helm'[r], d)
        PROVE  SettleInv'
    BY <1>a, <1>b, <1>c, <1>d, ContinueSettle DEF c
  <1>e. ASSUME NEW goal \in Goal, NEW rev \in Nat,
               Continue(r, Sync(c, goal, rev), FALSE),
               goal = "success" => /\ ~c.obj.deleting /\ helm'[r].st # "none"
                                   /\ rev = helm'[r].rev
        PROVE  SettleInv'
    <2>. DEFINE d == Sync(c, goal, rev)
    <2>1. d \in Worker /\ d.obj = c.obj /\ d.pc = "sync" /\ d.goal = goal
          /\ d.hrev = rev
      BY <1>b, SyncType DEF Sync, Worker
    <2>. HIDE DEF d
    <2>2. Knows(helm'[r], d)
      BY <1>e, <2>1 DEF Knows
    <2>. QED
      BY <1>d, <1>e, <2>1, <2>2 DEF d
  <1>f. ASSUME NEW rev \in Nat \ {0}, HelmBegin(r, c, rev), c.pc = "helm"
        PROVE  SettleInv'
    <2>. DEFINE d == [c EXCEPT !.pc = "helmRun", !.hrev = rev - 1]
    <2>1. d \in Worker /\ d.obj = c.obj /\ d.pc = "helmRun"
      BY <1>b, HelmBeginType DEF Worker
    <2>2. Knows(helm'[r], d)
      BY <1>b, <1>f, <2>1 DEF Knows
    <2>. QED
      BY <1>d, <1>f, <2>1, <2>2 DEF HelmBegin
  <1>g. "updateFailed" \in Goal /\ "success" \in Goal
        /\ helm[r].rev \in Nat /\ c.hrev \in Nat
    BY <1>b DEF Goal, HelmRecord, Worker
  <1>r. ASSUME Continue(r, Retry(c), FALSE) PROVE SettleInv'
    BY <1>b, <1>d, <1>r, RetryType, RetryKnows
  <1>1. CASE RemoveRelease(r)
    <2>. DEFINE d == [c EXCEPT !.pc = "drop"]
    <2>1. d \in Worker /\ d.obj = c.obj /\ d.pc = "drop"
      BY <1>b DEF Worker, ReleasePC
    <2>2. Knows(helm'[r], d)
      BY <2>1 DEF Knows
    <2>3. Continue(r, d, FALSE) \/ Continue(r, Retry(c), FALSE)
      BY <1>1 DEF RemoveRelease, c
    <2>. QED
      BY <1>d, <1>r, <2>1, <2>2, <2>3
  <1>2. CASE Install(r)
    <2>1. CASE HelmBegin(r, c, 1)
      <3>1. 1 \in Nat \ {0} /\ c.pc = "helm"
        BY <1>2 DEF Install, c
      <3>. QED
        BY <2>1, <3>1, <1>f
    <2>2. CASE Continue(r, Sync(c, "updateFailed", 0), FALSE)
      BY <2>2, <1>e, <1>g
    <2>. QED
      BY <1>2, <2>1, <2>2 DEF Install, c
  <1>3. CASE KeepRelease(r)
    <2>1. /\ Continue(r, Sync(c, "success", helm[r].rev), FALSE)
          /\ helm[r].st # "none" /\ helm' = helm /\ ~c.obj.deleting
      BY <1>3, <1>b DEF KeepRelease, Knows, c
    <2>. QED
      BY <2>1, <1>e, <1>g
  <1>4. CASE Upgrade(r)
    <2>1. helm[r].rev + 1 \in Nat \ {0} /\ c.pc = "helm"
      BY <1>4, <1>g DEF Upgrade, c
    <2>2. \/ HelmBegin(r, c, helm[r].rev + 1)
          \/ Continue(r, Sync(c, "updateFailed", helm[r].rev), FALSE)
      BY <1>4 DEF Upgrade, c
    <2>3. CASE HelmBegin(r, c, helm[r].rev + 1)
      BY <1>f, <2>1, <2>3
    <2>4. CASE Continue(r, Sync(c, "updateFailed", helm[r].rev), FALSE)
      BY <1>e, <1>g, <2>4
    <2>. QED
      BY <2>2, <2>3, <2>4
  <1>5. CASE HelmEnd(r)
    <2>1. CASE /\ helm' = [helm EXCEPT ![r].st = "deployed"]
               /\ Continue(r, Sync(c, "success", helm[r].rev), FALSE)
      <3>1. helm'[r].st = "deployed" /\ helm'[r].rev = helm[r].rev
        BY <1>t, <2>1 DEF TypeOK, HelmRecord
      <3>2. ~c.obj.deleting
        BY <1>5, <1>b DEF HelmEnd, Knows, c
      <3>. QED
        BY <1>e, <1>g, <2>1, <3>1, <3>2
    <2>2. CASE Continue(r, Sync(c, "updateFailed", c.hrev), FALSE)
      BY <1>e, <1>g, <2>2
    <2>. QED
      BY <1>5, <2>1, <2>2 DEF HelmEnd, c
  <1>. QED
    BY <1>1, <1>2, <1>3, <1>4, <1>5

-----------------------------------------------------------------------------
(* Users, restarts and the values worker.                                  *)

LEMMA InitSettle == Init => SettleInv
  <1>1. Init => TargetInv /\ \A r \in Release : Knows(helm[r], ctx[r])
    BY IdleKnows DEF Init, TargetInv, IdleValuesWorker
  <1>2. Init => \A r \in Release : Settles(r)
    BY DEF Init, Settles, Idle, IdleWorker, AtRest, NoObj
  <1>. QED
    BY <1>1, <1>2, InitOwnership DEF SettleInv

(* The objects and the workers stay what they are.                         *)
LEMMA QuietFrame ==
  ASSUME SettleInv, OwnershipInv', TargetInv', UNCHANGED <<rel, helm, ctx, queue>>,
         \A x \in Release : ReliableWrites /\ BeingPoked(x) => BeingPoked(x)'
  PROVE  SettleInv'
  BY DEF SettleInv, Settles, Idle, AtRest, Tracks

(* A write of r by a user, whose event queues it.                          *)
LEMMA UserWriteSettle ==
  ASSUME SettleInv, OwnershipInv', NEW r \in Release,
         \A x \in Release \ {r} : rel'[x] = rel[x],
         queue' = queue \cup {r}, UNCHANGED helm,
         \/ ctx' = [ctx EXCEPT ![r] = StaleWorker(@)] /\ vw' = StaleValuesWorker(r)
         \/ UNCHANGED <<ctx, vw>> /\ ~rel[r].exists
  PROVE  SettleInv'
  <1>t. TypeOK /\ Knows(helm[r], ctx[r])
    BY DEF SettleInv, OwnershipInv
  <1>1. /\ \A x \in Release \ {r} : ctx'[x] = ctx[x]
        /\ ctx'[r] \in {ctx[r], StaleWorker(ctx[r])}
    BY <1>t DEF TypeOK
  <1>2. Knows(helm'[r], ctx'[r])
    BY <1>t, <1>1, StaleKnows DEF TypeOK
  <1>3. TargetInv' /\ \A x \in Release \ {r} : BeingPoked(x)' <=> BeingPoked(x)
    <2>1. CASE vw' = StaleValuesWorker(r)
      BY <1>t, <2>1, StaleTarget DEF SettleInv
    <2>2. CASE UNCHANGED vw /\ ~rel[r].exists
      <3>1. vw.tgt \subseteq Release
        BY <1>t DEF TypeOK, ValuesWorker
      <3>. QED
        BY <2>2, <3>1 DEF SettleInv, TargetInv, BeingPoked
    <2>. QED
      BY <2>1, <2>2
  <1>. QED
    BY <1>1, <1>2, <1>3, FrameSettle DEF Settles

LEMMA UserSettle == ASSUME SettleInv, User PROVE SettleInv'
  <1>t. OwnershipInv' /\ TypeOK
    BY UserOwnership DEF SettleInv, OwnershipInv
  <1>1. ASSUME NEW r \in Release, NEW refs \in SUBSET Values,
               NEW ver \in Version,
               CreateRelease(r, refs, ver) \/ EditRelease(r, refs, ver)
        PROVE  SettleInv'
    <2>1. \A x \in Release \ {r} : rel'[x] = rel[x]
      BY <1>t, <1>1 DEF CreateRelease, EditRelease, TypeOK
    <2>. QED
      BY <1>t, <1>1, <2>1, UserWriteSettle DEF CreateRelease, EditRelease
  <1>2. ASSUME NEW r \in Release, DeleteRelease(r) PROVE SettleInv'
    <2>1. \A x \in Release \ {r} : rel'[x] = rel[x]
      BY <1>t, <1>2 DEF DeleteRelease, TypeOK
    <2>. QED
      BY <1>t, <1>2, <2>1, UserWriteSettle DEF DeleteRelease
  <1>3. ASSUME NEW v \in Values, EditValues(v) PROVE SettleInv'
    <2>1. TargetInv'
      BY <1>3 DEF EditValues, SettleInv, TargetInv
    <2>. QED
      BY <1>t, <1>3, <2>1, QuietFrame DEF EditValues, BeingPoked
  <1>. QED
    BY <1>1, <1>2, <1>3 DEF User

(* Listing the objects queues every one of them.                           *)
LEMMA RestartSettle == ASSUME SettleInv, Restart PROVE SettleInv'
  <1>1. OwnershipInv'
    BY RestartOwnership DEF SettleInv
  <1>2. TargetInv' /\ \A r \in Release : Knows(helm'[r], ctx'[r])
    BY IdleKnows DEF Restart, TargetInv, IdleValuesWorker
  <1>3. \A r \in Release : Settles(r)'
    BY DEF Restart, Settles, Idle, IdleWorker, AtRest
  <1>. QED
    BY <1>1, <1>2, <1>3 DEF SettleInv

(* Between two releases it holds none.                                     *)
LEMMA NoTarget ==
  ASSUME NEW w \in ValuesWorker, vw' \in {NextRelease(w), IdleValuesWorker}
  PROVE  TargetInv'
  <1>1. vw'.tgt = {}
    <2>1. CASE vw' = IdleValuesWorker
      BY <2>1 DEF IdleValuesWorker
    <2>2. CASE vw' = [w EXCEPT !.pc = "next", !.tgt = {}, !.fresh = FALSE]
      BY <2>2 DEF ValuesWorker
    <2>. QED
      BY <2>1, <2>2 DEF NextRelease
  <1>. QED
    BY <1>1 DEF TargetInv

(* The values worker visits one release at a time and looks at it first.   *)
LEMMA VisitSettle ==
  ASSUME SettleInv, (\E v \in Values : StartValues(v))
                    \/ \E r \in Release : GetRelease(r)
  PROVE  SettleInv'
  <1>t. OwnershipInv' /\ TypeOK /\ vw \in ValuesWorker
    BY ValuesStepOwnership DEF ValuesStep, SettleInv, OwnershipInv, TypeOK
  <1>1. UNCHANGED <<rel, helm, ctx, queue>> /\ vw.pc \in {"idle", "next"}
    BY DEF StartValues, GetRelease
  <1>2. TargetInv'
    <2>1. ASSUME NEW v \in Values, StartValues(v) PROVE TargetInv'
      <3>. DEFINE w == [IdleValuesWorker EXCEPT !.cur = {v}, !.todo = val[v].ann]
      <3>1. w \in ValuesWorker
        BY <1>t DEF IdleValuesWorker, ValuesWorker, TypeOK
      <3>. QED
        BY <2>1, <3>1, NoTarget DEF StartValues
    <2>2. ASSUME NEW r \in Release, GetRelease(r) PROVE TargetInv'
      <3>. DEFINE w == [vw EXCEPT !.todo = @ \ {r}]
      <3>1. w \in ValuesWorker
        BY <1>t DEF ValuesWorker
      <3>2. CASE /\ rel[r].exists /\ Synced(rel[r])
                 /\ vw' = [w EXCEPT !.pc = "mark", !.tgt = {r}, !.fresh = TRUE]
        <4>1. vw'.pc = "mark" /\ vw'.tgt = {r} /\ rel' = rel
          BY <1>1, <3>1, <3>2 DEF ValuesWorker
        <4>. QED
          BY <3>2, <4>1 DEF TargetInv, Synced
      <3>. QED
        BY <2>2, <3>1, <3>2, NoTarget DEF GetRelease, ShouldPoke
    <2>. QED
      BY <2>1, <2>2
  <1>. QED
    BY <1>t, <1>1, <1>2, QuietFrame DEF BeingPoked

(* The mark goes by unnoticed, and then the label is about to be set.      *)
LEMMA MarkSettle ==
  ASSUME SettleInv, NEW r \in Release, MarkUnsynced(r)
  PROVE  SettleInv'
  <1>. DEFINE o == Marked(rel[r])
  <1>t. /\ OwnershipInv' /\ TypeOK /\ vw \in ValuesWorker
        /\ rel[r] \in Obj /\ ctx[r] \in Worker /\ ctx[r].obj \in Obj
    BY ValuesStepOwnership
       DEF ValuesStep, SettleInv, OwnershipInv, TypeOK, Worker
  <1>1. /\ vw.pc = "mark" /\ r \in vw.tgt /\ UNCHANGED helm
        /\ vw'.pc = "poke" /\ vw'.tgt = vw.tgt /\ vw'.fresh = vw.fresh
    BY <1>t DEF MarkUnsynced, ValuesWorker
  <1>2. CASE UNCHANGED <<rel, ctx, queue>>
    <2>1. TargetInv'
      BY <1>1, <1>2 DEF SettleInv, TargetInv
    <2>. QED
      BY <1>t, <1>1, <1>2, <2>1, QuietFrame DEF BeingPoked
  <1>3. CASE vw.fresh /\ WriteRelease(r, o, UpdatePasses(o))
    <2>1. /\ rel'[r] = o /\ ctx'[r] = StaleWorker(ctx[r])
          /\ \A x \in Release \ {r} : rel'[x] = rel[x] /\ ctx'[x] = ctx[x]
          /\ queue' = IF rel[r].label THEN queue \cup {r} ELSE queue
      BY <1>t, <1>3 DEF WriteRelease, TypeOK, UpdatePasses, Marked, Obj
    <2>2. rel[r].exists /\ Synced(rel[r])
      BY <1>1, <1>3 DEF SettleInv, TargetInv
    <2>3. o.exists
      BY <1>t, <2>2 DEF Marked, Obj
    <2>4. \A x \in vw.tgt : x = r
      BY <1>1 DEF SettleInv, TargetInv
    <2>5. TargetInv'
      BY <1>1, <2>1, <2>3, <2>4 DEF TargetInv
    <2>6. Knows(helm'[r], ctx'[r])
      BY <1>t, <1>1, <2>1, StaleKnows DEF SettleInv
    <2>7. BeingPoked(r)'
      BY <1>1, <1>3 DEF BeingPoked
    <2>8. Settles(r)'
      <3>. SUFFICES ASSUME r \notin queue', NEW poked, poked
                    PROVE  IF Idle(r)' THEN AtRest(o, helm[r], poked)
                           ELSE Tracks(o, ctx'[r].obj, poked)
        BY <1>1, <2>1, <2>7 DEF Settles
      <3>1. r \notin queue /\ ~rel[r].label /\ Settles(r)
        BY <2>1 DEF SettleInv
      <3>2. CASE Idle(r)
        <4>1. AtRest(o, helm[r], poked)
          BY <1>t, <2>2, <3>1, <3>2 DEF Settles, AtRest, Marked, Obj
        <4>2. Idle(r)'
          BY <1>t, <2>1, <3>2, StaleKnows DEF Idle, StaleWorker, Worker
        <4>. QED
          BY <4>1, <4>2
      <3>3. CASE ~Idle(r)
        <4>1. Tracks(rel[r], ctx[r].obj, BeingPoked(r))
          BY <3>1, <3>3 DEF Settles
        <4>2. rel[r] = ctx[r].obj
          BY <1>t, <2>2, <4>1 DEF Tracks, Marked, Synced, Obj
        <4>3. ~o.label
          BY <1>t, <3>1 DEF Marked, Obj
        <4>4. ctx'[r].obj = ctx[r].obj /\ ~Idle(r)'
          BY <1>t, <2>1, <3>3 DEF Idle, StaleWorker, Worker
        <4>. QED
          BY <2>3, <4>2, <4>3, <4>4 DEF Tracks
      <3>. QED
        BY <3>2, <3>3
    <2>. QED
      BY <1>t, <1>1, <2>1, <2>5, <2>6, <2>8, FrameSettle DEF BeingPoked
  <1>. QED
    BY <1>2, <1>3 DEF MarkUnsynced, Marked

LEMMA LabelSettle ==
  ASSUME SettleInv, NEW r \in Release, SetLabel(r)
  PROVE  SettleInv'
  <1>. DEFINE o == [rel[r] EXCEPT !.label = TRUE]
  <1>t. /\ OwnershipInv' /\ TypeOK /\ vw \in ValuesWorker
        /\ rel[r] \in Obj /\ ctx[r] \in Worker
    BY ValuesStepOwnership DEF ValuesStep, SettleInv, OwnershipInv, TypeOK
  <1>1. /\ vw.pc = "poke" /\ r \in vw.tgt /\ UNCHANGED helm
        /\ \A x \in vw.tgt : x = r
    BY DEF SetLabel, SettleInv, TargetInv
  <1>2. TargetInv'
    BY <1>t, NoTarget DEF SetLabel
  <1>3. CASE PokeFails /\ UNCHANGED <<rel, ctx, queue>>
    <2>1. ~BeingPoked(r) \/ ~ReliableWrites
      BY <1>3 DEF PokeFails, Fault, BeingPoked, ReliableWrites
    <2>2. \A x \in Release : ReliableWrites => ~BeingPoked(x)
      BY <1>1, <2>1 DEF BeingPoked
    <2>. QED
      BY <1>t, <1>1, <1>2, <1>3, <2>2, QuietFrame
  <1>4. CASE WriteRelease(r, o, UpdatePasses(o))
    <2>1. /\ ctx'[r] = StaleWorker(ctx[r]) /\ r \in queue'
          /\ \A x \in Release \ {r} : rel'[x] = rel[x] /\ ctx'[x] = ctx[x]
                                      /\ (x \in queue => x \in queue')
      BY <1>t, <1>4 DEF WriteRelease, TypeOK, UpdatePasses, Obj
    <2>2. Knows(helm'[r], ctx'[r])
      BY <1>t, <1>1, <2>1, StaleKnows DEF SettleInv
    <2>3. \A x \in Release \ {r} : ~BeingPoked(x)
      BY <1>1 DEF BeingPoked
    <2>. QED
      BY <1>t, <1>1, <1>2, <2>1, <2>2, <2>3, FrameSettle DEF Settles
  <1>. QED
    BY <1>3, <1>4 DEF SetLabel

LEMMA StepSettle == SettleInv /\ [Next]_vars => SettleInv'
  <1>. SUFFICES ASSUME SettleInv, [Next]_vars PROVE SettleInv'
    OBVIOUS
  <1>t. OwnershipInv'
    BY StepOwnership DEF SettleInv
  <1>1. ASSUME NEW r \in Release, ReleaseStep(r) PROVE SettleInv'
    BY <1>t, <1>1, ReadStepSettle, WriteStepSettle, HelmStepSettle
       DEF ReleaseStep
  <1>2. CASE ValuesStep
    BY <1>2, VisitSettle, MarkSettle, LabelSettle DEF ValuesStep
  <1>3. CASE UNCHANGED vars
    <2>1. TargetInv'
      BY <1>3 DEF vars, SettleInv, TargetInv
    <2>. QED
      BY <1>t, <1>3, <2>1, QuietFrame DEF vars, BeingPoked
  <1>. QED
    BY <1>1, <1>2, <1>3, UserSettle, RestartSettle DEF Next

LEMMA Settlement == Spec => []SettleInv
  BY InitSettle, StepSettle, PTL DEF Spec

-----------------------------------------------------------------------------
(* The status writes that syncStatus skips never leave a release at rest   *)
(* with a revision that is not helm's, whatever fails and restarts.        *)
THEOREM ReportedRevisionAlways == Spec => []ReportedRevision
  <1>1. SettleInv => ReportedRevision
    BY DEF SettleInv, Settles, AtRest, ReportedRevision, Quiet
  <1>. QED
    BY <1>1, Settlement, PTL

(* However calls fail, a release that is not queued and in nobody's hands  *)
(* is settled, or the values worker has marked it: conflicts, edits during *)
(* a reconciliation and swallowed events never lose one.                   *)
THEOREM ForgottenOnlyIfMarkedAlways == Spec => []ForgottenOnlyIfMarked
  <1>1. SettleInv => ForgottenOnlyIfMarked
    BY DEF SettleInv, Settles, AtRest, ForgottenOnlyIfMarked, Settled, Synced, Quiet
  <1>. QED
    BY <1>1, Settlement, PTL

(* If writes to Release objects are refused only for conflicts, it is      *)
(* settled or about to get its label.                                      *)
THEOREM NeverForgottenAlways ==
  ASSUME ReliableWrites PROVE Spec => []NeverForgotten
  <1>1. SettleInv => NeverForgotten
    BY DEF SettleInv, Settles, AtRest, NeverForgotten, Settled, Synced, Quiet
  <1>. QED
    BY <1>1, Settlement, PTL

=============================================================================
