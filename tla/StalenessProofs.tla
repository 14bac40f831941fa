--------------------------- MODULE StalenessProofs ---------------------------
(***************************************************************************)
(* Proofs about Agent for every value of the constants: a quiet synced     *)
(* release lacks the values of its references only if it missed them in    *)
(* one of the ways recorded in skipped, or a change is still on its way.   *)
(*                                                                         *)
(* The argument follows one reference v from the moment a worker of r has  *)
(* loaded it.  From then on the annotation of v names r (whoever takes the *)
(* name away makes r skipped), so an edit of v that r has not seen is      *)
(* queued, or in the hands of a values worker that still has to visit r or *)
(* is visiting it (Coming); and that visit queues r, queues v again, or    *)
(* makes r skipped.  The claim is about the references of the object the   *)
(* worker read; they are those of the object in the apiserver, because     *)
(* every other change queues the release (SettledProofs).                  *)
(***************************************************************************)
EXTENDS SettledProofs

(* A change of v is on its way to r.                                       *)
Coming(r, v) == v \in vqueue \/ (v \in vw.cur /\ r \in vw.todo \cup vw.tgt)

(* r has the content d of v, and will hear of a new one.                   *)
Current(r, v, d) == r \in val[v].ann /\ (d = val[v].data \/ Coming(r, v))

(* vals is what the references refs hold, except those still open.         *)
Applied(r, refs, open, vals) ==
    \A v \in Values : IF v \in refs THEN v \in open \/ Current(r, v, vals[v])
                      ELSE vals[v] = 0

(* New reads the references before anything else, and what is reported as  *)
(* a success has the values helm's record h has.                           *)
Collects(h, c) ==
    /\ c.todo \cup c.unreg \subseteq c.obj.refs
    /\ c.pc \notin {"get", "register"} => c.todo = {} /\ c.unreg = {}
    /\ c.pc \in {"helmRun", "done"} => h.vals = c.vals
    /\ c.pc = "sync" /\ c.goal = "success" => h.vals = c.vals

Carries(r) ==
    r \notin queue \cup skipped =>
        IF Idle(r)
        THEN rel[r].exists => Applied(r, rel[r].refs, {}, helm[r].vals)
        ELSE LET c == ctx[r] IN
             ~c.obj.deleting => Applied(r, c.obj.refs, c.todo \cup c.unreg, c.vals)

VisitInv == vw.pc = "idle" => vw.todo = {}

StaleInv == /\ SettleInv /\ VisitInv
            /\ \A r \in Release : Collects(helm[r], ctx[r]) /\ Carries(r)

-----------------------------------------------------------------------------
(* The control flow keeps what is collected.                               *)

SameLoad(d, c) == /\ d.obj = c.obj /\ d.vals = c.vals
                  /\ d.todo = c.todo /\ d.unreg = c.unreg

Loaded(c) == c.todo = {} /\ c.unreg = {}

LEMMA AfterInitLoad ==
  ASSUME NEW c \in Worker, NEW h, Loaded(c)
  PROVE  Collects(h, AfterInit(c)) /\ SameLoad(AfterInit(c), c)
  BY DEF AfterInit, Retry, Sync, Collects, SameLoad, Loaded, Worker

LEMMA AfterNewLoad ==
  ASSUME NEW c \in Worker, NEW h, Loaded(c)
  PROVE  Collects(h, AfterNew(c)) /\ SameLoad(AfterNew(c), c)
  <1>1. Collects(h, Sync(c, "init", 0)) /\ SameLoad(Sync(c, "init", 0), c)
    BY DEF Sync, Collects, SameLoad, Loaded, Worker
  <1>. QED
    BY <1>1, AfterInitLoad DEF AfterNew

LEMMA RetryLoad ==
  ASSUME NEW c \in Worker, NEW h, Collects(h, c), c.pc \notin {"get", "register"}
  PROVE  Collects(h, Retry(c)) /\ SameLoad(Retry(c), c)
  BY DEF Retry, Collects, SameLoad, Worker

LEMMA AfterSyncLoad ==
  ASSUME NEW c \in Worker, NEW h, Loaded(c), c.goal = "success" => h.vals = c.vals
  PROVE  Collects(h, AfterSync(c)) /\ SameLoad(AfterSync(c), c)
  <1>1. CASE c.goal = "init"
    BY <1>1, AfterInitLoad DEF AfterSync
  <1>2. CASE c.goal # "init"
    BY <1>2 DEF AfterSync, Done, Retry, Collects, SameLoad, Loaded, Worker
  <1>. QED
    BY <1>1, <1>2

LEMMA AfterRefsLoad ==
  ASSUME NEW c \in Worker, NEW h, c.todo \cup c.unreg \subseteq c.obj.refs
  PROVE  Collects(h, AfterRefs(c)) /\ SameLoad(AfterRefs(c), c)
  BY DEF AfterRefs, Collects, SameLoad, Worker

LEMMA IdleLoad == \A h : Collects(h, IdleWorker)
  BY DEF Collects, IdleWorker

(* A worker that begins has everything still to read.                      *)
LEMMA BeginLoad ==
  ASSUME NEW r, NEW o \in Obj, NEW h
  PROVE  /\ Collects(h, Begin(o))
         /\ LET c == Begin(o) IN
            ~o.deleting => Applied(r, o.refs, c.todo \cup c.unreg, c.vals)
  <1>. DEFINE c == [IdleWorker EXCEPT !.obj = o, !.fresh = TRUE]
              d == [c EXCEPT !.todo = o.refs]
  <1>1. c \in Worker /\ d \in Worker
    BY IdleWorkerType DEF Worker, Obj
  <1>2. /\ Loaded(c) /\ d.obj = o /\ d.todo = o.refs /\ d.unreg = {}
        /\ d.vals = NoVals
    BY IdleWorkerType DEF Loaded, IdleWorker, Worker
  <1>. HIDE DEF d
  <1>3. CASE o.deleting
    BY <1>1, <1>2, <1>3, AfterNewLoad DEF Begin
  <1>4. CASE ~o.deleting
    <2>1. Begin(o) = AfterRefs(d)
      BY <1>4 DEF Begin, d
    <2>2. Collects(h, Begin(o)) /\ SameLoad(Begin(o), d)
      BY <1>1, <1>2, <2>1, AfterRefsLoad
    <2>. QED
      BY <1>2, <2>2 DEF SameLoad, Applied, NoVals
  <1>. QED
    BY <1>3, <1>4

LEMMA StaleLoad ==
  ASSUME NEW c \in Worker
  PROVE  /\ SameLoad(StaleWorker(c), c) /\ StaleWorker(c).pc = c.pc
         /\ \A h : Collects(h, c) => Collects(h, StaleWorker(c))
  BY DEF StaleWorker, SameLoad, Collects, Worker

-----------------------------------------------------------------------------
(* Steps that leave a release and its worker alone.                        *)

(* The references its worker goes by are those of the object.              *)
LEMMA SameRefs ==
  ASSUME SettleInv, NEW r \in Release, r \notin queue, ~Idle(r)
  PROVE  rel[r].refs = ctx[r].obj.refs
  <1>1. Tracks(rel[r], ctx[r].obj, BeingPoked(r)) /\ ctx[r].obj \in Obj
    BY DEF SettleInv, Settles, OwnershipInv, TypeOK, Worker
  <1>. QED
    BY <1>1 DEF Tracks, Marked, Obj

(* What x has, and hears of, it keeps.                                     *)
LEMMA KeepsCarried ==
  ASSUME StaleInv, NEW x \in Release,
         rel'[x].refs = rel[x].refs, rel'[x].exists = rel[x].exists,
         helm'[x] = helm[x],
         ctx'[x] = ctx[x] \/ ctx'[x] = StaleWorker(ctx[x]),
         x \in queue \cup skipped => x \in queue' \cup skipped',
         x \notin queue' \cup skipped' =>
            \A v \in rel[x].refs : \A d \in Nat : Current(x, v, d) => Current(x, v, d)'
  PROVE  Collects(helm'[x], ctx'[x]) /\ Carries(x)'
  <1>t. /\ ctx[x] \in Worker /\ helm[x] \in HelmRecord /\ rel[x] \in Obj
        /\ Collects(helm[x], ctx[x]) /\ Carries(x)
    BY DEF StaleInv, SettleInv, OwnershipInv, TypeOK
  <1>1. /\ SameLoad(ctx'[x], ctx[x]) /\ ctx'[x].pc = ctx[x].pc
        /\ Collects(helm'[x], ctx'[x])
    BY <1>t, StaleLoad DEF SameLoad
  <1>2. ASSUME NEW refs \in SUBSET rel[x].refs, NEW open,
               NEW vals \in [Values -> Nat], x \notin queue' \cup skipped',
               Applied(x, refs, open, vals)
        PROVE  Applied(x, refs, open, vals)'
    <2>. SUFFICES ASSUME NEW v \in Values, v \in refs, v \notin open
                  PROVE  Current(x, v, vals[v])'
      BY <1>2 DEF Applied
    <2>1. Current(x, v, vals[v]) /\ vals[v] \in Nat
      BY <1>2 DEF Applied
    <2>. QED
      BY <1>2, <2>1
  <1>3. Carries(x)'
    <2>. SUFFICES ASSUME x \notin queue' \cup skipped' PROVE Carries(x)'
      BY DEF Carries
    <2>1. CASE Idle(x)
      <3>1. Idle(x)' /\ helm[x].vals \in [Values -> Nat]
        BY <1>t, <1>1, <2>1 DEF Idle, HelmRecord
      <3>2. rel[x].exists => Applied(x, rel[x].refs, {}, helm[x].vals)
        BY <1>t, <2>1 DEF Carries
      <3>3. rel[x].exists => Applied(x, rel[x].refs, {}, helm[x].vals)'
        BY <1>2, <3>1, <3>2
      <3>. QED
        BY <3>1, <3>3 DEF Carries
    <2>2. CASE ~Idle(x)
      <3>. DEFINE c == ctx[x]
      <3>1. ~Idle(x)' /\ c.vals \in [Values -> Nat]
        BY <1>t, <1>1, <2>2 DEF Idle, Worker
      <3>2. rel[x].refs = c.obj.refs
        BY <2>2, SameRefs DEF StaleInv
      <3>3. ~c.obj.deleting => Applied(x, c.obj.refs, c.todo \cup c.unreg, c.vals)
        BY <1>t, <2>2 DEF Carries
      <3>4. ~c.obj.deleting => Applied(x, c.obj.refs, c.todo \cup c.unreg, c.vals)'
        BY <1>1, <1>2, <3>1, <3>2, <3>3 DEF SameLoad
      <3>. QED
        BY <1>1, <3>1, <3>4 DEF Carries, SameLoad
    <2>. QED
      BY <2>1, <2>2
  <1>. QED
    BY <1>1, <1>3

LEMMA FrameStale ==
  ASSUME StaleInv, SettleInv', VisitInv', NEW r \in Release,
         Collects(helm'[r], ctx'[r]), Carries(r)',
         \A x \in Release \ {r} :
            /\ rel'[x] = rel[x] /\ helm'[x] = helm[x] /\ ctx'[x] = ctx[x]
            /\ x \in queue \cup skipped => x \in queue' \cup skipped'
            /\ x \notin queue' \cup skipped' =>
                  \A v \in rel[x].refs : \A d \in Nat :
                     Current(x, v, d) => Current(x, v, d)'
  PROVE  StaleInv'
  <1>1. ASSUME NEW x \in Release, x # r
        PROVE  Collects(helm'[x], ctx'[x]) /\ Carries(x)'
    BY <1>1, KeepsCarried
  <1>. QED
    BY <1>1 DEF StaleInv

(* A step of no worker that leaves the objects as they are.                *)
LEMMA QuietStale ==
  ASSUME StaleInv, SettleInv', VisitInv', UNCHANGED <<rel, helm, ctx, queue>>,
         skipped \subseteq skipped',
         \A x \in Release \ (queue \cup skipped') :
            \A v \in rel[x].refs : \A d \in Nat :
               Current(x, v, d) => Current(x, v, d)'
  PROVE  StaleInv'
  <1>1. ASSUME NEW x \in Release
        PROVE  Collects(helm'[x], ctx'[x]) /\ Carries(x)'
    BY <1>1, KeepsCarried
  <1>. QED
    BY <1>1 DEF StaleInv

-----------------------------------------------------------------------------
(* Users, restarts and the values worker.                                  *)

LEMMA InitStale == Init => StaleInv
  <1>1. Init => \A r \in Release : Collects(helm[r], ctx[r])
    BY IdleLoad DEF Init
  <1>2. Init => VisitInv /\ \A r \in Release : Carries(r)
    BY DEF Init, Carries, Idle, IdleWorker, NoObj, VisitInv, IdleValuesWorker
  <1>. QED
    BY <1>1, <1>2, InitSettle DEF StaleInv

(* A write of the release it holds changes no plan of the values worker.   *)
LEMMA SameVisit ==
  ASSUME TypeOK, NEW r, vw' = StaleValuesWorker(r)
  PROVE  /\ vw'.pc = vw.pc /\ vw'.todo = vw.todo
         /\ vw'.tgt = vw.tgt /\ vw'.cur = vw.cur
  BY DEF StaleValuesWorker, TypeOK, ValuesWorker

LEMMA UserWriteStale ==
  ASSUME StaleInv, SettleInv', NEW r \in Release,
         \A x \in Release \ {r} : rel'[x] = rel[x],
         queue' = queue \cup {r}, UNCHANGED <<val, helm, vqueue, skipped>>,
         \/ ctx' = [ctx EXCEPT ![r] = StaleWorker(@)] /\ vw' = StaleValuesWorker(r)
         \/ UNCHANGED <<ctx, vw>>
  PROVE  StaleInv'
  <1>t. TypeOK /\ Collects(helm[r], ctx[r]) /\ ctx[r] \in Worker
    BY DEF StaleInv, SettleInv, OwnershipInv, TypeOK
  <1>1. /\ \A x \in Release \ {r} : ctx'[x] = ctx[x]
        /\ ctx'[r] \in {ctx[r], StaleWorker(ctx[r])}
    BY <1>t DEF TypeOK
  <1>2. Collects(helm'[r], ctx'[r]) /\ Carries(r)'
    BY <1>t, <1>1, StaleLoad DEF Carries
  <1>3. /\ vw'.pc = vw.pc /\ vw'.todo = vw.todo
        /\ vw'.tgt = vw.tgt /\ vw'.cur = vw.cur
    BY <1>t, SameVisit
  <1>4. VisitInv'
    BY <1>3 DEF StaleInv, VisitInv
  <1>. QED
    BY <1>1, <1>2, <1>3, <1>4, FrameStale DEF Current, Coming

LEMMA UserStale == ASSUME StaleInv, User PROVE StaleInv'
  <1>t. SettleInv' /\ TypeOK
    BY UserSettle DEF StaleInv, SettleInv, OwnershipInv
  <1>1. ASSUME NEW r \in Release, NEW refs \in SUBSET Values,
               NEW ver \in Version,
               CreateRelease(r, refs, ver) \/ EditRelease(r, refs, ver)
        PROVE  StaleInv'
    <2>1. \A x \in Release \ {r} : rel'[x] = rel[x]
      BY <1>t, <1>1 DEF CreateRelease, EditRelease, TypeOK
    <2>. QED
      BY <1>t, <1>1, <2>1, UserWriteStale DEF CreateRelease, EditRelease
  <1>2. ASSUME NEW r \in Release, DeleteRelease(r) PROVE StaleInv'
    <2>1. \A x \in Release \ {r} : rel'[x] = rel[x]
      BY <1>t, <1>2 DEF DeleteRelease, TypeOK
    <2>. QED
      BY <1>t, <1>2, <2>1, UserWriteStale DEF DeleteRelease
  <1>3. ASSUME NEW v \in Values, EditValues(v) PROVE StaleInv'
    <2>1. /\ vqueue' = vqueue \cup {v} /\ vw' = vw
          /\ \A u \in Values : val'[u].ann = val[u].ann
          /\ \A u \in Values \ {v} : val'[u].data = val[u].data
      BY <1>t, <1>3 DEF EditValues, TypeOK
    <2>2. \A x \in Release : rel[x].refs \subseteq Values
      BY <1>t DEF TypeOK, Obj
    <2>3. \A x \in Release : \A u \in rel[x].refs : \A d \in Nat :
             Current(x, u, d) => Current(x, u, d)'
      BY <2>1, <2>2 DEF Current, Coming
    <2>4. VisitInv'
      BY <2>1 DEF StaleInv, VisitInv
    <2>. QED
      BY <1>t, <1>3, <2>3, <2>4, QuietStale DEF EditValues
  <1>. QED
    BY <1>1, <1>2, <1>3 DEF User

LEMMA RestartStale == ASSUME StaleInv, Restart PROVE StaleInv'
  <1>1. SettleInv'
    BY RestartSettle DEF StaleInv
  <1>2. VisitInv' /\ \A r \in Release : Collects(helm'[r], ctx'[r])
    BY IdleLoad DEF Restart, VisitInv, IdleValuesWorker
  <1>3. \A r \in Release : Carries(r)'
    BY DEF Restart, Carries, Idle, IdleWorker
  <1>. QED
    BY <1>1, <1>2, <1>3 DEF StaleInv

(* A release the values worker turns away from was not on its list, has    *)
(* been passed over, is queued, or is on the list of the next visit.       *)
LEMMA NextVisit ==
  ASSUME NEW w \in ValuesWorker, vw' = NextRelease(w)
  PROVE  /\ VisitInv'
         /\ w.todo # {} => vw'.todo = w.todo /\ vw'.cur = w.cur
  <1>1. CASE w.todo = {}
    BY <1>1 DEF NextRelease, IdleValuesWorker, VisitInv
  <1>2. CASE w.todo # {}
    BY <1>2 DEF NextRelease, ValuesWorker, VisitInv
  <1>. QED
    BY <1>1, <1>2

LEMMA VisitStale ==
  ASSUME StaleInv, (\E v \in Values : StartValues(v))
                   \/ \E r \in Release : GetRelease(r)
  PROVE  StaleInv'
  <1>t. SettleInv' /\ TypeOK /\ vw \in ValuesWorker
    BY VisitSettle DEF StaleInv, SettleInv, OwnershipInv, TypeOK
  <1>1. ASSUME NEW v \in Values, StartValues(v) PROVE StaleInv'
    <2>. DEFINE w == [IdleValuesWorker EXCEPT !.cur = {v}, !.todo = val[v].ann]
    <2>1. /\ w \in ValuesWorker /\ w.cur = {v} /\ w.todo = val[v].ann
      BY <1>t DEF IdleValuesWorker, ValuesWorker, TypeOK
    <2>. HIDE DEF w
    <2>2. vw' = NextRelease(w) /\ UNCHANGED <<val, rel, helm, ctx, queue, skipped>>
          /\ vqueue' = vqueue \ {v}
      BY <1>1 DEF StartValues, w
    <2>3. vw.todo = {} /\ vw.tgt = {}
      BY <1>1 DEF StartValues, StaleInv, VisitInv, SettleInv, TargetInv
    <2>4. /\ VisitInv'
          /\ w.todo # {} => vw'.todo = w.todo /\ vw'.cur = w.cur
      BY <2>1, <2>2, NextVisit
    <2>5. \A x, u : \A d \in Nat : Current(x, u, d) => Current(x, u, d)'
      BY <2>1, <2>2, <2>3, <2>4 DEF Current, Coming
    <2>. QED
      BY <1>t, <2>2, <2>4, <2>5, QuietStale
  <1>2. ASSUME NEW r \in Release, GetRelease(r) PROVE StaleInv'
    <2>. DEFINE w == [vw EXCEPT !.todo = @ \ {r}]
    <2>1. /\ w \in ValuesWorker /\ w.cur = vw.cur /\ w.todo = vw.todo \ {r}
          /\ vw.pc = "next" /\ UNCHANGED <<val, rel, helm, ctx, queue, vqueue>>
      BY <1>t, <1>2 DEF GetRelease, ValuesWorker
    <2>2. vw.tgt = {}
      BY <2>1 DEF StaleInv, SettleInv, TargetInv
    <2>3. CASE /\ vw' = [w EXCEPT !.pc = "mark", !.tgt = {r}, !.fresh = TRUE]
               /\ UNCHANGED skipped
      <3>1. vw'.pc = "mark" /\ vw'.tgt = {r} /\ vw'.todo = w.todo /\ vw'.cur = w.cur
        BY <2>1, <2>3 DEF ValuesWorker
      <3>2. \A x, u : \A d \in Nat : Current(x, u, d) => Current(x, u, d)'
        BY <2>1, <2>2, <3>1 DEF Current, Coming
      <3>3. VisitInv'
        BY <3>1 DEF VisitInv
      <3>. QED
        BY <1>t, <2>1, <2>3, <3>2, <3>3, QuietStale
    <2>4. CASE vw' = NextRelease(w) /\ skipped' = skipped \cup {r}
      <3>1. /\ VisitInv'
            /\ w.todo # {} => vw'.todo = w.todo /\ vw'.cur = w.cur
        BY <2>1, <2>4, NextVisit
      <3>2. \A x : x # r =>
               \A u : \A d \in Nat : Current(x, u, d) => Current(x, u, d)'
        BY <2>1, <2>2, <3>1 DEF Current, Coming
      <3>. QED
        BY <1>t, <2>1, <2>4, <3>1, <3>2, QuietStale
    <2>. QED
      BY <1>2, <2>3, <2>4 DEF GetRelease
  <1>. QED
    BY <1>1, <1>2

(* Its writes change neither what the release refers to nor what the       *)
(* worker has collected.                                                   *)
LEMMA PokeWrite ==
  ASSUME TypeOK, NEW r \in Release, NEW o \in Obj, NEW event,
         WriteRelease(r, o, event), UNCHANGED helm,
         o.refs = rel[r].refs, o.exists = rel[r].exists, NEW x \in Release
  PROVE  /\ rel'[x].refs = rel[x].refs /\ rel'[x].exists = rel[x].exists
         /\ helm'[x] = helm[x]
         /\ ctx'[x] = ctx[x] \/ ctx'[x] = StaleWorker(ctx[x])
         /\ x \in queue => x \in queue'
  BY DEF WriteRelease, TypeOK

LEMMA MarkStale ==
  ASSUME StaleInv, NEW r \in Release, MarkUnsynced(r)
  PROVE  StaleInv'
  <1>. DEFINE o == [rel[r] EXCEPT !.cond = "valueschange"]
  <1>t. /\ SettleInv' /\ TypeOK /\ vw \in ValuesWorker /\ rel[r] \in Obj
    BY MarkSettle DEF StaleInv, SettleInv, OwnershipInv, TypeOK
  <1>1. /\ vw'.pc = "poke" /\ vw'.tgt = vw.tgt /\ vw'.todo = vw.todo
        /\ vw'.cur = vw.cur /\ UNCHANGED <<val, helm, vqueue, skipped>>
    BY <1>t DEF MarkUnsynced, ValuesWorker
  <1>2. VisitInv' /\ \A x, u : \A d \in Nat : Current(x, u, d) => Current(x, u, d)'
    BY <1>1 DEF VisitInv, Current, Coming
  <1>3. CASE UNCHANGED <<rel, ctx, queue>>
    BY <1>t, <1>1, <1>2, <1>3, QuietStale
  <1>4. CASE WriteRelease(r, o, UpdatePasses(o))
    <2>1. o \in Obj /\ o.refs = rel[r].refs /\ o.exists = rel[r].exists
      BY <1>t DEF Obj, Cond
    <2>2. ASSUME NEW x \in Release
          PROVE  Collects(helm'[x], ctx'[x]) /\ Carries(x)'
      <3>1. /\ rel'[x].refs = rel[x].refs /\ rel'[x].exists = rel[x].exists
            /\ helm'[x] = helm[x]
            /\ ctx'[x] = ctx[x] \/ ctx'[x] = StaleWorker(ctx[x])
            /\ x \in queue => x \in queue'
        BY <1>t, <1>1, <1>4, <2>1, PokeWrite
      <3>. QED
        BY <1>1, <1>2, <3>1, KeepsCarried
    <2>. QED
      BY <1>t, <1>2, <2>2 DEF StaleInv
  <1>. QED
    BY <1>3, <1>4 DEF MarkUnsynced

LEMMA LabelStale ==
  ASSUME StaleInv, NEW r \in Release, SetLabel(r)
  PROVE  StaleInv'
  <1>. DEFINE o == [rel[r] EXCEPT !.label = TRUE]
  <1>t. /\ SettleInv' /\ TypeOK /\ vw \in ValuesWorker /\ rel[r] \in Obj
    BY LabelSettle DEF StaleInv, SettleInv, OwnershipInv, TypeOK
  <1>1. /\ r \in vw.tgt /\ (\A x \in vw.tgt : x = r)
        /\ UNCHANGED <<val, helm, skipped>>
    BY DEF SetLabel, StaleInv, SettleInv, TargetInv
  <1>2. CASE /\ vqueue' = vqueue \cup vw.cur /\ vw' = IdleValuesWorker
             /\ UNCHANGED <<rel, ctx, queue>>
    <2>1. VisitInv' /\ \A x, u : \A d \in Nat : Current(x, u, d) => Current(x, u, d)'
      BY <1>1, <1>2 DEF VisitInv, IdleValuesWorker, Current, Coming
    <2>. QED
      BY <1>t, <1>1, <1>2, <2>1, QuietStale
  <1>3. CASE /\ WriteRelease(r, o, UpdatePasses(o)) /\ vw' = NextRelease(vw)
             /\ UNCHANGED vqueue
    <2>1. o \in Obj /\ o.refs = rel[r].refs /\ o.exists = rel[r].exists /\ o.label
      BY <1>t DEF Obj
    <2>2. r \in queue'
      BY <1>3, <2>1 DEF WriteRelease, UpdatePasses
    <2>3. /\ VisitInv'
          /\ vw.todo # {} => vw'.todo = vw.todo /\ vw'.cur = vw.cur
      BY <1>t, <1>3, NextVisit
    <2>4. \A x : x # r =>
             \A u : \A d \in Nat : Current(x, u, d) => Current(x, u, d)'
      BY <1>1, <1>3, <2>3 DEF Current, Coming
    <2>5. ASSUME NEW x \in Release
          PROVE  Collects(helm'[x], ctx'[x]) /\ Carries(x)'
      <3>1. /\ rel'[x].refs = rel[x].refs /\ rel'[x].exists = rel[x].exists
            /\ helm'[x] = helm[x]
            /\ ctx'[x] = ctx[x] \/ ctx'[x] = StaleWorker(ctx[x])
            /\ x \in queue => x \in queue'
        BY <1>t, <1>1, <1>3, <2>1, PokeWrite
      <3>. QED
        BY <1>1, <2>2, <2>4, <3>1, KeepsCarried
    <2>. QED
      BY <1>t, <2>3, <2>5 DEF StaleInv
  <1>. QED
    BY <1>2, <1>3 DEF SetLabel

-----------------------------------------------------------------------------
(* Steps of the workers of the release controller.                         *)

(* The worker of r goes on as d, or leaves.  A reference of another        *)
(* release that loses its name makes that release skipped.                 *)
LEMMA WorkStale ==
  ASSUME StaleInv, SettleInv', NEW r \in Release, NEW d \in Worker, NEW event,
         Continue(r, d, event), ~Idle(r), d.pc # "idle",
         Collects(helm'[r], d), Knows(helm'[r], d),
         r \notin queue' /\ rel'[r].exists => rel'[r].refs = d.obj.refs,
         r \notin queue' \cup skipped' /\ ~d.obj.deleting
            => LET refs == d.obj.refs
                   open == d.todo \cup d.unreg
                   vals == d.vals
               IN  \A v \in Values :
                      IF v \in refs THEN v \in open \/ Current(r, v, vals[v])'
                      ELSE vals[v] = 0,
         \A x \in Release \ {r} : rel'[x] = rel[x] /\ helm'[x] = helm[x],
         vqueue' = vqueue, vw' = vw \/ vw' = StaleValuesWorker(r),
         \A v \in Values : val'[v].data = val[v].data,
         \A x \in Release \ {r} : \A v \in rel[x].refs :
            x \in val[v].ann => x \in val'[v].ann \/ x \in skipped',
         skipped \subseteq skipped'
  PROVE  StaleInv'
  <1>t. TypeOK /\ \A x \in Release : rel[x].refs \subseteq Values
    BY DEF StaleInv, SettleInv, OwnershipInv, TypeOK, Obj
  <1>1. /\ \A x \in Release \ {r} : ctx'[x] = ctx[x]
        /\ ctx'[r] = IF d.pc \in {"retry", "done"} THEN IdleWorker ELSE d
        /\ queue \subseteq queue' /\ (d.pc = "retry" => r \in queue')
    BY <1>t DEF Continue, TypeOK
  <1>2. /\ vw'.pc = vw.pc /\ vw'.todo = vw.todo
        /\ vw'.tgt = vw.tgt /\ vw'.cur = vw.cur
    BY <1>t, SameVisit
  <1>3. VisitInv'
    BY <1>2 DEF StaleInv, VisitInv
  <1>4. Collects(helm'[r], ctx'[r])
    BY <1>1, IdleLoad
  <1>5. Carries(r)'
    <2>1. CASE d.pc = "retry"
      BY <1>1, <2>1 DEF Carries
    <2>2. CASE d.pc = "done"
      <3>1. Idle(r)'
        BY <1>1, <2>2 DEF Idle, IdleWorker
      <3>2. /\ ~d.obj.deleting /\ helm'[r].vals = d.vals
            /\ d.todo = {} /\ d.unreg = {}
        BY <2>2 DEF Knows, Collects
      <3>3. r \notin queue' \cup skipped' /\ rel'[r].exists
              => Applied(r, rel[r].refs, {}, helm[r].vals)'
        BY <3>2 DEF Applied
      <3>. QED
        BY <3>1, <3>3 DEF Carries
    <2>3. CASE d.pc \notin {"retry", "done"}
      <3>1. ~Idle(r)' /\ ctx'[r] = d
        BY <1>1, <2>3 DEF Idle
      <3>. QED
        BY <3>1 DEF Carries, Applied
    <2>. QED
      BY <2>1, <2>2, <2>3
  <1>6. ASSUME NEW x \in Release, x # r, x \notin queue' \cup skipped',
               NEW v \in rel[x].refs, NEW n \in Nat, Current(x, v, n)
        PROVE  Current(x, v, n)'
    BY <1>t, <1>2, <1>6 DEF Current, Coming
  <1>. QED
    BY <1>1, <1>3, <1>4, <1>5, <1>6, FrameStale

(* It keeps what it has collected.                                         *)
LEMMA KeepStale ==
  ASSUME StaleInv, SettleInv', NEW r \in Release, NEW d \in Worker, NEW event,
         Continue(r, d, event), ctx[r].pc # "idle", d.pc # "idle",
         Collects(helm'[r], d), Knows(helm'[r], d),
         d.obj.refs = ctx[r].obj.refs, d.obj.deleting = ctx[r].obj.deleting,
         d.vals = ctx[r].vals, d.todo = ctx[r].todo, d.unreg = ctx[r].unreg,
         \/ UNCHANGED <<rel, vw>>
         \/ rel'[r] = d.obj /\ vw' = StaleValuesWorker(r)
         \/ ~rel'[r].exists /\ vw' = StaleValuesWorker(r),
         \A x \in Release \ {r} : rel'[x] = rel[x] /\ helm'[x] = helm[x],
         UNCHANGED <<val, vqueue, skipped>>
  PROVE  StaleInv'
  <1>. DEFINE c == ctx[r]
  <1>t. ~Idle(r) /\ SettleInv /\ Carries(r) /\ queue \subseteq queue'
    BY DEF Idle, StaleInv, Continue
  <1>1. /\ vw'.pc = vw.pc /\ vw'.todo = vw.todo
        /\ vw'.tgt = vw.tgt /\ vw'.cur = vw.cur
    BY SameVisit DEF StaleInv, SettleInv, OwnershipInv
  <1>2. r \notin queue' /\ rel'[r].exists => rel'[r].refs = d.obj.refs
    BY <1>t, SameRefs
  <1>3. ASSUME r \notin queue' \cup skipped', ~d.obj.deleting, NEW v \in Values
        PROVE  IF v \in d.obj.refs
               THEN v \in d.todo \cup d.unreg \/ Current(r, v, d.vals[v])'
               ELSE d.vals[v] = 0
    <2>1. Applied(r, c.obj.refs, c.todo \cup c.unreg, c.vals)
      BY <1>t, <1>3 DEF Carries
    <2>2. \A n : Current(r, v, n) => Current(r, v, n)'
      BY <1>1 DEF Current, Coming
    <2>. QED
      BY <2>1, <2>2 DEF Applied
  <1>. QED
    BY <1>t, <1>2, <1>3, WorkStale

(* What a worker at work may rely on.                                      *)
LEMMA AtWorkStale ==
  ASSUME StaleInv, NEW r \in Release, ctx[r].pc # "idle"
  PROVE  /\ ctx[r] \in Worker /\ ctx[r].obj \in Obj /\ helm[r] \in HelmRecord
         /\ AtCall(helm[r], ctx[r]) /\ Knows(helm[r], ctx[r])
         /\ Collects(helm[r], ctx[r]) /\ ctx[r].obj.refs \subseteq Values
  <1>1. ctx[r].obj \in Obj
    BY AtWork DEF StaleInv
  <1>2. ctx[r].obj.refs \subseteq Values
    BY <1>1 DEF Obj
  <1>. QED
    BY <1>1, <1>2, AtWork DEF StaleInv

LEMMA StartStale ==
  ASSUME StaleInv, SettleInv', NEW r \in Release, StartReconcile(r)
  PROVE  StaleInv'
  <1>t. TypeOK /\ rel[r] \in Obj
    BY DEF StaleInv, SettleInv, OwnershipInv, TypeOK
  <1>1. /\ UNCHANGED <<rel, val, helm, vqueue, vw>>
        /\ ctx'[r] = IF rel[r].exists THEN Begin(rel[r]) ELSE IdleWorker
        /\ \A x \in Release \ {r} :
              /\ ctx'[x] = ctx[x]
              /\ x \in queue \cup skipped => x \in queue' \cup skipped'
    BY <1>t DEF StartReconcile, TypeOK
  <1>2. VisitInv' /\ \A x, u : \A n : Current(x, u, n) <=> Current(x, u, n)'
    BY <1>1 DEF StaleInv, VisitInv, Current, Coming
  <1>3. CASE rel[r].exists
    <2>0. PICK d : d = Begin(rel[r])
      OBVIOUS
    <2>1. /\ Collects(helm[r], d) /\ d.pc # "idle" /\ d.obj = rel[r]
          /\ ~rel[r].deleting =>
                Applied(r, rel[r].refs, d.todo \cup d.unreg, d.vals)
      BY <1>t, <2>0, BeginLoad, BeginKnows
    <2>2. ctx'[r] = d /\ ~Idle(r)'
      BY <1>1, <1>3, <2>0, <2>1 DEF Idle
    <2>3. ~d.obj.deleting =>
             \A v \in Values : IF v \in d.obj.refs
                               THEN v \in d.todo \cup d.unreg
                                    \/ Current(r, v, d.vals[v])'
                               ELSE d.vals[v] = 0
      BY <1>2, <2>1 DEF Applied
    <2>4. Carries(r)'
      BY <2>2, <2>3 DEF Carries, Applied
    <2>. QED
      BY <1>1, <1>2, <2>1, <2>2, <2>4, FrameStale
  <1>4. CASE ~rel[r].exists
    <2>1. Carries(r)' /\ Collects(helm'[r], ctx'[r])
      <3>1. ctx'[r] = IdleWorker /\ ~rel'[r].exists
        BY <1>1, <1>4
      <3>2. Idle(r)'
        BY <3>1 DEF Idle, IdleWorker
      <3>3. Carries(r)'
        BY <3>1, <3>2 DEF Carries
      <3>. QED
        BY <3>1, <3>3, IdleLoad
    <2>. QED
      BY <1>1, <1>2, <2>1, FrameStale
  <1>. QED
    BY <1>3, <1>4

(* The worker has read or registered a reference and holds b now.          *)
LEMMA RefStale ==
  ASSUME StaleInv, SettleInv', NEW r \in Release, NEW b \in Worker,
         Continue(r, AfterRefs(b), FALSE), ctx[r].pc # "idle",
         b.obj = ctx[r].obj, b.todo \cup b.unreg \subseteq b.obj.refs,
         UNCHANGED <<rel, helm, vqueue, vw>>,
         \A v \in Values : val'[v].data = val[v].data,
         \A x \in Release \ {r} : \A v \in rel[x].refs :
            x \in val[v].ann => x \in val'[v].ann \/ x \in skipped',
         skipped \subseteq skipped',
         r \notin skipped' /\ Applied(r, b.obj.refs, ctx[r].todo \cup ctx[r].unreg,
                                      ctx[r].vals)
            => \A v \in Values : IF v \in b.obj.refs
                                 THEN \/ v \in b.todo \cup b.unreg
                                      \/ Current(r, v, b.vals[v])'
                                 ELSE b.vals[v] = 0
  PROVE  StaleInv'
  <1>. DEFINE d == AfterRefs(b)
  <1>1. d \in Worker /\ Collects(helm'[r], d) /\ SameLoad(d, b)
    BY AfterRefsType, AfterRefsLoad
  <1>2. Knows(helm'[r], d) /\ d.pc # "idle"
    BY AfterRefsKnows
  <1>. HIDE DEF d
  <1>3. Continue(r, d, FALSE) /\ ~Idle(r) /\ queue \subseteq queue'
    BY DEF d, Idle, Continue
  <1>4. r \notin queue' => rel'[r].refs = d.obj.refs
    BY <1>1, <1>3, SameRefs DEF SameLoad, StaleInv
  <1>5. ASSUME r \notin queue' \cup skipped', ~d.obj.deleting, NEW v \in Values
        PROVE  IF v \in d.obj.refs
               THEN v \in d.todo \cup d.unreg \/ Current(r, v, d.vals[v])'
               ELSE d.vals[v] = 0
    <2>1. Carries(r) /\ d.obj = ctx[r].obj
      BY <1>1 DEF SameLoad, StaleInv
    <2>2. Applied(r, b.obj.refs, ctx[r].todo \cup ctx[r].unreg, ctx[r].vals)
      BY <1>3, <1>5, <2>1 DEF Carries
    <2>3. IF v \in b.obj.refs
          THEN v \in b.todo \cup b.unreg \/ Current(r, v, b.vals[v])'
          ELSE b.vals[v] = 0
      BY <1>5, <2>2
    <2>4. d.obj = b.obj /\ d.todo = b.todo /\ d.unreg = b.unreg /\ d.vals = b.vals
      BY <1>1 DEF SameLoad
    <2>. QED
      BY <2>3, <2>4
  <1>. QED
    BY <1>1, <1>2, <1>3, <1>4, <1>5, WorkStale

LEMMA GetStale ==
  ASSUME StaleInv, SettleInv', NEW r \in Release, NEW v \in Values,
         GetReference(r, v)
  PROVE  StaleInv'
  <1>0. PICK c : c = ctx[r]
    OBVIOUS
  <1>t. TypeOK /\ c.pc # "idle" /\ v \in c.todo
    BY <1>0 DEF StaleInv, SettleInv, OwnershipInv, GetReference
  <1>1. c \in Worker /\ c.todo \cup c.unreg \subseteq c.obj.refs
    BY <1>0, <1>t, AtWorkStale DEF Collects
  <1>2. UNCHANGED <<rel, val, helm, vqueue, vw>>
    BY DEF GetReference
  <1>3. \A u : \A n : Current(r, u, n)' <=> Current(r, u, n)
    BY <1>2 DEF Current, Coming
  <1>4. ASSUME NEW b \in Worker, Continue(r, AfterRefs(b), FALSE),
               b.obj = c.obj, b.todo = c.todo \ {v},
               \/ r \in skipped' /\ b.unreg = c.unreg
               \/ /\ \A u \in Values \ {v} : b.vals[u] = c.vals[u]
                  /\ b.vals[v] = val[v].data
                  /\ b.unreg = IF r \in val[v].ann THEN c.unreg
                                                   ELSE c.unreg \cup {v},
               skipped \subseteq skipped'
        PROVE  StaleInv'
    <2>1. b.todo \cup b.unreg \subseteq b.obj.refs
      BY <1>t, <1>1, <1>4
    <2>2. ASSUME r \notin skipped',
                 Applied(r, b.obj.refs, c.todo \cup c.unreg, c.vals),
                 NEW u \in Values
          PROVE  IF u \in b.obj.refs
                 THEN u \in b.todo \cup b.unreg \/ Current(r, u, b.vals[u])'
                 ELSE b.vals[u] = 0
      <3>1. CASE u = v
        <4>1. u \in b.obj.refs /\ (r \in val[v].ann \/ u \in b.unreg)
          BY <1>t, <1>1, <1>4, <2>2, <3>1
        <4>2. r \in val[v].ann => Current(r, u, b.vals[u])'
          BY <1>2, <1>4, <2>2, <3>1 DEF Current
        <4>. QED
          BY <4>1, <4>2
      <3>2. CASE u # v
        BY <1>3, <1>4, <2>2, <3>2 DEF Applied
      <3>. QED
        BY <3>1, <3>2
    <2>. QED
      BY <1>0, <1>t, <1>2, <1>4, <2>1, <2>2, RefStale
  <1>. DEFINE d == [c EXCEPT !.todo = @ \ {v},
                        !.unreg = IF r \in val[v].ann THEN @ ELSE @ \cup {v},
                        !.ann[v] = val[v].ann,
                        !.vals[v] = val[v].data]
              f == [c EXCEPT !.todo = @ \ {v}]
  <1>5. d \in Worker /\ f \in Worker
    BY <1>0, <1>t, ReadReferenceType
  <1>6. /\ d.obj = c.obj /\ d.todo = c.todo \ {v}
        /\ d.unreg = IF r \in val[v].ann THEN c.unreg ELSE c.unreg \cup {v}
        /\ \A u \in Values \ {v} : d.vals[u] = c.vals[u]
        /\ d.vals[v] = val[v].data
        /\ f.obj = c.obj /\ f.todo = c.todo \ {v} /\ f.unreg = c.unreg
    BY <1>1 DEF Worker
  <1>7. \/ Continue(r, AfterRefs(d), FALSE) /\ skipped' = skipped
        \/ Continue(r, AfterRefs(f), FALSE) /\ skipped' = skipped \cup {r}
    BY <1>0 DEF GetReference
  <1>. HIDE DEF d, f
  <1>. QED
    BY <1>4, <1>5, <1>6, <1>7

LEMMA RegisterStale ==
  ASSUME StaleInv, SettleInv', NEW r \in Release, NEW v \in Values,
         RegisterReference(r, v)
  PROVE  StaleInv'
  <1>0. PICK c : c = ctx[r]
    OBVIOUS
  <1>t. TypeOK /\ c.pc # "idle" /\ v \in c.unreg
    BY <1>0 DEF StaleInv, SettleInv, OwnershipInv, RegisterReference
  <1>1. c \in Worker /\ c.todo \cup c.unreg \subseteq c.obj.refs
    BY <1>0, <1>t, AtWorkStale DEF Collects
  <1>2. UNCHANGED <<rel, helm, vqueue, vw>>
    BY DEF RegisterReference
  <1>3. CASE /\ val' = [val EXCEPT ![v].ann = c.ann[v] \cup {r}]
             /\ skipped' = skipped \cup Overwritten(v, c.ann[v] \cup {r})
             /\ Continue(r, AfterRefs([c EXCEPT !.unreg = @ \ {v},
                                                !.vals[v] = Patched(c, v)]), FALSE)
    <2>0. PICK b : b = [c EXCEPT !.unreg = @ \ {v}, !.vals[v] = Patched(c, v)]
      OBVIOUS
    <2>1. b \in Worker
      BY <1>0, <1>t, <2>0, PatchReferenceType
    <2>2. /\ b.obj = c.obj /\ b.todo = c.todo /\ b.unreg = c.unreg \ {v}
          /\ b.vals[v] = val[v].data
          /\ \A u \in Values \ {v} : b.vals[u] = c.vals[u]
      BY <1>1, <2>0 DEF Worker, Patched
    <2>3. /\ val'[v].ann = c.ann[v] \cup {r} /\ val'[v].data = val[v].data
          /\ \A u \in Values \ {v} : val'[u] = val[u]
      BY <1>t, <1>3 DEF TypeOK
    <2>4. ASSUME NEW x \in Release \ {r}, NEW u \in rel[x].refs, x \in val[u].ann
          PROVE  x \in val'[u].ann \/ x \in skipped'
      <3>1. u \in Values
        BY <1>t DEF TypeOK, Obj
      <3>2. CASE u # v
        BY <2>3, <2>4, <3>1, <3>2
      <3>3. CASE u = v /\ x \notin c.ann[v] \cup {r}
        <4>1. x \in Overwritten(v, c.ann[v] \cup {r})
          BY <1>t, <2>4, <3>3 DEF Overwritten, TypeOK
        <4>. QED
          BY <1>3, <4>1
      <3>. QED
        BY <2>3, <3>2, <3>3
    <2>5. ASSUME Applied(r, b.obj.refs, c.todo \cup c.unreg, c.vals),
                 NEW u \in Values
          PROVE  IF u \in b.obj.refs
                 THEN u \in b.todo \cup b.unreg \/ Current(r, u, b.vals[u])'
                 ELSE b.vals[u] = 0
      <3>1. CASE u = v
        BY <1>t, <1>1, <2>2, <2>3, <3>1 DEF Current
      <3>2. CASE u # v
        <4>1. Coming(r, u) = Coming(r, u)' /\ val'[u] = val[u]
          BY <1>2, <2>3, <3>2 DEF Coming
        <4>2. \A n : Current(r, u, n) => Current(r, u, n)'
          BY <4>1 DEF Current
        <4>. QED
          BY <2>2, <2>5, <3>2, <4>2 DEF Applied
      <3>. QED
        BY <3>1, <3>2
    <2>6. \A u \in Values : val'[u].data = val[u].data
      BY <2>3
    <2>7. Continue(r, AfterRefs(b), FALSE) /\ skipped \subseteq skipped'
      BY <1>3, <2>0
    <2>8. b.obj = ctx[r].obj /\ b.todo \cup b.unreg \subseteq b.obj.refs
      BY <1>0, <1>1, <2>2
    <2>9. Applied(r, b.obj.refs, ctx[r].todo \cup ctx[r].unreg, ctx[r].vals)
             => \A u \in Values : IF u \in b.obj.refs
                                  THEN \/ u \in b.todo \cup b.unreg
                                       \/ Current(r, u, b.vals[u])'
                                  ELSE b.vals[u] = 0
      BY <1>0, <2>5
    <2>10. ctx[r].pc # "idle"
      BY <1>0, <1>t
    <2>. QED
      BY <1>2, <2>10, <2>1, <2>4, <2>6, <2>7, <2>8, <2>9, RefStale
  <1>4. ASSUME skipped' = skipped \cup {r}, UNCHANGED val,
               NEW late \in SUBSET Values,
               Continue(r, AfterRefs([c EXCEPT !.unreg = {},
                            !.vals = [u \in Values |-> IF u \in c.unreg \cup late
                                                       THEN 0 ELSE c.vals[u]]]),
                        FALSE)
        PROVE  StaleInv'
    <2>0. PICK b : b = [c EXCEPT !.unreg = {},
                            !.vals = [u \in Values |-> IF u \in c.unreg \cup late
                                                       THEN 0 ELSE c.vals[u]]]
      OBVIOUS
    <2>1. b \in Worker
      BY <1>0, <1>t, <2>0, PatchReferenceType
    <2>2. b.obj = c.obj /\ b.todo = c.todo /\ b.unreg = {}
      BY <1>1, <2>0 DEF Worker
    <2>. QED
      BY <1>0, <1>t, <1>1, <1>2, <1>4, <2>0, <2>1, <2>2, RefStale
  <1>5. \/ /\ val' = [val EXCEPT ![v].ann = c.ann[v] \cup {r}]
           /\ skipped' = skipped \cup Overwritten(v, c.ann[v] \cup {r})
           /\ Continue(r, AfterRefs([c EXCEPT !.unreg = @ \ {v},
                                              !.vals[v] = Patched(c, v)]), FALSE)
        \/ /\ skipped' = skipped \cup {r} /\ UNCHANGED val
           /\ \E late \in SUBSET Values :
                 Continue(r, AfterRefs([c EXCEPT !.unreg = {},
                            !.vals = [u \in Values |-> IF u \in c.unreg \cup late
                                                       THEN 0 ELSE c.vals[u]]]),
                          FALSE)
    BY <1>0 DEF RegisterReference
  <1>. QED
    BY <1>3, <1>4, <1>5

LEMMA LoadChartStale ==
  ASSUME StaleInv, SettleInv', NEW r \in Release, LoadChart(r)
  PROVE  StaleInv'
  <1>0. PICK c : c = ctx[r]
    OBVIOUS
  <1>1. /\ c.pc = "chart" /\ UNCHANGED <<rel, val, helm, vqueue, vw, skipped>>
        /\ \E e \in BOOLEAN : Continue(r, AfterNew([c EXCEPT !.err = e]), FALSE)
    BY <1>0 DEF LoadChart
  <1>2. c \in Worker /\ Loaded(c)
    BY <1>0, <1>1, AtWorkStale DEF Collects, Loaded
  <1>3. PICK b \in Worker : SameLoad(b, c) /\ Continue(r, AfterNew(b), FALSE)
    BY <1>1, <1>2 DEF Worker, SameLoad
  <1>4. AfterNew(b) \in Worker /\ Knows(helm'[r], AfterNew(b)) /\ AfterNew(b).pc # "idle"
    BY AfterNewType, AfterNewKnows
  <1>5. Collects(helm'[r], AfterNew(b)) /\ SameLoad(AfterNew(b), b)
    BY <1>2, <1>3, AfterNewLoad DEF Loaded, SameLoad
  <1>. QED
    BY <1>0, <1>1, <1>3, <1>4, <1>5, KeepStale DEF SameLoad

LEMMA WriteStepStale ==
  ASSUME StaleInv, SettleInv', NEW r \in Release,
         \/ RemoveLabel(r) \/ WriteStatus(r)
         \/ AddFinalizer(r) \/ DropFinalizer(r)
  PROVE  StaleInv'
  <1>0. PICK c : c = ctx[r]
    OBVIOUS
  <1>t. TypeOK
    BY DEF StaleInv, SettleInv, OwnershipInv
  <1>a. c.pc \in {"sync", "adopt", "drop"} /\ UNCHANGED <<helm, val, vqueue, skipped>>
    BY <1>0 DEF RemoveLabel, WriteStatus, AddFinalizer, DropFinalizer
  <1>b. /\ c \in Worker /\ c.obj \in Obj /\ c.obj.exists /\ Loaded(c)
        /\ Collects(helm[r], c) /\ AtCall(helm[r], c) /\ Knows(helm[r], c)
    <2>1. Holds(rel[r], c)
      BY <1>0, <1>a, AtWork DEF StaleInv
    <2>. QED
      BY <1>0, <1>a, <2>1, AtWorkStale DEF Holds, Collects, Loaded
  <1>c. ASSUME NEW d \in Worker, Continue(r, d, FALSE), UNCHANGED <<rel, vw>>,
               SameLoad(d, c), d.pc # "idle", Collects(helm[r], d), Knows(helm[r], d)
        PROVE  StaleInv'
    BY <1>0, <1>a, <1>c, KeepStale DEF SameLoad
  <1>d. ASSUME Continue(r, Retry(c), FALSE), UNCHANGED <<rel, vw>>
        PROVE  StaleInv'
    BY <1>a, <1>b, <1>c, <1>d, RetryType, RetryLoad, RetryKnows
  <1>e. ASSUME NEW o \in Obj, NEW d \in Worker, NEW event, Write(r, o, d, event),
               d.obj = o, o.refs = c.obj.refs, o.deleting = c.obj.deleting,
               d.vals = c.vals, d.todo = c.todo, d.unreg = c.unreg,
               d.pc # "idle", Collects(helm[r], d), Knows(helm[r], d)
        PROVE  StaleInv'
    <2>1. /\ Continue(r, d, event) /\ vw' = StaleValuesWorker(r) /\ rel'[r] = o
          /\ \A x \in Release \ {r} : rel'[x] = rel[x]
      BY <1>t, <1>e DEF Write, TypeOK
    <2>. QED
      BY <1>0, <1>a, <1>e, <2>1, KeepStale
  <1>1. CASE RemoveLabel(r)
    <2>. DEFINE o == [c.obj EXCEPT !.label = FALSE]
                d == [c EXCEPT !.obj = o]
    <2>1. ASSUME Write(r, o, d, UpdatePasses(o))
          PROVE  StaleInv'
      <3>1. /\ o \in Obj /\ o.refs = c.obj.refs /\ o.deleting = c.obj.deleting
            /\ d \in Worker /\ d.obj = o /\ d.pc = "sync" /\ d.goal = c.goal
            /\ d.vals = c.vals /\ d.todo = c.todo /\ d.unreg = c.unreg
            /\ d.hrev = c.hrev /\ c.pc = "sync"
        BY <1>0, <1>1, <1>b DEF RemoveLabel, Worker, Obj
      <3>. HIDE DEF o, d
      <3>2. Collects(helm[r], d) /\ Knows(helm[r], d)
        BY <1>b, <3>1 DEF Collects, Knows
      <3>. QED
        BY <1>e, <2>1, <3>1, <3>2
    <2>. QED
      BY <1>0, <1>1, <1>d, <2>1 DEF RemoveLabel
  <1>2. CASE WriteStatus(r)
    <2>0. c.pc = "sync" /\ ~c.obj.label
      BY <1>0, <1>2 DEF WriteStatus
    <2>1. c.goal = "success" => /\ ~c.obj.deleting /\ helm[r].vals = c.vals
                                /\ helm[r].st # "none" /\ c.hrev = helm[r].rev
      BY <1>b, <2>0 DEF Knows, Collects
    <2>2. ASSUME NEW o, o = [c.obj EXCEPT !.cond = c.goal, !.rev = c.hrev],
                 Write(r, o, AfterSync([c EXCEPT !.obj = o]), UpdatePasses(o))
          PROVE  StaleInv'
      <3>. DEFINE b == [c EXCEPT !.obj = o]
      <3>1. /\ o \in Obj /\ o.refs = c.obj.refs /\ o.deleting = c.obj.deleting
            /\ o.cond = c.goal /\ o.rev = c.hrev /\ ~o.label
        BY <1>b, <2>0, <2>2 DEF Worker, Obj, Goal, Cond
      <3>2. /\ b \in Worker /\ b.obj = o /\ b.goal = c.goal /\ b.vals = c.vals
            /\ b.todo = c.todo /\ b.unreg = c.unreg
        BY <1>b, <3>1 DEF Worker
      <3>. HIDE DEF b
      <3>3. b.goal = "success" => /\ ~b.obj.deleting /\ ~b.obj.label
                                  /\ b.obj.cond = "success" /\ helm[r].st # "none"
                                  /\ b.obj.rev = helm[r].rev
                                  /\ helm[r].vals = b.vals
        BY <2>1, <3>1, <3>2
      <3>4. /\ AfterSync(b) \in Worker /\ AfterSync(b).pc # "idle"
            /\ Knows(helm[r], AfterSync(b))
        BY <3>2, <3>3, AfterSyncType, AfterSyncKnows
      <3>5. Collects(helm[r], AfterSync(b)) /\ SameLoad(AfterSync(b), b)
        BY <1>b, <3>2, <3>3, AfterSyncLoad DEF Loaded
      <3>. QED
        BY <1>e, <2>2, <3>1, <3>2, <3>4, <3>5 DEF SameLoad, b
    <2>3. ASSUME UpToDate(c), Continue(r, AfterSync(c), FALSE), UNCHANGED <<rel, vw>>
          PROVE  StaleInv'
      <3>1. c.goal = "success" => /\ ~c.obj.deleting /\ ~c.obj.label
                                  /\ c.obj.cond = "success" /\ helm[r].st # "none"
                                  /\ c.obj.rev = helm[r].rev
        BY <2>0, <2>1, <2>3 DEF UpToDate
      <3>2. /\ AfterSync(c) \in Worker /\ AfterSync(c).pc # "idle"
            /\ Knows(helm[r], AfterSync(c))
        BY <1>b, <3>1, AfterSyncType, AfterSyncKnows
      <3>3. Collects(helm[r], AfterSync(c)) /\ SameLoad(AfterSync(c), c)
        BY <1>b, <2>1, AfterSyncLoad
      <3>. QED
        BY <1>c, <2>3, <3>2, <3>3
    <2>. QED
      BY <1>0, <1>2, <1>d, <2>2, <2>3 DEF WriteStatus
  <1>3. CASE AddFinalizer(r)
    <2>. DEFINE o == [c.obj EXCEPT !.fin = TRUE]
                d == [c EXCEPT !.pc = "helm", !.obj = o]
    <2>1. ASSUME Write(r, o, d, UpdatePasses(o))
          PROVE  StaleInv'
      <3>0. ~c.obj.deleting
        BY <1>0, <1>3, <1>b DEF AddFinalizer, AtCall
      <3>1. o \in Obj /\ o.refs = c.obj.refs /\ o.deleting = c.obj.deleting
        BY <1>b DEF Obj
      <3>2. /\ d \in Worker /\ d.obj = o /\ d.pc = "helm"
            /\ d.vals = c.vals /\ d.todo = c.todo /\ d.unreg = c.unreg
        BY <1>b, <3>1 DEF Worker, ReleasePC
      <3>. HIDE DEF o, d
      <3>3. Collects(helm[r], d) /\ Knows(helm[r], d)
        BY <1>b, <3>0, <3>1, <3>2 DEF Collects, Knows, Loaded
      <3>. QED
        BY <1>e, <2>1, <3>1, <3>2, <3>3
    <2>. QED
      BY <1>0, <1>3, <1>d, <2>1 DEF AddFinalizer
  <1>4. CASE DropFinalizer(r)
    <2>1. ASSUME Write(r, NoObj, Retry(c), TRUE)
          PROVE  StaleInv'
      <3>1. /\ Continue(r, Retry(c), TRUE) /\ vw' = StaleValuesWorker(r)
            /\ ~rel'[r].exists /\ \A x \in Release \ {r} : rel'[x] = rel[x]
        BY <1>t, <2>1 DEF Write, TypeOK, NoObj
      <3>2. /\ Retry(c) \in Worker /\ Retry(c).pc # "idle"
            /\ Knows(helm[r], Retry(c)) /\ Collects(helm[r], Retry(c))
            /\ SameLoad(Retry(c), c)
        BY <1>a, <1>b, RetryType, RetryLoad, RetryKnows
      <3>. QED
        BY <1>0, <1>a, <3>1, <3>2, KeepStale DEF SameLoad
    <2>. QED
      BY <1>0, <1>4, <1>d, <2>1 DEF DropFinalizer
  <1>. QED
    BY <1>1, <1>2, <1>3, <1>4

LEMMA HelmStepStale ==
  ASSUME StaleInv, SettleInv', NEW r \in Release,
         RemoveRelease(r) \/ Install(r) \/ KeepRelease(r) \/ Upgrade(r) \/ HelmEnd(r)
  PROVE  StaleInv'
  <1>0. PICK c : c = ctx[r]
    OBVIOUS
  <1>t. TypeOK
    BY DEF StaleInv, SettleInv, OwnershipInv
  <1>a. /\ c.pc \in {"remove", "helm", "helmRun"}
        /\ UNCHANGED <<rel, val, vqueue, vw, skipped>>
    BY <1>0 DEF RemoveRelease, Install, KeepRelease, Upgrade, HelmEnd
  <1>b. /\ c \in Worker /\ helm[r] \in HelmRecord /\ Loaded(c)
        /\ Collects(helm[r], c) /\ Knows(helm[r], c) /\ AtCall(helm[r], c)
    BY <1>0, <1>a, AtWorkStale DEF Collects, Loaded
  <1>c. \A x \in Release \ {r} : helm'[x] = helm[x]
    BY <1>t DEF RemoveRelease, Install, KeepRelease, Upgrade, HelmEnd, HelmBegin,
                TypeOK
  <1>d. ASSUME NEW d \in Worker, Continue(r, d, FALSE), SameLoad(d, c),
               d.pc # "idle", Collects(helm'[r], d), Knows(helm'[r], d)
        PROVE  StaleInv'
    BY <1>0, <1>a, <1>c, <1>d, KeepStale DEF SameLoad
  <1>e. ASSUME NEW goal \in Goal, NEW rev \in Nat,
               Continue(r, Sync(c, goal, rev), FALSE),
               goal = "success" => /\ ~c.obj.deleting /\ helm'[r].st # "none"
                                   /\ rev = helm'[r].rev /\ helm'[r].vals = c.vals
        PROVE  StaleInv'
    <2>. DEFINE d == Sync(c, goal, rev)
    <2>1. /\ d \in Worker /\ SameLoad(d, c) /\ d.pc = "sync" /\ d.goal = goal
          /\ d.hrev = rev
      BY <1>b, SyncType DEF Sync, Worker, SameLoad
    <2>. HIDE DEF d
    <2>2. Knows(helm'[r], d) /\ Collects(helm'[r], d)
      BY <1>b, <1>e, <2>1 DEF Knows, Collects, SameLoad, Loaded
    <2>. QED
      BY <1>d, <1>e, <2>1, <2>2 DEF d
  <1>f. ASSUME NEW rev \in Nat \ {0}, HelmBegin(r, c, rev), c.pc = "helm"
        PROVE  StaleInv'
    <2>. DEFINE d == [c EXCEPT !.pc = "helmRun", !.hrev = rev - 1]
    <2>1. d \in Worker /\ SameLoad(d, c) /\ d.pc = "helmRun"
      BY <1>b, HelmBeginType DEF Worker, SameLoad
    <2>2. helm'[r].vals = c.vals
      BY <1>t, <1>f DEF HelmBegin, TypeOK
    <2>3. Continue(r, d, FALSE)
      BY <1>f DEF HelmBegin
    <2>. HIDE DEF d
    <2>4. Knows(helm'[r], d) /\ Collects(helm'[r], d)
      BY <1>b, <1>f, <2>1, <2>2 DEF Knows, Collects, SameLoad, Loaded
    <2>. QED
      BY <1>d, <2>1, <2>3, <2>4
  <1>g. "updateFailed" \in Goal /\ "success" \in Goal
        /\ helm[r].rev \in Nat /\ c.hrev \in Nat
    BY <1>b DEF Goal, HelmRecord, Worker
  <1>r. ASSUME Continue(r, Retry(c), FALSE), c.pc = "remove" PROVE StaleInv'
    <2>1. Collects(helm'[r], c)
      BY <1>b, <1>r DEF Collects
    <2>. QED
      BY <1>b, <1>d, <1>r, <2>1, RetryType, RetryKnows, RetryLoad
  <1>1. CASE RemoveRelease(r)
    <2>. DEFINE d == [c EXCEPT !.pc = "drop"]
    <2>1. d \in Worker /\ SameLoad(d, c) /\ d.pc = "drop" /\ c.pc = "remove"
      BY <1>0, <1>1, <1>b DEF Worker, ReleasePC, SameLoad, RemoveRelease
    <2>2. Knows(helm'[r], d) /\ Collects(helm'[r], d)
      BY <1>b, <2>1 DEF Knows, Collects, SameLoad, Loaded
    <2>3. Continue(r, d, FALSE) \/ Continue(r, Retry(c), FALSE)
      BY <1>0, <1>1 DEF RemoveRelease
    <2>. QED
      BY <1>d, <1>r, <2>1, <2>2, <2>3
  <1>2. CASE Install(r)
    <2>1. CASE HelmBegin(r, c, 1)
      <3>1. 1 \in Nat \ {0} /\ c.pc = "helm"
        BY <1>0, <1>2 DEF Install
      <3>. QED
        BY <2>1, <3>1, <1>f
    <2>2. CASE Continue(r, Sync(c, "updateFailed", 0), FALSE)
      BY <2>2, <1>e, <1>g
    <2>. QED
      BY <1>0, <1>2, <2>1, <2>2 DEF Install
  <1>3. CASE KeepRelease(r)
    <2>1. /\ Continue(r, Sync(c, "success", helm[r].rev), FALSE)
          /\ helm[r].st # "none" /\ helm' = helm /\ ~c.obj.deleting
          /\ helm[r].vals = c.vals
      BY <1>0, <1>3, <1>b DEF KeepRelease, ValuesChanged, Knows
    <2>. QED
      BY <2>1, <1>e, <1>g
  <1>4. CASE Upgrade(r)
    <2>1. helm[r].rev + 1 \in Nat \ {0} /\ c.pc = "helm"
      BY <1>0, <1>4, <1>g DEF Upgrade
    <2>2. \/ HelmBegin(r, c, helm[r].rev + 1)
          \/ Continue(r, Sync(c, "updateFailed", helm[r].rev), FALSE)
      BY <1>0, <1>4 DEF Upgrade
    <2>3. CASE HelmBegin(r, c, helm[r].rev + 1)
      BY <1>f, <2>1, <2>3
    <2>4. CASE Continue(r, Sync(c, "updateFailed", helm[r].rev), FALSE)
      BY <1>e, <1>g, <2>4
    <2>. QED
      BY <2>2, <2>3, <2>4
  <1>5. CASE HelmEnd(r)
    <2>0. c.pc = "helmRun"
      BY <1>0, <1>5 DEF HelmEnd
    <2>1. CASE /\ helm' = [helm EXCEPT ![r].st = "deployed"]
               /\ Continue(r, Sync(c, "success", helm[r].rev), FALSE)
      <3>1. /\ helm'[r].st = "deployed" /\ helm'[r].rev = helm[r].rev
            /\ helm'[r].vals = helm[r].vals
        BY <1>t, <2>1 DEF TypeOK, HelmRecord
      <3>2. ~c.obj.deleting /\ helm[r].vals = c.vals
        BY <1>b, <2>0 DEF Knows, Collects
      <3>. QED
        BY <1>e, <1>g, <2>1, <3>1, <3>2
    <2>2. CASE Continue(r, Sync(c, "updateFailed", c.hrev), FALSE)
      BY <1>e, <1>g, <2>2
    <2>. QED
      BY <1>0, <1>5, <2>1, <2>2 DEF HelmEnd
  <1>. QED
    BY <1>1, <1>2, <1>3, <1>4, <1>5

LEMMA StepStale == StaleInv /\ [Next]_vars => StaleInv'
  <1>. SUFFICES ASSUME StaleInv, [Next]_vars PROVE StaleInv'
    OBVIOUS
  <1>t. SettleInv'
    BY StepSettle DEF StaleInv
  <1>1. ASSUME NEW r \in Release, ReleaseStep(r) PROVE StaleInv'
    BY <1>t, <1>1, StartStale, GetStale, RegisterStale, LoadChartStale,
       WriteStepStale, HelmStepStale DEF ReleaseStep
  <1>2. CASE ValuesStep
    BY <1>2, VisitStale, MarkStale, LabelStale DEF ValuesStep
  <1>3. CASE UNCHANGED vars
    <2>1. VisitInv' /\ \A x, u : \A n : Current(x, u, n)' <=> Current(x, u, n)
      BY <1>3 DEF vars, StaleInv, VisitInv, Current, Coming
    <2>. QED
      BY <1>t, <1>3, <2>1, QuietStale DEF vars
  <1>. QED
    BY <1>1, <1>2, <1>3, UserStale, RestartStale DEF Next

LEMMA Staleness == Spec => []StaleInv
  BY InitStale, StepStale, PTL DEF Spec

-----------------------------------------------------------------------------
(* A quiet release that is synced has the values of its references, unless *)
(* a change is on its way or it missed one in a way skipped records: for   *)
(* any number of releases, references, workers, faults and restarts.       *)
THEOREM StaleOnlyIfMissedAlways == Spec => []StaleOnlyIfMissed
  <1>1. StaleInv => StaleOnlyIfMissed
    <2>. SUFFICES ASSUME StaleInv, NEW r \in Release, rel[r].exists, Quiet(r),
                         ~OnItsWay(r), r \notin skipped
                  PROVE  helm[r].vals = Wanted(r)
      BY DEF StaleOnlyIfMissed
    <2>1. \A v : ~Coming(r, v)
      BY DEF OnItsWay, Coming, StaleInv, VisitInv, SettleInv, TargetInv
    <2>2. Applied(r, rel[r].refs, {}, helm[r].vals)
      BY DEF StaleInv, Carries, Quiet
    <2>3. \A v \in Values : helm[r].vals[v] = Wanted(r)[v]
      BY <2>1, <2>2 DEF Applied, Current, Wanted
    <2>4. helm[r].vals \in [Values -> Nat]
      BY DEF StaleInv, SettleInv, OwnershipInv, TypeOK, HelmRecord
    <2>. QED
      BY <2>3, <2>4 DEF Wanted
  <1>. QED
    BY <1>1, Staleness, PTL

=============================================================================
