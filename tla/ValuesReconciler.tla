-------------------------- MODULE ValuesReconciler --------------------------
(***************************************************************************)
(* ValuesReconciler.Reconcile of the agent: when the spec of a Values      *)
(* object has changed, every release named in its "releases" annotation    *)
(* that is synced is marked unsynced and poked with the reconcile label.   *)
(* The controller has one worker.                                          *)
(***************************************************************************)
EXTENDS AgentState

(* The loop over the annotation goes on, or Reconcile returns.  Mutant: it *)
(* returns after the first poke.                                           *)
NextReleaseFirstOnly(w) ==
    IF w.todo = {} \/ w.tgt # {} THEN IdleValuesWorker
    ELSE [w EXCEPT !.pc = "next", !.tgt = {}, !.fresh = FALSE]

NextRelease(w) == IF w.todo = {} THEN IdleValuesWorker
                  ELSE [w EXCEPT !.pc = "next", !.tgt = {}, !.fresh = FALSE]

(* Only releases whose condition is True are poked.                        *)
ShouldPoke(o) == Synced(o)

(* A write refused by the apiserver.                                       *)
PokeFails == (~vw.fresh /\ NoFault) \/ Fault("write")

(* The write of another worker's release: that worker's copy is stale.     *)
WriteRelease(r, o, event) ==
    /\ rel' = [rel EXCEPT ![r] = o]
    /\ ctx' = [ctx EXCEPT ![r] = StaleWorker(@)]
    /\ queue' = IF event THEN queue \cup {r} ELSE queue

StartValues(v) ==
    /\ vw.pc = "idle" /\ v \in vqueue
    /\ vqueue' = vqueue \ {v}
    /\ vw' = NextRelease([IdleValuesWorker EXCEPT !.cur = {v},
                                                  !.todo = val[v].ann])
    /\ UNCHANGED <<rel, val, helm, queue, ctx, skipped,
                   edits, faults, restarts>>

(* Get the next release.  One that is gone or cannot be read is skipped,   *)
(* and so is one that is not synced.                                       *)
GetRelease(r) ==
    /\ vw.pc = "next" /\ r \in vw.todo
    /\ LET w == [vw EXCEPT !.todo = @ \ {r}]
       IN  \/ /\ rel[r].exists /\ ShouldPoke(rel[r]) /\ NoFault
              /\ vw' = [w EXCEPT !.pc = "mark", !.tgt = {r}, !.fresh = TRUE]
              /\ UNCHANGED skipped
           \/ /\ \/ ~(rel[r].exists /\ ShouldPoke(rel[r])) /\ NoFault
                 \/ Fault("write")
              /\ vw' = NextRelease(w)
              /\ skipped' = skipped \cup {r}
    /\ UNCHANGED <<rel, val, helm, queue, vqueue, ctx, edits, restarts>>

(* Status().Update: condition "synced" becomes False.  A failure is only   *)
(* logged.                                                                 *)
MarkUnsynced(r) ==
    LET o == [rel[r] EXCEPT !.cond = "valueschange"] IN
    /\ vw.pc = "mark" /\ r \in vw.tgt
    /\ vw' = [vw EXCEPT !.pc = "poke"]
    /\ \/ vw.fresh /\ NoFault /\ WriteRelease(r, o, UpdatePasses(o))
       \/ PokeFails /\ UNCHANGED <<rel, ctx, queue>>
    /\ UNCHANGED <<val, helm, vqueue, skipped, edits, restarts>>

(* Update: the reconcile label is set, and the event of this write queues  *)
(* the release.  A failure returns the error, and the Values object is     *)
(* queued again.                                                           *)
SetLabel(r) ==
    LET o == [rel[r] EXCEPT !.label = TRUE] IN
    /\ vw.pc = "poke" /\ r \in vw.tgt
    /\ \/ /\ vw.fresh /\ NoFault
          /\ WriteRelease(r, o, UpdatePasses(o))
          /\ vw' = NextRelease(vw)
          /\ UNCHANGED vqueue
       \/ /\ PokeFails
          /\ vqueue' = vqueue \cup vw.cur
          /\ vw' = IdleValuesWorker
          /\ UNCHANGED <<rel, ctx, queue>>
    /\ UNCHANGED <<val, helm, skipped, edits, restarts>>

ValuesStep ==
    \/ \E v \in Values : StartValues(v)
    \/ \E r \in Release : GetRelease(r) \/ MarkUnsynced(r) \/ SetLabel(r)
=============================================================================
