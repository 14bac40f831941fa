--------------------------- MODULE RepoReconciler ----------------------------
(***************************************************************************)
(* RepoReconciler.Reconcile of the manager with repository.New and Update: *)
(* the index of the helm repository goes into one configmap per chart, the *)
(* Charts the Repository no longer lists are deleted and the listed ones   *)
(* are created or overwritten.  Left out: the secret with the credentials  *)
(* and RepoGroups.                                                         *)
(***************************************************************************)
EXTENDS ManagerState

(* The phases of Update; an empty one is passed through.  Mutants: what is *)
(* not listed is not pruned; the loop over the index does not end.         *)
ToStatus(w, ok) == [w EXCEPT !.pc = "status", !.todo = {}, !.ok = ok]
ToDeploy(w) == IF Listed(w.obj) = {} THEN ToStatus(w, TRUE)
               ELSE [w EXCEPT !.pc = "deploy", !.todo = Listed(w.obj)]
ToPruneNever(w, stray) == ToDeploy(w)
ToPrune(w, stray) == IF stray = {} THEN ToDeploy(w)
                     ELSE [w EXCEPT !.pc = "prune", !.todo = stray]
ToIndexEndless(w, cs) == [w EXCEPT !.pc = "index", !.todo = cs]
ToIndex(w, cs) == [w EXCEPT !.pc = IF cs = {} THEN "list" ELSE "index",
                            !.todo = cs]

(* createIndexConfigmaps: the charts of the index that are listed, or all  *)
(* of them when none is.                                                   *)
Indexed(o, index) == {c \in Chart : index[c] # {}
                                    /\ (o.want = {} \/ c \in Listed(o))}

(* Get, then New downloads the index, whose failure is only logged and     *)
(* leaves it empty; then handleFinalizer decides.                          *)
StartRepo ==
    /\ rw.pc = "idle" /\ rq
    /\ rq' = FALSE
    /\ \E index \in {published, [c \in Chart |-> {}]} :
          /\ \/ index = published /\ NoFault
             \/ index # published /\ Fault("http")
          /\ LET w == [IdleRepoWorker EXCEPT !.obj = repo, !.fresh = TRUE,
                                             !.index = index]
             IN rw' = IF ~repo.exists THEN IdleRepoWorker
                      ELSE IF repo.deleting THEN [w EXCEPT !.pc = "drop"]
                      ELSE IF ~repo.fin THEN [w EXCEPT !.pc = "adopt"]
                      ELSE ToIndex(w, Indexed(repo, index))
    /\ UNCHANGED <<published, repo, chart, idx, cm, dead, cq, cw, deleted,
                   edits>>

RepoWriteFails == (~rw.fresh /\ NoFault) \/ Fault("write")

(* The Update with or without the finalizer.  An error is logged and       *)
(* Reconcile returns without one: nothing brings the key back.             *)
AdoptRepo ==
    /\ rw.pc = "adopt"
    /\ rw' = IdleRepoWorker
    /\ \/ /\ rw.fresh /\ NoFault
          /\ repo' = [repo EXCEPT !.fin = TRUE]
          /\ rq' = TRUE
       \/ /\ RepoWriteFails
          /\ UNCHANGED <<repo, rq>>
    /\ UNCHANGED <<published, chart, idx, cm, dead, cq, cw, deleted,
                   edits>>

DropRepo ==
    /\ rw.pc = "drop"
    /\ rw' = IdleRepoWorker
    /\ \/ /\ rw.fresh /\ NoFault
          /\ repo' = NoRepo
          /\ rq' = TRUE
          /\ dead' = dead \cup {ChartKey(c) : c \in {x \in Chart : chart[x].owned}}
                          \cup {IndexKey(c) : c \in {x \in Chart : idx[x] # {}}}
          /\ cw' = IF cw.pc = "idle" THEN cw
                   ELSE [cw EXCEPT !.gone = @ \cup {"repo"}]
       \/ /\ RepoWriteFails
          /\ UNCHANGED <<repo, rq, dead, cw>>
    /\ UNCHANGED <<published, chart, idx, cm, cq, deleted, edits>>

-----------------------------------------------------------------------------
(* One round of createIndexConfigmaps, in the random order of a Go map.    *)
(* Creating a configmap goes on with the next chart, failed or not; after  *)
(* the first one that exists and is updated, or fails to be, the function  *)
(* returns.                                                                *)
WriteIndex(c) ==
    /\ rw.pc = "index" /\ c \in rw.todo
    /\ LET put == /\ idx' = [idx EXCEPT ![c] = rw.index[c]]
                  /\ dead' = dead \ {IndexKey(c)}
           next == ToIndex(rw, rw.todo \ {c})
       IN \/ /\ NoFault /\ put
             /\ rw' = IF idx[c] = {} THEN next ELSE ToIndex(rw, {})
          \/ /\ Fault("configmap") /\ UNCHANGED <<idx, dead>>
             /\ \/ rw' = next
                \/ idx[c] # {} /\ rw' = ToStatus(rw, FALSE)
    /\ UNCHANGED <<published, repo, chart, cm, rq, cq, cw, deleted,
                   edits>>

(* List the charts of the repository; a failure is logged and finds none.  *)
(* Those that are not listed and not marked as unmanaged are to go.        *)
Stray(o) == {c \in Chart : /\ chart[c].exists /\ chart[c].lrepo
                           /\ ~chart[c].unmanaged /\ c \notin Listed(o)}

ListCharts ==
    /\ rw.pc = "list"
    /\ \/ NoFault /\ rw' = ToPrune(rw, Stray(rw.obj))
       \/ Fault("chart") /\ rw' = ToDeploy(rw)
    /\ UNCHANGED <<published, repo, chart, idx, cm, dead, rq, cq, cw, deleted,
                   edits>>

(* Delete, by name; an error is only logged.                               *)
PruneChart(c) ==
    /\ rw.pc = "prune" /\ c \in rw.todo
    /\ rw' = ToPrune(rw, rw.todo \ {c})
    /\ \/ chart[c].exists /\ NoFault /\ RemoveChart(c)
       \/ /\ (~chart[c].exists /\ NoFault) \/ Fault("chart")
          /\ UNCHANGED <<chart, dead, cq, cw, deleted>>
    /\ UNCHANGED <<published, repo, idx, cm, rq, edits>>

(* deployChart: a chart found by its labels is overwritten; otherwise it   *)
(* is created, and an error (the name is in use by a chart that has no     *)
(* labels yet) is only logged.                                             *)
Managed(o, c) == [NoChart EXCEPT !.exists = TRUE, !.owned = TRUE,
                                 !.vers = VersionsOf(o, c),
                                 !.lrepo = TRUE, !.lchart = TRUE]

DeployChart(c) ==
    /\ rw.pc = "deploy" /\ c \in rw.todo
    /\ LET rest == rw.todo \ {c}
           next == IF rest = {} THEN ToStatus(rw, TRUE)
                   ELSE [rw EXCEPT !.todo = rest]
       IN \/ /\ Labelled(c) /\ NoFault
             /\ PutChart(c, [chart[c] EXCEPT !.vers = VersionsOf(rw.obj, c)])
             /\ cw' = IF chart[c].vers = VersionsOf(rw.obj, c) THEN cw
                      ELSE StaleChart(c)
             /\ rw' = next
          \/ /\ ~chart[c].exists /\ NoFault
             /\ PutChart(c, Managed(rw.obj, c))
             /\ UNCHANGED cw
             /\ rw' = next
          \/ /\ ~Labelled(c)
             /\ \/ chart[c].exists /\ NoFault
                \/ Fault("chart")
             /\ rw' = next
             /\ UNCHANGED <<chart, cq, cw>>
          \/ /\ Fault("chart")
             /\ rw' = ToStatus(rw, FALSE)
             /\ UNCHANGED <<chart, cq, cw>>
    /\ UNCHANGED <<published, repo, idx, cm, dead, rq, deleted,
                   edits>>

-----------------------------------------------------------------------------
(* syncStatus: a status that changes is written, and its event brings the  *)
(* key back; an error is ignored.  One that does not asks for another      *)
(* round in 10 seconds.  Mutant: no other round.                           *)
Again10Never == FALSE
Again10 == TRUE

Count(o) == Cardinality(Listed(o))
            + Cardinality({c \in Chart : chart[c].exists /\ chart[c].lrepo
                                         /\ chart[c].unmanaged})

(* A failing List finds no unmanaged charts. *)
SyncRepoStatus ==
    /\ rw.pc = "status"
    /\ rw' = IdleRepoWorker
    /\ \E n \in {Count(rw.obj), Cardinality(Listed(rw.obj))} :
          LET st == IF rw.ok THEN "ok" ELSE "failed"
              same == rw.obj.st = st /\ rw.obj.count = n
              list == IF n = Count(rw.obj) THEN NoFault ELSE Fault("chart")
          IN \/ same /\ list /\ rq' = (rq \/ Again10) /\ UNCHANGED repo
             \/ /\ ~same /\ rw.fresh /\ list
                /\ repo' = [repo EXCEPT !.st = st, !.count = n]
                /\ rq' = TRUE
             \/ /\ ~same
                /\ \/ ~rw.fresh /\ list
                   \/ n = Count(rw.obj) /\ Fault("write")
                /\ UNCHANGED <<repo, rq>>
    /\ UNCHANGED <<published, chart, idx, cm, dead, cq, cw, deleted, edits>>

RepoStep == \/ StartRepo \/ AdoptRepo \/ DropRepo
            \/ \E c \in Chart : WriteIndex(c) \/ PruneChart(c) \/ DeployChart(c)
            \/ ListCharts \/ SyncRepoStatus
=============================================================================
