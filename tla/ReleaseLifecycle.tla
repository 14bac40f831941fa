-------------------------- MODULE ReleaseLifecycle --------------------------
(***************************************************************************)
(* What the release controller promises, without workers, queues or        *)
(* failures: a helm release is installed only under a Release object that  *)
(* the controller has adopted (put its finalizer on), its revision grows   *)
(* one at a time, it is removed only once that object is being deleted,    *)
(* and the object is let go only when nothing is installed.                *)
(***************************************************************************)
EXTENDS Naturals

CONSTANT Release

VARIABLES own,    \* own[r]: "free" | "owned" | "leaving"
          inst    \* inst[r]: revision of the helm release, 0 for none

Init == /\ own = [r \in Release |-> "free"]
        /\ inst = [r \in Release |-> 0]

Adopt(r) == /\ own[r] = "free"
            /\ own' = [own EXCEPT ![r] = "owned"]
            /\ UNCHANGED inst

(* An install or upgrade in flight may end after the deletion was asked for. *)
NextRevision(r) == /\ own[r] # "free"
                   /\ inst' = [inst EXCEPT ![r] = inst[r] + 1]
                   /\ UNCHANGED own

AskDeletion(r) == /\ own[r] = "owned"
                  /\ own' = [own EXCEPT ![r] = "leaving"]
                  /\ UNCHANGED inst

Uninstall(r) == /\ own[r] = "leaving"
                /\ inst' = [inst EXCEPT ![r] = 0]
                /\ UNCHANGED own

LetGo(r) == /\ own[r] = "leaving" /\ inst[r] = 0
            /\ own' = [own EXCEPT ![r] = "free"]
            /\ UNCHANGED inst

Next == \E r \in Release : \/ Adopt(r) \/ NextRevision(r) \/ AskDeletion(r)
                           \/ Uninstall(r) \/ LetGo(r)

Spec == Init /\ [][Next]_<<own, inst>>
=============================================================================
