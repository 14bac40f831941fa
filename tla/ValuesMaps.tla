----------------------------- MODULE ValuesMaps ------------------------------
(***************************************************************************)
(* Maps of helm values and the two merges of internal/utils/config.go.  A  *)
(* map is the tree of the paths of keys it has: at each there is a datum,  *)
(* or Branch where a map goes on.  What the recursive code does to nested  *)
(* maps is stated here place by place; NestedMaps is the recursion.        *)
(***************************************************************************)
EXTENDS Naturals, Sequences, FiniteSets

CONSTANTS
    Field,     \* the keys maps may have
    Datum

Branch == "branch"

ASSUME BranchIsNoDatum == Branch \notin Datum

Path == Seq(Field) \ {<<>>}
Trees == UNION {[S -> Datum \cup {Branch}] : S \in SUBSET Path}

(* The first n keys of a path.                                             *)
Up(p, n) == SubSeq(p, 1, n)

(* Above a place there are maps only.                                      *)
IsTree(t) ==
    \A p \in DOMAIN t :
        /\ p \in Path
        /\ \A n \in 1..Len(p) - 1 : Up(p, n) \in DOMAIN t /\ t[Up(p, n)] = Branch

Empty == <<>>

(* The places of a map that hold a datum.                                  *)
Data(m) == {p \in DOMAIN m : m[p] # Branch}

(* MergeMaps: a copy of dest with source laid over it.  Where both have a  *)
(* map the recursion swaps its arguments: what differs at an odd level is  *)
(* taken from source, at an even level from dest, with all that is below.  *)
Differ(source, dest, p) ==
    /\ p \in DOMAIN source /\ p \in DOMAIN dest
    /\ source[p] # Branch \/ dest[p] # Branch

Over(source, dest, p) ==
    /\ p \in DOMAIN source
    /\ \A n \in 1..Len(p) : Differ(source, dest, Up(p, n)) => n % 2 = 1
Under(source, dest, p) ==
    /\ p \in DOMAIN dest
    /\ \A n \in 1..Len(p) : Differ(source, dest, Up(p, n)) => n % 2 = 0

MergeMaps(source, dest) ==
    [p \in {q \in DOMAIN source : Over(source, dest, q)} \cup
           {q \in DOMAIN dest : Under(source, dest, q)} |->
        IF Over(source, dest, p) THEN source[p] ELSE dest[p]]

(* The keys that are not empty (trimedKeys), in their order.               *)
Trimmed(keys) ==
    LET used == {i \in DOMAIN keys : keys[i] # ""}
    IN [j \in 1..Cardinality(used) |->
           keys[CHOOSE i \in used : Cardinality(used \cap 1..i) = j]]

(* MergeUntypedMaps with the empty map as destination, which is what every *)
(* caller passes: source put under a path of keys.  Of every two keys the  *)
(* second is looked up beside the first instead of below it; it is there   *)
(* only if the two are equal, and otherwise the source is dropped.         *)
Dropped(keys, n) == \E i \in 1..n - 1 : i % 2 = 1 /\ keys[i] # keys[i + 1]

PutUnder(source, keys) ==
    [p \in {Up(keys, n) : n \in {m \in 1..Len(keys) : ~Dropped(keys, m)}} \cup
           {keys \o q : q \in {x \in DOMAIN source : ~Dropped(keys, Len(keys))}} |->
        IF Len(p) <= Len(keys) THEN Branch ELSE source[SubSeq(p, Len(keys) + 1, Len(p))]]

MergeUntypedMaps(source, path) == PutUnder(source, Trimmed(path))
=============================================================================
