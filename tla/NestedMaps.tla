----------------------------- MODULE NestedMaps ------------------------------
(***************************************************************************)
(* The merges of internal/utils/config.go as the code has them, on maps    *)
(* within maps: what the place by place definitions of ValuesMaps are      *)
(* compared with.                                                          *)
(***************************************************************************)
EXTENDS ValuesMaps, TLC

IsMap(v) == v \notin Datum

RECURSIVE MergeNested(_, _)
MergeNested(source, dest) ==
    LET both == DOMAIN source \cap DOMAIN dest
        nested == {k \in both : IsMap(source[k]) /\ IsMap(dest[k])}
    IN [k \in nested |-> MergeNested(dest[k], source[k])] @@ source @@ dest

RECURSIVE MergeUntypedNested(_, _)
MergeUntypedNested(source, path) ==
    LET keys == SelectSeq(path, LAMBDA k : k # "") IN
    IF keys = <<>> THEN source
    ELSE LET k == keys[1] IN k :>
         IF Len(keys) = 1 THEN source
         ELSE IF keys[2] # k THEN <<>>
         ELSE k :> MergeUntypedNested(source, SubSeq(keys, 3, Len(keys)))

(* The tree of a nested map.                                               *)
RECURSIVE Tree(_)
Tree(m) ==
    LET below == [k \in {x \in DOMAIN m : IsMap(m[x])} |-> Tree(m[k])]
        rest(p) == SubSeq(p, 2, Len(p))
        places == {<<k>> : k \in DOMAIN m} \cup
                  UNION {{<<k>> \o p : p \in DOMAIN below[k]} : k \in DOMAIN below}
    IN [p \in places |-> IF Len(p) > 1 THEN below[p[1]][rest(p)]
                         ELSE IF IsMap(m[p[1]]) THEN Branch ELSE m[p[1]]]

MergesAgree(maps) ==
    \A m, n \in maps : Tree(MergeNested(m, n)) = MergeMaps(Tree(m), Tree(n))
PutsAgree(maps, paths) ==
    \A m \in maps, p \in paths :
        Tree(MergeUntypedNested(m, p)) = MergeUntypedMaps(Tree(m), p)
=============================================================================
