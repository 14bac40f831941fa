-------------------------- MODULE ValuesReferences ---------------------------
(***************************************************************************)
(* What ValuesResolution takes as a parameter, collecting the references   *)
(* between Values objects (internal/values/collect.go), and what becomes   *)
(* of the values of a release along the paths of keys to each object.      *)
(***************************************************************************)
EXTENDS ValuesResolution

-----------------------------------------------------------------------------
(* Collecting (collect.go); g is spec.refs of all objects. *)

(* A reference to an object that is not there fails the collection.        *)
RECURSIVE Broken(_, _, _)
Broken(g, o, count) ==
    /\ count <= MaxDepth
    /\ \E k \in DOMAIN g[o] :
          g[o][k] \notin Object \/ Broken(g, g[o][k], count + 1)

(* The lists collectValues may return below o: the keys of a Go map come   *)
(* in any order, and what an object refers to precedes it.                 *)
RECURSIVE collectValues(_, _, _), CollectAlong(_, _, _, _)
collectValues(g, o, count) ==
    IF count > MaxDepth THEN {<<>>}
    ELSE UNION {CollectAlong(g, o, ks, count) : ks \in SetToSeqs(DOMAIN g[o])}

CollectAlong(g, o, ks, count) ==
    IF ks = <<>> THEN {<<>>}
    ELSE LET to == g[o][Head(ks)]
             entry == [obj |-> to, parent |-> o, key |-> Head(ks)]
         IN {below \o <<entry>> \o rest :
                below \in collectValues(g, to, count + 1),
                rest  \in CollectAlong(g, o, Tail(ks), count)}

(* getValuesByReference skips names without an object; getRefList stops at *)
(* the first object that fails and goes on with what it has.               *)
UsableObjects(g, names) ==
    LET found == SelectSeq(names, LAMBDA o : o \in Object)
        fine  == {n \in 0..Len(found) : \A i \in 1..n : ~Broken(g, found[i], 0)}
    IN SubSeq(found, 1, CHOOSE n \in fine : \A m \in fine : m <= n)

RECURSIVE getRefList(_, _)
getRefList(g, objs) ==
    IF objs = <<>> THEN {<<>>}
    ELSE {<<[obj |-> Head(objs), parent |-> "base", key |-> ""]>> \o l \o rest :
             l \in collectValues(g, Head(objs), 0), rest \in getRefList(g, Tail(objs))}

-----------------------------------------------------------------------------
Targets(o) == IF o \in Object THEN Range(refs[o]) ELSE {}

(* Objects found from o along at most n references, and along any number.  *)
RECURSIVE Within(_, _)
Within(objs, n) ==
    IF n = 0 THEN objs ELSE Within(objs \cup UNION {Targets(o) : o \in objs}, n - 1)

Below(o) == Within(Targets(o), Cardinality(Object))
Reached == Within(Range(base), Cardinality(Object) + 1)
Cyclic == \E o \in Reached : o \in Below(o)

(* The objects found from o with the path of keys that leads to each.      *)
RECURSIVE Paths(_)
Paths(o) ==
    {[keys |-> <<>>, via |-> {}, obj |-> o]} \cup
    UNION {{[keys |-> <<k>> \o p.keys, via |-> {o} \cup p.via, obj |-> p.obj] :
               p \in Paths(refs[o][k])} : k \in DOMAIN refs[o]}

Resolved == phase = "done" /\ ~Cyclic
AllFound == Reached \subseteq Object

(* "Values resources can be chained" (docs/content/usage/releases.md:125): *)
(* at the place of each value of an object, below the keys that lead to    *)
(* it, there is a datum.  It may be missing if an object on the way has    *)
(* several references (the first goroutine wins) or is reached several     *)
(* times, if the keys on the way differ (MergeUntypedMaps looks up the     *)
(* second one in the wrong map), if the object is beyond the depth that is *)
(* collected, or if somebody has a map where another has a datum.          *)
LostOnlyIfForked ==
    Resolved /\ AllFound =>
        \A b \in Range(base) : \A p \in Paths(b) :
            \/ \E o \in p.via : Entries(o) > 1
            \/ Cardinality(Range(p.keys)) > 1
            \/ Len(p.keys) > MaxDepth + 1
            \/ \A l \in Data(Content[p.obj]) :
                  Clear(p.keys \o l) => p.keys \o l \in Data(merged)

(* Nothing is found at a place where no reference puts it, unless an       *)
(* object that others refer to has several references, or one has more     *)
(* than three: paths of keys then share an array, and are extended once    *)
(* too often or overwritten before they are read.                          *)
Placed(l) ==
    \E b \in Range(base) : \E p \in Paths(b) : \E x \in Data(Content[p.obj]) :
        p.keys \o x = l /\ Content[p.obj][x] = merged[l]
MisplacedOnlyIfForked ==
    Resolved /\ AllFound =>
        \A l \in Data(merged) :
            \/ Placed(l)
            \/ \E o \in Reached :
                  \/ Entries(o) > 1 /\ \E x \in Reached : o \in Targets(x)
                  \/ Entries(o) > 3

(* Where two objects of a release have a value at one place the order of   *)
(* arrival decides: on odd levels the last one wins, on even levels the    *)
(* first.                                                                  *)
ArrivalDecides ==
    [][received' # received =>
          \A l \in Data(merged') :
              merged'[l] = IF /\ l \in Data(c[1])
                              /\ l \notin Data(merged) \/ Len(l) % 2 = 1
                           THEN c[1][l] ELSE merged[l]]_vars

(* References without a cycle are resolved if no timer fires.              *)
AcyclicResolves ==
    (phase = "wait" /\ ~Cyclic) ~> (phase = "done" \/ timeouts > 0)
=============================================================================
