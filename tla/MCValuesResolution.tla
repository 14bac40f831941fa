-------------------------- MODULE MCValuesResolution -------------------------
(* Model checking of ValuesResolution: four objects, four keys.            *)
EXTENDS ValuesReferences, NestedMaps

Objects == {"a", "b", "c", "d"}
Keys == {"k", "m", "n", "q"}
Fields == Objects \cup Keys \cup {"x"}
None == [k \in {} |-> "a"]
Chain(S) == UNION {[K -> S] : K \in SUBSET {"k", "m"}}
OneChain(S) == [{} -> S] \cup [{"k"} -> S]

(* The references of three objects, also to one that is missing.           *)
Graphs ==
    {[a |-> x, b |-> y, c |-> z, d |-> None] :
        x \in Chain({"b", "c"}),
        y \in [{"k", "m"} -> {"a", "c"}] \cup OneChain({"a", "c"}),
        z \in OneChain({"a", "b", "gone"})}

(* How often references are followed below objects down to a depth.        *)
RECURSIVE Followed(_, _, _)
Followed(g, o, depth) ==
    IF depth < 0 \/ o \notin Objects THEN 0
    ELSE FoldFunction(LAMBDA to, n : n + 1 + Followed(g, to, depth - 1), 0, g[o])

Reaches(g, o, to) ==
    LET near == {o} \cup Range(g[o])
    IN to \in near \cup UNION {Range(g[x]) : x \in near \cap Objects}

(* A release that names one object, or two, with at most that many         *)
(* references followed; objects it does not reach refer to nothing.        *)
CONSTANTS MaxOfOne, MaxOfTwo
SmallInputs ==
    {[refs |-> g, base |-> <<"a">>] : g \in {x \in Graphs :
        /\ Followed(x, "a", MaxDepth) <= MaxOfOne
        /\ \A o \in Objects : Reaches(x, "a", o) \/ DOMAIN x[o] = {}}} \cup
    {[refs |-> g, base |-> <<"a", "b">>] : g \in {x \in Graphs :
        /\ Followed(x, "a", MaxDepth) + Followed(x, "b", MaxDepth) <= MaxOfTwo
        /\ Reaches(x, "a", "c") \/ Reaches(x, "b", "c") \/ DOMAIN x["c"] = {}}}

(* What needs a fourth object or key, or is larger: a chain longer than    *)
(* the depth, one of which the release names two objects, objects with     *)
(* three and four references, and references under a key where an object   *)
(* has a datum; and a release that names an object that is not there.      *)
Refs(x, y, z, w) == [a |-> x, b |-> y, c |-> z, d |-> w]
To(o) == "k" :> o
LargeInputs ==
    {[refs |-> Refs(To("b"), To("c"), To("d"), None), base |-> s] :
        s \in {<<"a">>, <<"b">>, <<"a", "d">>}} \cup
    {[refs |-> Refs(To("b"), To("c"), None, None), base |-> <<"a", "b">>],
     [refs |-> Refs([k |-> "b", m |-> "c", n |-> "d"], None, None, None),
      base |-> <<"a">>],
     [refs |-> Refs([k |-> "b", m |-> "c", n |-> "d", q |-> "d"], None, None, None),
      base |-> <<"a">>],
     [refs |-> Refs(None, None, None, "q" :> "b"), base |-> <<"d">>],
     [refs |-> Refs("q" :> "b", None, None, None), base |-> <<"a", "d">>],
     [refs |-> Refs(To("b"), None, None, None), base |-> <<"gone", "a">>]}

AllInputs == SmallInputs \cup LargeInputs

CONSTANTS da, db, dc, dd
Data4 == {da, db, dc, dd}
DatumOf == [a |-> da, b |-> db, c |-> dc, d |-> dd]

(* A value of its own, one that all share, and one below a shared key; d   *)
(* has a datum where others may have the map of a reference.               *)
Shared ==
    [o \in Objects |-> Tree(o :> DatumOf[o] @@ "x" :> DatumOf[o] @@
        (IF o = "d" THEN "q" :> dd ELSE "k" :> ("x" :> DatumOf[o])))]

(* The merges, place by place and as the recursions of the code, on maps   *)
(* of up to four levels and paths of up to five keys.                      *)
Flat(S) == UNION {[K -> S] : K \in SUBSET {"k", "x"}}
Maps1 == Flat({da, db})
Maps2 == Flat({da, db} \cup Maps1)
Maps4 == {"k" :> ("k" :> m) : m \in Flat({da} \cup Flat({db}))}
ASSUME MergesAreTheSame ==
    MergesAgree(Maps2 \cup {"k" :> m : m \in Flat({da} \cup Maps1)} \cup Maps4)
ASSUME PutsAreTheSame ==
    PutsAgree(Maps1, UNION {[1..n -> {"", "k", "x"}] : n \in 0..5})
=============================================================================
