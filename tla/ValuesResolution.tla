-------------------------- MODULE ValuesResolution ---------------------------
(***************************************************************************)
(* How the values of a release are put together (internal/values):         *)
(* ManageValues takes what has been collected and merges it with one       *)
(* goroutine per object of the release (parse) and one per reference (in   *)
(* manageStruct).  The objects are read once and do not change meanwhile.  *)
(* What is collected is a parameter here; ValuesReferences defines it.     *)
(***************************************************************************)
EXTENDS ValuesMaps, TLC, SequencesExt

CONSTANTS
    Object,       \* names of the Values objects that exist
    Key,          \* the keys under which objects refer to others
    Inputs,       \* spec.refs of all objects and spec.values of the release
    Content,      \* the map every object carries (spec.json)
    Usable(_, _),     \* of refs and base: the objects getRefList gets through
    RefLists(_, _),   \* of refs and objects: the lists getRefList may return
    MaxDepth,     \* collecting stops below this depth (10 in the code)
    MaxStack,     \* calls of manageStruct the goroutine stack has room for
    MaxTimeouts   \* timers that may fire while somebody is still working

(* No object is called "base", the parent of the release's own references. *)
ASSUME ObjectNames == "base" \notin Object

ASSUME ContentIsTree ==
    /\ Key \subseteq Field
    /\ \A o \in Object : LET m == Content[o] IN
          m \in [DOMAIN m -> Datum \cup {Branch}] /\ IsTree(m)

(* spec.refs is a map, and what is collected refers to objects that exist. *)
Entry == [obj : Object, parent : Object \cup {"base"}, key : Key \cup {""}]

ASSUME InputsRefer ==
    \A x \in Inputs : \A o \in Object :
        IsFiniteSet(DOMAIN x.refs[o]) /\ DOMAIN x.refs[o] \subseteq Key

ASSUME CollectedExists ==
    \A x \in Inputs :
        /\ Usable(x.refs, x.base) \in Seq(Object)
        /\ RefLists(x.refs, Usable(x.refs, x.base)) \subseteq Seq(Entry)

(* The stack of a goroutine has room for more calls than there are objects.*)
ASSUME StackHasRoom ==
    /\ IsFiniteSet(Object) /\ MaxDepth \in Nat
    /\ MaxStack \in Nat /\ MaxStack >= Cardinality(Object)

(* The ways of n objects in S along the references g.                      *)
Walk(g, n, S) ==
    {p \in [1..n -> S] : \A j \in 1..n - 1 : p[j + 1] \in Range(g[p[j]])}

(* The objects found from some names along at most MaxDepth references.    *)
Near(g, names) ==
    {o \in Object : \E n \in 1..MaxDepth + 1 : \E p \in Walk(g, n, Object) :
                       p[1] \in Range(names) /\ p[n] = o}

(* What is collected are the references of these objects.                  *)
ASSUME CollectedIsNear ==
    \A x \in Inputs :
        LET used == Usable(x.refs, x.base)
            near == Near(x.refs, used)
        IN \A l \in RefLists(x.refs, used), o \in Object :
              {<<e.key, e.obj>> : e \in {d \in Range(l) : d.parent = o}} =
              IF o \in near THEN {<<k, x.refs[o][k]>> : k \in DOMAIN x.refs[o]}
              ELSE {}

(* Collecting goes through all the names of existing objects, up to one    *)
(* from which a reference leads to an object that is missing.              *)
LeadsNowhere(g, o) == \E x \in Near(g, <<o>>) : ~(Range(g[x]) \subseteq Object)

ASSUME UsableUnlessBroken ==
    \A x \in Inputs : \A n \in DOMAIN x.base :
        \/ x.base[n] \notin Object
        \/ \E m \in 1..n : LeadsNowhere(x.refs, x.base[m])
        \/ x.base[n] \in Range(Usable(x.refs, x.base))

VARIABLES
    refs,      \* spec.refs of every object: [Object -> [keys -> names]]
    base,      \* spec.values of the release
    phase,     \* of ManageValues: collect, wait, done, failed, crashed
    list,      \* hv.ValuesRef: everything collected
    parse,     \* the goroutines running parse
    c,         \* ManageValues' channel, of capacity 1
    merged,    \* ManageValues' result so far
    received,  \* and how many maps have arrived
    leaked,    \* goroutines of manageStruct blocked for ever on a send
    timeouts

vars == <<refs, base, phase, list, parse, c, merged, received, leaked, timeouts>>

(* What is used of the release's own references (New).                     *)
Named == Usable(refs, base)

-----------------------------------------------------------------------------
(* manageStruct (values.go): a stack of frames per parse goroutine. *)

(* What was collected of the references of an object, in that order.       *)
Filter(entries, parent) == {n \in DOMAIN entries : entries[n].parent = parent}
Entries(o) == Cardinality(Filter(list, o))

(* todo: the references its loop has not come to.                          *)
Frame(e, parents, entries) ==
    [obj |-> e.obj, key |-> e.key, parents |-> parents,
     todo |-> Filter(entries, e.obj), vals |-> Empty,
     merged |-> Empty, gs |-> <<>>, chan |-> <<>>]

Top(s) == s[Len(s)]
Pop(s) == SubSeq(s, 1, Len(s) - 1)
ReplaceTop(s, f) == [s EXCEPT ![Len(s)] = f]
Child(f) == list[Min(f.todo)]

(* parents is a slice: its array grows 1, 2, 4, 8, ..., and what is        *)
(* appended while it fits is written in place.  Fits: an array that holds  *)
(* n keys need not grow for m.                                             *)
Fits(n, m) == \A k \in 0..m : 2 ^ k \notin n..m - 1

(* Writing the keys of a path after the first n, one by one, overwrites    *)
(* what goroutines have still to read in that array, those of the callers  *)
(* included; the keys of a path that shares its array are all within it.   *)
Overwritten(g, path, n) ==
    IF g.shared /\ g.pc = "run"
    THEN [g EXCEPT !.keys = [j \in DOMAIN @ |->
                                IF j \in n + 1..Len(path) THEN path[j] ELSE @[j]]]
    ELSE g
Written(s, path, n) ==
    [d \in DOMAIN s |->
        [s[d] EXCEPT !.gs = [j \in DOMAIN @ |-> Overwritten(@[j], path, n)]]]

(* The head of the loop: the shared variable merged is emptied and the     *)
(* key of this object appended to parents, once per iteration.             *)
Iterate(s) ==
    LET f == Top(s)
        parents == Append(f.parents, f.key)
        t == Written(s, parents, Len(f.parents))
    IN ReplaceTop(t, [Top(t) EXCEPT !.merged = Empty, !.parents = parents])

(* getRefKeyByValue: parents and every key under which the object is       *)
(* referred to, in any order.                                              *)
(* Mutant: only the keys of the object.                                     *)
getRefKeyByValueAlone(f) ==
    SetToSeqs({k \in DOMAIN refs[f.obj] : refs[f.obj][k] = Child(f).obj})

getRefKeyByValue(f) ==
    {f.parents \o ks :
        ks \in SetToSeqs({k \in DOMAIN refs[f.obj] :
                             refs[f.obj][k] = Child(f).obj})}

(* The tail of the loop: a goroutine converts the child.                   *)
Spawned(s, keys) ==
    LET n == Len(Top(s).parents)
        t == Written(s, keys, n)
        g == [pc |-> "run", obj |-> Child(Top(s)).obj, keys |-> keys,
              shared |-> Fits(n, Len(keys))]
    IN ReplaceTop(t, [Top(t) EXCEPT !.gs = Append(@, g), !.todo = @ \ {Min(@)}])

transformToMap(o, keys) ==
    MergeUntypedMaps(Content[o], keys)

AtSelect(f) == f.todo = {}

(* Goroutines that have not sent when their frame returns: the channel has *)
(* room for one of them.                                                   *)
(* Mutant: a channel without a buffer.                                     *)
LeftBlockedUnbuffered(f) ==
    Cardinality({j \in DOMAIN f.gs : f.gs[j].pc # "sent"})

LeftBlocked(f) ==
    LET unsent == {j \in DOMAIN f.gs : f.gs[j].pc # "sent"}
    IN IF unsent = {} THEN 0 ELSE Cardinality(unsent) - 1

(* The frames after the top one has returned v: its caller merges v and    *)
(* starts the goroutine for that child; parse lays v under its own values. *)
Returned(p, v) ==
    IF Len(p.stack) = 1
    THEN {[p EXCEPT !.pc = "send", !.stack = <<>>,
                    !.value = MergeMaps(Content[Top(p.stack).obj], v)]}
    ELSE LET s == Pop(p.stack)
             t == ReplaceTop(s, [Top(s) EXCEPT !.vals = MergeMaps(@, v)])
         IN {[p EXCEPT !.stack = Spawned(t, keys)] : keys \in getRefKeyByValue(Top(t))}

Running(i) == phase = "wait" /\ parse[i].pc = "run"

(* An iteration without recursion, for a child that refers to nothing.     *)
(* Mutant: no recursion at all.                                            *)
RecursesNever(f) == FALSE

Recurses(f) == DOMAIN refs[Child(f).obj] # {}

NextChild(i) ==
    LET f == Top(parse[i].stack)  s == Iterate(parse[i].stack) IN
    /\ Running(i) /\ ~AtSelect(f) /\ ~Recurses(f)
    /\ \E keys \in getRefKeyByValue(Top(s)) :
          parse' = [parse EXCEPT ![i].stack = Spawned(s, keys)]
    /\ UNCHANGED <<refs, base, phase, list, c, merged, received, leaked, timeouts>>

(* An iteration that calls manageStruct for the child.                     *)
Recurse(i) ==
    LET f == Top(parse[i].stack)  s == Iterate(parse[i].stack) IN
    /\ Running(i) /\ ~AtSelect(f) /\ Recurses(f) /\ Len(s) < MaxStack
    /\ parse' = [parse EXCEPT ![i].stack =
                    Append(s, Frame(Child(f), Top(s).parents, list))]
    /\ UNCHANGED <<refs, base, phase, list, c, merged, received, leaked, timeouts>>

(* The stack has no room for another call, which ends the process.         *)
StackOverflow(i) ==
    LET s == parse[i].stack  f == Top(s) IN
    /\ Running(i) /\ ~AtSelect(f) /\ Recurses(f) /\ Len(s) = MaxStack
    /\ phase' = "crashed"
    /\ UNCHANGED <<refs, base, list, parse, c, merged, received, leaked, timeouts>>

(* Nothing was collected below the object: the empty map.                  *)
NothingBelow(f) == Filter(list, f.obj) = {}

ReturnEmpty(i) ==
    /\ Running(i) /\ NothingBelow(Top(parse[i].stack))
    /\ \E p \in Returned(parse[i], Empty) : parse' = [parse EXCEPT ![i] = p]
    /\ UNCHANGED <<refs, base, phase, list, c, merged, received, leaked, timeouts>>

(* select: the first map that arrives is merged and returned, whatever the *)
(* number of goroutines.                                                   *)
(* Mutant: without what is below the objects referred to.                  *)
ArrivedAlone(f) == Range(f.chan)

Arrived(f) == {MergeMaps(f.vals, m) : m \in Range(f.chan)}

ReturnFirst(i) ==
    LET f == Top(parse[i].stack) IN
    /\ Running(i) /\ AtSelect(f)
    /\ \E v \in Arrived(f) : \E p \in Returned(parse[i], v) :
          parse' = [parse EXCEPT ![i] = p]
    /\ leaked' = leaked + LeftBlocked(f)
    /\ UNCHANGED <<refs, base, phase, list, c, merged, received, timeouts>>

(* Nothing arrived for 10 seconds: every frame returns the error, and      *)
(* parse ends without sending anything.                                    *)
StructTimeout(i) ==
    LET f == Top(parse[i].stack) IN
    /\ Running(i) /\ AtSelect(f) /\ ~NothingBelow(f) /\ f.chan = <<>>
    /\ timeouts < MaxTimeouts /\ timeouts' = timeouts + 1
    /\ parse' = [parse EXCEPT ![i].pc = "gone", ![i].stack = <<>>]
    /\ leaked' = leaked + LeftBlocked(f)
    /\ UNCHANGED <<refs, base, phase, list, c, merged, received>>

(* The goroutine of child j of frame d: it writes the variable merged of   *)
(* the frame and then sends what it finds there.                           *)
Converted(f, j) ==
    [f EXCEPT !.merged = transformToMap(f.gs[j].obj, f.gs[j].keys),
              !.gs = [@ EXCEPT ![j].pc = "send"]]

Convert(i, d, j) ==
    LET f == parse[i].stack[d] IN
    /\ f.gs[j].pc = "run"
    /\ parse' = [parse EXCEPT ![i].stack[d] = Converted(f, j)]
    /\ UNCHANGED <<refs, base, phase, list, c, merged, received, leaked, timeouts>>

Sent(f, j) == [f EXCEPT !.chan = <<f.merged>>, !.gs = [@ EXCEPT ![j].pc = "sent"]]

SendChild(i, d, j) ==
    LET f == parse[i].stack[d] IN
    /\ f.gs[j].pc = "send" /\ f.chan = <<>>
    /\ parse' = [parse EXCEPT ![i].stack[d] = Sent(f, j)]
    /\ UNCHANGED <<refs, base, phase, list, c, merged, received, leaked, timeouts>>

ChildStep(i) ==
    /\ Running(i)
    /\ \E d \in DOMAIN parse[i].stack : \E j \in DOMAIN parse[i].stack[d].gs :
          SendChild(i, d, j) \/ Convert(i, d, j)

(* Mutant: a map is sent as long as there is room.                         *)
SendParsedAgain(i) ==
    /\ phase = "wait" /\ parse[i].pc = "send" /\ c = <<>>
    /\ c' = <<parse[i].value>>
    /\ UNCHANGED <<refs, base, phase, list, parse, merged, received, leaked, timeouts>>

SendParsed(i) ==
    /\ phase = "wait" /\ parse[i].pc = "send" /\ c = <<>>
    /\ c' = <<parse[i].value>>
    /\ parse' = [parse EXCEPT ![i].pc = "sent"]
    /\ UNCHANGED <<refs, base, phase, list, merged, received, leaked, timeouts>>

-----------------------------------------------------------------------------
(* New and ManageValues. *)

(* Without any reference left ManageValues returns an error.               *)
Collect ==
    /\ phase = "collect"
    /\ list' \in RefLists(refs, Named)
    /\ phase' = IF Named = <<>> THEN "failed" ELSE "wait"
    /\ parse' = [i \in DOMAIN Named |->
                    [pc |-> "run", value |-> Empty,
                     stack |-> <<Frame([obj |-> Named[i], key |-> ""], <<>>, list')>>]]
    /\ UNCHANGED <<refs, base, c, merged, received, leaked, timeouts>>

(* Mutants: the values that arrive are laid under what there is, or        *)
(* replace it.                                                             *)
LaidOverUnder(new) == MergeMaps(merged, new)

LaidOverReplaced(new) == new

LaidOver(new) == MergeMaps(new, merged)

Receive ==
    /\ phase = "wait" /\ c # <<>>
    /\ merged' = LaidOver(c[1])
    /\ received' = received + 1
    /\ c' = <<>>
    /\ phase' = IF received' = Len(parse) THEN "done" ELSE "wait"
    /\ UNCHANGED <<refs, base, list, parse, leaked, timeouts>>

(* Ten seconds without a map: certain when nobody is left to send one.     *)
(* Mutant: the timer does not wait.                                        *)
TimeoutAtOnce ==
    /\ phase = "wait" /\ c = <<>>
    /\ phase' = "failed" /\ merged' = Empty
    /\ UNCHANGED <<refs, base, list, parse, c, received, leaked, timeouts>>

Timeout ==
    /\ phase = "wait" /\ c = <<>>
    /\ IF \A i \in DOMAIN parse : parse[i].pc \in {"sent", "gone"}
       THEN UNCHANGED timeouts
       ELSE timeouts < MaxTimeouts /\ timeouts' = timeouts + 1
    /\ phase' = "failed" /\ merged' = Empty
    /\ UNCHANGED <<refs, base, list, parse, c, received, leaked>>

Ended == phase \in {"done", "failed", "crashed"}

ParseStep(i) == \/ SendParsed(i) \/ StackOverflow(i) \/ Recurse(i) \/ NextChild(i)
                \/ ReturnEmpty(i) \/ ReturnFirst(i)

Next == \/ Collect \/ Receive \/ Timeout
        \/ \E i \in DOMAIN parse :
              ChildStep(i) \/ ParseStep(i) \/ StructTimeout(i)
        \/ Ended /\ UNCHANGED vars

Init ==
    /\ \E x \in Inputs : refs = x.refs /\ base = x.base
    /\ phase = "collect" /\ list = <<>> /\ parse = <<>> /\ c = <<>>
    /\ merged = Empty /\ received = 0 /\ leaked = 0 /\ timeouts = 0

Spec == Init /\ [][Next]_vars

(* As long as a goroutine can go on, or the timer of ManageValues has to   *)
(* fire, something happens.                                                *)
FairSpec == Spec /\ WF_vars(UNCHANGED timeouts /\ Next)

-----------------------------------------------------------------------------
(* What is sent to ManageValues is received once.                          *)
ValuesTypeOK ==
    /\ phase \in {"collect", "wait", "done", "failed", "crashed"}
    /\ \A i \in DOMAIN parse :
          /\ parse[i].pc \in {"run", "send", "sent", "gone"}
          /\ (parse[i].stack # <<>>) <=> (parse[i].pc = "run")
    /\ received + Len(c) = Cardinality({i \in DOMAIN parse : parse[i].pc = "sent"})
    /\ leaked \in Nat /\ timeouts \in Nat

(* What objects have for a place, at the top or below any reference keys.  *)
Held(p) ==
    {Content[y[1]][SubSeq(p, y[2], Len(p))] :
        y \in {z \in Object \X (1..Len(p)) :
                  /\ Up(p, z[2] - 1) \in Seq(Key)
                  /\ SubSeq(p, z[2], Len(p)) \in DOMAIN Content[z[1]]}}
    \cup {v \in {Branch} : p \in Seq(Key)}

(* Nobody has a map where a datum belongs, or a datum on the way to it.    *)
Clear(p) ==
    Branch \notin Held(p) /\ \A n \in 1..Len(p) - 1 : Held(Up(p, n)) \subseteq {Branch}

(* Every object a release names contributes its own values, whatever is    *)
(* merged after them and in whatever order: at the place of each there is  *)
(* it or another object's datum for the same place.  That fails only where *)
(* one object has a datum and another a map, for which MergeMaps keeps one *)
(* of the two (config.go:115), and for objects left out because a          *)
(* reference of theirs, or of one named before, leads nowhere              *)
(* (collect.go:47).                                                        *)
OwnValuesKept ==
    phase = "done" =>
        \A n \in DOMAIN base :
            \/ base[n] \notin Object
            \/ \E m \in 1..n : LeadsNowhere(refs, base[m])
            \/ \A p \in Data(Content[base[n]]) :
                  Clear(p) => p \in Data(merged) /\ merged[p] \in Held(p)

(* A cycle of objects that are all found within MaxDepth references.       *)
ShortCycle ==
    \E n \in 2..Cardinality(Object) + 1 : \E p \in Walk(refs, n, Near(refs, Named)) :
        p[1] = p[n]

(* "secure against infinite loop" (internal/values/collect.go:63): it is,  *)
(* for collecting.  Merging follows what was collected and has no guard:   *)
(* it returns only if no cycle lies within the depth that is collected,    *)
(* and it overflows the stack only if there is one.                        *)
CyclesCrash ==
    /\ phase = "crashed" => ShortCycle
    /\ phase = "done" => ~ShortCycle

(* Goroutines stay behind only in an object with three references, or      *)
(* after a timeout.                                                        *)
LeakOnlyIfThree ==
    leaked > 0 => timeouts > 0 \/ \E o \in Object : Entries(o) > 2
=============================================================================
