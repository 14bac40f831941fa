---------------------------- MODULE ValuesProofs -----------------------------
(***************************************************************************)
(* Proofs about ValuesResolution for every value of the constants: what is *)
(* sent is received once (ValuesTypeOK), goroutines stay behind only in an *)
(* object with three references (LeakOnlyIfThree), at the place of each    *)
(* value of an object that a release names there is this value or another  *)
(* one's (OwnValuesKept), and merging ends if and only if there is no      *)
(* cycle (CyclesCrash).                                                    *)
(***************************************************************************)
EXTENDS ValuesResolution, FiniteSetTheorems, SequenceTheorems,
        WellFoundedInduction, TLAPS

-----------------------------------------------------------------------------
(* Records with maps in them.  There is no set of all maps: D is one that  *)
(* contains those that are around.                                         *)
KeySeq == Seq(Key \cup {""})
Goroutine == [pc : {"run", "send", "sent"}, obj : Object, keys : KeySeq,
              shared : BOOLEAN]
FrameOf(D) == [obj : Object, key : Key \cup {""}, parents : KeySeq,
               todo : SUBSET Nat, vals : D, merged : D,
               gs : Seq(Goroutine), chan : Seq(D)]
ParserOf(D) == [pc : {"run", "send", "sent", "gone"}, value : D,
                stack : Seq(FrameOf(D))]

(* A frame has a goroutine for each reference its loop has come to, and a  *)
(* map in its channel only after one of them has sent it.                  *)
FrameOK(f, entries) ==
    /\ f.todo \subseteq Filter(entries, f.obj)
    /\ Len(f.gs) + Cardinality(f.todo) = Cardinality(Filter(entries, f.obj))
    /\ Len(f.chan) <= 1
    /\ f.chan # <<>> => \E j \in DOMAIN f.gs : f.gs[j].pc = "sent"

(* Below the top are frames in the middle of their loop.                   *)
StackOK(s, entries) ==
    /\ \A d \in DOMAIN s : FrameOK(s[d], entries)
    /\ \A d \in DOMAIN s : d < Len(s) => s[d].todo # {}

RefsOK == \A o \in Object :
              IsFiniteSet(DOMAIN refs[o]) /\ DOMAIN refs[o] \subseteq Key

-----------------------------------------------------------------------------
(* Sets of numbers and sequences. *)

(* The least of some natural numbers.                                      *)
LEMMA LeastIn ==
  ASSUME NEW S \in SUBSET Nat, S # {}
  PROVE  \E x \in S : \A y \in S : x <= y
  <1>. DEFINE R == {p \in Nat \X Nat : p[1] < p[2]}
  <1>1. IsWellFoundedOn(R, Nat)
    BY NatLessThanWellFounded DEF OpToRel
  <1>2. PICK x \in S : \A y \in S : <<y, x>> \notin R
    BY <1>1, WFMin
  <1>3. ASSUME NEW y \in S PROVE x <= y
    <2>1. y < x => <<y, x>> \in R
      OBVIOUS
    <2>. QED
      BY <1>2, <2>1
  <1>. QED
    BY <1>3

LEMMA MinIn == ASSUME NEW S \in SUBSET Nat, S # {} PROVE Min(S) \in S
  BY LeastIn DEF Min

LEMMA FilterFinite ==
  ASSUME NEW entries \in Seq(Entry), NEW o
  PROVE  /\ Filter(entries, o) \in SUBSET Nat /\ IsFiniteSet(Filter(entries, o))
         /\ Cardinality(Filter(entries, o)) \in Nat
         /\ \A n \in Filter(entries, o) : entries[n] \in Entry
  <1>1. DOMAIN entries = 1..Len(entries) /\ IsFiniteSet(1..Len(entries))
    BY LenProperties, FS_Interval
  <1>2. Filter(entries, o) \subseteq 1..Len(entries)
    BY <1>1 DEF Filter
  <1>3. IsFiniteSet(Filter(entries, o))
    BY <1>1, <1>2, FS_Subset
  <1>. QED
    BY <1>2, <1>3, FS_CardinalityType, ElementOfSeq

(* One element of a sequence replaced.                                     *)
LEMMA Replaced ==
  ASSUME NEW S, NEW T, S \subseteq T, NEW s \in Seq(S), NEW i \in DOMAIN s, NEW x \in T
  PROVE  /\ [s EXCEPT ![i] = x] \in Seq(T)
         /\ DOMAIN [s EXCEPT ![i] = x] = DOMAIN s
         /\ Len([s EXCEPT ![i] = x]) = Len(s)
         /\ [s EXCEPT ![i] = x][i] = x
         /\ \A j \in DOMAIN s : j # i => [s EXCEPT ![i] = x][j] = s[j]
  <1>1. s \in Seq(T)
    BY SeqMonotonic
  <1>. QED
    BY <1>1, ExceptSeq, LenProperties

(* The top of a stack that is not empty, and what is below.                *)
LEMMA PopTop ==
  ASSUME NEW S, NEW s \in Seq(S), s # <<>>
  PROVE  /\ Len(s) \in Nat \ {0} /\ DOMAIN s = 1..Len(s)
         /\ Len(s) \in DOMAIN s /\ Top(s) \in S /\ Top(s) = s[Len(s)]
         /\ Pop(s) \in Seq(S) /\ Len(Pop(s)) = Len(s) - 1
         /\ \A d \in 1..Len(s) - 1 : Pop(s)[d] = s[d]
  <1>1. Len(s) \in Nat \ {0} /\ DOMAIN s = 1..Len(s)
    BY EmptySeq, LenProperties
  <1>2. Top(s) \in S
    BY <1>1, ElementOfSeq DEF Top
  <1>3. Pop(s) \in Seq(S) /\ Len(Pop(s)) = Len(s) - 1
           /\ \A d \in 1..Len(s) - 1 : Pop(s)[d] = s[d]
    BY <1>1, SubSeqProperties DEF Pop
  <1>. QED
    BY <1>1, <1>2, <1>3 DEF Top

LEMMA Grows ==
  ASSUME NEW D, NEW E, D \subseteq E
  PROVE  FrameOf(D) \subseteq FrameOf(E) /\ ParserOf(D) \subseteq ParserOf(E)
  <1>1. Seq(D) \subseteq Seq(E)
    BY SeqMonotonic
  <1>2. FrameOf(D) \subseteq FrameOf(E)
    BY <1>1 DEF FrameOf
  <1>3. Seq(FrameOf(D)) \subseteq Seq(FrameOf(E))
    BY <1>2, SeqMonotonic
  <1>. QED
    BY <1>2, <1>3 DEF ParserOf

-----------------------------------------------------------------------------
(* The operators of manageStruct. *)

LEMMA FrameFacts ==
  ASSUME list \in Seq(Entry), NEW D, NEW f \in FrameOf(D), FrameOK(f, list)
  PROVE  /\ f.todo \in SUBSET Nat /\ IsFiniteSet(f.todo) /\ Cardinality(f.todo) \in Nat
         /\ f.gs \in Seq(Goroutine) /\ Len(f.gs) \in Nat
         /\ DOMAIN f.gs = 1..Len(f.gs)
         /\ f.obj \in Object
         /\ Entries(f.obj) = Len(f.gs) + Cardinality(f.todo)
         /\ f.todo # {} => /\ Min(f.todo) \in f.todo
                           /\ Child(f) \in Entry
  <1>1. f.todo \in SUBSET Nat /\ f.gs \in Seq(Goroutine) /\ f.obj \in Object
    BY DEF FrameOf
  <1>2. f.todo \subseteq Filter(list, f.obj)
    BY DEF FrameOK
  <1>3. IsFiniteSet(f.todo) /\ Cardinality(f.todo) \in Nat
    BY <1>2, FilterFinite, FS_Subset, FS_CardinalityType
  <1>4. f.todo # {} => Min(f.todo) \in f.todo
    BY <1>1, MinIn
  <1>5. f.todo # {} => Child(f) \in Entry
    BY <1>2, <1>4, FilterFinite DEF Child
  <1>6. Len(f.gs) \in Nat /\ DOMAIN f.gs = 1..Len(f.gs)
    BY <1>1, LenProperties
  <1>7. Entries(f.obj) = Len(f.gs) + Cardinality(f.todo)
    BY DEF FrameOK, Entries
  <1>. QED
    BY <1>1, <1>3, <1>4, <1>5, <1>6, <1>7

LEMMA FreshOK ==
  ASSUME NEW f, NEW entries, f.todo = Filter(entries, f.obj),
         Cardinality(f.todo) \in Nat, f.gs = <<>>, f.chan = <<>>
  PROVE  FrameOK(f, entries)
  <1>1. Len(<<>>) = 0
    BY EmptySeq
  <1>2. Len(f.gs) = 0 /\ Len(f.chan) = 0
    BY <1>1, Zenon
  <1>3. Len(f.gs) + Cardinality(f.todo) = Cardinality(f.todo)
    BY <1>2
  <1>4. Len(f.chan) <= 1
    BY <1>2
  <1>. QED
    BY <1>3, <1>4, Zenon DEF FrameOK

LEMMA NewFrame ==
  ASSUME NEW entries \in Seq(Entry), NEW D, Empty \in D,
         NEW e, NEW o \in Object, e.obj = o, e.key \in Key \cup {""},
         NEW parents \in KeySeq
  PROVE  /\ Frame(e, parents, entries) \in FrameOf(D)
         /\ FrameOK(Frame(e, parents, entries), entries)
         /\ Frame(e, parents, entries).obj = o
  <1>. DEFINE f == Frame(e, parents, entries)
  <1>1. Filter(entries, o) \in SUBSET Nat
           /\ Cardinality(Filter(entries, o)) \in Nat
    BY FilterFinite
  <1>2. <<>> \in Seq(Goroutine) /\ <<>> \in Seq(D)
    BY EmptySeq
  <1>3. f \in FrameOf(D)
    BY <1>1, <1>2 DEF Frame, FrameOf
  <1>4. f.obj = o /\ f.todo = Filter(entries, o) /\ f.gs = <<>> /\ f.chan = <<>>
    BY DEF Frame
  <1>5. FrameOK(f, entries)
    BY <1>1, <1>4, FreshOK
  <1>. QED
    BY <1>3, <1>4, <1>5

LEMMA OverwrittenType ==
  ASSUME NEW g \in Goroutine, NEW path \in KeySeq, NEW n \in Nat
  PROVE  Overwritten(g, path, n) \in Goroutine /\ Overwritten(g, path, n).pc = g.pc
  <1>1. CASE g.shared /\ g.pc = "run"
    <2>. DEFINE keys == [j \in DOMAIN g.keys |->
                           IF j \in n + 1..Len(path) THEN path[j] ELSE g.keys[j]]
    <2>1. /\ Len(g.keys) \in Nat /\ DOMAIN g.keys = 1..Len(g.keys)
          /\ \A j \in DOMAIN g.keys : g.keys[j] \in Key \cup {""}
      <3>1. g.keys \in Seq(Key \cup {""})
        BY DEF Goroutine, KeySeq
      <3>2. Len(g.keys) \in Nat /\ DOMAIN g.keys = 1..Len(g.keys)
        BY <3>1, LenProperties
      <3>. QED
        BY <3>1, <3>2, ElementOfSeq
    <2>2. \A j \in n + 1..Len(path) : path[j] \in Key \cup {""}
      <3>1. Len(path) \in Nat /\ DOMAIN path = 1..Len(path)
        BY LenProperties DEF KeySeq
      <3>2. \A j \in n + 1..Len(path) : j \in 1..Len(path)
        BY <3>1
      <3>. QED
        BY <3>1, <3>2, ElementOfSeq DEF KeySeq
    <2>3. keys \in [1..Len(g.keys) -> Key \cup {""}]
      BY <2>1, <2>2
    <2>4. keys \in KeySeq
      <3>. HIDE DEF keys
      <3>. QED
        BY <2>1, <2>3, SeqDef DEF KeySeq
    <2>5. Overwritten(g, path, n) = [g EXCEPT !.keys = keys]
      BY <1>1 DEF Overwritten
    <2>. HIDE DEF keys
    <2>. QED
      BY <2>4, <2>5 DEF Goroutine
  <1>2. CASE ~(g.shared /\ g.pc = "run")
    BY <1>2 DEF Overwritten
  <1>. QED
    BY <1>1, <1>2

(* A frame some of whose goroutines have other keys.                       *)
LEMMA FrameWritten ==
  ASSUME NEW entries, NEW D, NEW f \in FrameOf(D), FrameOK(f, entries),
         NEW path \in KeySeq, NEW n \in Nat
  PROVE  LET h == [f EXCEPT !.gs = [j \in DOMAIN f.gs |-> Overwritten(f.gs[j], path, n)]]
         IN /\ h \in FrameOf(D) /\ FrameOK(h, entries)
            /\ h.todo = f.todo /\ h.obj = f.obj
  <1>. DEFINE gs == [j \in DOMAIN f.gs |-> Overwritten(f.gs[j], path, n)]
              h == [f EXCEPT !.gs = gs]
  <1>1. f.gs \in Seq(Goroutine) /\ Len(f.gs) \in Nat /\ DOMAIN f.gs = 1..Len(f.gs)
           /\ \A j \in DOMAIN f.gs : f.gs[j] \in Goroutine
    BY LenProperties, ElementOfSeq DEF FrameOf
  <1>2. \A j \in DOMAIN f.gs : gs[j] \in Goroutine /\ gs[j].pc = f.gs[j].pc
    BY <1>1, OverwrittenType
  <1>3. gs \in Seq(Goroutine) /\ Len(gs) = Len(f.gs) /\ DOMAIN gs = DOMAIN f.gs
    <2>1. gs \in [1..Len(f.gs) -> Goroutine]
      BY <1>1, <1>2
    <2>. QED
      BY <1>1, <2>1, LenProperties
  <1>. HIDE DEF gs
  <1>4. h \in FrameOf(D) /\ h.todo = f.todo /\ h.obj = f.obj /\ h.gs = gs
           /\ h.chan = f.chan
    BY <1>3 DEF FrameOf
  <1>5. FrameOK(h, entries)
    BY <1>2, <1>3, <1>4 DEF FrameOK
  <1>. QED
    BY <1>4, <1>5 DEF gs

LEMMA KeysFound ==
  ASSUME RefsOK, NEW D, NEW f \in FrameOf(D), NEW keys \in getRefKeyByValue(f)
  PROVE  keys \in KeySeq
  <1>. DEFINE K == {k \in DOMAIN refs[f.obj] : refs[f.obj][k] = Child(f).obj}
  <1>1. f.obj \in Object /\ f.parents \in KeySeq
    BY DEF FrameOf
  <1>2. IsFiniteSet(K) /\ K \subseteq Key
    BY <1>1, FS_Subset DEF RefsOK
  <1>3. PICK ks \in SetToSeqs(K) : keys = f.parents \o ks
    BY DEF getRefKeyByValue
  <1>4. ks \in [1..Cardinality(K) -> K]
    BY DEF SetToSeqs
  <1>5. ks \in KeySeq
    <2>1. Cardinality(K) \in Nat
      BY <1>2, FS_CardinalityType
    <2>2. ks \in Seq(K)
      BY <1>4, <2>1, SeqDef
    <2>. QED
      BY <1>2, <2>2, SeqMonotonic DEF KeySeq
  <1>. QED
    BY <1>1, <1>3, <1>5, ConcatProperties DEF KeySeq

LEMMA FrameSpawned ==
  ASSUME list \in Seq(Entry), NEW D, NEW f \in FrameOf(D), FrameOK(f, list),
         f.todo # {}, NEW g \in Goroutine
  PROVE  LET h == [f EXCEPT !.gs = Append(f.gs, g), !.todo = f.todo \ {Min(f.todo)}] IN
         /\ h \in FrameOf(D) /\ FrameOK(h, list)
         /\ h.obj = f.obj /\ h.todo = f.todo \ {Min(f.todo)}
  <1>. DEFINE gs == Append(f.gs, g)
              todo == f.todo \ {Min(f.todo)}
              h == [f EXCEPT !.gs = gs, !.todo = todo]
  <1>2. /\ f.todo \in SUBSET Nat /\ IsFiniteSet(f.todo) /\ Min(f.todo) \in f.todo
        /\ Cardinality(f.todo) \in Nat /\ f.gs \in Seq(Goroutine) /\ Len(f.gs) \in Nat
    BY FrameFacts
  <1>3. /\ gs \in Seq(Goroutine) /\ Len(gs) = Len(f.gs) + 1 /\ DOMAIN gs = 1..Len(f.gs) + 1
        /\ \A j \in 1..Len(f.gs) : gs[j] = f.gs[j]
    BY <1>2, AppendProperties, LenProperties
  <1>4. Cardinality(todo) = Cardinality(f.todo) - 1
    BY <1>2, FS_RemoveElement
  <1>5. todo \in SUBSET Nat
    BY <1>2
  <1>. HIDE DEF gs, todo
  <1>6. h \in FrameOf(D)
    BY <1>3, <1>5 DEF FrameOf
  <1>7. h.obj = f.obj /\ h.gs = gs /\ h.todo = todo /\ h.chan = f.chan
    BY DEF FrameOf
  <1>8. Len(h.gs) + Cardinality(h.todo) = Cardinality(Filter(list, f.obj))
    BY <1>2, <1>3, <1>4, <1>7 DEF FrameOK
  <1>9. h.chan # <<>> => \E j \in DOMAIN h.gs : h.gs[j].pc = "sent"
    <2>1. DOMAIN f.gs = 1..Len(f.gs)
      BY <1>2, LenProperties
    <2>. QED
      BY <1>2, <1>3, <1>7, <2>1 DEF FrameOK
  <1>10. FrameOK(h, list)
    BY <1>2, <1>7, <1>8, <1>9 DEF FrameOK, todo
  <1>. QED
    BY <1>6, <1>7, <1>10 DEF gs, todo

LEMMA MarkedGoroutine ==
  ASSUME NEW D, NEW f \in FrameOf(D), NEW j \in DOMAIN f.gs, NEW pc \in {"send", "sent"}
  PROVE  LET gs == [f.gs EXCEPT ![j].pc = pc] IN
         /\ gs \in Seq(Goroutine) /\ Len(gs) = Len(f.gs) /\ DOMAIN gs = DOMAIN f.gs
         /\ gs[j].pc = pc /\ \A k \in DOMAIN f.gs : k # j => gs[k] = f.gs[k]
  <1>. DEFINE g == [f.gs[j] EXCEPT !.pc = pc]
  <1>1. f.gs \in Seq(Goroutine)
    BY DEF FrameOf
  <1>2. f.gs[j] \in Goroutine
    BY <1>1, LenProperties, ElementOfSeq
  <1>3. g \in Goroutine /\ g.pc = pc
    BY <1>2 DEF Goroutine
  <1>. HIDE DEF g
  <1>4. /\ [f.gs EXCEPT ![j] = g] \in Seq(Goroutine)
        /\ DOMAIN [f.gs EXCEPT ![j] = g] = DOMAIN f.gs
        /\ Len([f.gs EXCEPT ![j] = g]) = Len(f.gs)
        /\ [f.gs EXCEPT ![j] = g][j] = g
        /\ \A k \in DOMAIN f.gs : k # j => [f.gs EXCEPT ![j] = g][k] = f.gs[k]
    BY <1>1, <1>3, Replaced
  <1>. QED
    BY <1>3, <1>4 DEF g

LEMMA ConvertedOK ==
  ASSUME NEW entries, NEW D, NEW E, D \subseteq E,
         NEW f \in FrameOf(D), FrameOK(f, entries), NEW j \in DOMAIN f.gs,
         f.gs[j].pc = "run", transformToMap(f.gs[j].obj, f.gs[j].keys) \in E
  PROVE  /\ Converted(f, j) \in FrameOf(E) /\ FrameOK(Converted(f, j), entries)
         /\ Converted(f, j).obj = f.obj /\ Converted(f, j).todo = f.todo
  <1>. DEFINE v == transformToMap(f.gs[j].obj, f.gs[j].keys)
              gs == [f.gs EXCEPT ![j].pc = "send"]
              h == Converted(f, j)
  <1>1. /\ gs \in Seq(Goroutine) /\ Len(gs) = Len(f.gs) /\ DOMAIN gs = DOMAIN f.gs
        /\ \A k \in DOMAIN f.gs : k # j => gs[k] = f.gs[k]
    BY MarkedGoroutine
  <1>2. f \in FrameOf(E)
    BY Grows
  <1>3. h = [f EXCEPT !.merged = v, !.gs = gs]
    BY DEF Converted
  <1>. HIDE DEF v, gs
  <1>4. h \in FrameOf(E)
    BY <1>1, <1>2, <1>3 DEF FrameOf, v
  <1>5. h.obj = f.obj /\ h.todo = f.todo /\ h.gs = gs /\ h.chan = f.chan
    BY <1>2, <1>3 DEF FrameOf
  <1>6. FrameOK(h, entries)
    BY <1>1, <1>5 DEF FrameOK
  <1>. QED
    BY <1>4, <1>5, <1>6

LEMMA SentOK ==
  ASSUME NEW entries, NEW D, NEW f \in FrameOf(D), FrameOK(f, entries),
         NEW j \in DOMAIN f.gs
  PROVE  /\ Sent(f, j) \in FrameOf(D) /\ FrameOK(Sent(f, j), entries)
         /\ Sent(f, j).obj = f.obj /\ Sent(f, j).todo = f.todo
  <1>. DEFINE gs == [f.gs EXCEPT ![j].pc = "sent"]
              h == Sent(f, j)
  <1>1. /\ gs \in Seq(Goroutine) /\ Len(gs) = Len(f.gs) /\ DOMAIN gs = DOMAIN f.gs
        /\ gs[j].pc = "sent"
    BY MarkedGoroutine
  <1>2. h = [f EXCEPT !.chan = <<f.merged>>, !.gs = gs]
    BY DEF Sent
  <1>. HIDE DEF gs
  <1>3. <<f.merged>> \in Seq(D) /\ Len(<<f.merged>>) = 1
    <2>1. f.merged \in D
      BY DEF FrameOf
    <2>. HIDE DEF h
    <2>. QED
      BY <2>1
  <1>4. h \in FrameOf(D)
    BY <1>1, <1>2, <1>3 DEF FrameOf
  <1>5. h.obj = f.obj /\ h.todo = f.todo /\ h.gs = gs /\ h.chan = <<f.merged>>
    BY <1>2 DEF FrameOf
  <1>6. Len(h.chan) <= 1
    BY <1>3, <1>5
  <1>7. FrameOK(h, entries)
    BY <1>1, <1>5, <1>6 DEF FrameOK
  <1>. QED
    BY <1>4, <1>5, <1>7

(* Of the goroutines of a frame that returns one has sent; so two that     *)
(* have not are there only if there are three.                             *)
LEMMA LeftBlockedFacts ==
  ASSUME list \in Seq(Entry), NEW D, NEW f \in FrameOf(D), FrameOK(f, list)
  PROVE  /\ LeftBlocked(f) \in Nat
         /\ f.chan # <<>> /\ AtSelect(f) /\ LeftBlocked(f) > 0
               => Entries(f.obj) > 2
  <1>. DEFINE unsent == {j \in DOMAIN f.gs : f.gs[j].pc # "sent"}
              n == Len(f.gs)
  <1>1. n \in Nat /\ DOMAIN f.gs = 1..n /\ Entries(f.obj) = n + Cardinality(f.todo)
    BY FrameFacts
  <1>2. IsFiniteSet(1..n) /\ Cardinality(1..n) = n
    BY <1>1, FS_Interval
  <1>3. IsFiniteSet(unsent) /\ Cardinality(unsent) \in Nat
           /\ (unsent # {} => Cardinality(unsent) # 0)
    <2>1. unsent \subseteq 1..n
      BY <1>1
    <2>2. IsFiniteSet(unsent)
      BY <1>2, <2>1, FS_Subset
    <2>3. Cardinality(unsent) \in Nat
      BY <2>2, FS_CardinalityType
    <2>. HIDE DEF unsent
    <2>4. unsent # {} => Cardinality(unsent) # 0
      BY <2>2, FS_EmptySet
    <2>. QED
      BY <2>2, <2>3, <2>4
  <1>4. LeftBlocked(f) \in Nat
    BY <1>3 DEF LeftBlocked
  <1>5. ASSUME f.chan # <<>>, AtSelect(f), LeftBlocked(f) > 0
        PROVE  Entries(f.obj) > 2
    <2>1. PICK j \in 1..n : f.gs[j].pc = "sent"
      BY <1>1, <1>5 DEF FrameOK
    <2>2. IsFiniteSet((1..n) \ {j}) /\ Cardinality((1..n) \ {j}) = n - 1
      <3>. DEFINE I == 1..n
      <3>1. j \in I /\ IsFiniteSet(I) /\ Cardinality(I) = n
        BY <1>2
      <3>. HIDE DEF I
      <3>2. IsFiniteSet(I \ {j}) /\ Cardinality(I \ {j}) = Cardinality(I) - 1
        BY <3>1, FS_RemoveElement, Zenon
      <3>3. IsFiniteSet(I \ {j}) /\ Cardinality(I \ {j}) = n - 1
        BY <3>1, <3>2
      <3>. QED
        BY <3>3 DEF I
    <2>3. unsent \subseteq (1..n) \ {j}
      BY <1>1, <2>1
    <2>4. Cardinality(unsent) <= n - 1
      BY <2>2, <2>3, FS_Subset
    <2>5. Cardinality(unsent) >= 2
      BY <1>3, <1>5 DEF LeftBlocked
    <2>6. Cardinality(f.todo) = 0
      BY <1>5, FS_EmptySet DEF AtSelect
    <2>. QED
      BY <1>1, <1>3, <2>4, <2>5, <2>6
  <1>. QED
    BY <1>4, <1>5

-----------------------------------------------------------------------------
(* The stack of a goroutine. *)

(* A frame somewhere on the stack replaced, its loop where it was or on    *)
(* top of the stack.                                                       *)
LEMMA ReplacedFrame ==
  ASSUME NEW entries, NEW D, NEW E, D \subseteq E,
         NEW s \in Seq(FrameOf(D)), StackOK(s, entries), NEW d \in DOMAIN s,
         NEW f \in FrameOf(E), FrameOK(f, entries), f.obj = s[d].obj,
         d < Len(s) => f.todo = s[d].todo
  PROVE  LET t == [s EXCEPT ![d] = f] IN
         /\ t \in Seq(FrameOf(E)) /\ StackOK(t, entries)
         /\ Len(t) = Len(s) /\ t # <<>> /\ t[1].obj = s[1].obj /\ t[d] = f
  <1>. DEFINE t == [s EXCEPT ![d] = f]
  <1>1. /\ t \in Seq(FrameOf(E)) /\ DOMAIN t = DOMAIN s /\ Len(t) = Len(s)
        /\ t[d] = f /\ \A k \in DOMAIN s : k # d => t[k] = s[k]
    BY Grows, Replaced
  <1>2. DOMAIN s = 1..Len(s) /\ Len(s) \in Nat
    BY LenProperties
  <1>. HIDE DEF t
  <1>3. StackOK(t, entries)
    BY <1>1 DEF StackOK
  <1>4. t # <<>>
    BY <1>1, <1>2, EmptySeq
  <1>5. t[1].obj = s[1].obj
    BY <1>1, <1>2
  <1>. QED
    BY <1>1, <1>3, <1>4, <1>5 DEF t

LEMMA ReplacedTop ==
  ASSUME NEW entries, NEW D, NEW E, D \subseteq E,
         NEW s \in Seq(FrameOf(D)), StackOK(s, entries), s # <<>>,
         NEW f \in FrameOf(E), FrameOK(f, entries), f.obj = Top(s).obj
  PROVE  ReplaceTop(s, f) \in Seq(FrameOf(E)) /\ StackOK(ReplaceTop(s, f), entries)
  <1>1. Len(s) \in DOMAIN s /\ Top(s) = s[Len(s)] /\ Len(s) \in Nat
    BY PopTop
  <1>. QED
    BY <1>1, ReplacedFrame DEF ReplaceTop

LEMMA ReplacedNotEmpty ==
  ASSUME NEW entries, NEW D, NEW E, D \subseteq E,
         NEW s \in Seq(FrameOf(D)), StackOK(s, entries), s # <<>>,
         NEW f \in FrameOf(E), FrameOK(f, entries), f.obj = Top(s).obj
  PROVE  ReplaceTop(s, f) # <<>> /\ Top(ReplaceTop(s, f)) = f
  <1>1. Len(s) \in DOMAIN s /\ Top(s) = s[Len(s)] /\ Len(s) \in Nat
    BY PopTop
  <1>. QED
    BY <1>1, ReplacedFrame DEF ReplaceTop, Top

LEMMA ReplacedBottom ==
  ASSUME NEW entries, NEW D, NEW E, D \subseteq E,
         NEW s \in Seq(FrameOf(D)), StackOK(s, entries), s # <<>>,
         NEW f \in FrameOf(E), FrameOK(f, entries), f.obj = Top(s).obj
  PROVE  ReplaceTop(s, f)[1].obj = s[1].obj
  <1>1. Len(s) \in DOMAIN s /\ Top(s) = s[Len(s)] /\ Len(s) \in Nat
    BY PopTop
  <1>. QED
    BY <1>1, ReplacedFrame DEF ReplaceTop

LEMMA Popped ==
  ASSUME NEW entries, NEW D, NEW s \in Seq(FrameOf(D)), StackOK(s, entries),
         s # <<>>, Len(s) # 1
  PROVE  /\ Pop(s) \in Seq(FrameOf(D)) /\ StackOK(Pop(s), entries) /\ Pop(s) # <<>>
         /\ Pop(s)[1] = s[1] /\ Top(Pop(s)).todo # {}
         /\ Top(Pop(s)) \in FrameOf(D) /\ FrameOK(Top(Pop(s)), entries)
  <1>1. /\ Len(s) \in Nat \ {0} /\ DOMAIN s = 1..Len(s)
        /\ Pop(s) \in Seq(FrameOf(D)) /\ Len(Pop(s)) = Len(s) - 1
        /\ \A d \in 1..Len(s) - 1 : Pop(s)[d] = s[d]
    BY PopTop
  <1>2. DOMAIN Pop(s) = 1..Len(s) - 1
    BY <1>1, LenProperties
  <1>3. Pop(s) # <<>>
    BY <1>1, EmptySeq
  <1>4. Top(Pop(s)) = s[Len(s) - 1] /\ Len(s) - 1 \in DOMAIN s
    BY <1>1 DEF Top
  <1>5. StackOK(Pop(s), entries)
    BY <1>1, <1>2 DEF StackOK
  <1>6. Top(Pop(s)).todo # {} /\ FrameOK(Top(Pop(s)), entries)
    BY <1>1, <1>4 DEF StackOK
  <1>7. Pop(s)[1] = s[1]
    BY <1>1
  <1>. QED
    BY <1>1, <1>3, <1>5, <1>6, <1>7, PopTop

LEMMA Pushed ==
  ASSUME NEW entries, NEW D, NEW s \in Seq(FrameOf(D)), StackOK(s, entries),
         s # <<>>, Top(s).todo # {}, NEW f \in FrameOf(D), FrameOK(f, entries)
  PROVE  /\ Append(s, f) \in Seq(FrameOf(D)) /\ StackOK(Append(s, f), entries)
         /\ Append(s, f) # <<>> /\ Append(s, f)[1] = s[1]
  <1>1. Len(s) \in Nat \ {0} /\ DOMAIN s = 1..Len(s) /\ Top(s) = s[Len(s)]
    BY PopTop
  <1>2. /\ Append(s, f) \in Seq(FrameOf(D)) /\ Len(Append(s, f)) = Len(s) + 1
        /\ \A d \in 1..Len(s) : Append(s, f)[d] = s[d]
        /\ Append(s, f)[Len(s) + 1] = f
    BY AppendProperties
  <1>3. DOMAIN Append(s, f) = 1..Len(s) + 1
    BY <1>2, LenProperties
  <1>4. Append(s, f) # <<>>
    BY <1>1, <1>2, EmptySeq
  <1>5. ASSUME NEW d \in 1..Len(s) + 1
        PROVE  /\ FrameOK(Append(s, f)[d], entries)
               /\ d < Len(s) + 1 => Append(s, f)[d].todo # {}
    <2>1. CASE d = Len(s) + 1
      <3>1. ~(d < Len(s) + 1)
        BY <1>1, <2>1
      <3>. QED
        BY <1>2, <2>1, <3>1, Zenon
    <2>2. CASE d # Len(s) + 1
      <3>. Len(s) \in Nat
        BY <1>1
      <3>1. d \in 1..Len(s) /\ (d < Len(s) \/ d = Len(s))
        BY <2>2
      <3>2. Append(s, f)[d] = s[d] /\ d \in DOMAIN s
        BY <1>1, <1>2, <3>1
      <3>3. FrameOK(s[d], entries) /\ s[d].todo # {}
        BY <1>1, <3>1, <3>2 DEF StackOK
      <3>. QED
        BY <3>2, <3>3, Zenon
    <2>. QED
      BY <2>1, <2>2
  <1>6. StackOK(Append(s, f), entries)
    BY <1>2, <1>3, <1>5, Zenon DEF StackOK
  <1>. QED
    BY <1>1, <1>2, <1>4, <1>6

LEMMA TopOK ==
  ASSUME NEW entries, NEW D, NEW s \in Seq(FrameOf(D)), StackOK(s, entries), s # <<>>
  PROVE  /\ Top(s) \in FrameOf(D) /\ FrameOK(Top(s), entries)
         /\ Len(s) \in DOMAIN s /\ Top(s) = s[Len(s)]
  <1>1. Top(s) \in FrameOf(D) /\ Len(s) \in DOMAIN s /\ Top(s) = s[Len(s)]
    BY PopTop
  <1>2. FrameOK(Top(s), entries)
    BY <1>1 DEF StackOK
  <1>. QED
    BY <1>1, <1>2

(* Stacks with the same objects in the middle of the same loops.           *)
Like(t, s) ==
    /\ DOMAIN t = DOMAIN s /\ Len(t) = Len(s)
    /\ \A d \in DOMAIN s : t[d].obj = s[d].obj /\ t[d].todo = s[d].todo

LEMMA LikeTop ==
  ASSUME NEW D, NEW E, NEW s \in Seq(FrameOf(D)), s # <<>>,
         NEW t \in Seq(FrameOf(E)), Like(t, s)
  PROVE  /\ t # <<>> /\ t[1].obj = s[1].obj
         /\ Top(t).obj = Top(s).obj /\ Top(t).todo = Top(s).todo
         /\ Child(Top(t)) = Child(Top(s))
  <1>1. Len(s) \in Nat \ {0} /\ DOMAIN s = 1..Len(s) /\ Len(t) = Len(s)
    BY PopTop DEF Like
  <1>2. t # <<>>
    BY <1>1, EmptySeq
  <1>3. 1 \in DOMAIN s /\ Len(s) \in DOMAIN s
    BY <1>1
  <1>4. Top(t).obj = Top(s).obj /\ Top(t).todo = Top(s).todo
    BY <1>1, <1>3 DEF Like, Top
  <1>. QED
    BY <1>2, <1>3, <1>4 DEF Like, Child

LEMMA WrittenOK ==
  ASSUME NEW entries, NEW D, NEW s \in Seq(FrameOf(D)), StackOK(s, entries),
         NEW path \in KeySeq, NEW n \in Nat
  PROVE  /\ Written(s, path, n) \in Seq(FrameOf(D)) /\ StackOK(Written(s, path, n), entries)
         /\ Like(Written(s, path, n), s)
  <1>. DEFINE h(f) == [f EXCEPT !.gs = [j \in DOMAIN f.gs |->
                                           Overwritten(f.gs[j], path, n)]]
              t == Written(s, path, n)
  <1>1. DOMAIN s = 1..Len(s) /\ Len(s) \in Nat
    BY LenProperties
  <1>2. DOMAIN t = DOMAIN s /\ \A d \in DOMAIN s : t[d] = h(s[d])
    BY DEF Written
  <1>3. ASSUME NEW d \in DOMAIN s
        PROVE  /\ t[d] \in FrameOf(D) /\ FrameOK(t[d], entries)
               /\ t[d].todo = s[d].todo /\ t[d].obj = s[d].obj
    <2>1. s[d] \in FrameOf(D) /\ FrameOK(s[d], entries)
      BY ElementOfSeq, LenProperties DEF StackOK
    <2>2. /\ h(s[d]) \in FrameOf(D) /\ FrameOK(h(s[d]), entries)
          /\ h(s[d]).todo = s[d].todo /\ h(s[d]).obj = s[d].obj
      BY <2>1, FrameWritten
    <2>3. t[d] = h(s[d])
      BY <1>2
    <2>. HIDE DEF t, h
    <2>. QED
      BY <2>2, <2>3
  <1>4. t \in Seq(FrameOf(D)) /\ Len(t) = Len(s)
    <2>1. t \in [1..Len(s) -> FrameOf(D)]
      BY <1>1, <1>2, <1>3 DEF Written
    <2>. HIDE DEF t
    <2>. QED
      BY <1>1, <2>1, SeqDef, LenProperties
  <1>. HIDE DEF t
  <1>5. Like(t, s)
    BY <1>2, <1>3, <1>4 DEF Like
  <1>6. StackOK(t, entries)
    BY <1>2, <1>3, <1>4 DEF StackOK
  <1>. QED
    BY <1>4, <1>5, <1>6 DEF t

(* The top replaced by a frame that is in the same loop.                   *)
LEMMA TopLike ==
  ASSUME NEW entries, NEW D, NEW s \in Seq(FrameOf(D)), StackOK(s, entries), s # <<>>,
         NEW f \in FrameOf(D), FrameOK(f, entries), f.obj = Top(s).obj,
         f.todo = Top(s).todo
  PROVE  LET t == ReplaceTop(s, f) IN
         t \in Seq(FrameOf(D)) /\ StackOK(t, entries) /\ Like(t, s) /\ Top(t) = f
  <1>. DEFINE t == ReplaceTop(s, f)
  <1>1. t \in Seq(FrameOf(D)) /\ StackOK(t, entries)
    BY ReplacedTop
  <1>2. Top(t) = f
    BY ReplacedNotEmpty
  <1>3. Len(s) \in DOMAIN s /\ Top(s) = s[Len(s)]
    BY PopTop
  <1>4. /\ DOMAIN t = DOMAIN s /\ Len(t) = Len(s) /\ t[Len(s)] = f
        /\ \A d \in DOMAIN s : d # Len(s) => t[d] = s[d]
    BY <1>3, Replaced DEF ReplaceTop
  <1>. HIDE DEF t
  <1>5. Like(t, s)
    BY <1>3, <1>4 DEF Like
  <1>. QED
    BY <1>1, <1>2, <1>5 DEF t

LEMMA Iterated ==
  ASSUME NEW entries, NEW D, Empty \in D, NEW s \in Seq(FrameOf(D)),
         StackOK(s, entries), s # <<>>
  PROVE  /\ Iterate(s) \in Seq(FrameOf(D)) /\ StackOK(Iterate(s), entries)
         /\ Like(Iterate(s), s) /\ Top(Iterate(s)).parents \in KeySeq
  <1>. DEFINE f == Top(s)
              parents == Append(f.parents, f.key)
              n == Len(f.parents)
              t == Written(s, parents, n)
              h == [Top(t) EXCEPT !.merged = Empty, !.parents = parents]
  <1>1. f \in FrameOf(D)
    BY PopTop
  <1>2. parents \in KeySeq /\ n \in Nat
    BY <1>1, AppendProperties, LenProperties DEF FrameOf, KeySeq
  <1>. HIDE DEF parents, n
  <1>3. t \in Seq(FrameOf(D)) /\ StackOK(t, entries) /\ Like(t, s)
    BY <1>2, WrittenOK
  <1>. HIDE DEF t
  <1>4. t # <<>>
    BY <1>3, LikeTop
  <1>5. Top(t) \in FrameOf(D) /\ FrameOK(Top(t), entries)
    BY <1>3, <1>4, TopOK
  <1>6. /\ h \in FrameOf(D) /\ h.obj = Top(t).obj /\ h.todo = Top(t).todo
        /\ h.gs = Top(t).gs /\ h.chan = Top(t).chan /\ h.parents = parents
    BY <1>2, <1>5 DEF FrameOf
  <1>7. FrameOK(h, entries)
    BY <1>5, <1>6 DEF FrameOK
  <1>8. Iterate(s) = ReplaceTop(t, h)
    BY DEF Iterate, t, parents, n
  <1>. HIDE DEF h
  <1>9. /\ ReplaceTop(t, h) \in Seq(FrameOf(D)) /\ StackOK(ReplaceTop(t, h), entries)
        /\ Like(ReplaceTop(t, h), t) /\ Top(ReplaceTop(t, h)) = h
    BY <1>3, <1>4, <1>6, <1>7, TopLike
  <1>10. Like(ReplaceTop(t, h), s)
    BY <1>3, <1>9 DEF Like
  <1>. QED
    BY <1>2, <1>6, <1>8, <1>9, <1>10

(* A goroutine started for the child at hand.                              *)
LEMMA SpawnedOK ==
  ASSUME list \in Seq(Entry), NEW D, NEW s \in Seq(FrameOf(D)), StackOK(s, list),
         s # <<>>, Top(s).todo # {}, NEW keys \in KeySeq
  PROVE  LET u == Spawned(s, keys) IN
         /\ u \in Seq(FrameOf(D)) /\ StackOK(u, list) /\ u # <<>>
         /\ DOMAIN u = DOMAIN s /\ Len(u) = Len(s) /\ u[1].obj = s[1].obj
         /\ \A d \in DOMAIN s : u[d].obj = s[d].obj
         /\ \A d \in DOMAIN s : d # Len(s) => u[d].todo = s[d].todo
         /\ u[Len(s)].todo = Top(s).todo \ {Min(Top(s).todo)}
  <1>. DEFINE n == Len(Top(s).parents)
              t == Written(s, keys, n)
              g == [pc |-> "run", obj |-> Child(Top(s)).obj, keys |-> keys,
                    shared |-> Fits(n, Len(keys))]
              f == Top(t)
              h == [f EXCEPT !.gs = Append(f.gs, g), !.todo = f.todo \ {Min(f.todo)}]
              u == ReplaceTop(t, h)
  <1>1. Top(s) \in FrameOf(D) /\ FrameOK(Top(s), list) /\ Len(s) \in DOMAIN s
    BY TopOK
  <1>2. n \in Nat
    BY <1>1, LenProperties DEF FrameOf, KeySeq
  <1>3. g \in Goroutine
    <2>1. Child(Top(s)).obj \in Object
      BY <1>1, FrameFacts DEF Entry
    <2>2. Fits(n, Len(keys)) \in BOOLEAN
      BY DEF Fits
    <2>. QED
      BY <2>1, <2>2 DEF Goroutine
  <1>. HIDE DEF n, g
  <1>4. t \in Seq(FrameOf(D)) /\ StackOK(t, list) /\ Like(t, s)
    BY <1>2, WrittenOK
  <1>5. Spawned(s, keys) = u
    BY DEF Spawned, n, g
  <1>. HIDE DEF t
  <1>6. t # <<>> /\ f.todo = Top(s).todo /\ f.obj = Top(s).obj /\ t[1].obj = s[1].obj
    BY <1>4, LikeTop
  <1>7. /\ f \in FrameOf(D) /\ FrameOK(f, list) /\ Len(t) \in DOMAIN t /\ f = t[Len(t)]
        /\ Len(t) = Len(s) /\ DOMAIN t = DOMAIN s
    BY <1>4, <1>6, TopOK DEF Like
  <1>8. /\ h \in FrameOf(D) /\ FrameOK(h, list)
        /\ h.obj = f.obj /\ h.todo = f.todo \ {Min(f.todo)}
    BY <1>3, <1>6, <1>7, FrameSpawned
  <1>. HIDE DEF f, h
  <1>9. u \in Seq(FrameOf(D)) /\ StackOK(u, list)
    BY <1>4, <1>6, <1>7, <1>8, ReplacedTop DEF f
  <1>10. u # <<>> /\ Top(u) = h
    BY <1>4, <1>6, <1>7, <1>8, ReplacedNotEmpty DEF f
  <1>11. u[1].obj = t[1].obj
    BY <1>4, <1>6, <1>7, <1>8, ReplacedBottom DEF f
  <1>12. /\ DOMAIN u = DOMAIN t /\ Len(u) = Len(t) /\ u[Len(t)] = h
         /\ \A d \in DOMAIN t : d # Len(t) => u[d] = t[d]
    BY <1>4, <1>7, <1>8, Replaced DEF ReplaceTop
  <1>. HIDE DEF u
  <1>13. ASSUME NEW d \in DOMAIN s
         PROVE  u[d].obj = s[d].obj /\ (d # Len(s) => u[d].todo = s[d].todo)
    <2>1. t[d].obj = s[d].obj /\ t[d].todo = s[d].todo
      BY <1>4 DEF Like
    <2>2. CASE d = Len(s)
      <3>1. u[d] = h /\ t[d] = f
        BY <1>7, <1>12, <2>2
      <3>. QED
        BY <1>8, <2>1, <2>2, <3>1
    <2>3. CASE d # Len(s)
      BY <1>7, <1>12, <2>1, <2>3
    <2>. QED
      BY <2>2, <2>3
  <1>14. u[Len(s)].todo = Top(s).todo \ {Min(Top(s).todo)}
    BY <1>6, <1>7, <1>8, <1>12
  <1>. QED
    BY <1>5, <1>6, <1>7, <1>9, <1>10, <1>11, <1>12, <1>13, <1>14

-----------------------------------------------------------------------------
(* The invariant. *)

(* The maps a step makes from those that are around.                       *)
Yields(D, E) ==
    /\ D \subseteq E
    /\ \A m, n \in D : MergeMaps(m, n) \in E
    /\ \A l, m, n \in D : MergeMaps(l, MergeMaps(m, n)) \in E
    /\ \A o \in Object, keys \in KeySeq : transformToMap(o, keys) \in E

Types(D) ==
    /\ Empty \in D /\ \A o \in Object : Content[o] \in D
    /\ phase \in {"collect", "wait", "done", "failed", "crashed"}
    /\ \E x \in Inputs : refs = x.refs /\ base = x.base
    /\ list \in Seq(Entry) /\ parse \in Seq(ParserOf(D))
    /\ c \in Seq(D) /\ Len(c) <= 1 /\ merged \in D
    /\ received \in Nat /\ leaked \in Nat /\ timeouts \in Nat

(* Nothing happens before the references are collected; then there is a    *)
(* goroutine for each object.                                              *)
PhaseInv ==
    IF phase = "collect"
    THEN parse = <<>> /\ c = <<>> /\ received = 0 /\ leaked = 0
    ELSE DOMAIN parse = DOMAIN Named

ParseInv ==
    \A i \in DOMAIN parse :
        /\ StackOK(parse[i].stack, list)
        /\ (parse[i].stack # <<>>) <=> (parse[i].pc = "run")

(* Every map that was sent has arrived or is in the channel.               *)
SentBy == {i \in DOMAIN parse : parse[i].pc = "sent"}
CountInv == received + Len(c) = Cardinality(SentBy)

ResolutionInv(D) ==
    Types(D) /\ PhaseInv /\ ParseInv /\ CountInv /\ LeakOnlyIfThree

LEMMA InputFacts ==
  ASSUME NEW D, Types(D)
  PROVE  /\ Named \in Seq(Object) /\ RefLists(refs, Named) \subseteq Seq(Entry)
         /\ RefsOK
  BY CollectedExists, InputsRefer DEF Types, Named, RefsOK

(* What a goroutine that runs may become in a step of its own.             *)
Becomes(E, i, q) ==
    /\ q \in ParserOf(E) /\ q.pc \in {"run", "send", "gone"}
    /\ StackOK(q.stack, list) /\ ((q.stack # <<>>) <=> (q.pc = "run"))
    /\ q.pc = "run" => q.stack[1].obj = parse[i].stack[1].obj
    /\ q.pc = "send" => \E v \in E :
          q.value = MergeMaps(Content[parse[i].stack[1].obj], v)

(* What is known of the frame on top of the stack of a goroutine.          *)
LEMMA TopFacts ==
  ASSUME NEW D, Types(D), ParseInv, NEW i \in DOMAIN parse, parse[i].pc = "run"
  PROVE  LET s == parse[i].stack IN
         /\ parse[i] \in ParserOf(D) /\ s \in Seq(FrameOf(D)) /\ s # <<>>
         /\ StackOK(s, list) /\ Top(s) \in FrameOf(D) /\ FrameOK(Top(s), list)
         /\ Len(s) \in Nat \ {0} /\ 1 \in DOMAIN s /\ s[1] \in FrameOf(D)
         /\ Top(s) = s[Len(s)]
  <1>. DEFINE s == parse[i].stack
  <1>1. parse[i] \in ParserOf(D)
    BY LenProperties, ElementOfSeq DEF Types
  <1>2. s \in Seq(FrameOf(D)) /\ s # <<>> /\ StackOK(s, list)
    BY <1>1 DEF ParserOf, ParseInv
  <1>3. /\ Len(s) \in Nat \ {0} /\ DOMAIN s = 1..Len(s) /\ Len(s) \in DOMAIN s
        /\ Top(s) \in FrameOf(D) /\ Top(s) = s[Len(s)]
    BY <1>2, PopTop
  <1>4. 1 \in DOMAIN s
    BY <1>3
  <1>5. s[1] \in FrameOf(D)
    BY <1>2, <1>3, <1>4, ElementOfSeq
  <1>6. FrameOK(Top(s), list)
    BY <1>2, <1>3 DEF StackOK
  <1>. QED
    BY <1>1, <1>2, <1>3, <1>4, <1>5, <1>6

LEMMA NewStack ==
  ASSUME NEW D, NEW E, Yields(D, E), Types(D), ParseInv, NEW i \in DOMAIN parse,
         parse[i].pc = "run", NEW s \in Seq(FrameOf(E)), StackOK(s, list),
         s # <<>>, s[1].obj = parse[i].stack[1].obj
  PROVE  Becomes(E, i, [parse[i] EXCEPT !.stack = s])
  <1>. DEFINE q == [parse[i] EXCEPT !.stack = s]
  <1>1. parse[i] \in ParserOf(E)
    BY TopFacts, Grows DEF Yields
  <1>2. q \in ParserOf(E) /\ q.pc = "run" /\ q.stack = s
    BY <1>1 DEF ParserOf
  <1>. QED
    BY <1>2 DEF Becomes

LEMMA NewTop ==
  ASSUME NEW D, NEW E, Yields(D, E), Types(D), ParseInv, NEW i \in DOMAIN parse,
         parse[i].pc = "run", NEW s \in Seq(FrameOf(D)), StackOK(s, list),
         s # <<>>, s[1].obj = parse[i].stack[1].obj,
         NEW f \in FrameOf(E), FrameOK(f, list), f.obj = Top(s).obj
  PROVE  Becomes(E, i, [parse[i] EXCEPT !.stack = ReplaceTop(s, f)])
  <1>. DEFINE t == ReplaceTop(s, f)
  <1>1. D \subseteq E
    BY DEF Yields
  <1>2. t \in Seq(FrameOf(E)) /\ StackOK(t, list)
    BY <1>1, ReplacedTop
  <1>3. t # <<>>
    BY <1>1, ReplacedNotEmpty
  <1>4. t[1].obj = s[1].obj
    BY <1>1, ReplacedBottom
  <1>. HIDE DEF t
  <1>5. t[1].obj = parse[i].stack[1].obj
    BY <1>4
  <1>6. Becomes(E, i, [parse[i] EXCEPT !.stack = t])
    BY <1>2, <1>3, <1>5, NewStack
  <1>. QED
    BY <1>6 DEF t

LEMMA ReturnedOK ==
  ASSUME NEW D, NEW E, Yields(D, E), Types(D), ParseInv, NEW i \in DOMAIN parse,
         parse[i].pc = "run", NEW v \in E, \A m \in D : MergeMaps(m, v) \in E,
         NEW q \in Returned(parse[i], v)
  PROVE  Becomes(E, i, q)
  <1>. DEFINE s == parse[i].stack
  <1>1. /\ s \in Seq(FrameOf(D)) /\ s # <<>> /\ StackOK(s, list) /\ Top(s) \in FrameOf(D)
        /\ parse[i] \in ParserOf(E) /\ Top(s) = s[Len(s)]
    BY TopFacts, Grows DEF Yields
  <1>2. CASE Len(s) = 1
    <2>1. q = [parse[i] EXCEPT !.pc = "send", !.stack = <<>>,
                               !.value = MergeMaps(Content[Top(s).obj], v)]
      BY <1>2 DEF Returned
    <2>2. MergeMaps(Content[Top(s).obj], v) \in E
      BY <1>1 DEF Types, FrameOf
    <2>3. q \in ParserOf(E) /\ q.pc = "send" /\ q.stack = <<>>
             /\ q.value = MergeMaps(Content[Top(s).obj], v)
      BY <1>1, <2>1, <2>2, EmptySeq DEF ParserOf
    <2>4. StackOK(<<>>, list)
      BY DEF StackOK
    <2>5. Top(s) = s[1]
      BY <1>1, <1>2
    <2>. QED
      BY <2>3, <2>4, <2>5 DEF Becomes
  <1>3. CASE Len(s) # 1
    <2>. DEFINE t == Pop(s)
                f == Top(t)
                g == [f EXCEPT !.vals = MergeMaps(f.vals, v)]
    <2>1. /\ t \in Seq(FrameOf(D)) /\ StackOK(t, list) /\ t # <<>> /\ t[1] = s[1]
          /\ f.todo # {} /\ f \in FrameOf(D) /\ FrameOK(f, list)
      BY <1>1, <1>3, Popped
    <2>2. f \in FrameOf(E) /\ MergeMaps(f.vals, v) \in E
      <3>1. f.vals \in D
        BY <2>1 DEF FrameOf
      <3>. QED
        BY <2>1, <3>1, Grows DEF Yields
    <2>3. g \in FrameOf(E) /\ g.obj = f.obj /\ g.todo = f.todo /\ g.gs = f.gs
             /\ g.chan = f.chan
      BY <2>2 DEF FrameOf
    <2>4. FrameOK(g, list)
      BY <2>1, <2>3 DEF FrameOK
    <2>. DEFINE u == ReplaceTop(t, g)
    <2>5. PICK keys \in getRefKeyByValue(Top(u)) :
             q = [parse[i] EXCEPT !.stack = Spawned(u, keys)]
      BY <1>3 DEF Returned
    <2>. HIDE DEF t, f, g
    <2>6. /\ u \in Seq(FrameOf(E)) /\ StackOK(u, list) /\ u # <<>> /\ Top(u) = g
          /\ u[1].obj = s[1].obj
      <3>1. f = Top(t) /\ D \subseteq E
        BY DEF f, Yields
      <3>2. u \in Seq(FrameOf(E)) /\ StackOK(u, list)
        BY <2>1, <2>3, <2>4, <3>1, ReplacedTop
      <3>3. u # <<>> /\ Top(u) = g
        BY <2>1, <2>3, <2>4, <3>1, ReplacedNotEmpty
      <3>4. u[1].obj = s[1].obj
        BY <2>1, <2>3, <2>4, <3>1, ReplacedBottom
      <3>. QED
        BY <3>2, <3>3, <3>4
    <2>. HIDE DEF u
    <2>7. keys \in KeySeq
      BY <2>3, <2>6, InputFacts, KeysFound
    <2>. DEFINE w == Spawned(u, keys)
    <2>8. /\ w \in Seq(FrameOf(E)) /\ StackOK(w, list) /\ w # <<>>
          /\ w[1].obj = u[1].obj
      BY <2>1, <2>3, <2>6, <2>7, SpawnedOK DEF Types
    <2>. HIDE DEF w
    <2>9. Becomes(E, i, [parse[i] EXCEPT !.stack = w])
      BY <2>6, <2>8, NewStack
    <2>. QED
      BY <2>5, <2>9 DEF w
  <1>. QED
    BY <1>2, <1>3

-----------------------------------------------------------------------------
(* The steps of a goroutine that merges. *)

(* What a step of goroutine i leads to.                                    *)
Moves(E, i) ==
    \E q : Becomes(E, i, q) /\ parse' = [parse EXCEPT ![i] = q]

LEMMA RunningFacts ==
  ASSUME NEW i \in DOMAIN parse, Running(i)
  PROVE  parse[i].pc = "run" /\ phase = "wait"
  BY DEF Running

LEMMA NextChildMoves ==
  ASSUME NEW D, NEW E, Yields(D, E), Types(D), ParseInv, NEW i \in DOMAIN parse,
         NextChild(i)
  PROVE  Moves(E, i)
  <1>. DEFINE s == parse[i].stack
              t == Iterate(s)
  <1>1. parse[i].pc = "run"
    BY RunningFacts DEF NextChild
  <1>2. s \in Seq(FrameOf(D)) /\ StackOK(s, list) /\ s # <<>>
    BY <1>1, TopFacts
  <1>3. Top(s).todo # {}
    BY DEF NextChild, AtSelect
  <1>4. PICK keys \in getRefKeyByValue(Top(t)) :
           parse' = [parse EXCEPT ![i] = [parse[i] EXCEPT !.stack = Spawned(t, keys)]]
    BY DEF NextChild
  <1>. HIDE DEF s
  <1>5. t \in Seq(FrameOf(D)) /\ StackOK(t, list) /\ Like(t, s)
    BY <1>2, Iterated DEF Types
  <1>. HIDE DEF t
  <1>6. t # <<>> /\ Top(t).todo # {} /\ t[1].obj = s[1].obj
    BY <1>2, <1>3, <1>5, LikeTop
  <1>7. keys \in KeySeq
    <2>1. Top(t) \in FrameOf(D)
      BY <1>5, <1>6, PopTop
    <2>. QED
      BY <2>1, InputFacts, KeysFound
  <1>. DEFINE u == Spawned(t, keys)
  <1>8. u \in Seq(FrameOf(D)) /\ StackOK(u, list) /\ u # <<>> /\ u[1].obj = t[1].obj
    BY <1>5, <1>6, <1>7, SpawnedOK DEF Types
  <1>. HIDE DEF u
  <1>9. u \in Seq(FrameOf(E))
    <2>1. FrameOf(D) \subseteq FrameOf(E)
      BY Grows DEF Yields
    <2>. QED
      BY <1>8, <2>1, SeqMonotonic
  <1>10. Becomes(E, i, [parse[i] EXCEPT !.stack = u])
    BY <1>1, <1>6, <1>8, <1>9, NewStack DEF s
  <1>. QED
    BY <1>4, <1>10, Zenon DEF Moves, u

LEMMA RecurseMoves ==
  ASSUME NEW D, NEW E, Yields(D, E), Types(D), ParseInv, NEW i \in DOMAIN parse,
         Recurse(i)
  PROVE  Moves(E, i)
  <1>. DEFINE s == parse[i].stack
              f == Top(s)
              t == Iterate(s)
              g == Frame(Child(f), Top(t).parents, list)
              u == Append(t, g)
  <1>1. parse[i].pc = "run"
    BY RunningFacts DEF Recurse
  <1>2. s \in Seq(FrameOf(D)) /\ StackOK(s, list) /\ s # <<>>
           /\ f \in FrameOf(D) /\ FrameOK(f, list)
    BY <1>1, TopFacts
  <1>3. f.todo # {}
    BY DEF Recurse, AtSelect
  <1>4. parse' = [parse EXCEPT ![i] = [parse[i] EXCEPT !.stack = u]]
    BY DEF Recurse
  <1>. HIDE DEF s
  <1>5. /\ t \in Seq(FrameOf(D)) /\ StackOK(t, list) /\ Like(t, s)
        /\ Top(t).parents \in KeySeq
    BY <1>2, Iterated DEF Types
  <1>. HIDE DEF t
  <1>6. t # <<>> /\ Top(t).todo # {} /\ t[1].obj = s[1].obj
    BY <1>2, <1>3, <1>5, LikeTop
  <1>7. g \in FrameOf(D) /\ FrameOK(g, list)
    <2>1. Child(f) \in Entry
      BY <1>2, <1>3, FrameFacts DEF Types
    <2>2. Child(f).obj \in Object /\ Child(f).key \in Key \cup {""}
      BY <2>1 DEF Entry
    <2>. HIDE DEF f
    <2>. QED
      BY <1>5, <2>2, NewFrame DEF Types
  <1>. HIDE DEF g
  <1>8. u \in Seq(FrameOf(D)) /\ StackOK(u, list) /\ u # <<>> /\ u[1] = t[1]
    BY <1>5, <1>6, <1>7, Pushed
  <1>. HIDE DEF u
  <1>9. u \in Seq(FrameOf(E))
    <2>1. FrameOf(D) \subseteq FrameOf(E)
      BY Grows DEF Yields
    <2>. QED
      BY <1>8, <2>1, SeqMonotonic
  <1>10. Becomes(E, i, [parse[i] EXCEPT !.stack = u])
    BY <1>1, <1>6, <1>8, <1>9, NewStack DEF s
  <1>. QED
    BY <1>4, <1>10, Zenon DEF Moves

LEMMA ReturnEmptyMoves ==
  ASSUME NEW D, NEW E, Yields(D, E), Types(D), ParseInv, NEW i \in DOMAIN parse,
         ReturnEmpty(i)
  PROVE  Moves(E, i)
  <1>1. parse[i].pc = "run"
    BY RunningFacts DEF ReturnEmpty
  <1>2. Empty \in E /\ \A m \in D : MergeMaps(m, Empty) \in E
    BY DEF Yields, Types
  <1>3. PICK q \in Returned(parse[i], Empty) : parse' = [parse EXCEPT ![i] = q]
    BY DEF ReturnEmpty
  <1>4. Becomes(E, i, q)
    BY <1>1, <1>2, ReturnedOK
  <1>. QED
    BY <1>3, <1>4, Zenon DEF Moves

LEMMA ReturnFirstMoves ==
  ASSUME NEW D, NEW E, Yields(D, E), Types(D), ParseInv, NEW i \in DOMAIN parse,
         ReturnFirst(i)
  PROVE  Moves(E, i)
  <1>. DEFINE f == Top(parse[i].stack)
  <1>1. parse[i].pc = "run"
    BY RunningFacts DEF ReturnFirst
  <1>2. f \in FrameOf(D)
    BY <1>1, TopFacts
  <1>3. PICK v \in Arrived(f) :
           \E q \in Returned(parse[i], v) : parse' = [parse EXCEPT ![i] = q]
    BY DEF ReturnFirst
  <1>4. PICK m \in Range(f.chan) : v = MergeMaps(f.vals, m)
    BY <1>3 DEF Arrived
  <1>5. f.vals \in D /\ m \in D
    <2>1. f.vals \in D /\ f.chan \in Seq(D)
      BY <1>2 DEF FrameOf
    <2>. QED
      BY <1>4, <2>1, LenProperties, ElementOfSeq DEF Range
  <1>6. v \in E /\ \A l \in D : MergeMaps(l, v) \in E
    BY <1>4, <1>5 DEF Yields
  <1>7. PICK q \in Returned(parse[i], v) : parse' = [parse EXCEPT ![i] = q]
    BY <1>3
  <1>8. Becomes(E, i, q)
    BY <1>1, <1>6, ReturnedOK
  <1>. QED
    BY <1>7, <1>8, Zenon DEF Moves

LEMMA StructTimeoutMoves ==
  ASSUME NEW D, NEW E, Yields(D, E), Types(D), ParseInv, NEW i \in DOMAIN parse,
         StructTimeout(i)
  PROVE  Moves(E, i)
  <1>. DEFINE q == [parse[i] EXCEPT !.pc = "gone", !.stack = <<>>]
  <1>1. parse[i] \in ParserOf(E)
    BY RunningFacts, TopFacts, Grows DEF Yields, StructTimeout
  <1>2. q \in ParserOf(E) /\ q.pc = "gone" /\ q.stack = <<>>
    BY <1>1, EmptySeq DEF ParserOf
  <1>3. Becomes(E, i, q)
    BY <1>2 DEF Becomes, StackOK
  <1>4. parse' = [parse EXCEPT ![i] = q]
    BY DEF StructTimeout
  <1>. QED
    BY <1>3, <1>4, Zenon DEF Moves

(* A step of a goroutine that converts a child changes one frame.          *)
LEMMA FrameMoves ==
  ASSUME NEW D, NEW E, Yields(D, E), Types(D), ParseInv, NEW i \in DOMAIN parse,
         parse[i].pc = "run", NEW d \in DOMAIN parse[i].stack,
         NEW f \in FrameOf(E), FrameOK(f, list), f.obj = parse[i].stack[d].obj,
         f.todo = parse[i].stack[d].todo,
         parse' = [parse EXCEPT ![i].stack[d] = f]
  PROVE  Moves(E, i)
  <1>. DEFINE s == parse[i].stack
              t == [s EXCEPT ![d] = f]
  <1>1. s \in Seq(FrameOf(D)) /\ StackOK(s, list) /\ D \subseteq E
    BY TopFacts DEF Yields
  <1>2. t \in Seq(FrameOf(E)) /\ StackOK(t, list) /\ t # <<>> /\ t[1].obj = s[1].obj
    BY <1>1, ReplacedFrame
  <1>3. parse' = [parse EXCEPT ![i] = [parse[i] EXCEPT !.stack = t]]
    OBVIOUS
  <1>. HIDE DEF t
  <1>4. Becomes(E, i, [parse[i] EXCEPT !.stack = t])
    BY <1>2, NewStack
  <1>. QED
    BY <1>3, <1>4, Zenon DEF Moves

LEMMA ChildMoves ==
  ASSUME NEW D, NEW E, Yields(D, E), Types(D), ParseInv, NEW i \in DOMAIN parse,
         ChildStep(i)
  PROVE  Moves(E, i)
  <1>1. parse[i].pc = "run"
    BY RunningFacts DEF ChildStep
  <1>2. PICK d \in DOMAIN parse[i].stack : \E j \in DOMAIN parse[i].stack[d].gs :
           Convert(i, d, j) \/ SendChild(i, d, j)
    BY DEF ChildStep
  <1>. DEFINE f == parse[i].stack[d]
  <1>3. PICK j \in DOMAIN f.gs : Convert(i, d, j) \/ SendChild(i, d, j)
    BY <1>2
  <1>4. f \in FrameOf(D) /\ FrameOK(f, list)
    <2>1. parse[i].stack \in Seq(FrameOf(D)) /\ StackOK(parse[i].stack, list)
      BY <1>1, TopFacts
    <2>. QED
      BY <2>1, LenProperties, ElementOfSeq DEF StackOK
  <1>5. f.gs[j].obj \in Object /\ f.gs[j].keys \in KeySeq
    <2>1. f.gs \in Seq(Goroutine)
      BY <1>4 DEF FrameOf
    <2>2. f.gs[j] \in Goroutine
      BY <2>1, LenProperties, ElementOfSeq
    <2>. QED
      BY <2>2 DEF Goroutine
  <1>6. D \subseteq E /\ transformToMap(f.gs[j].obj, f.gs[j].keys) \in E
    BY <1>5 DEF Yields
  <1>7. CASE Convert(i, d, j)
    <2>1. f.gs[j].pc = "run" /\ parse' = [parse EXCEPT ![i].stack[d] = Converted(f, j)]
      BY <1>7 DEF Convert
    <2>2. Converted(f, j) \in FrameOf(E) /\ FrameOK(Converted(f, j), list)
             /\ Converted(f, j).obj = f.obj /\ Converted(f, j).todo = f.todo
      BY <1>4, <1>6, <2>1, ConvertedOK
    <2>. QED
      BY <1>1, <2>1, <2>2, FrameMoves
  <1>8. CASE SendChild(i, d, j)
    <2>1. parse' = [parse EXCEPT ![i].stack[d] = Sent(f, j)]
      BY <1>8 DEF SendChild
    <2>2. Sent(f, j) \in FrameOf(D) /\ FrameOK(Sent(f, j), list)
             /\ Sent(f, j).obj = f.obj /\ Sent(f, j).todo = f.todo
      BY <1>4, SentOK
    <2>3. Sent(f, j) \in FrameOf(E)
      BY <1>6, <2>2, Grows
    <2>. QED
      BY <1>1, <2>1, <2>2, <2>3, FrameMoves
  <1>. QED
    BY <1>3, <1>7, <1>8

-----------------------------------------------------------------------------
(* The invariant is kept. *)

LEMMA GrowsTypes ==
  ASSUME NEW D, NEW E, D \subseteq E, Types(D)
  PROVE  /\ Empty \in E /\ \A o \in Object : Content[o] \in E
         /\ parse \in Seq(ParserOf(E)) /\ c \in Seq(E) /\ merged \in E
  <1>1. ParserOf(D) \subseteq ParserOf(E)
    BY Grows
  <1>2. parse \in Seq(ParserOf(E)) /\ c \in Seq(E)
    BY <1>1, SeqMonotonic DEF Types
  <1>. QED
    BY <1>2 DEF Types

LEMMA SentFacts ==
  ASSUME NEW D, Types(D)
  PROVE  /\ DOMAIN parse = 1..Len(parse) /\ Len(parse) \in Nat
         /\ IsFiniteSet(DOMAIN parse) /\ Cardinality(DOMAIN parse) = Len(parse)
         /\ SentBy \subseteq DOMAIN parse
         /\ IsFiniteSet(SentBy) /\ Cardinality(SentBy) \in Nat
  <1>1. DOMAIN parse = 1..Len(parse) /\ Len(parse) \in Nat
    BY LenProperties DEF Types
  <1>. DEFINE n == Len(parse)
  <1>2. IsFiniteSet(DOMAIN parse) /\ Cardinality(DOMAIN parse) = Len(parse)
    <2>1. IsFiniteSet(1..n) /\ Cardinality(1..n) = n
      <3>1. n \in Nat
        BY <1>1
      <3>. HIDE DEF n
      <3>. QED
        BY <3>1, FS_Interval
    <2>. QED
      BY <1>1, <2>1
  <1>3. SentBy \subseteq DOMAIN parse
    BY DEF SentBy
  <1>. QED
    BY <1>1, <1>2, <1>3, FS_Subset, FS_CardinalityType

LEMMA MovesKeeps ==
  ASSUME NEW D, NEW E, Yields(D, E), ResolutionInv(D), NEW i \in DOMAIN parse,
         parse[i].pc = "run", phase = "wait", Moves(E, i), leaked' \in Nat,
         timeouts' \in Nat, LeakOnlyIfThree',
         UNCHANGED <<refs, base, phase, list, c, merged, received>>
  PROVE  ResolutionInv(E)'
  <1>1. Types(D) /\ PhaseInv /\ ParseInv /\ CountInv /\ D \subseteq E
    BY DEF ResolutionInv, Yields
  <1>2. PICK q : Becomes(E, i, q) /\ parse' = [parse EXCEPT ![i] = q]
    BY DEF Moves
  <1>3. q \in ParserOf(E) /\ ParserOf(D) \subseteq ParserOf(E)
    BY <1>1, <1>2, Grows DEF Becomes
  <1>4. /\ parse' \in Seq(ParserOf(E)) /\ DOMAIN parse' = DOMAIN parse
        /\ parse'[i] = q /\ \A j \in DOMAIN parse : j # i => parse'[j] = parse[j]
    BY <1>1, <1>2, <1>3, Replaced DEF Types
  <1>5. Types(E)'
    BY <1>1, <1>4, GrowsTypes DEF Types
  <1>6. PhaseInv'
    BY <1>1, <1>4 DEF PhaseInv, Named
  <1>7. ParseInv'
    <2>1. StackOK(q.stack, list) /\ ((q.stack # <<>>) <=> (q.pc = "run"))
      BY <1>2 DEF Becomes
    <2>2. ASSUME NEW j \in DOMAIN parse
          PROVE  /\ StackOK(parse'[j].stack, list)
                 /\ (parse'[j].stack # <<>>) <=> (parse'[j].pc = "run")
      BY <1>1, <1>4, <2>1 DEF ParseInv
    <2>. QED
      BY <1>4, <2>2 DEF ParseInv
  <1>8. SentBy' = SentBy
    <2>1. q.pc # "sent"
      BY <1>2 DEF Becomes
    <2>. QED
      BY <1>4, <2>1 DEF SentBy
  <1>9. CountInv'
    BY <1>1, <1>8 DEF CountInv
  <1>. QED
    BY <1>5, <1>6, <1>7, <1>9 DEF ResolutionInv

LEMMA GoroutineKeeps ==
  ASSUME NEW D, NEW E, Yields(D, E), ResolutionInv(D), NEW i \in DOMAIN parse,
         \/ NextChild(i) \/ Recurse(i) \/ ReturnEmpty(i)
         \/ ReturnFirst(i) \/ StructTimeout(i) \/ ChildStep(i)
  PROVE  ResolutionInv(E)' /\ Moves(E, i) /\ parse[i].pc = "run" /\ phase = "wait"
  <1>1. Types(D) /\ ParseInv /\ leaked \in Nat /\ timeouts \in Nat
    BY DEF ResolutionInv, Types
  <1>2. Running(i)
    BY DEF NextChild, Recurse, ReturnEmpty, ReturnFirst, StructTimeout, ChildStep
  <1>3. parse[i].pc = "run" /\ phase = "wait"
    BY <1>2, RunningFacts
  <1>4. UNCHANGED <<refs, base, phase, list, c, merged, received>>
    BY DEF NextChild, Recurse, ReturnEmpty, ReturnFirst, StructTimeout, ChildStep,
       Convert, SendChild
  <1>5. Moves(E, i)
    BY <1>1, NextChildMoves, RecurseMoves, ReturnEmptyMoves, ReturnFirstMoves,
       StructTimeoutMoves, ChildMoves
  <1>. DEFINE f == Top(parse[i].stack)
  <1>6. f \in FrameOf(D) /\ FrameOK(f, list) /\ f.obj \in Object
    <2>1. f \in FrameOf(D) /\ FrameOK(f, list)
      BY <1>1, <1>3, TopFacts
    <2>. QED
      BY <2>1 DEF FrameOf
  <1>7. LeftBlocked(f) \in Nat
    BY <1>1, <1>6, LeftBlockedFacts DEF Types
  <1>. HIDE DEF f
  <1>8. CASE UNCHANGED <<leaked, timeouts>>
    <2>1. LeakOnlyIfThree'
      BY <1>4, <1>8 DEF ResolutionInv, LeakOnlyIfThree, Entries
    <2>. QED
      BY <1>1, <1>3, <1>4, <1>5, <1>8, <2>1, MovesKeeps
  <1>9. CASE ReturnFirst(i)
    <2>1. leaked' = leaked + LeftBlocked(f) /\ timeouts' = timeouts
      BY <1>9 DEF ReturnFirst, f
    <2>2. LeftBlocked(f) > 0 => Entries(f.obj) > 2
      <3>1. f.chan # <<>> /\ AtSelect(f)
        <4>1. Arrived(f) # {} /\ AtSelect(f)
          BY <1>9 DEF ReturnFirst, f
        <4>2. f.chan # <<>>
          BY <4>1, EmptySeq DEF Arrived, Range
        <4>. QED
          BY <4>1, <4>2
      <3>. QED
        BY <1>1, <1>6, <3>1, LeftBlockedFacts DEF Types
    <2>3. LeakOnlyIfThree'
      <3>1. CASE LeftBlocked(f) > 0
        <4>1. \E o \in Object : Entries(o) > 2
          BY <1>6, <2>2, <3>1
        <4>. QED
          BY <1>4, <4>1 DEF LeakOnlyIfThree, Entries
      <3>2. CASE ~(LeftBlocked(f) > 0)
        <4>1. leaked' = leaked
          BY <1>1, <1>7, <2>1, <3>2
        <4>. QED
          BY <1>4, <2>1, <4>1 DEF ResolutionInv, LeakOnlyIfThree, Entries
      <3>. QED
        BY <3>1, <3>2
    <2>4. leaked' \in Nat /\ timeouts' \in Nat
      BY <1>1, <1>7, <2>1
    <2>. QED
      BY <1>3, <1>4, <1>5, <2>3, <2>4, MovesKeeps
  <1>10. CASE StructTimeout(i)
    <2>1. leaked' = leaked + LeftBlocked(f) /\ timeouts' = timeouts + 1
      BY <1>10 DEF StructTimeout, f
    <2>2. leaked' \in Nat /\ timeouts' \in Nat /\ timeouts' > 0
      BY <1>1, <1>7, <2>1
    <2>3. LeakOnlyIfThree'
      BY <2>2 DEF LeakOnlyIfThree
    <2>. QED
      BY <1>3, <1>4, <1>5, <2>2, <2>3, MovesKeeps
  <1>11. NextChild(i) \/ Recurse(i) \/ ReturnEmpty(i) \/ ChildStep(i)
           => UNCHANGED <<leaked, timeouts>>
    BY DEF NextChild, Recurse, ReturnEmpty, ChildStep, Convert, SendChild
  <1>. QED
    BY <1>8, <1>9, <1>10, <1>11

LEMMA SendParsedKeeps ==
  ASSUME NEW D, ResolutionInv(D), NEW i \in DOMAIN parse, SendParsed(i)
  PROVE  /\ ResolutionInv(D)' /\ DOMAIN parse' = DOMAIN parse
         /\ parse'[i].pc = "sent" /\ parse'[i].value = parse[i].value
         /\ \A j \in DOMAIN parse : j # i => parse'[j] = parse[j]
         /\ c' = <<parse[i].value>> /\ c = <<>>
  <1>. DEFINE q == [parse[i] EXCEPT !.pc = "sent"]
  <1>1. Types(D) /\ PhaseInv /\ ParseInv /\ CountInv
    BY DEF ResolutionInv
  <1>2. /\ phase = "wait" /\ parse[i].pc = "send" /\ c = <<>> /\ c' = <<parse[i].value>>
        /\ parse' = [parse EXCEPT ![i] = q]
        /\ UNCHANGED <<refs, base, phase, list, merged, received, leaked, timeouts>>
    BY DEF SendParsed
  <1>3. parse[i] \in ParserOf(D)
    BY <1>1, LenProperties, ElementOfSeq DEF Types
  <1>4. q \in ParserOf(D) /\ q.pc = "sent" /\ q.value = parse[i].value
           /\ q.stack = parse[i].stack
    BY <1>3 DEF ParserOf
  <1>. HIDE DEF q
  <1>5. /\ parse' \in Seq(ParserOf(D)) /\ DOMAIN parse' = DOMAIN parse
        /\ parse'[i] = q /\ \A j \in DOMAIN parse : j # i => parse'[j] = parse[j]
    BY <1>1, <1>2, <1>4, Replaced DEF Types
  <1>6. c' \in Seq(D) /\ Len(c') = 1
    <2>1. parse[i].value \in D
      BY <1>3 DEF ParserOf
    <2>2. <<parse[i].value>> \in Seq(D) /\ Len(<<parse[i].value>>) = 1
      BY <2>1
    <2>. QED
      BY <1>2, <2>2
  <1>7. Types(D)'
    BY <1>1, <1>2, <1>5, <1>6 DEF Types
  <1>8. PhaseInv'
    BY <1>1, <1>2, <1>5 DEF PhaseInv, Named
  <1>9. ParseInv'
    <2>1. ASSUME NEW j \in DOMAIN parse
          PROVE  /\ StackOK(parse'[j].stack, list)
                 /\ (parse'[j].stack # <<>>) <=> (parse'[j].pc = "run")
      BY <1>1, <1>2, <1>4, <1>5 DEF ParseInv
    <2>. QED
      BY <1>2, <1>5, <2>1 DEF ParseInv
  <1>10. CountInv'
    <2>1. SentBy' = SentBy \cup {i} /\ i \notin SentBy
      BY <1>2, <1>4, <1>5 DEF SentBy
    <2>2. Cardinality(SentBy') = Cardinality(SentBy) + 1 /\ Cardinality(SentBy) \in Nat
      BY <1>1, <2>1, SentFacts, FS_AddElement
    <2>3. Len(c) = 0 /\ received \in Nat
      BY <1>1, <1>2, EmptySeq DEF Types
    <2>4. received + 0 = Cardinality(SentBy)
      BY <1>1, <2>3 DEF CountInv
    <2>. QED
      BY <1>2, <1>6, <2>2, <2>3, <2>4 DEF CountInv
  <1>11. LeakOnlyIfThree'
    BY <1>2 DEF ResolutionInv, LeakOnlyIfThree, Entries
  <1>. QED
    BY <1>2, <1>4, <1>5, <1>7, <1>8, <1>9, <1>10, <1>11 DEF ResolutionInv

LEMMA CollectKeeps ==
  ASSUME NEW D, ResolutionInv(D), Collect
  PROVE  /\ ResolutionInv(D)' /\ DOMAIN parse' = DOMAIN Named
         /\ \A i \in DOMAIN Named : /\ parse'[i].pc = "run"
                                    /\ parse'[i].stack[1].obj = Named[i]
  <1>1. /\ Types(D) /\ PhaseInv /\ phase = "collect" /\ c = <<>>
        /\ received = 0 /\ leaked = 0
    BY DEF ResolutionInv, PhaseInv, Collect
  <1>2. UNCHANGED <<refs, base, c, merged, received, leaked, timeouts>>
    BY DEF Collect
  <1>3. Named \in Seq(Object) /\ list' \in Seq(Entry)
    BY <1>1, InputFacts DEF Collect
  <1>. DEFINE F(i) == Frame([obj |-> Named[i], key |-> ""], <<>>, list')
              P(i) == [pc |-> "run", value |-> Empty, stack |-> <<F(i)>>]
  <1>4. parse' = [i \in DOMAIN Named |-> P(i)]
    BY DEF Collect
  <1>5. ASSUME NEW i \in DOMAIN Named
        PROVE  /\ P(i) \in ParserOf(D) /\ P(i).pc = "run" /\ P(i).stack = <<F(i)>>
               /\ <<F(i)>> # <<>> /\ StackOK(<<F(i)>>, list')
               /\ F(i).obj = Named[i]
    <2>. DEFINE e == [obj |-> Named[i], key |-> ""]
    <2>1. Named[i] \in Object
      BY <1>3, LenProperties, ElementOfSeq
    <2>2. e.obj = Named[i] /\ e.key \in Key \cup {""}
      OBVIOUS
    <2>3. <<>> \in KeySeq
      BY EmptySeq DEF KeySeq
    <2>4. Empty \in D
      BY <1>1 DEF Types
    <2>. HIDE DEF e
    <2>5. Frame(e, <<>>, list') \in FrameOf(D)
      BY <1>3, <2>1, <2>2, <2>3, <2>4, NewFrame
    <2>6. FrameOK(Frame(e, <<>>, list'), list')
      BY <1>3, <2>1, <2>2, <2>3, <2>4, NewFrame
    <2>7. Frame(e, <<>>, list').obj = Named[i]
      BY <2>2 DEF Frame
    <2>8. F(i) \in FrameOf(D) /\ FrameOK(F(i), list') /\ F(i).obj = Named[i]
      BY <2>5, <2>6, <2>7 DEF e
    <2>. HIDE DEF F
    <2>9. <<F(i)>> \in Seq(FrameOf(D)) /\ <<F(i)>> # <<>>
      BY <2>8
    <2>10. StackOK(<<F(i)>>, list')
      BY <2>8 DEF StackOK
    <2>11. P(i) \in ParserOf(D)
      BY <2>4, <2>9 DEF ParserOf
    <2>. QED
      BY <2>8, <2>9, <2>10, <2>11
  <1>. HIDE DEF P
  <1>6. parse' \in Seq(ParserOf(D)) /\ DOMAIN parse' = DOMAIN Named
    <2>1. DOMAIN Named = 1..Len(Named) /\ Len(Named) \in Nat
      BY <1>3, LenProperties
    <2>2. parse' \in [1..Len(Named) -> ParserOf(D)]
      BY <1>4, <1>5, <2>1
    <2>. QED
      BY <1>4, <2>1, <2>2, SeqDef
  <1>7. ASSUME NEW i \in DOMAIN Named
        PROVE  /\ parse'[i].pc = "run" /\ parse'[i].stack = <<F(i)>>
               /\ <<F(i)>> # <<>> /\ StackOK(<<F(i)>>, list') /\ F(i).obj = Named[i]
    BY <1>4, <1>5
  <1>. HIDE DEF F
  <1>8. Types(D)'
    BY <1>1, <1>2, <1>3, <1>6 DEF Types, Collect
  <1>9. PhaseInv'
    BY <1>2, <1>6 DEF PhaseInv, Named, Collect
  <1>10. ParseInv'
    BY <1>6, <1>7, Zenon DEF ParseInv
  <1>11. CountInv'
    <2>1. SentBy' = {}
      BY <1>6, <1>7 DEF SentBy
    <2>2. Cardinality(SentBy') = 0
      BY <2>1, FS_EmptySet
    <2>3. Len(c') = 0
      BY <1>1, <1>2, EmptySeq
    <2>. QED
      BY <1>1, <1>2, <2>2, <2>3 DEF CountInv
  <1>12. LeakOnlyIfThree'
    BY <1>1, <1>2 DEF LeakOnlyIfThree
  <1>13. ASSUME NEW i \in DOMAIN Named PROVE parse'[i].stack[1].obj = Named[i]
    <2>1. <<F(i)>>[1] = F(i)
      OBVIOUS
    <2>2. parse'[i].stack[1] = F(i) /\ F(i).obj = Named[i]
      BY <1>7, <2>1, Zenon
    <2>. QED
      BY <2>2, Zenon
  <1>. QED
    BY <1>6, <1>7, <1>8, <1>9, <1>10, <1>11, <1>12, <1>13 DEF ResolutionInv

LEMMA ReceiveKeeps ==
  ASSUME NEW D, NEW E, Yields(D, E), ResolutionInv(D), Receive
  PROVE  /\ ResolutionInv(E)' /\ phase = "wait" /\ c # <<>> /\ c[1] \in D
         /\ c' = <<>> /\ merged' = MergeMaps(c[1], merged)
         /\ phase' \in {"wait", "done"} /\ UNCHANGED <<refs, base, parse>>
         /\ phase' = "done" => \A i \in DOMAIN parse : parse[i].pc = "sent"
  <1>1. Types(D) /\ PhaseInv /\ ParseInv /\ CountInv /\ D \subseteq E
    BY DEF ResolutionInv, Yields
  <1>2. /\ phase = "wait" /\ c # <<>> /\ c' = <<>> /\ received' = received + 1
        /\ merged' = MergeMaps(c[1], merged) /\ phase' \in {"wait", "done"}
        /\ UNCHANGED <<refs, base, list, parse, leaked, timeouts>>
        /\ phase' = "done" => received' = Len(parse)
    BY DEF Receive, LaidOver
  <1>3. c[1] \in D /\ Len(c) = 1
    <2>1. c \in Seq(D)
      BY <1>1 DEF Types
    <2>2. Len(c) \in Nat \ {0}
      BY <1>2, <2>1, EmptySeq
    <2>. DEFINE n == Len(c)
    <2>3. n = 1 /\ 1 \in 1..n
      <3>1. n \in Nat \ {0} /\ n <= 1
        BY <1>1, <2>2 DEF Types
      <3>. HIDE DEF n
      <3>. QED
        BY <3>1
    <2>. QED
      BY <2>1, <2>3, ElementOfSeq
  <1>4. merged' \in E
    BY <1>1, <1>2, <1>3 DEF Types, Yields
  <1>5. c' \in Seq(E) /\ Len(c') = 0
    BY <1>2, EmptySeq
  <1>6. Types(E)'
    <2>1. received' \in Nat
      BY <1>1, <1>2 DEF Types
    <2>2. Len(c') <= 1
      BY <1>5
    <2>. QED
      BY <1>1, <1>2, <1>4, <1>5, <2>1, <2>2, GrowsTypes DEF Types
  <1>7. PhaseInv'
    BY <1>1, <1>2 DEF PhaseInv, Named
  <1>8. ParseInv'
    BY <1>1, <1>2 DEF ParseInv
  <1>9. CountInv' /\ received' = Cardinality(SentBy)
    <2>1. SentBy' = SentBy
      BY <1>2 DEF SentBy
    <2>2. received \in Nat
      BY <1>1 DEF Types
    <2>. QED
      BY <1>1, <1>2, <1>3, <1>5, <2>1, <2>2 DEF CountInv
  <1>10. LeakOnlyIfThree'
    BY <1>2 DEF ResolutionInv, LeakOnlyIfThree, Entries
  <1>11. ASSUME phase' = "done" PROVE \A i \in DOMAIN parse : parse[i].pc = "sent"
    <2>1. Cardinality(SentBy) = Cardinality(DOMAIN parse)
      BY <1>1, <1>2, <1>9, <1>11, SentFacts
    <2>2. SentBy = DOMAIN parse
      BY <1>1, <2>1, SentFacts, FS_Subset
    <2>. QED
      BY <2>2 DEF SentBy
  <1>. QED
    BY <1>2, <1>3, <1>6, <1>7, <1>8, <1>9, <1>10, <1>11 DEF ResolutionInv

LEMMA EndingsKeep ==
  ASSUME NEW D, ResolutionInv(D),
         \/ Timeout \/ (\E i \in DOMAIN parse : StackOverflow(i)) \/ UNCHANGED vars
  PROVE  /\ ResolutionInv(D)' /\ UNCHANGED <<refs, base, list, parse, c>>
         /\ phase' \in {"failed", "crashed"} \/ UNCHANGED <<phase, merged>>
  <1>1. /\ UNCHANGED <<refs, base, list, parse, c, received, leaked>>
        /\ timeouts' = timeouts \/ timeouts' = timeouts + 1
        /\ merged' \in {Empty, merged}
        /\ \/ phase' \in {"failed", "crashed"} /\ phase = "wait"
           \/ UNCHANGED <<phase, merged>>
    BY DEF Timeout, StackOverflow, Running, vars
  <1>2. Types(D) /\ PhaseInv /\ ParseInv /\ CountInv
    BY DEF ResolutionInv
  <1>3. Types(D)'
    BY <1>1, <1>2 DEF Types
  <1>4. PhaseInv' /\ ParseInv' /\ CountInv'
    BY <1>1, <1>2 DEF PhaseInv, ParseInv, CountInv, SentBy, Named
  <1>5. LeakOnlyIfThree'
    BY <1>1, <1>2 DEF Types, ResolutionInv, LeakOnlyIfThree, Entries
  <1>. QED
    BY <1>1, <1>3, <1>4, <1>5 DEF ResolutionInv

LEMMA GrowsPrimed ==
  ASSUME NEW D, NEW E, D \subseteq E, ResolutionInv(D)'
  PROVE  ResolutionInv(E)'
  <1>1. Types(D)' /\ PhaseInv' /\ ParseInv' /\ CountInv' /\ LeakOnlyIfThree'
    BY DEF ResolutionInv
  <1>2. ParserOf(D) \subseteq ParserOf(E)
    BY Grows
  <1>3. parse' \in Seq(ParserOf(E)) /\ c' \in Seq(E)
    BY <1>1, <1>2, SeqMonotonic DEF Types
  <1>4. Types(E)'
    BY <1>1, <1>3 DEF Types
  <1>. QED
    BY <1>1, <1>4 DEF ResolutionInv

LEMMA NextCases ==
  ASSUME [Next]_vars
  PROVE  \/ Collect \/ Receive
         \/ \E i \in DOMAIN parse : SendParsed(i)
         \/ \E i \in DOMAIN parse :
               \/ NextChild(i) \/ Recurse(i) \/ ReturnEmpty(i)
               \/ ReturnFirst(i) \/ StructTimeout(i) \/ ChildStep(i)
         \/ Timeout \/ (\E i \in DOMAIN parse : StackOverflow(i)) \/ UNCHANGED vars
  BY Zenon DEF Next, ParseStep

LEMMA ResolutionStep ==
  ASSUME NEW D, NEW E, Yields(D, E), ResolutionInv(D), [Next]_vars
  PROVE  ResolutionInv(E)'
  <1>1. D \subseteq E
    BY DEF Yields
  <1>2. CASE Collect
    BY <1>1, <1>2, CollectKeeps, GrowsPrimed
  <1>3. CASE Receive
    BY <1>3, ReceiveKeeps
  <1>4. ASSUME NEW i \in DOMAIN parse, SendParsed(i) PROVE ResolutionInv(E)'
    BY <1>1, <1>4, SendParsedKeeps, GrowsPrimed
  <1>5. ASSUME NEW i \in DOMAIN parse,
               \/ NextChild(i) \/ Recurse(i) \/ ReturnEmpty(i)
               \/ ReturnFirst(i) \/ StructTimeout(i) \/ ChildStep(i)
        PROVE  ResolutionInv(E)'
    BY <1>5, GoroutineKeeps
  <1>6. CASE Timeout \/ (\E i \in DOMAIN parse : StackOverflow(i)) \/ UNCHANGED vars
    BY <1>1, <1>6, EndingsKeep, GrowsPrimed
  <1>. QED
    BY <1>2, <1>3, <1>4, <1>5, <1>6, NextCases

LEMMA ResolutionStarts ==
  ASSUME NEW D, Empty \in D, \A o \in Object : Content[o] \in D, Init
  PROVE  ResolutionInv(D)
  <1>1. Types(D)
    <2>1. <<>> \in Seq(Entry) /\ <<>> \in Seq(ParserOf(D)) /\ <<>> \in Seq(D)
             /\ Len(<<>>) = 0
      BY EmptySeq
    <2>2. Len(c) <= 1
      BY <2>1 DEF Init
    <2>. QED
      BY <2>1, <2>2 DEF Init, Types
  <1>2. PhaseInv /\ LeakOnlyIfThree
    BY DEF Init, PhaseInv, LeakOnlyIfThree
  <1>3. DOMAIN parse = {}
    BY DEF Init
  <1>4. CountInv
    <2>1. SentBy = {}
      BY <1>3 DEF SentBy
    <2>2. Cardinality(SentBy) = 0
      BY <2>1, FS_EmptySet
    <2>3. Len(c) = 0 /\ received = 0
      BY EmptySeq DEF Init
    <2>. QED
      BY <2>2, <2>3 DEF CountInv
  <1>5. ParseInv
    BY <1>3 DEF ParseInv
  <1>. QED
    BY <1>1, <1>2, <1>4, <1>5 DEF ResolutionInv

(* The maps around at some time are a set, and so are those around next.   *)
LEMMA SomeYield == ASSUME NEW D PROVE \E E : Yields(D, E)
  <1>. DEFINE E == D \cup {MergeMaps(m, n) : m, n \in D}
                     \cup {MergeMaps(l, MergeMaps(m, n)) : l, m, n \in D}
                     \cup {transformToMap(o, keys) : o \in Object, keys \in KeySeq}
  <1>1. D \subseteq E
    OBVIOUS
  <1>2. \A m, n \in D : MergeMaps(m, n) \in E
    OBVIOUS
  <1>3. \A l, m, n \in D : MergeMaps(l, MergeMaps(m, n)) \in E
    OBVIOUS
  <1>4. \A o \in Object, keys \in KeySeq : transformToMap(o, keys) \in E
    OBVIOUS
  <1>. HIDE DEF E
  <1>. QED
    BY <1>1, <1>2, <1>3, <1>4 DEF Yields

Consistent == \E D : ResolutionInv(D)

LEMMA ConsistentStarts == Init => Consistent
  <1>. DEFINE D == {Empty} \cup {Content[o] : o \in Object}
  <1>1. Empty \in D /\ \A o \in Object : Content[o] \in D
    OBVIOUS
  <1>. HIDE DEF D
  <1>. QED
    BY <1>1, ResolutionStarts DEF Consistent

LEMMA ConsistentStep == Consistent /\ [Next]_vars => Consistent'
  <1>. SUFFICES ASSUME NEW D, ResolutionInv(D), [Next]_vars PROVE Consistent'
    BY DEF Consistent
  <1>1. PICK E : Yields(D, E)
    BY SomeYield
  <1>2. ResolutionInv(E)'
    BY <1>1, ResolutionStep
  <1>. QED
    BY <1>2 DEF Consistent

LEMMA ConsistentTypes == Consistent => ValuesTypeOK
  <1>. SUFFICES ASSUME NEW D, ResolutionInv(D) PROVE ValuesTypeOK
    BY DEF Consistent
  <1>1. Types(D) /\ ParseInv /\ CountInv
    BY DEF ResolutionInv
  <1>2. ASSUME NEW i \in DOMAIN parse
        PROVE  parse[i].pc \in {"run", "send", "sent", "gone"}
    <2>1. parse[i] \in ParserOf(D)
      BY <1>1, LenProperties, ElementOfSeq DEF Types
    <2>. QED
      BY <2>1 DEF ParserOf
  <1>. QED
    BY <1>1, <1>2 DEF Types, ParseInv, CountInv, SentBy, ValuesTypeOK

(* Goroutines run as long as they have frames on their stack, and each map *)
(* that one of them sends to ManageValues arrives there once.              *)
THEOREM ValuesTypeCorrect == Spec => []ValuesTypeOK
  BY ConsistentStarts, ConsistentStep, ConsistentTypes, PTL DEF Spec

(* Goroutines of manageStruct stay blocked on a send only if a timer fired *)
(* or some object has three references: a frame returns with the first map *)
(* it receives, its channel has room for a second one.                     *)
THEOREM LeakOnlyIfThreeAlways == Spec => []LeakOnlyIfThree
  <1>1. Consistent => LeakOnlyIfThree
    BY DEF Consistent, ResolutionInv
  <1>. QED
    BY <1>1, ConsistentStarts, ConsistentStep, PTL DEF Spec

-----------------------------------------------------------------------------
(* Maps. *)

(* The first keys of a path.                                               *)
LEMMA UpFacts ==
  ASSUME NEW S, NEW p \in Seq(S), NEW n \in 0..Len(p)
  PROVE  /\ Up(p, n) \in Seq(S) /\ Len(Up(p, n)) = n
         /\ \A i \in 1..n : Up(p, n)[i] = p[i]
  <1>1. Len(p) \in Nat /\ \A i \in 1..n : p[i] \in S
    BY LenProperties, ElementOfSeq
  <1>2. /\ SubSeq(p, 1, n) \in Seq(S)
        /\ Len(SubSeq(p, 1, n)) = IF 1 <= n THEN n - 1 + 1 ELSE 0
        /\ \A i \in 1..n - 1 + 1 : SubSeq(p, 1, n)[i] = p[1 + i - 1]
    BY <1>1, SubSeqProperties
  <1>. QED
    BY <1>1, <1>2 DEF Up

LEMMA UpUp ==
  ASSUME NEW S, NEW p \in Seq(S), NEW n \in 0..Len(p), NEW k \in 0..n
  PROVE  Up(Up(p, n), k) = Up(p, k)
  <1>1. Len(p) \in Nat /\ k \in 0..Len(p)
    BY LenProperties
  <1>2. /\ Up(p, n) \in Seq(S) /\ Len(Up(p, n)) = n
        /\ \A i \in 1..n : Up(p, n)[i] = p[i]
    BY UpFacts
  <1>3. /\ Up(p, k) \in Seq(S) /\ Len(Up(p, k)) = k
        /\ \A i \in 1..k : Up(p, k)[i] = p[i]
    BY <1>1, UpFacts
  <1>4. /\ Up(Up(p, n), k) \in Seq(S) /\ Len(Up(Up(p, n), k)) = k
        /\ \A i \in 1..k : Up(Up(p, n), k)[i] = Up(p, n)[i]
    BY <1>2, UpFacts
  <1>5. \A i \in 1..k : Up(Up(p, n), k)[i] = Up(p, k)[i]
    BY <1>1, <1>2, <1>3, <1>4
  <1>. QED
    BY <1>3, <1>4, <1>5, SeqEqual

LEMMA UpAll ==
  ASSUME NEW S, NEW p \in Seq(S)
  PROVE  Up(p, Len(p)) = p
  BY SubSeqFull DEF Up

(* A path is longer than nothing.                                          *)
LEMMA PathFacts ==
  ASSUME NEW p \in Path
  PROVE  p \in Seq(Field) /\ Len(p) \in Nat \ {0} /\ Len(p) \in 1..Len(p)
  BY LenProperties, EmptySeq DEF Path

(* Maps whose values are held by some object for the place they are at.    *)
Made == {m \in Trees : IsTree(m) /\ \A p \in DOMAIN m : m[p] \in Held(p)}

LEMMA MadeFacts ==
  ASSUME NEW m \in Made
  PROVE  /\ DOMAIN m \subseteq Path /\ m \in [DOMAIN m -> Datum \cup {Branch}]
         /\ \A p \in DOMAIN m : m[p] \in Held(p)
         /\ \A p \in DOMAIN m : \A n \in 1..Len(p) - 1 :
               Up(p, n) \in DOMAIN m /\ m[Up(p, n)] = Branch
  <1>1. m \in Trees /\ IsTree(m) /\ \A p \in DOMAIN m : m[p] \in Held(p)
    BY DEF Made
  <1>2. PICK S \in SUBSET Path : m \in [S -> Datum \cup {Branch}]
    BY <1>1 DEF Trees
  <1>. QED
    BY <1>1, <1>2 DEF IsTree

LEMMA MadeOf ==
  ASSUME NEW S, S \subseteq Path, NEW m \in [S -> Datum \cup {Branch}],
         \A p \in S : m[p] \in Held(p),
         \A p \in S : \A n \in 1..Len(p) - 1 : Up(p, n) \in S /\ m[Up(p, n)] = Branch
  PROVE  m \in Made
  <1>1. m \in Trees /\ DOMAIN m = S
    BY DEF Trees
  <1>2. IsTree(m)
    BY <1>1 DEF IsTree
  <1>. QED
    BY <1>1, <1>2 DEF Made

LEMMA EmptyMade == Empty \in Made
  <1>1. Empty \in [{} -> Datum \cup {Branch}]
    BY DEF Empty
  <1>. QED
    BY <1>1, MadeOf

LEMMA ContentMade == ASSUME NEW o \in Object PROVE Content[o] \in Made
  <1>. DEFINE m == Content[o]
  <1>1. m \in [DOMAIN m -> Datum \cup {Branch}] /\ IsTree(m)
    BY ContentIsTree
  <1>2. DOMAIN m \subseteq Path
           /\ \A p \in DOMAIN m : \A n \in 1..Len(p) - 1 :
                 Up(p, n) \in DOMAIN m /\ m[Up(p, n)] = Branch
    BY <1>1 DEF IsTree
  <1>3. ASSUME NEW p \in DOMAIN m PROVE m[p] \in Held(p)
    <2>1. p \in Seq(Field) /\ Len(p) \in Nat \ {0}
      BY <1>2, PathFacts
    <2>2. SubSeq(p, 1, Len(p)) = p
      BY <2>1, SubSeqFull
    <2>3. Up(p, 1 - 1) \in Seq(Key)
      BY <2>1, SubSeqEmpty, EmptySeq DEF Up
    <2>. DEFINE y == <<o, 1>>
    <2>4. y \in Object \X (1..Len(p)) /\ y[1] = o /\ y[2] = 1
      BY <2>1
    <2>. HIDE DEF y
    <2>5. Content[y[1]][SubSeq(p, y[2], Len(p))] = m[p]
             /\ SubSeq(p, y[2], Len(p)) \in DOMAIN Content[y[1]]
             /\ Up(p, y[2] - 1) \in Seq(Key)
      BY <2>2, <2>3, <2>4
    <2>. QED
      BY <2>4, <2>5 DEF Held
  <1>. QED
    BY <1>1, <1>2, <1>3, MadeOf

(* Above a place that is clear all maps have maps.                         *)
LEMMA ClearAbove ==
  ASSUME NEW m \in Made, NEW n \in Made, NEW p, Clear(p), NEW k \in 1..Len(p) - 1
  PROVE  ~Differ(m, n, Up(p, k))
  BY MadeFacts DEF Clear, Differ

(* The places of a map that hold a datum for all objects that have one.    *)
Places(m) == {p \in Data(m) : Clear(p)}

LEMMA PlacesMade ==
  ASSUME NEW m \in Made, NEW p \in DOMAIN m, Clear(p)
  PROVE  p \in Places(m)
  BY MadeFacts DEF Clear, Places, Data

(* Merging two of these maps makes one of them, and it loses no place.     *)
LEMMA MergeMade ==
  ASSUME NEW m \in Made, NEW n \in Made
  PROVE  MergeMaps(m, n) \in Made
  <1>. DEFINE r == MergeMaps(m, n)
              S == {p \in DOMAIN m : Over(m, n, p)} \cup {p \in DOMAIN n : Under(m, n, p)}
  <1>1. /\ DOMAIN r = S /\ r = [p \in S |-> r[p]]
        /\ \A p \in S : r[p] = IF Over(m, n, p) THEN m[p] ELSE n[p]
    BY DEF MergeMaps
  <1>2. ASSUME NEW p \in S
        PROVE  p \in Path /\ r[p] \in Datum \cup {Branch} /\ r[p] \in Held(p)
    <2>1. CASE Over(m, n, p)
      <3>1. p \in DOMAIN m /\ r[p] = m[p]
        BY <1>1, <2>1 DEF Over
      <3>. QED
        BY <3>1, MadeFacts
    <2>2. CASE ~Over(m, n, p)
      <3>1. p \in DOMAIN n /\ r[p] = n[p]
        BY <1>1, <2>2
      <3>. QED
        BY <3>1, MadeFacts
    <2>. QED
      BY <2>1, <2>2
  <1>3. ASSUME NEW p \in S, NEW k \in 1..Len(p) - 1
        PROVE  Up(p, k) \in S /\ r[Up(p, k)] = Branch
    <2>. DEFINE u == Up(p, k)
    <2>1. p \in Seq(Field) /\ Len(p) \in Nat /\ k \in 0..Len(p) /\ k \in 1..Len(p)
             /\ k \in 1..k
      BY <1>2, PathFacts
    <2>2. Len(u) = k
      BY <2>1, UpFacts
    <2>3. \A j \in 1..k : Up(u, j) = Up(p, j) /\ j \in 1..Len(p)
      BY <2>1, UpUp
    <2>4. Up(u, k) = u
      BY <2>3, <2>1
    <2>. HIDE DEF u, r, S
    <2>5. CASE Over(m, n, p)
      <3>1. p \in DOMAIN m /\ \A j \in 1..Len(p) : Differ(m, n, Up(p, j)) => j % 2 = 1
        BY <2>5 DEF Over
      <3>2. u \in DOMAIN m /\ m[u] = Branch
        BY <3>1, MadeFacts DEF u
      <3>3. Over(m, n, u)
        BY <2>2, <2>3, <3>1, <3>2 DEF Over
      <3>. QED
        BY <1>1, <3>2, <3>3 DEF S, u
    <2>6. CASE ~Over(m, n, p)
      <3>1. p \in DOMAIN n /\ \A j \in 1..Len(p) : Differ(m, n, Up(p, j)) => j % 2 = 0
        BY <2>6 DEF Under, S
      <3>2. u \in DOMAIN n /\ n[u] = Branch
        BY <3>1, MadeFacts DEF u
      <3>3. Under(m, n, u)
        BY <2>2, <2>3, <3>1, <3>2 DEF Under
      <3>4. u \in S
        BY <3>2, <3>3 DEF S
      <3>5. ASSUME Over(m, n, u) PROVE m[u] = Branch
        <4>1. u \in DOMAIN m /\ (Differ(m, n, u) => k % 2 = 1)
          BY <2>1, <2>2, <2>4, <3>5 DEF Over
        <4>2. Differ(m, n, u) => k % 2 = 0
          BY <2>1, <3>1 DEF u
        <4>3. ~Differ(m, n, u)
          BY <4>1, <4>2
        <4>. QED
          BY <3>2, <4>1, <4>3 DEF Differ
      <3>. QED
        BY <1>1, <3>2, <3>4, <3>5 DEF u
    <2>. QED
      BY <2>5, <2>6
  <1>4. S \subseteq Path /\ r \in [S -> Datum \cup {Branch}]
    <2>. HIDE DEF r, S
    <2>. QED
      BY <1>1, <1>2
  <1>. HIDE DEF r, S
  <1>5. r \in Made
    BY <1>2, <1>3, <1>4, MadeOf
  <1>. QED
    BY <1>5 DEF r

LEMMA MergeKeeps ==
  ASSUME NEW m \in Made, NEW n \in Made
  PROVE  Places(m) \cup Places(n) \subseteq Places(MergeMaps(m, n))
  <1>. SUFFICES ASSUME NEW p \in Places(m) \cup Places(n)
                PROVE  p \in Places(MergeMaps(m, n))
    OBVIOUS
  <1>2. Clear(p) /\ p \in Path /\ p \in DOMAIN m \cup DOMAIN n
    BY MadeFacts DEF Places, Data
  <1>3. Len(p) \in Nat /\ Up(p, Len(p)) = p
    BY <1>2, PathFacts, UpAll
  <1>4. ASSUME NEW k \in 1..Len(p), Differ(m, n, Up(p, k)) PROVE k = Len(p)
    <2>1. k \notin 1..Len(p) - 1
      BY <1>2, <1>4, ClearAbove
    <2>. QED
      BY <1>3, <2>1
  <1>5. Over(m, n, p) \/ Under(m, n, p)
    <2>1. CASE Len(p) % 2 = 1 /\ p \in DOMAIN m
      BY <1>4, <2>1 DEF Over
    <2>2. CASE Len(p) % 2 = 0 /\ p \in DOMAIN n
      BY <1>4, <2>2 DEF Under
    <2>3. CASE p \notin DOMAIN n
      <3>1. \A k \in 1..Len(p) : ~Differ(m, n, Up(p, k))
        BY <1>3, <1>4, <2>3 DEF Differ
      <3>. QED
        BY <1>2, <2>3, <3>1 DEF Over
    <2>4. CASE p \notin DOMAIN m
      <3>1. \A k \in 1..Len(p) : ~Differ(m, n, Up(p, k))
        BY <1>3, <1>4, <2>4 DEF Differ
      <3>. QED
        BY <1>2, <2>4, <3>1 DEF Under
    <2>5. Len(p) % 2 = 1 \/ Len(p) % 2 = 0
      BY <1>3
    <2>. QED
      BY <1>2, <2>1, <2>2, <2>3, <2>4, <2>5
  <1>6. p \in DOMAIN MergeMaps(m, n)
    BY <1>5 DEF MergeMaps, Over, Under
  <1>. QED
    BY <1>2, <1>6, MergeMade, PlacesMade

(* The keys of a path that are not empty.                                  *)
LEMMA TrimmedKeys == ASSUME NEW keys \in KeySeq PROVE Trimmed(keys) \in Seq(Key)
  <1>. DEFINE used == {i \in DOMAIN keys : keys[i] # ""}
              upto(n) == used \cap 1..n
              card(n) == Cardinality(upto(n))
  <1>1. /\ DOMAIN keys = 1..Len(keys) /\ Len(keys) \in Nat
        /\ \A i \in DOMAIN keys : keys[i] \in Key \cup {""}
    BY LenProperties, ElementOfSeq DEF KeySeq
  <1>2. used \subseteq 1..Len(keys) /\ \A i \in used : keys[i] \in Key
    BY <1>1
  <1>. HIDE DEF used
  <1>3. ASSUME NEW n \in Nat PROVE IsFiniteSet(upto(n)) /\ card(n) \in Nat
    <2>1. IsFiniteSet(1..n) /\ upto(n) \subseteq 1..n
      BY FS_Interval
    <2>. HIDE DEF upto
    <2>. QED
      BY <2>1, FS_Subset, FS_CardinalityType
  <1>4. card(0) = 0
    <2>1. upto(0) = {}
      OBVIOUS
    <2>. HIDE DEF upto
    <2>. QED
      BY <2>1, FS_EmptySet
  <1>5. card(Len(keys)) = Cardinality(used)
    <2>1. upto(Len(keys)) = used
      BY <1>2
    <2>. HIDE DEF upto
    <2>. QED
      BY <2>1
  <1>6. ASSUME NEW n \in Nat, n # 0
        PROVE  card(n) = IF n \in used THEN card(n - 1) + 1 ELSE card(n - 1)
    <2>1. n - 1 \in Nat /\ n \notin upto(n - 1)
      BY <1>6
    <2>2. upto(n) = IF n \in used THEN upto(n - 1) \cup {n} ELSE upto(n - 1)
      BY <1>6
    <2>3. IsFiniteSet(upto(n - 1))
      BY <1>3, <2>1
    <2>. HIDE DEF upto
    <2>4. Cardinality(upto(n - 1) \cup {n}) = card(n - 1) + 1
      BY <2>1, <2>3, FS_AddElement
    <2>. QED
      BY <2>2, <2>4
  <1>. HIDE DEF card
  <1>7. ASSUME NEW j \in 1..Cardinality(used)
        PROVE  \E i \in used : card(i) = j
    <2>. DEFINE S == {n \in Nat : card(n) >= j}
    <2>1. j \in Nat \ {0} /\ Len(keys) \in S
      <3>1. card(Len(keys)) \in Nat
        BY <1>1, <1>3
      <3>2. j \in Nat \ {0} /\ card(Len(keys)) >= j
        BY <1>5, <3>1
      <3>. QED
        BY <1>1, <3>2, Zenon
    <2>2. PICK n \in S : \A x \in S : n <= x
      <3>. HIDE DEF S
      <3>1. S \subseteq Nat
        BY DEF S
      <3>. QED
        BY <2>1, <3>1, LeastIn
    <2>3. n \in Nat /\ n # 0 /\ n - 1 \in Nat
      BY <1>4, <2>1, <2>2
    <2>4. card(n - 1) < j /\ card(n) >= j
      <3>1. n - 1 \notin S
        BY <2>2, <2>3
      <3>2. card(n - 1) \in Nat /\ card(n) >= j
        BY <1>3, <2>3
      <3>. QED
        BY <2>1, <2>3, <3>1, <3>2
    <2>5. card(n) = IF n \in used THEN card(n - 1) + 1 ELSE card(n - 1)
      BY <1>6, <2>3
    <2>6. n \in used /\ card(n) = j
      <3>1. card(n - 1) \in Nat
        BY <1>3, <2>3
      <3>. QED
        BY <2>1, <2>4, <2>5, <3>1
    <2>. QED
      BY <2>6
  <1>8. \A j \in 1..Cardinality(used) :
           keys[CHOOSE i \in used : card(i) = j] \in Key
    BY <1>2, <1>7
  <1>9. Trimmed(keys) = [j \in 1..Cardinality(used) |->
                           keys[CHOOSE i \in used : card(i) = j]]
    BY DEF Trimmed, used, card
  <1>10. Trimmed(keys) \in [1..Cardinality(used) -> Key]
    BY <1>8, <1>9
  <1>11. Cardinality(used) \in Nat
    BY <1>1, <1>3, <1>5
  <1>. QED
    BY <1>10, <1>11, SeqDef

(* The first keys of a path that goes on with another one.                 *)
LEMMA UpConcat ==
  ASSUME NEW S, NEW s \in Seq(S), NEW q \in Seq(S)
  PROVE  /\ s \o q \in Seq(S) /\ Len(s \o q) = Len(s) + Len(q)
         /\ \A k \in 0..Len(s) : Up(s \o q, k) = Up(s, k)
         /\ \A k \in 1..Len(q) : Up(s \o q, Len(s) + k) = s \o Up(q, k)
         /\ SubSeq(s \o q, Len(s) + 1, Len(s \o q)) = q
  <1>. DEFINE p == s \o q
  <1>1. /\ p \in Seq(S) /\ Len(p) = Len(s) + Len(q)
        /\ \A i \in 1..Len(s) + Len(q) :
              p[i] = IF i <= Len(s) THEN s[i] ELSE q[i - Len(s)]
    BY ConcatProperties
  <1>2. Len(s) \in Nat /\ Len(q) \in Nat
    BY LenProperties
  <1>. HIDE DEF p
  <1>3. ASSUME NEW k \in 0..Len(s) PROVE Up(p, k) = Up(s, k)
    <2>1. k \in 0..Len(p)
      BY <1>1, <1>2
    <2>2. /\ Up(p, k) \in Seq(S) /\ Len(Up(p, k)) = k
          /\ \A i \in 1..k : Up(p, k)[i] = p[i]
      BY <1>1, <2>1, UpFacts
    <2>3. /\ Up(s, k) \in Seq(S) /\ Len(Up(s, k)) = k
          /\ \A i \in 1..k : Up(s, k)[i] = s[i]
      BY UpFacts
    <2>4. \A i \in 1..k : p[i] = s[i]
      BY <1>1, <1>2
    <2>. QED
      BY <2>2, <2>3, <2>4, SeqEqual
  <1>4. ASSUME NEW k \in 1..Len(q) PROVE Up(p, Len(s) + k) = s \o Up(q, k)
    <2>. DEFINE n == Len(s) + k
    <2>1. n \in 0..Len(p) /\ k \in 0..Len(q) /\ k \in Nat
      BY <1>1, <1>2
    <2>2. /\ Up(p, n) \in Seq(S) /\ Len(Up(p, n)) = n
          /\ \A i \in 1..n : Up(p, n)[i] = p[i]
      BY <1>1, <2>1, UpFacts
    <2>3. /\ Up(q, k) \in Seq(S) /\ Len(Up(q, k)) = k
          /\ \A i \in 1..k : Up(q, k)[i] = q[i]
      BY <2>1, UpFacts
    <2>4. /\ s \o Up(q, k) \in Seq(S) /\ Len(s \o Up(q, k)) = Len(s) + Len(Up(q, k))
          /\ \A i \in 1..Len(s) + Len(Up(q, k)) :
                (s \o Up(q, k))[i] = IF i <= Len(s) THEN s[i] ELSE Up(q, k)[i - Len(s)]
      BY <2>3, ConcatProperties
    <2>5. ASSUME NEW i \in 1..n PROVE Up(p, n)[i] = (s \o Up(q, k))[i]
      <3>1. i \in 1..Len(p) /\ Up(p, n)[i] = p[i]
        BY <1>1, <1>2, <2>1, <2>2
      <3>2. (s \o Up(q, k))[i] = IF i <= Len(s) THEN s[i] ELSE Up(q, k)[i - Len(s)]
        BY <2>3, <2>4
      <3>3. i > Len(s) => i - Len(s) \in 1..k
        BY <1>2, <2>1
      <3>. QED
        BY <1>1, <1>2, <2>3, <3>1, <3>2, <3>3
    <2>. HIDE DEF n
    <2>6. Len(s \o Up(q, k)) = n
      BY <2>3, <2>4 DEF n
    <2>. QED
      BY <2>2, <2>4, <2>5, <2>6, SeqEqual DEF n
  <1>5. SubSeq(p, Len(s) + 1, Len(p)) = q
    <2>. DEFINE t == SubSeq(p, Len(s) + 1, Len(p))
    <2>1. \A i \in Len(s) + 1..Len(p) : p[i] \in S
      BY <1>1, <1>2, ElementOfSeq
    <2>2. Len(s) + 1 \in 1..Len(p) + 1 /\ Len(p) \in Nat /\ Len(p) - (Len(s) + 1) + 1 = Len(q)
      BY <1>1, <1>2
    <2>3. /\ t \in Seq(S)
          /\ Len(t) = IF Len(s) + 1 <= Len(p) THEN Len(p) - (Len(s) + 1) + 1 ELSE 0
          /\ \A i \in 1..Len(p) - (Len(s) + 1) + 1 : t[i] = p[Len(s) + 1 + i - 1]
      BY <1>2, <2>1, <2>2, SubSeqProperties
    <2>. HIDE DEF t
    <2>4. Len(t) = Len(q)
      BY <1>1, <1>2, <2>2, <2>3
    <2>5. ASSUME NEW i \in 1..Len(q) PROVE t[i] = q[i]
      <3>1. /\ Len(s) + 1 + i - 1 = Len(s) + i
            /\ Len(s) + i \in 1..Len(s) + Len(q) /\ ~(Len(s) + i <= Len(s))
            /\ Len(s) + i - Len(s) = i
        BY <1>2
      <3>2. t[i] = p[Len(s) + i]
        BY <2>2, <2>3, <3>1
      <3>. QED
        BY <1>1, <3>1, <3>2
    <2>. QED
      BY <2>3, <2>4, <2>5, SeqEqual DEF t
  <1>. QED
    BY <1>1, <1>3, <1>4, <1>5 DEF p

(* So is what a goroutine of manageStruct makes of an object.              *)
LEMMA PutMade ==
  ASSUME NEW o \in Object, NEW ks \in Seq(Key)
  PROVE  PutUnder(Content[o], ks) \in Made
  <1>. DEFINE m == Content[o]
              r == PutUnder(m, ks)
              Heads == {n \in 1..Len(ks) : ~Dropped(ks, n)}
              Rests == {x \in DOMAIN m : ~Dropped(ks, Len(ks))}
              S == {Up(ks, n) : n \in Heads} \cup {ks \o q : q \in Rests}
  <1>1. m \in Made
    BY ContentMade
  <1>2. /\ DOMAIN r = S /\ r = [p \in S |-> r[p]]
        /\ \A p \in S : r[p] = IF Len(p) <= Len(ks) THEN Branch
                               ELSE m[SubSeq(p, Len(ks) + 1, Len(p))]
    BY DEF PutUnder
  <1>. HIDE DEF m, r, S
  <1>3. ks \in Seq(Field) /\ Len(ks) \in Nat
    <2>1. /\ Len(ks) \in Nat /\ ks \in [1..Len(ks) -> Key] /\ Key \subseteq Field
      BY LenProperties, ContentIsTree
    <2>2. ks \in [1..Len(ks) -> Field]
      BY <2>1
    <2>. QED
      BY <2>1, <2>2, SeqDef
  <1>4. ASSUME NEW n \in Heads
        PROVE  LET p == Up(ks, n) IN
               /\ p \in S /\ r[p] = Branch
               /\ p \in Path /\ Len(p) = n /\ Branch \in Held(p)
    <2>. DEFINE p == Up(ks, n)
    <2>1. n \in 0..Len(ks) /\ n \in Nat \ {0} /\ n <= Len(ks)
      BY <1>3
    <2>2. p \in Seq(Key) /\ p \in Seq(Field) /\ Len(p) = n
      BY <1>3, <2>1, UpFacts
    <2>3. p \in S
      BY DEF S
    <2>. HIDE DEF p
    <2>4. p # <<>>
      BY <2>1, <2>2, EmptySeq
    <2>5. r[p] = Branch
      BY <1>2, <2>1, <2>2, <2>3
    <2>. QED
      BY <2>2, <2>3, <2>4, <2>5 DEF p, Path, Held
  <1>5. ASSUME NEW q \in Rests
        PROVE  LET p == ks \o q IN
               /\ p \in S /\ r[p] = m[q]
               /\ p \in Path /\ Len(p) = Len(ks) + Len(q) /\ m[q] \in Held(p)
    <2>. DEFINE p == ks \o q
                y == <<o, Len(ks) + 1>>
    <2>1. q \in DOMAIN m /\ q \in Path /\ q \in Seq(Field) /\ Len(q) \in Nat \ {0}
      BY <1>1, MadeFacts, PathFacts
    <2>2. /\ p \in Seq(Field) /\ Len(p) = Len(ks) + Len(q)
          /\ Up(p, Len(ks)) = Up(ks, Len(ks))
          /\ SubSeq(p, Len(ks) + 1, Len(p)) = q
      BY <1>3, <2>1, UpConcat
    <2>3. Up(ks, Len(ks)) = ks
      BY UpAll
    <2>4. p \in S
      BY DEF S
    <2>. HIDE DEF p
    <2>5. p # <<>> /\ ~(Len(p) <= Len(ks)) /\ Len(ks) + 1 \in 1..Len(p)
             /\ Len(ks) + 1 - 1 = Len(ks)
      BY <1>3, <2>1, <2>2, EmptySeq
    <2>6. r[p] = m[q]
      BY <1>2, <2>2, <2>4, <2>5
    <2>7. y \in Object \X (1..Len(p)) /\ y[1] = o /\ y[2] = Len(ks) + 1
      BY <2>5
    <2>. HIDE DEF y
    <2>8. /\ Content[y[1]][SubSeq(p, y[2], Len(p))] = m[q]
          /\ SubSeq(p, y[2], Len(p)) \in DOMAIN Content[y[1]]
          /\ Up(p, y[2] - 1) \in Seq(Key)
      <3>1. Content[y[1]] = m /\ SubSeq(p, y[2], Len(p)) = q
        BY <2>2, <2>7 DEF m
      <3>2. Up(p, y[2] - 1) = ks
        BY <2>2, <2>3, <2>5, <2>7
      <3>. QED
        BY <2>1, <3>1, <3>2
    <2>9. m[q] \in Held(p)
      BY <2>7, <2>8 DEF Held
    <2>. QED
      BY <2>2, <2>4, <2>5, <2>6, <2>9 DEF p, Path
  <1>6. \A p \in S : (\E n \in Heads : p = Up(ks, n)) \/ (\E q \in Rests : p = ks \o q)
    BY DEF S
  <1>7. ASSUME NEW p \in S
        PROVE  p \in Path /\ r[p] \in Datum \cup {Branch} /\ r[p] \in Held(p)
    <2>1. CASE \E n \in Heads : p = Up(ks, n)
      BY <1>4, <2>1
    <2>2. CASE \E q \in Rests : p = ks \o q
      <3>1. PICK q \in Rests : p = ks \o q
        BY <2>2
      <3>2. m[q] \in Datum \cup {Branch}
        BY <1>1, MadeFacts
      <3>. QED
        BY <1>5, <3>1, <3>2
    <2>. QED
      BY <1>6, <2>1, <2>2
  <1>8. ASSUME NEW n \in 0..Len(ks), ~Dropped(ks, n), NEW k \in 1..n
        PROVE  k \in Heads
    <2>1. k \in 1..Len(ks) /\ 1..k - 1 \subseteq 1..n - 1
      BY <1>3
    <2>2. ~Dropped(ks, k)
      BY <1>8, <2>1 DEF Dropped
    <2>. QED
      BY <2>1, <2>2
  <1>9. ASSUME NEW p \in S, NEW k \in 1..Len(p) - 1
        PROVE  Up(p, k) \in S /\ r[Up(p, k)] = Branch
    <2>1. CASE \E n \in Heads : p = Up(ks, n)
      <3>1. PICK n \in Heads : p = Up(ks, n)
        BY <2>1
      <3>2. Len(p) = n /\ n \in 0..Len(ks) /\ n \in Nat
        BY <1>3, <1>4, <3>1
      <3>3. k \in 0..n /\ k \in 1..n
        BY <3>2
      <3>4. Up(p, k) = Up(ks, k)
        BY <1>3, <3>1, <3>2, <3>3, UpUp
      <3>5. k \in Heads
        BY <1>8, <3>2, <3>3
      <3>. QED
        BY <1>4, <3>4, <3>5
    <2>2. CASE \E q \in Rests : p = ks \o q
      <3>1. PICK q \in Rests : p = ks \o q
        BY <2>2
      <3>2. /\ q \in DOMAIN m /\ q \in Seq(Field) /\ Len(q) \in Nat
            /\ ~Dropped(ks, Len(ks)) /\ Len(p) = Len(ks) + Len(q)
        BY <1>1, <1>5, <3>1, MadeFacts, PathFacts
      <3>3. CASE k <= Len(ks)
        <4>1. k \in 0..Len(ks) /\ k \in 1..Len(ks) /\ Len(ks) \in 0..Len(ks)
          BY <1>3, <3>3
        <4>2. Up(p, k) = Up(ks, k)
          BY <1>3, <3>1, <3>2, <4>1, UpConcat
        <4>3. k \in Heads
          BY <1>8, <3>2, <4>1
        <4>. QED
          BY <1>4, <4>2, <4>3
      <3>4. CASE ~(k <= Len(ks))
        <4>. DEFINE j == k - Len(ks)
        <4>1. j \in 1..Len(q) /\ j \in 1..Len(q) - 1 /\ k = Len(ks) + j
          BY <1>3, <3>2, <3>4
        <4>. HIDE DEF j
        <4>2. Up(p, k) = ks \o Up(q, j)
          <5>1. \A i \in 1..Len(q) : Up(ks \o q, Len(ks) + i) = ks \o Up(q, i)
            BY <1>3, <3>2, UpConcat
          <5>. QED
            BY <3>1, <4>1, <5>1
        <4>3. Up(q, j) \in DOMAIN m /\ m[Up(q, j)] = Branch
          BY <1>1, <3>2, <4>1, MadeFacts
        <4>. QED
          BY <1>5, <3>2, <4>2, <4>3
      <3>. QED
        BY <3>3, <3>4
    <2>. QED
      BY <1>6, <2>1, <2>2
  <1>10. S \subseteq Path /\ r \in [S -> Datum \cup {Branch}]
    BY <1>2, <1>7
  <1>11. r \in Made
    BY <1>7, <1>9, <1>10, MadeOf
  <1>. QED
    BY <1>11 DEF r, m

LEMMA ConvertedMade ==
  ASSUME NEW o \in Object, NEW keys \in KeySeq
  PROVE  transformToMap(o, keys) \in Made
  BY TrimmedKeys, PutMade DEF transformToMap, MergeUntypedMaps

-----------------------------------------------------------------------------
(* No object loses its own values. *)

(* The values of an object are in the map its goroutine sends, and once    *)
(* sent they are in the result or on their way.                            *)
OwnPlaces(i) == Places(Content[Named[i]])
Carried(i) ==
    /\ parse[i].pc = "run" => parse[i].stack[1].obj = Named[i]
    /\ parse[i].pc \in {"send", "sent"} => OwnPlaces(i) \subseteq Places(parse[i].value)
    /\ parse[i].pc = "sent" /\ phase = "wait" =>
          \/ OwnPlaces(i) \subseteq Places(merged)
          \/ c # <<>> /\ OwnPlaces(i) \subseteq Places(c[1])
AllKept == phase = "done" => \A i \in DOMAIN Named : OwnPlaces(i) \subseteq Places(merged)
OwnInv == (\A i \in DOMAIN parse : Carried(i)) /\ AllKept

LEMMA MadeYields ==
  /\ Yields(Made, Made)
  /\ Empty \in Made /\ \A o \in Object : Content[o] \in Made
  <1>1. \A m, n \in Made : MergeMaps(m, n) \in Made
    BY MergeMade
  <1>2. \A l, m, n \in Made : MergeMaps(l, MergeMaps(m, n)) \in Made
    BY <1>1
  <1>3. \A o \in Object, keys \in KeySeq : transformToMap(o, keys) \in Made
    BY ConvertedMade
  <1>. QED
    BY <1>1, <1>2, <1>3, EmptyMade, ContentMade DEF Yields

LEMMA OwnStep ==
  ASSUME ResolutionInv(Made), OwnInv, [Next]_vars
  PROVE  OwnInv'
  <1>1. Yields(Made, Made) /\ Types(Made) /\ PhaseInv /\ ParseInv
    BY MadeYields DEF ResolutionInv
  <1>2. CASE Collect
    <2>1. UNCHANGED Named /\ phase' \in {"failed", "wait"}
      BY <1>2 DEF Collect, Named
    <2>2. DOMAIN parse' = DOMAIN Named
             /\ \A i \in DOMAIN Named : /\ parse'[i].pc = "run"
                                        /\ parse'[i].stack[1].obj = Named[i]
      BY <1>2, CollectKeeps
    <2>3. \A i \in DOMAIN parse' : Carried(i)'
      BY <2>1, <2>2 DEF Carried
    <2>. QED
      BY <2>1, <2>3 DEF OwnInv, AllKept
  <1>3. CASE Receive
    <2>1. /\ phase = "wait" /\ c # <<>> /\ c[1] \in Made /\ c' = <<>>
          /\ merged' = MergeMaps(c[1], merged) /\ UNCHANGED <<Named, parse>>
          /\ phase' = "done" => \A i \in DOMAIN parse : parse[i].pc = "sent"
          /\ phase' \in {"wait", "done"}
      BY <1>1, <1>3, ReceiveKeeps DEF Named
    <2>2. Places(c[1]) \cup Places(merged) \subseteq Places(merged')
      BY <1>1, <2>1, MergeKeeps DEF Types
    <2>3. ASSUME NEW i \in DOMAIN parse
          PROVE  /\ parse[i].pc = "sent" => OwnPlaces(i) \subseteq Places(merged')
                 /\ Carried(i)'
      <3>1. Carried(i)
        BY DEF OwnInv
      <3>2. parse[i].pc = "sent" => OwnPlaces(i) \subseteq Places(merged')
        BY <2>1, <2>2, <3>1 DEF Carried
      <3>3. OwnPlaces(i)' = OwnPlaces(i)
        BY <2>1 DEF OwnPlaces
      <3>. QED
        BY <2>1, <3>1, <3>2, <3>3 DEF Carried
    <2>4. DOMAIN parse = DOMAIN Named
      BY <1>1, <2>1 DEF PhaseInv
    <2>5. AllKept'
      BY <2>1, <2>3, <2>4 DEF AllKept, OwnPlaces
    <2>. QED
      BY <2>1, <2>3, <2>5 DEF OwnInv
  <1>4. ASSUME NEW i \in DOMAIN parse, SendParsed(i) PROVE OwnInv'
    <2>1. /\ DOMAIN parse' = DOMAIN parse /\ parse'[i].pc = "sent"
          /\ parse'[i].value = parse[i].value
          /\ \A j \in DOMAIN parse : j # i => parse'[j] = parse[j]
          /\ c' = <<parse[i].value>> /\ c = <<>>
      BY <1>4, SendParsedKeeps
    <2>2. phase = "wait" /\ parse[i].pc = "send" /\ UNCHANGED <<Named, phase, merged>>
      BY <1>4 DEF SendParsed, Named
    <2>3. ASSUME NEW j \in DOMAIN parse PROVE Carried(j)'
      <3>1. Carried(j) /\ OwnPlaces(j)' = OwnPlaces(j)
        BY <2>2 DEF OwnInv, OwnPlaces
      <3>2. CASE j = i
        <4>1. OwnPlaces(i) \subseteq Places(parse[i].value)
          BY <2>2, <3>1, <3>2 DEF Carried
        <4>2. c' # <<>> /\ c'[1] = parse[i].value
          BY <2>1
        <4>. QED
          BY <2>1, <3>1, <3>2, <4>1, <4>2 DEF Carried
      <3>3. CASE j # i
        <4>1. parse'[j] = parse[j]
          BY <2>1, <3>3
        <4>. QED
          BY <2>1, <2>2, <3>1, <4>1 DEF Carried
      <3>. QED
        BY <3>2, <3>3
    <2>. QED
      BY <2>1, <2>2, <2>3 DEF OwnInv, AllKept
  <1>5. ASSUME NEW i \in DOMAIN parse,
               \/ NextChild(i) \/ Recurse(i) \/ ReturnEmpty(i)
               \/ ReturnFirst(i) \/ StructTimeout(i) \/ ChildStep(i)
        PROVE  OwnInv'
    <2>1. Moves(Made, i) /\ parse[i].pc = "run" /\ phase = "wait"
      BY <1>1, <1>5, GoroutineKeeps
    <2>2. UNCHANGED <<refs, base, phase, c, merged>>
      BY <1>5 DEF NextChild, Recurse, ReturnEmpty, ReturnFirst, StructTimeout,
         ChildStep, Convert, SendChild
    <2>3. PICK q : Becomes(Made, i, q) /\ parse' = [parse EXCEPT ![i] = q]
      BY <2>1 DEF Moves
    <2>4. /\ DOMAIN parse' = DOMAIN parse /\ parse'[i] = q
          /\ \A j \in DOMAIN parse : j # i => parse'[j] = parse[j]
      BY <2>3
    <2>5. ASSUME NEW j \in DOMAIN parse PROVE Carried(j)'
      <3>1. Carried(j) /\ OwnPlaces(j)' = OwnPlaces(j) /\ Named' = Named
        BY <2>2 DEF OwnInv, OwnPlaces, Named
      <3>2. CASE j = i
        <4>1. parse[i].stack[1].obj = Named[i]
          BY <2>1, <3>1, <3>2 DEF Carried
        <4>2. /\ q.pc \in {"run", "send", "gone"}
              /\ q.pc = "run" => q.stack[1].obj = Named[i]
              /\ q.pc = "send" => \E v \in Made : q.value = MergeMaps(Content[Named[i]], v)
          BY <2>3, <4>1, Zenon DEF Becomes
        <4>3. Content[Named[i]] \in Made
          <5>1. Named \in Seq(Object) /\ i \in DOMAIN Named
            BY <1>1, <2>1, InputFacts DEF PhaseInv
          <5>2. Named[i] \in Object
            BY <5>1, LenProperties, ElementOfSeq
          <5>. QED
            BY <5>2, ContentMade
        <4>4. q.pc = "send" => OwnPlaces(i) \subseteq Places(q.value)
          BY <4>2, <4>3, MergeKeeps DEF OwnPlaces
        <4>. QED
          BY <2>4, <3>1, <3>2, <4>2, <4>4 DEF Carried
      <3>3. CASE j # i
        <4>1. parse'[j] = parse[j]
          BY <2>4, <3>3
        <4>. QED
          BY <2>2, <3>1, <4>1 DEF Carried
      <3>. QED
        BY <3>2, <3>3
    <2>. QED
      BY <2>1, <2>2, <2>4, <2>5 DEF OwnInv, AllKept
  <1>6. CASE Timeout \/ (\E i \in DOMAIN parse : StackOverflow(i)) \/ UNCHANGED vars
    <2>1. /\ UNCHANGED <<Named, parse, c>>
          /\ phase' \in {"failed", "crashed"} \/ UNCHANGED <<phase, merged>>
      BY <1>6, EndingsKeep DEF Named
    <2>2. ASSUME NEW i \in DOMAIN parse PROVE Carried(i)'
      BY <2>1 DEF OwnInv, Carried, OwnPlaces
    <2>3. AllKept' /\ DOMAIN parse' = DOMAIN parse
      <3>1. CASE phase' \in {"failed", "crashed"}
        BY <2>1, <3>1 DEF AllKept
      <3>2. CASE UNCHANGED <<phase, merged>>
        BY <2>1, <3>2 DEF OwnInv, AllKept, OwnPlaces
      <3>. QED
        BY <2>1, <3>1, <3>2
    <2>. QED
      BY <2>2, <2>3 DEF OwnInv
  <1>. QED
    BY <1>2, <1>3, <1>4, <1>5, <1>6, NextCases

LEMMA KeptAll ==
  ASSUME ResolutionInv(Made), OwnInv
  PROVE  OwnValuesKept
  <1>. SUFFICES ASSUME phase = "done", NEW n \in DOMAIN base, base[n] \in Object,
                       \A m \in 1..n : ~LeadsNowhere(refs, base[m]),
                       NEW p \in Data(Content[base[n]]), Clear(p)
                PROVE  p \in Data(merged) /\ merged[p] \in Held(p)
    BY DEF OwnValuesKept
  <1>1. merged \in Made /\ \E x \in Inputs : refs = x.refs /\ base = x.base
    BY DEF ResolutionInv, Types
  <1>2. base[n] \in Range(Named)
    BY <1>1, UsableUnlessBroken DEF Named
  <1>3. PICK i \in DOMAIN Named : Named[i] = base[n]
    BY <1>2 DEF Range
  <1>4. p \in Places(merged)
    BY <1>3 DEF OwnInv, AllKept, OwnPlaces, Places
  <1>. QED
    BY <1>1, <1>4, MadeFacts DEF Places, Data

(* Whatever the goroutines do and in whatever order their maps arrive, at  *)
(* the place of each value of an object that a release names there is this *)
(* value or another object's datum for the same place: none is replaced by *)
(* a map, by a value that belongs elsewhere, or by nothing.  The           *)
(* exceptions are those of OwnValuesKept: where somebody has a map and     *)
(* another a datum, and objects left out for a reference that leads        *)
(* nowhere.                                                                *)
THEOREM OwnValuesKeptAlways == Spec => []OwnValuesKept
  <1>1. Init => ResolutionInv(Made) /\ OwnInv
    <2>1. Init => ResolutionInv(Made)
      BY ResolutionStarts, MadeYields
    <2>2. Init => OwnInv
      BY DEF Init, OwnInv, AllKept
    <2>. QED
      BY <2>1, <2>2
  <1>2. ResolutionInv(Made) /\ OwnInv /\ [Next]_vars => ResolutionInv(Made)' /\ OwnInv'
    BY MadeYields, ResolutionStep, OwnStep
  <1>. QED
    BY <1>1, <1>2, KeptAll, PTL DEF Spec

-----------------------------------------------------------------------------
(* Cycles. *)

(* What merging recurses into.                                             *)
Refers(o) == DOMAIN refs[o] # {}
Below(n) == list[n].obj

(* The objects in R have returned: those they refer to have returned       *)
(* before, which rank shows.                                               *)
Ranked(R, rank, bound) ==
    /\ rank \in [Object -> Nat] /\ bound \in Nat /\ R \subseteq Object
    /\ \A o \in Object : rank[o] < bound
    /\ \A o \in R : \A n \in Filter(list, o) :
          Refers(Below(n)) => Below(n) \in R /\ rank[Below(n)] < rank[o]

(* What a frame has passed has returned; above it is the child at hand.    *)
Passed(f, R) == \A n \in Filter(list, f.obj) \ f.todo : Refers(Below(n)) => Below(n) \in R
Shape(s, R) ==
    \A d \in DOMAIN s : /\ Passed(s[d], R)
                        /\ d > 1 => s[d].obj = Child(s[d - 1]).obj

Progress(i, R) ==
    /\ parse[i].pc = "run" => /\ Shape(parse[i].stack, R)
                              /\ parse[i].stack[1].obj = Named[i]
    /\ parse[i].pc \in {"send", "sent"} /\ Refers(Named[i]) => Named[i] \in R

Returning ==
    \E R, rank, bound : Ranked(R, rank, bound) /\ \A i \in DOMAIN parse : Progress(i, R)

ListInv == phase # "collect" => list \in RefLists(refs, Named)

CycleInv == ListInv /\ Returning /\ CyclesCrash

(* What was collected, by the references of the objects near.              *)
LEMMA CollectedFacts ==
  ASSUME NEW D, Types(D), ListInv, phase # "collect", NEW o \in Object
  PROVE  /\ \A n \in Filter(list, o) : /\ o \in Near(refs, Named)
                                       /\ Below(n) \in Range(refs[o])
         /\ o \in Near(refs, Named) =>
               \A x \in Range(refs[o]) : \E n \in Filter(list, o) : Below(n) = x
  <1>. DEFINE found == {<<e.key, e.obj>> : e \in {d \in Range(list) : d.parent = o}}
              named == {<<k, refs[o][k]>> : k \in DOMAIN refs[o]}
  <1>1. found = IF o \in Near(refs, Named) THEN named ELSE {}
    <2>1. PICK x \in Inputs : refs = x.refs /\ base = x.base
      BY DEF Types
    <2>. QED
      BY <2>1, CollectedIsNear DEF ListInv, Named
  <1>2. ASSUME NEW n \in Filter(list, o)
        PROVE  o \in Near(refs, Named) /\ Below(n) \in Range(refs[o])
    <2>1. list[n] \in Range(list) /\ list[n].parent = o
      BY DEF Filter, Range
    <2>2. <<list[n].key, list[n].obj>> \in found
      BY <2>1
    <2>. HIDE DEF found
    <2>3. o \in Near(refs, Named) /\ <<list[n].key, list[n].obj>> \in named
      BY <1>1, <2>2
    <2>4. PICK k \in DOMAIN refs[o] : list[n].obj = refs[o][k]
      BY <2>3
    <2>. QED
      BY <2>3, <2>4 DEF Below, Range
  <1>3. ASSUME o \in Near(refs, Named), NEW x \in Range(refs[o])
        PROVE  \E n \in Filter(list, o) : Below(n) = x
    <2>1. PICK k \in DOMAIN refs[o] : x = refs[o][k]
      BY DEF Range
    <2>2. <<k, x>> \in found
      BY <1>1, <1>3, <2>1
    <2>3. PICK e \in Range(list) : e.parent = o /\ <<k, x>> = <<e.key, e.obj>>
      BY <2>2
    <2>4. PICK n \in DOMAIN list : e = list[n]
      BY DEF Range
    <2>. QED
      BY <2>3, <2>4 DEF Filter, Below
  <1>. QED
    BY <1>2, <1>3

LEMMA NamedNear ==
  ASSUME NEW o \in Object, o \in Range(Named)
  PROVE  o \in Near(refs, Named)
  <1>. DEFINE p == [j \in 1..1 |-> o]
  <1>1. p \in Walk(refs, 1, Object) /\ p[1] = o
    BY DEF Walk
  <1>2. 1 \in 1..MaxDepth + 1
    BY StackHasRoom
  <1>. QED
    BY <1>1, <1>2 DEF Near

(* When the objects a release names have returned, so has every object     *)
(* near them that refers to others,                                        *)
LEMMA NearReturned ==
  ASSUME NEW D, Types(D), ListInv, phase # "collect",
         NEW R, NEW rank, NEW bound, Ranked(R, rank, bound),
         \A i \in DOMAIN Named : Refers(Named[i]) => Named[i] \in R,
         NEW o \in Near(refs, Named), Refers(o)
  PROVE  o \in R
  <1>n. PICK n \in 1..MaxDepth + 1 :
           \E w \in Walk(refs, n, Object) : w[1] \in Range(Named) /\ w[n] = o
    BY DEF Near
  <1>1. PICK w \in Walk(refs, n, Object) : w[1] \in Range(Named) /\ w[n] = o
    BY <1>n
  <1>2. n \in Nat /\ n >= 1 /\ n <= MaxDepth + 1 /\ MaxDepth \in Nat
    BY StackHasRoom
  <1>3. w \in [1..n -> Object] /\ \A j \in 1..n - 1 : w[j + 1] \in Range(refs[w[j]])
    BY DEF Walk
  <1>4. ASSUME NEW j \in 1..n PROVE Refers(w[j])
    <2>1. CASE j = n
      BY <1>1, <2>1
    <2>2. CASE j # n
      <3>1. w[j + 1] \in Range(refs[w[j]])
        BY <1>2, <1>3, <2>2
      <3>. QED
        BY <3>1 DEF Refers, Range
    <2>. QED
      BY <2>1, <2>2
  <1>. DEFINE S == {j \in 1..n : w[j] \notin R}
  <1>5. SUFFICES ASSUME S # {} PROVE FALSE
    BY <1>1, <1>2
  <1>6. PICK m \in S : \A j \in S : m <= j
    <2>1. S \in SUBSET Nat /\ S # {}
      BY <1>5
    <2>. HIDE DEF S
    <2>. QED
      BY <2>1, LeastIn
  <1>7. m \in 1..n /\ w[m] \notin R
    BY <1>6
  <1>8. w[1] \in R
    <2>1. PICK i \in DOMAIN Named : w[1] = Named[i]
      BY <1>1 DEF Range
    <2>2. 1 \in 1..n
      BY <1>2
    <2>. QED
      BY <1>4, <2>1, <2>2
  <1>9. m - 1 \in 1..n - 1 /\ m - 1 \in 1..n /\ (m - 1) + 1 = m /\ m - 1 \in Nat
    BY <1>2, <1>7, <1>8
  <1>10. w[m - 1] \in R
    <2>1. m - 1 \notin S
      BY <1>6, <1>9
    <2>. QED
      BY <1>9, <2>1
  <1>11. w[m - 1] \in Near(refs, Named)
    <2>. DEFINE k == m - 1
                v == [j \in 1..k |-> w[j]]
    <2>1. k \in 1..MaxDepth + 1 /\ k \in 1..n
      BY <1>2, <1>9
    <2>2. v \in Walk(refs, k, Object)
      <3>1. v \in [1..k -> Object]
        BY <1>2, <1>3, <2>1
      <3>2. ASSUME NEW j \in 1..k - 1 PROVE v[j + 1] \in Range(refs[v[j]])
        <4>1. j \in 1..n - 1 /\ j \in 1..k /\ j + 1 \in 1..k
          BY <1>2, <2>1
        <4>. QED
          BY <1>3, <4>1
      <3>. QED
        BY <3>1, <3>2 DEF Walk
    <2>3. v[1] = w[1] /\ v[k] = w[k] /\ w[k] \in Object
      BY <1>2, <1>3, <2>1
    <2>. HIDE DEF v, k
    <2>4. w[k] \in Near(refs, Named)
      BY <1>1, <2>1, <2>2, <2>3 DEF Near
    <2>. QED
      BY <2>4 DEF k
  <1>12. w[m] \in Range(refs[w[m - 1]]) /\ w[m - 1] \in Object
    BY <1>3, <1>9
  <1>13. PICK x \in Filter(list, w[m - 1]) : Below(x) = w[m]
    BY <1>11, <1>12, CollectedFacts
  <1>14. Refers(w[m])
    BY <1>4, <1>7
  <1>. QED
    BY <1>7, <1>10, <1>13, <1>14 DEF Ranked

(* and there is no cycle among them.                                       *)
LEMMA NoCycle ==
  ASSUME NEW D, Types(D), ListInv, phase # "collect",
         NEW R, NEW rank, NEW bound, Ranked(R, rank, bound),
         \A i \in DOMAIN Named : Refers(Named[i]) => Named[i] \in R
  PROVE  ~ShortCycle
  <1>. SUFFICES ASSUME ShortCycle PROVE FALSE
    OBVIOUS
  <1>1. Cardinality(Object) \in Nat
    BY StackHasRoom, FS_CardinalityType
  <1>n. PICK n \in 2..Cardinality(Object) + 1 :
           \E p \in Walk(refs, n, Near(refs, Named)) : p[1] = p[n]
    BY DEF ShortCycle
  <1>2. PICK p \in Walk(refs, n, Near(refs, Named)) : p[1] = p[n]
    BY <1>n
  <1>3. n \in Nat /\ n >= 2
    BY <1>1
  <1>4. /\ p \in [1..n -> Near(refs, Named)]
        /\ \A j \in 1..n - 1 : p[j + 1] \in Range(refs[p[j]])
    BY DEF Walk
  <1>5. ASSUME NEW j \in 1..n - 1
        PROVE  p[j] \in R /\ p[j] \in Object /\ p[j] \in Near(refs, Named) /\ Refers(p[j])
    <2>1. p[j] \in Near(refs, Named)
      BY <1>3, <1>4
    <2>2. p[j] \in Object
      BY <2>1 DEF Near
    <2>3. Refers(p[j])
      BY <1>4 DEF Refers, Range
    <2>. QED
      BY <2>1, <2>2, <2>3, NearReturned
  <1>. DEFINE S == {rank[p[j]] : j \in 1..n - 1}
  <1>6. S \in SUBSET Nat /\ S # {}
    <2>1. S \in SUBSET Nat
      BY <1>5 DEF Ranked
    <2>2. 1 \in 1..n - 1
      BY <1>3
    <2>. QED
      BY <2>1, <2>2
  <1>7. PICK j \in 1..n - 1 : \A x \in S : rank[p[j]] <= x
    BY <1>6, LeastIn
  <1>8. \E k \in 1..n - 1 : p[j + 1] = p[k]
    <2>1. CASE j = n - 1
      <3>1. j + 1 = n /\ 1 \in 1..n - 1
        BY <1>3, <2>1
      <3>. QED
        BY <1>2, <3>1
    <2>2. CASE j # n - 1
      <3>1. j + 1 \in 1..n - 1
        BY <1>3, <2>2
      <3>. QED
        BY <3>1
    <2>. QED
      BY <2>1, <2>2
  <1>9. PICK k \in 1..n - 1 : p[j + 1] = p[k]
    BY <1>8
  <1>10. PICK x \in Filter(list, p[j]) : Below(x) = p[k]
    BY <1>4, <1>5, <1>9, CollectedFacts
  <1>11. rank[p[k]] < rank[p[j]]
    BY <1>5, <1>10 DEF Ranked
  <1>12. rank[p[k]] \in S
    OBVIOUS
  <1>13. rank[p[j]] <= rank[p[k]]
    BY <1>7, <1>12
  <1>14. rank[p[j]] \in Nat /\ rank[p[k]] \in Nat
    BY <1>5 DEF Ranked
  <1>. QED
    BY <1>11, <1>13, <1>14

(* A stack that is full holds an object twice.                             *)
LEMMA FullStack ==
  ASSUME NEW D, Types(D), ListInv, phase # "collect", ParseInv,
         NEW i \in DOMAIN parse, parse[i].pc = "run",
         NEW R, Shape(parse[i].stack, R),
         Top(parse[i].stack).todo # {}, Len(parse[i].stack) = MaxStack
  PROVE  ShortCycle
  <1>. DEFINE s == parse[i].stack
              N == Cardinality(Object)
  <1>1. /\ s \in Seq(FrameOf(D)) /\ StackOK(s, list) /\ Len(s) \in Nat
        /\ Top(s) = s[Len(s)] /\ DOMAIN s = 1..Len(s)
    BY TopFacts, LenProperties
  <1>2. N \in Nat /\ N <= Len(s) /\ IsFiniteSet(Object)
    BY StackHasRoom, FS_CardinalityType
  <1>3. list \in Seq(Entry)
    BY DEF Types
  <1>4. ASSUME NEW d \in 1..Len(s)
        PROVE  /\ s[d].obj \in Near(refs, Named) /\ Child(s[d]).obj \in Object
               /\ Child(s[d]).obj \in Range(refs[s[d].obj])
    <2>1. s[d] \in FrameOf(D) /\ FrameOK(s[d], list)
      BY <1>1, ElementOfSeq DEF StackOK
    <2>2. s[d].todo # {}
      <3>1. CASE d = Len(s)
        BY <1>1, <3>1
      <3>2. CASE d # Len(s)
        <4>1. d < Len(s)
          BY <1>1, <3>2
        <4>. QED
          BY <1>1, <4>1 DEF StackOK
      <3>. QED
        BY <3>1, <3>2
    <2>3. /\ Min(s[d].todo) \in s[d].todo /\ Child(s[d]) \in Entry
          /\ s[d].obj \in Object
      BY <1>3, <2>1, <2>2, FrameFacts
    <2>4. Min(s[d].todo) \in Filter(list, s[d].obj)
      BY <2>1, <2>3 DEF FrameOK
    <2>5. s[d].obj \in Near(refs, Named) /\ Below(Min(s[d].todo)) \in Range(refs[s[d].obj])
      BY <2>3, <2>4, CollectedFacts
    <2>. QED
      BY <2>3, <2>5 DEF Below, Child, Entry
  <1>. DEFINE o == [j \in 1..N + 1 |-> IF j <= Len(s) THEN s[j].obj ELSE Child(s[Len(s)]).obj]
  <1>5. ASSUME NEW j \in 1..N + 1
        PROVE  /\ o[j] \in Object
               /\ j <= N => o[j] \in Near(refs, Named) /\ o[j + 1] \in Range(refs[o[j]])
    <2>1. CASE j <= Len(s)
      <3>1. j \in 1..Len(s) /\ o[j] = s[j].obj
        BY <1>1, <1>2, <2>1
      <3>2. o[j] \in Near(refs, Named)
        BY <1>4, <3>1
      <3>3. ASSUME j <= N PROVE o[j + 1] = Child(s[j]).obj
        <4>1. j + 1 \in 1..N + 1
          BY <1>2, <3>3
        <4>2. CASE j + 1 <= Len(s)
          <5>1. o[j + 1] = s[j + 1].obj /\ j + 1 \in DOMAIN s /\ j + 1 > 1 /\ (j + 1) - 1 = j
            BY <1>1, <1>2, <4>1, <4>2
          <5>2. s[j + 1].obj = Child(s[(j + 1) - 1]).obj
            BY <5>1 DEF Shape
          <5>. QED
            BY <5>1, <5>2
        <4>3. CASE ~(j + 1 <= Len(s))
          <5>1. j = Len(s)
            BY <1>1, <1>2, <2>1, <4>3
          <5>. QED
            BY <4>1, <4>3, <5>1
        <4>. QED
          BY <4>2, <4>3
      <3>4. o[j] \in Object
        BY <3>2 DEF Near
      <3>5. Child(s[j]).obj \in Range(refs[s[j].obj])
        BY <1>4, <3>1
      <3>. HIDE DEF o
      <3>. QED
        BY <3>1, <3>2, <3>3, <3>4, <3>5
    <2>2. CASE ~(j <= Len(s))
      <3>1. o[j] = Child(s[Len(s)]).obj
        BY <2>2
      <3>2. Len(s) \in 1..Len(s)
        BY TopFacts
      <3>3. ~(j <= N)
        BY <1>1, <1>2, <2>2
      <3>. QED
        BY <1>4, <3>1, <3>2, <3>3
    <2>. QED
      BY <2>1, <2>2
  <1>6. o \in [1..N + 1 -> Object]
    BY <1>5
  <1>. HIDE DEF o, s
  <1>7. \E a, b \in 1..N + 1 : a # b /\ o[a] = o[b]
    <2>. HIDE DEF N
    <2>1. IsFiniteSet(1..N + 1) /\ Cardinality(1..N + 1) = N + 1
      <3>1. N + 1 \in Int /\ 1 \in Int /\ 1 <= N + 1 /\ (N + 1) - 1 + 1 = N + 1
        BY <1>2
      <3>2. /\ IsFiniteSet(1..N + 1)
            /\ Cardinality(1..N + 1) = IF 1 > N + 1 THEN 0 ELSE (N + 1) - 1 + 1
        BY <3>1, FS_Interval
      <3>. QED
        BY <3>1, <3>2
    <2>2. Cardinality(Object) < Cardinality(1..N + 1)
      <3>1. Cardinality(Object) \in Nat /\ Cardinality(Object) < N + 1
        BY <1>2 DEF N
      <3>. QED
        BY <2>1, <3>1
    <2>. QED
      BY <1>2, <1>6, <2>1, <2>2, FS_PigeonHole
  <1>8. PICK a, b \in 1..N + 1 : a < b /\ o[a] = o[b]
    <2>1. PICK a, b \in 1..N + 1 : a # b /\ o[a] = o[b]
      BY <1>7
    <2>2. a < b \/ b < a
      BY <1>2, <2>1
    <2>. QED
      BY <2>1, <2>2
  <1>. DEFINE n == b - a + 1
              p == [j \in 1..n |-> o[a + j - 1]]
  <1>9. n \in 2..N + 1 /\ n \in Nat /\ a \in Nat /\ b \in Nat /\ N \in Nat
    BY <1>2, <1>8
  <1>10. ASSUME NEW j \in 1..n PROVE p[j] \in Near(refs, Named)
    <2>1. a + j - 1 \in 1..N + 1 /\ p[j] = o[a + j - 1]
      BY <1>2, <1>8
    <2>2. CASE a + j - 1 = b
      <3>1. a <= N /\ p[j] = o[a]
        BY <1>2, <1>8, <2>1, <2>2
      <3>. QED
        BY <1>5, <3>1
    <2>3. CASE a + j - 1 # b
      <3>1. a + j - 1 <= N
        BY <1>2, <1>8, <2>3
      <3>. HIDE DEF p
      <3>. QED
        BY <1>5, <2>1, <3>1
    <2>. QED
      BY <2>2, <2>3
  <1>11. ASSUME NEW j \in 1..n - 1 PROVE p[j + 1] \in Range(refs[p[j]])
    <2>. DEFINE k == a + j - 1
    <2>1. k \in 1..N + 1 /\ k <= N /\ p[j] = o[k] /\ p[j + 1] = o[k + 1]
      <3>1. j \in 1..n /\ j + 1 \in 1..n /\ a + (j + 1) - 1 = k + 1
        BY <1>9
      <3>2. k \in 1..N + 1 /\ k <= N
        BY <1>2, <1>8
      <3>. QED
        BY <3>1, <3>2
    <2>. HIDE DEF k, p
    <2>. QED
      BY <1>5, <2>1
  <1>12. p \in Walk(refs, n, Near(refs, Named))
    BY <1>10, <1>11 DEF Walk
  <1>13. p[1] = p[n]
    <2>1. 1 \in 1..n /\ n \in 1..n /\ a + 1 - 1 = a /\ a + n - 1 = b
      BY <1>9
    <2>. QED
      BY <1>8, <2>1
  <1>. HIDE DEF n, p, N
  <1>. QED
    BY <1>9, <1>12, <1>13 DEF ShortCycle, N


-----------------------------------------------------------------------------
(* How stacks keep their shape. *)

LEMMA ShapeGrows ==
  ASSUME NEW s, NEW R, NEW Q, R \subseteq Q, Shape(s, R)
  PROVE  Shape(s, Q)
  BY DEF Shape, Passed

(* A frame is replaced by one that has passed no less.                     *)
LEMMA FrameShape ==
  ASSUME NEW F, NEW s \in Seq(F), NEW R, Shape(s, R), NEW d \in DOMAIN s,
         NEW f, f.obj = s[d].obj, Passed(f, R), d < Len(s) => f.todo = s[d].todo
  PROVE  Shape([s EXCEPT ![d] = f], R)
  <1>. DEFINE t == [s EXCEPT ![d] = f]
  <1>1. DOMAIN s = 1..Len(s) /\ Len(s) \in Nat
    BY LenProperties
  <1>2. DOMAIN t = DOMAIN s /\ t[d] = f /\ \A k \in DOMAIN s : k # d => t[k] = s[k]
    OBVIOUS
  <1>. HIDE DEF t
  <1>3. ASSUME NEW k \in DOMAIN s
        PROVE  Passed(t[k], R) /\ t[k].obj = s[k].obj
               /\ (k < Len(s) => Child(t[k]) = Child(s[k]))
    <2>1. CASE k = d
      BY <1>2, <2>1 DEF Child
    <2>2. CASE k # d
      BY <1>2, <2>2 DEF Shape
    <2>. QED
      BY <2>1, <2>2
  <1>4. ASSUME NEW k \in DOMAIN s, k > 1
        PROVE  t[k].obj = Child(t[k - 1]).obj
    <2>1. k - 1 \in DOMAIN s /\ k - 1 < Len(s)
      BY <1>1, <1>4
    <2>2. s[k].obj = Child(s[k - 1]).obj
      BY <1>4 DEF Shape
    <2>3. t[k].obj = s[k].obj /\ Child(t[k - 1]) = Child(s[k - 1])
      BY <1>3, <2>1
    <2>. QED
      BY <2>2, <2>3
  <1>5. Shape(t, R)
    BY <1>2, <1>3, <1>4 DEF Shape
  <1>. QED
    BY <1>5 DEF t

LEMMA PopShape ==
  ASSUME NEW F, NEW s \in Seq(F), s # <<>>, Len(s) # 1, NEW R, Shape(s, R)
  PROVE  Shape(Pop(s), R) /\ Top(s).obj = Child(Top(Pop(s))).obj
         /\ Passed(Top(Pop(s)), R)
  <1>1. /\ Len(s) \in Nat \ {0} /\ DOMAIN s = 1..Len(s) /\ Top(s) = s[Len(s)]
        /\ Pop(s) \in Seq(F) /\ Len(Pop(s)) = Len(s) - 1
        /\ \A d \in 1..Len(s) - 1 : Pop(s)[d] = s[d]
    BY PopTop
  <1>2. DOMAIN Pop(s) = 1..Len(s) - 1
    BY <1>1, LenProperties
  <1>3. Top(Pop(s)) = s[Len(s) - 1] /\ Len(s) > 1 /\ Len(s) - 1 \in DOMAIN s
           /\ Len(s) \in DOMAIN s
    BY <1>1 DEF Top
  <1>4. ASSUME NEW d \in DOMAIN Pop(s)
        PROVE  Passed(Pop(s)[d], R) /\ (d > 1 => Pop(s)[d].obj = Child(Pop(s)[d - 1]).obj)
    <2>1. d \in DOMAIN s /\ Pop(s)[d] = s[d]
      BY <1>1, <1>2
    <2>2. d > 1 => Pop(s)[d - 1] = s[d - 1]
      BY <1>1, <1>2
    <2>. QED
      BY <2>1, <2>2 DEF Shape
  <1>. QED
    BY <1>1, <1>3, <1>4 DEF Shape

LEMMA PushShape ==
  ASSUME NEW F, NEW s \in Seq(F), s # <<>>, NEW R, Shape(s, R),
         NEW f \in F, f.obj = Child(Top(s)).obj, f.todo = Filter(list, f.obj)
  PROVE  Shape(Append(s, f), R)
  <1>1. Len(s) \in Nat \ {0} /\ DOMAIN s = 1..Len(s) /\ Top(s) = s[Len(s)]
    BY PopTop
  <1>2. /\ Append(s, f) \in Seq(F) /\ Len(Append(s, f)) = Len(s) + 1
        /\ \A d \in 1..Len(s) : Append(s, f)[d] = s[d]
        /\ Append(s, f)[Len(s) + 1] = f
    BY AppendProperties
  <1>3. DOMAIN Append(s, f) = 1..Len(s) + 1
    BY <1>2, LenProperties
  <1>. DEFINE t == Append(s, f)
  <1>4. Passed(f, R)
    BY DEF Passed
  <1>5. ASSUME NEW d \in 1..Len(s) + 1
        PROVE  Passed(t[d], R) /\ (d > 1 => t[d].obj = Child(t[d - 1]).obj)
    <2>1. CASE d = Len(s) + 1
      <3>1. t[d] = f /\ d - 1 = Len(s) /\ Len(s) \in 1..Len(s)
        BY <1>1, <1>2, <2>1
      <3>2. t[d - 1] = Top(s)
        BY <1>1, <1>2, <3>1
      <3>. HIDE DEF t
      <3>. QED
        BY <1>4, <3>1, <3>2
    <2>2. CASE d # Len(s) + 1
      <3>1. d \in DOMAIN s /\ t[d] = s[d] /\ (d > 1 => t[d - 1] = s[d - 1])
        BY <1>1, <1>2, <2>2
      <3>. HIDE DEF t
      <3>. QED
        BY <3>1 DEF Shape
    <2>. QED
      BY <2>1, <2>2
  <1>. HIDE DEF t
  <1>6. Shape(t, R)
    BY <1>3, <1>5 DEF Shape, t
  <1>. QED
    BY <1>6 DEF t

LEMMA LikeShape ==
  ASSUME NEW F, NEW s \in Seq(F), NEW R, Shape(s, R), NEW t, Like(t, s)
  PROVE  Shape(t, R)
  <1>1. ASSUME NEW d \in DOMAIN s
        PROVE  Passed(t[d], R) /\ t[d].obj = s[d].obj /\ Child(t[d]) = Child(s[d])
    BY DEF Shape, Like, Passed, Child
  <1>2. ASSUME NEW d \in DOMAIN s, d > 1
        PROVE  t[d].obj = Child(t[d - 1]).obj
    <2>1. d - 1 \in DOMAIN s
      BY <1>2, LenProperties
    <2>2. s[d].obj = Child(s[d - 1]).obj
      BY <1>2 DEF Shape
    <2>. QED
      BY <1>1, <2>1, <2>2
  <1>. QED
    BY <1>1, <1>2 DEF Shape, Like

LEMMA SpawnedShape ==
  ASSUME list \in Seq(Entry), NEW D, NEW s \in Seq(FrameOf(D)), StackOK(s, list),
         s # <<>>, Top(s).todo # {}, NEW keys \in KeySeq, NEW R, Shape(s, R),
         Refers(Child(Top(s)).obj) => Child(Top(s)).obj \in R
  PROVE  Shape(Spawned(s, keys), R)
  <1>. DEFINE u == Spawned(s, keys)
              f == Top(s)
  <1>1. Len(s) \in Nat \ {0} /\ DOMAIN s = 1..Len(s) /\ f = s[Len(s)]
    BY PopTop
  <1>2. /\ DOMAIN u = DOMAIN s
        /\ \A d \in DOMAIN s : u[d].obj = s[d].obj
        /\ \A d \in DOMAIN s : d # Len(s) => u[d].todo = s[d].todo
        /\ u[Len(s)].todo = f.todo \ {Min(f.todo)}
    BY SpawnedOK
  <1>. HIDE DEF u
  <1>3. Passed(u[Len(s)], R)
    <2>1. Passed(f, R) /\ u[Len(s)].obj = f.obj
      BY <1>1, <1>2 DEF Shape
    <2>2. ASSUME NEW n \in Filter(list, f.obj) \ (f.todo \ {Min(f.todo)}), Refers(Below(n))
          PROVE  Below(n) \in R
      <3>1. CASE n \in f.todo
        <4>1. n = Min(f.todo)
          BY <2>2, <3>1
        <4>2. Below(n) = Child(f).obj
          BY <4>1 DEF Below, Child
        <4>. QED
          BY <2>2, <4>2
      <3>2. CASE n \notin f.todo
        BY <2>1, <2>2, <3>2 DEF Passed
      <3>. QED
        BY <3>1, <3>2
    <2>. QED
      BY <1>2, <2>1, <2>2 DEF Passed
  <1>4. ASSUME NEW d \in DOMAIN s, d # Len(s)
        PROVE  Passed(u[d], R) /\ Child(u[d]) = Child(s[d])
    BY <1>2, <1>4 DEF Shape, Passed, Child
  <1>5. ASSUME NEW d \in DOMAIN s, d > 1
        PROVE  u[d].obj = Child(u[d - 1]).obj
    <2>1. d - 1 \in DOMAIN s /\ d - 1 # Len(s)
      BY <1>1, <1>5
    <2>2. s[d].obj = Child(s[d - 1]).obj
      BY <1>5 DEF Shape
    <2>. QED
      BY <1>2, <1>4, <2>1, <2>2
  <1>6. Shape(u, R)
    BY <1>2, <1>3, <1>4, <1>5 DEF Shape
  <1>. QED
    BY <1>6 DEF u

(* An object that returns comes after all it refers to.                    *)
LEMMA RankReturned ==
  ASSUME NEW R, NEW rank, NEW bound, Ranked(R, rank, bound), NEW o \in Object,
         \A n \in Filter(list, o) : Refers(Below(n)) => Below(n) \in R
  PROVE  \E Q, rank2, bound2 : Ranked(Q, rank2, bound2) /\ R \subseteq Q /\ o \in Q
  <1>1. CASE o \in R
    BY <1>1
  <1>2. CASE o \notin R
    <2>. DEFINE Q == R \cup {o}
                r == [rank EXCEPT ![o] = bound]
    <2>1. rank \in [Object -> Nat] /\ bound \in Nat /\ R \subseteq Object
             /\ \A x \in Object : rank[x] < bound
      BY DEF Ranked
    <2>2. r \in [Object -> Nat] /\ r[o] = bound /\ bound + 1 \in Nat /\ Q \subseteq Object
             /\ \A x \in Object : x # o => r[x] = rank[x]
      BY <2>1
    <2>. HIDE DEF r
    <2>3. \A x \in Object : r[x] < bound + 1
      BY <2>1, <2>2
    <2>4. ASSUME NEW x \in Q, NEW n \in Filter(list, x), Refers(Below(n))
          PROVE  Below(n) \in Q /\ r[Below(n)] < r[x]
      <3>1. CASE x = o
        <4>1. Below(n) \in R /\ Below(n) # o
          BY <1>2, <2>4, <3>1
        <4>. QED
          BY <2>1, <2>2, <3>1, <4>1
      <3>2. CASE x # o
        <4>1. x \in R
          BY <3>2
        <4>2. Below(n) \in R /\ rank[Below(n)] < rank[x]
          BY <2>4, <4>1 DEF Ranked
        <4>. QED
          BY <1>2, <2>1, <2>2, <3>2, <4>1, <4>2
      <3>. QED
        BY <3>1, <3>2
    <2>5. Ranked(Q, r, bound + 1)
      BY <2>2, <2>3, <2>4 DEF Ranked
    <2>. QED
      BY <2>5
  <1>. QED
    BY <1>1, <1>2

LEMMA ReturnedShape ==
  ASSUME NEW D, Types(D), ParseInv, NEW i \in DOMAIN parse, parse[i].pc = "run",
         NEW v, NEW q \in Returned(parse[i], v), NEW R, Shape(parse[i].stack, R),
         Top(parse[i].stack).obj \in R
  PROVE  /\ q.pc = "run" => Shape(q.stack, R)
         /\ q.pc = "send" => parse[i].stack[1].obj \in R
  <1>. DEFINE s == parse[i].stack
  <1>1. /\ parse[i] \in ParserOf(D) /\ s \in Seq(FrameOf(D)) /\ s # <<>>
        /\ StackOK(s, list) /\ Top(s) = s[Len(s)]
    BY TopFacts
  <1>2. CASE Len(s) = 1
    <2>1. q.pc = "send"
      BY <1>1, <1>2 DEF Returned, ParserOf
    <2>. QED
      BY <1>1, <1>2, <2>1
  <1>3. CASE Len(s) # 1
    <2>. DEFINE t == Pop(s)
                f == Top(t)
                g == [f EXCEPT !.vals = MergeMaps(f.vals, v)]
    <2>1. /\ t \in Seq(FrameOf(D)) /\ t # <<>> /\ f \in FrameOf(D)
          /\ StackOK(t, list) /\ FrameOK(f, list) /\ f.todo # {}
      BY <1>1, <1>3, Popped
    <2>2. Shape(t, R) /\ Top(s).obj = Child(f).obj /\ Passed(f, R)
      BY <1>1, <1>3, PopShape
    <2>. DEFINE u == ReplaceTop(t, g)
                E == D \cup {MergeMaps(f.vals, v)}
    <2>3. PICK keys \in getRefKeyByValue(Top(u)) :
             q = [parse[i] EXCEPT !.stack = Spawned(u, keys)]
      BY <1>3 DEF Returned
    <2>4. q.stack = Spawned(u, keys) /\ q.pc = "run"
      BY <1>1, <2>3 DEF ParserOf
    <2>5. /\ g.obj = f.obj /\ g.todo = f.todo /\ g.gs = f.gs /\ g.chan = f.chan
          /\ g \in FrameOf(E)
      <3>1. f \in FrameOf(E)
        BY <2>1, Grows
      <3>. QED
        BY <3>1 DEF FrameOf
    <2>6. FrameOK(g, list)
      BY <2>1, <2>5 DEF FrameOK
    <2>7. f = Top(t) /\ D \subseteq E
      OBVIOUS
    <2>. HIDE DEF s, t, f, g, E
    <2>8. t \in Seq(FrameOf(E))
      <3>1. FrameOf(D) \subseteq FrameOf(E)
        BY <2>7, Grows
      <3>. QED
        BY <2>1, <3>1, SeqMonotonic
    <2>9. u \in Seq(FrameOf(E)) /\ StackOK(u, list) /\ Like(u, t) /\ Top(u) = g
      BY <2>1, <2>5, <2>6, <2>7, <2>8, TopLike
    <2>. HIDE DEF u
    <2>10. u # <<>> /\ Top(u).todo # {} /\ Child(Top(u)) = Child(f)
      BY <2>1, <2>7, <2>8, <2>9, LikeTop
    <2>11. keys \in KeySeq
      BY <2>5, <2>9, InputFacts, KeysFound
    <2>12. Shape(u, R)
      BY <2>1, <2>2, <2>9, LikeShape
    <2>13. Shape(Spawned(u, keys), R)
      BY <2>2, <2>9, <2>10, <2>11, <2>12, SpawnedShape DEF s, Types
    <2>. QED
      BY <2>4, <2>13
  <1>. QED
    BY <1>2, <1>3

-----------------------------------------------------------------------------
(* Each step of a goroutine. *)

(* Where goroutine i is after a step: maybe one more object has returned.  *)
Advances(i, R) ==
    \E Q, rank, bound :
        /\ Ranked(Q, rank, bound) /\ R \subseteq Q
        /\ parse'[i].pc = "run" => Shape(parse'[i].stack, Q)
        /\ parse'[i].pc = "send" => parse[i].stack[1].obj \in Q

LEMMA StaysShaped ==
  ASSUME NEW D, Types(D), NEW i \in DOMAIN parse, parse[i].pc = "run",
         NEW R, NEW rank, NEW bound, Ranked(R, rank, bound),
         NEW t, Shape(t, R), parse[i] \in ParserOf(D),
         parse' = [parse EXCEPT ![i] = [parse[i] EXCEPT !.stack = t]]
  PROVE  Advances(i, R)
  <1>1. parse'[i].pc = "run" /\ parse'[i].stack = t
    BY DEF ParserOf
  <1>. QED
    BY <1>1 DEF Advances

LEMMA NextChildAdvances ==
  ASSUME NEW D, Types(D), ParseInv, NEW i \in DOMAIN parse, NextChild(i),
         NEW R, NEW rank, NEW bound, Ranked(R, rank, bound), Shape(parse[i].stack, R)
  PROVE  Advances(i, R)
  <1>. DEFINE s == parse[i].stack
              t == Iterate(s)
  <1>1. parse[i].pc = "run"
    BY RunningFacts DEF NextChild
  <1>2. /\ s \in Seq(FrameOf(D)) /\ StackOK(s, list) /\ s # <<>>
        /\ parse[i] \in ParserOf(D)
    BY <1>1, TopFacts
  <1>3. Top(s).todo # {} /\ ~Refers(Child(Top(s)).obj)
    BY DEF NextChild, AtSelect, Recurses, Refers
  <1>4. PICK keys \in getRefKeyByValue(Top(t)) :
           parse' = [parse EXCEPT ![i] = [parse[i] EXCEPT !.stack = Spawned(t, keys)]]
    BY DEF NextChild
  <1>. HIDE DEF s
  <1>5. t \in Seq(FrameOf(D)) /\ StackOK(t, list) /\ Like(t, s)
    BY <1>2, Iterated DEF Types
  <1>. HIDE DEF t
  <1>6. t # <<>> /\ Top(t).todo # {} /\ Child(Top(t)) = Child(Top(s))
    BY <1>2, <1>3, <1>5, LikeTop
  <1>7. keys \in KeySeq
    <2>1. Top(t) \in FrameOf(D)
      BY <1>5, <1>6, PopTop
    <2>. QED
      BY <2>1, InputFacts, KeysFound
  <1>8. Shape(t, R)
    BY <1>2, <1>5, LikeShape DEF s
  <1>9. Shape(Spawned(t, keys), R)
    BY <1>3, <1>5, <1>6, <1>7, <1>8, SpawnedShape DEF Types
  <1>. QED
    BY <1>1, <1>2, <1>4, <1>9, StaysShaped

LEMMA RecurseAdvances ==
  ASSUME NEW D, Types(D), ParseInv, NEW i \in DOMAIN parse, Recurse(i),
         NEW R, NEW rank, NEW bound, Ranked(R, rank, bound), Shape(parse[i].stack, R)
  PROVE  Advances(i, R)
  <1>. DEFINE s == parse[i].stack
              t == Iterate(s)
              g == Frame(Child(Top(s)), Top(t).parents, list)
  <1>1. parse[i].pc = "run"
    BY RunningFacts DEF Recurse
  <1>2. /\ s \in Seq(FrameOf(D)) /\ StackOK(s, list) /\ s # <<>>
        /\ parse[i] \in ParserOf(D)
    BY <1>1, TopFacts
  <1>3. parse' = [parse EXCEPT ![i] = [parse[i] EXCEPT !.stack = Append(t, g)]]
    BY DEF Recurse
  <1>4. g.obj = Child(Top(s)).obj /\ g.todo = Filter(list, g.obj)
    BY DEF Frame
  <1>. HIDE DEF s, g
  <1>5. t \in Seq(FrameOf(D)) /\ Like(t, s)
    BY <1>2, Iterated DEF Types
  <1>. HIDE DEF t
  <1>6. t # <<>> /\ Child(Top(t)) = Child(Top(s))
    BY <1>2, <1>5, LikeTop
  <1>7. Shape(t, R)
    BY <1>2, <1>5, LikeShape DEF s
  <1>8. t \in Seq(FrameOf(D) \cup {g})
    <2>1. FrameOf(D) \subseteq FrameOf(D) \cup {g}
      OBVIOUS
    <2>. QED
      BY <1>5, <2>1, SeqMonotonic
  <1>9. Shape(Append(t, g), R)
    BY <1>4, <1>6, <1>7, <1>8, PushShape
  <1>. QED
    BY <1>1, <1>2, <1>3, <1>9, StaysShaped

(* A frame whose loop is over has passed everything.                       *)
LEMMA ReturnAdvances ==
  ASSUME NEW D, Types(D), ParseInv, NEW i \in DOMAIN parse, parse[i].pc = "run",
         NEW R, NEW rank, NEW bound, Ranked(R, rank, bound), Shape(parse[i].stack, R),
         Top(parse[i].stack).todo = {},
         NEW v, NEW q \in Returned(parse[i], v), parse' = [parse EXCEPT ![i] = q]
  PROVE  Advances(i, R)
  <1>. DEFINE s == parse[i].stack
              o == Top(s).obj
  <1>1. s \in Seq(FrameOf(D)) /\ s # <<>> /\ Top(s) \in FrameOf(D)
    BY TopFacts
  <1>2. Passed(Top(s), R)
    <2>1. Len(s) \in DOMAIN s /\ Top(s) = s[Len(s)]
      BY <1>1, PopTop
    <2>. QED
      BY <2>1 DEF Shape
  <1>3. o \in Object /\ \A n \in Filter(list, o) : Refers(Below(n)) => Below(n) \in R
    BY <1>1, <1>2 DEF Passed, FrameOf
  <1>. HIDE DEF s, o
  <1>4. PICK Q, rank2, bound2 : Ranked(Q, rank2, bound2) /\ R \subseteq Q /\ o \in Q
    BY <1>3, RankReturned
  <1>5. Shape(parse[i].stack, Q) /\ Top(parse[i].stack).obj \in Q
    BY <1>4, ShapeGrows DEF o, s
  <1>6. /\ q.pc = "run" => Shape(q.stack, Q)
        /\ q.pc = "send" => parse[i].stack[1].obj \in Q
    BY <1>5, ReturnedShape
  <1>7. parse'[i] = q
    OBVIOUS
  <1>. QED
    BY <1>4, <1>6, <1>7 DEF Advances

LEMMA ChildAdvances ==
  ASSUME NEW D, Types(D), ParseInv, NEW i \in DOMAIN parse, ChildStep(i),
         NEW R, NEW rank, NEW bound, Ranked(R, rank, bound), Shape(parse[i].stack, R)
  PROVE  Advances(i, R)
  <1>. DEFINE s == parse[i].stack
  <1>1. parse[i].pc = "run"
    BY RunningFacts DEF ChildStep
  <1>2. s \in Seq(FrameOf(D)) /\ parse[i] \in ParserOf(D)
    BY <1>1, TopFacts
  <1>3. PICK d \in DOMAIN s : \E j \in DOMAIN s[d].gs : Convert(i, d, j) \/ SendChild(i, d, j)
    BY DEF ChildStep
  <1>4. PICK j \in DOMAIN s[d].gs : Convert(i, d, j) \/ SendChild(i, d, j)
    BY <1>3
  <1>5. s[d] \in FrameOf(D)
    BY <1>2, LenProperties, ElementOfSeq
  <1>6. \E f : f \in {Converted(s[d], j), Sent(s[d], j)}
               /\ parse' = [parse EXCEPT ![i].stack[d] = f]
    BY <1>4, Zenon DEF Convert, SendChild
  <1>7. PICK f \in {Converted(s[d], j), Sent(s[d], j)} :
           parse' = [parse EXCEPT ![i].stack[d] = f]
    BY <1>6
  <1>8. f.obj = s[d].obj /\ f.todo = s[d].todo
    BY <1>5 DEF Converted, Sent, FrameOf
  <1>9. Passed(f, R)
    BY <1>8 DEF Shape, Passed
  <1>10. Shape([s EXCEPT ![d] = f], R)
    BY <1>2, <1>8, <1>9, FrameShape
  <1>11. parse' = [parse EXCEPT ![i] = [parse[i] EXCEPT !.stack = [s EXCEPT ![d] = f]]]
    BY <1>7
  <1>. QED
    BY <1>1, <1>2, <1>10, <1>11, StaysShaped

LEMMA GoroutineAdvances ==
  ASSUME NEW D, Types(D), ParseInv, NEW i \in DOMAIN parse, parse[i].pc = "run",
         \/ NextChild(i) \/ Recurse(i) \/ ReturnEmpty(i)
         \/ ReturnFirst(i) \/ StructTimeout(i) \/ ChildStep(i),
         NEW R, NEW rank, NEW bound, Ranked(R, rank, bound), Shape(parse[i].stack, R)
  PROVE  Advances(i, R)
  <1>. DEFINE f == Top(parse[i].stack)
  <1>1. CASE ReturnEmpty(i)
    <2>1. FrameOK(f, list)
      BY TopFacts
    <2>2. f.todo = {}
      BY <1>1, <2>1 DEF ReturnEmpty, NothingBelow, FrameOK
    <2>3. PICK q \in Returned(parse[i], Empty) : parse' = [parse EXCEPT ![i] = q]
      BY <1>1 DEF ReturnEmpty
    <2>. QED
      BY <2>2, <2>3, ReturnAdvances
  <1>2. CASE ReturnFirst(i)
    <2>1. f.todo = {}
      BY <1>2 DEF ReturnFirst, AtSelect
    <2>2. PICK v \in Arrived(f) :
             \E q \in Returned(parse[i], v) : parse' = [parse EXCEPT ![i] = q]
      BY <1>2 DEF ReturnFirst
    <2>3. PICK q \in Returned(parse[i], v) : parse' = [parse EXCEPT ![i] = q]
      BY <2>2
    <2>. QED
      BY <2>1, <2>3, ReturnAdvances
  <1>3. CASE StructTimeout(i)
    <2>1. parse[i] \in ParserOf(D)
      BY TopFacts
    <2>2. parse'[i].pc = "gone"
      BY <1>3, <2>1 DEF StructTimeout, ParserOf
    <2>. QED
      BY <2>2 DEF Advances
  <1>. QED
    BY <1>1, <1>2, <1>3, NextChildAdvances, RecurseAdvances, ChildAdvances
-----------------------------------------------------------------------------
(* Merging ends if and only if there is no cycle. *)

LEMMA CycleStarts == Init => CycleInv
  <1>. SUFFICES ASSUME Init PROVE CycleInv
    OBVIOUS
  <1>1. Ranked({}, [o \in Object |-> 0], 1)
    BY DEF Ranked
  <1>2. Returning
    BY <1>1 DEF Init, Returning
  <1>. QED
    BY <1>2 DEF Init, CycleInv, ListInv, CyclesCrash

(* Nothing changes for the objects when the lists do not.                  *)
LEMMA StillReturning ==
  ASSUME UNCHANGED <<refs, base, list>>, DOMAIN parse' = DOMAIN parse,
         NEW R, NEW rank, NEW bound, Ranked(R, rank, bound),
         \A i \in DOMAIN parse :
            /\ parse'[i].pc = "run" => /\ Shape(parse'[i].stack, R)
                                       /\ parse'[i].stack[1].obj = Named[i]
            /\ parse'[i].pc \in {"send", "sent"} /\ Refers(Named[i]) => Named[i] \in R
  PROVE  Returning'
  <1>1. Ranked(R, rank, bound)'
    BY DEF Ranked, Refers, Below
  <1>2. ASSUME NEW i \in DOMAIN parse PROVE Progress(i, R)'
    BY DEF Progress, Shape, Passed, Child, Refers, Below, Named
  <1>. QED
    BY <1>1, <1>2 DEF Returning

LEMMA CollectCycle ==
  ASSUME NEW D, ResolutionInv(D), Collect PROVE CycleInv'
  <1>1. /\ DOMAIN parse' = DOMAIN Named
        /\ \A i \in DOMAIN Named : parse'[i].pc = "run" /\ parse'[i].stack[1].obj = Named[i]
    BY CollectKeeps
  <1>2. /\ list' \in RefLists(refs, Named) /\ UNCHANGED <<refs, base>>
        /\ phase' \in {"failed", "wait"} /\ Named' = Named
    BY DEF Collect, Named
  <1>. DEFINE F(i) == Frame([obj |-> Named[i], key |-> ""], <<>>, list')
  <1>3. \A i \in DOMAIN Named : parse'[i].stack = <<F(i)>>
    BY DEF Collect
  <1>4. ASSUME NEW i \in DOMAIN Named PROVE F(i).todo = Filter(list', F(i).obj)
    BY DEF Frame
  <1>. HIDE DEF F
  <1>5. ASSUME NEW i \in DOMAIN Named PROVE Shape(parse[i].stack, {})'
    <2>1. DOMAIN <<F(i)>> = {1} /\ <<F(i)>>[1] = F(i)
      OBVIOUS
    <2>2. Filter(list', F(i).obj) \ F(i).todo = {}
      BY <1>4
    <2>. QED
      BY <1>3, <2>1, <2>2 DEF Shape, Passed
  <1>6. Ranked({}, [o \in Object |-> 0], 1)'
    BY DEF Ranked
  <1>7. Returning'
    <2>1. ASSUME NEW i \in DOMAIN parse' PROVE Progress(i, {})'
      BY <1>1, <1>2, <1>5 DEF Progress
    <2>. QED
      BY <1>6, <2>1 DEF Returning
  <1>. QED
    BY <1>2, <1>7 DEF CycleInv, ListInv, CyclesCrash

LEMMA GoroutineCycle ==
  ASSUME NEW D, ResolutionInv(D), CycleInv, NEW i \in DOMAIN parse,
         \/ NextChild(i) \/ Recurse(i) \/ ReturnEmpty(i)
         \/ ReturnFirst(i) \/ StructTimeout(i) \/ ChildStep(i)
  PROVE  CycleInv'
  <1>1. PICK E : Yields(D, E)
    BY SomeYield
  <1>2. Moves(E, i) /\ parse[i].pc = "run" /\ phase = "wait"
    BY <1>1, GoroutineKeeps
  <1>3. UNCHANGED <<refs, base, phase, list>>
    BY DEF NextChild, Recurse, ReturnEmpty, ReturnFirst, StructTimeout, ChildStep,
       Convert, SendChild
  <1>4. Types(D) /\ ParseInv
    BY DEF ResolutionInv
  <1>5. PICK R, rank, bound :
           Ranked(R, rank, bound) /\ \A j \in DOMAIN parse : Progress(j, R)
    BY DEF CycleInv, Returning
  <1>6. Shape(parse[i].stack, R) /\ parse[i].stack[1].obj = Named[i]
    BY <1>2, <1>5 DEF Progress
  <1>7. Advances(i, R)
    BY <1>2, <1>4, <1>5, <1>6, GoroutineAdvances
  <1>8. PICK Q, rank2, bound2 :
           /\ Ranked(Q, rank2, bound2) /\ R \subseteq Q
           /\ parse'[i].pc = "run" => Shape(parse'[i].stack, Q)
           /\ parse'[i].pc = "send" => parse[i].stack[1].obj \in Q
    BY <1>7 DEF Advances
  <1>9. PICK q : Becomes(E, i, q) /\ parse' = [parse EXCEPT ![i] = q]
    BY <1>2 DEF Moves
  <1>10. /\ DOMAIN parse' = DOMAIN parse /\ parse'[i] = q
         /\ \A j \in DOMAIN parse : j # i => parse'[j] = parse[j]
    BY <1>9
  <1>11. q.pc \in {"run", "send", "gone"}
            /\ (q.pc = "run" => q.stack[1].obj = parse[i].stack[1].obj)
    BY <1>9, Zenon DEF Becomes
  <1>12. ASSUME NEW j \in DOMAIN parse
         PROVE  /\ parse'[j].pc = "run" => /\ Shape(parse'[j].stack, Q)
                                           /\ parse'[j].stack[1].obj = Named[j]
                /\ parse'[j].pc \in {"send", "sent"} /\ Refers(Named[j]) => Named[j] \in Q
    <2>1. CASE j = i
      BY <1>6, <1>8, <1>10, <1>11, <2>1
    <2>2. CASE j # i
      <3>1. parse'[j] = parse[j] /\ Progress(j, R)
        BY <1>5, <1>10, <2>2
      <3>2. parse[j].pc = "run" => Shape(parse[j].stack, Q)
        BY <1>8, <3>1, ShapeGrows DEF Progress
      <3>. QED
        BY <1>8, <3>1, <3>2 DEF Progress
    <2>. QED
      BY <2>1, <2>2
  <1>13. Returning'
    BY <1>3, <1>8, <1>10, <1>12, StillReturning
  <1>. QED
    BY <1>2, <1>3, <1>13 DEF CycleInv, ListInv, CyclesCrash, Named

LEMMA CycleStep ==
  ASSUME NEW D, ResolutionInv(D), CycleInv, [Next]_vars
  PROVE  CycleInv'
  <1>1. Types(D) /\ PhaseInv /\ ParseInv
    BY DEF ResolutionInv
  <1>2. PICK R, rank, bound :
           Ranked(R, rank, bound) /\ \A j \in DOMAIN parse : Progress(j, R)
    BY DEF CycleInv, Returning
  <1>3. ASSUME UNCHANGED <<refs, base>>
        PROVE  ShortCycle' = ShortCycle /\ Named' = Named
    BY <1>3 DEF ShortCycle, Near, Walk, Named
  <1>4. CASE Collect
    BY <1>4, CollectCycle
  <1>5. CASE Receive
    <2>1. PICK E : Yields(D, E)
      BY SomeYield
    <2>2. /\ phase = "wait" /\ phase' \in {"wait", "done"} /\ UNCHANGED <<refs, base, parse>>
          /\ phase' = "done" => \A i \in DOMAIN parse : parse[i].pc = "sent"
      BY <1>5, <2>1, ReceiveKeeps
    <2>3. list' = list
      BY <1>5 DEF Receive
    <2>4. Returning'
      BY <1>2, <2>2, <2>3, StillReturning DEF Progress
    <2>5. ASSUME phase' = "done" PROVE ~ShortCycle
      <3>1. DOMAIN parse = DOMAIN Named
        BY <1>1, <2>2 DEF PhaseInv
      <3>2. \A i \in DOMAIN Named : Refers(Named[i]) => Named[i] \in R
        BY <1>2, <2>2, <2>5, <3>1 DEF Progress
      <3>. QED
        BY <1>1, <1>2, <2>2, <3>2, NoCycle DEF CycleInv
    <2>. QED
      BY <1>3, <2>2, <2>3, <2>4, <2>5 DEF CycleInv, ListInv, CyclesCrash
  <1>6. ASSUME NEW i \in DOMAIN parse, SendParsed(i) PROVE CycleInv'
    <2>1. /\ DOMAIN parse' = DOMAIN parse /\ parse'[i].pc = "sent"
          /\ \A j \in DOMAIN parse : j # i => parse'[j] = parse[j]
      BY <1>6, SendParsedKeeps
    <2>2. UNCHANGED <<refs, base, phase, list>> /\ phase = "wait" /\ parse[i].pc = "send"
      BY <1>6 DEF SendParsed
    <2>3. ASSUME NEW j \in DOMAIN parse
          PROVE  /\ parse'[j].pc = "run" => /\ Shape(parse'[j].stack, R)
                                            /\ parse'[j].stack[1].obj = Named[j]
                 /\ parse'[j].pc \in {"send", "sent"} /\ Refers(Named[j]) => Named[j] \in R
      <3>1. Progress(j, R)
        BY <1>2
      <3>2. CASE j = i
        BY <2>1, <2>2, <3>1, <3>2 DEF Progress
      <3>3. CASE j # i
        BY <2>1, <3>1, <3>3 DEF Progress
      <3>. QED
        BY <3>2, <3>3
    <2>4. Returning'
      BY <1>2, <2>1, <2>2, <2>3, StillReturning
    <2>. QED
      BY <1>3, <2>2, <2>4 DEF CycleInv, ListInv, CyclesCrash
  <1>7. ASSUME NEW i \in DOMAIN parse,
               \/ NextChild(i) \/ Recurse(i) \/ ReturnEmpty(i)
               \/ ReturnFirst(i) \/ StructTimeout(i) \/ ChildStep(i)
        PROVE  CycleInv'
    BY <1>7, GoroutineCycle
  <1>8. CASE Timeout \/ (\E i \in DOMAIN parse : StackOverflow(i)) \/ UNCHANGED vars
    <2>1. UNCHANGED <<refs, base, list, parse>>
      BY <1>8, EndingsKeep
    <2>2. Returning'
      BY <1>2, <2>1, StillReturning DEF Progress
    <2>3. CASE Timeout
      <3>1. phase' = "failed" /\ phase = "wait"
        BY <2>3 DEF Timeout
      <3>. QED
        BY <1>3, <2>1, <2>2, <3>1 DEF CycleInv, ListInv, CyclesCrash
    <2>4. ASSUME NEW i \in DOMAIN parse, StackOverflow(i) PROVE CycleInv'
      <3>1. /\ phase = "wait" /\ phase' = "crashed" /\ parse[i].pc = "run"
            /\ Len(parse[i].stack) = MaxStack /\ Top(parse[i].stack).todo # {}
        BY <2>4 DEF StackOverflow, Running, AtSelect
      <3>2. Shape(parse[i].stack, R)
        BY <1>2, <3>1 DEF Progress
      <3>3. ShortCycle
        BY <1>1, <3>1, <3>2, FullStack DEF CycleInv
      <3>. QED
        BY <1>3, <2>1, <2>2, <3>1, <3>3 DEF CycleInv, ListInv, CyclesCrash
    <2>5. CASE UNCHANGED vars
      <3>1. UNCHANGED <<refs, base, phase, list>>
        BY <2>5 DEF vars
      <3>. QED
        BY <1>3, <2>2, <3>1 DEF CycleInv, ListInv, CyclesCrash
    <2>. QED
      BY <1>8, <2>3, <2>4, <2>5
  <1>. QED
    BY <1>4, <1>5, <1>6, <1>7, <1>8, NextCases

(* Merging returns only if no cycle of references lies within the depth    *)
(* that is collected, and it overflows the stack only if there is one,     *)
(* whatever the goroutines do.                                             *)
THEOREM CyclesCrashAlways == Spec => []CyclesCrash
  <1>1. Init => Consistent /\ CycleInv
    BY ConsistentStarts, CycleStarts
  <1>2. Consistent /\ CycleInv /\ [Next]_vars => Consistent' /\ CycleInv'
    <2>1. ASSUME Consistent, CycleInv, [Next]_vars PROVE CycleInv'
      <3>1. PICK D : ResolutionInv(D)
        BY <2>1 DEF Consistent
      <3>. QED
        BY <2>1, <3>1, CycleStep
    <2>. QED
      BY <2>1, ConsistentStep
  <1>3. CycleInv => CyclesCrash
    BY DEF CycleInv
  <1>. QED
    BY <1>1, <1>2, <1>3, PTL DEF Spec
=============================================================================
