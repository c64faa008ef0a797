---------------------------- MODULE ResponsesProofs ----------------------------
(***************************************************************************)
(* The responses form a tree that only grows, histories are complete, the  *)
(* store, the client and the audit agree, and streams close what they      *)
(* open: for all requests, shapes, stored responses and bounds.            *)
(***************************************************************************)
EXTENDS Responses, SequenceTheorems, FiniteSetTheorems, WellFoundedInduction, TLAPS

USE ResponsesAssumption DEF ResponsesAssumption

-----------------------------------------------------------------------------
(* Induction.  Every number of a set has a least one below it; that there  *)
(* is a function that goes back along smaller and smaller numbers follows. *)

LEMMA LeastOf == ASSUME NEW T \in SUBSET Nat, T # {} PROVE \E m \in T : \A k \in T : m <= k
<1>1. OpToRel(<, Nat) = {ss \in Nat \X Nat : ss[1] < ss[2]}
  BY DEF OpToRel
<1>2. PICK m \in T : \A k \in T : ~ (<<k, m>> \in OpToRel(<, Nat))
  <2>1. IsWellFoundedOn(OpToRel(<, Nat), Nat)
    BY NatLessThanWellFounded
  <2> HIDE DEF OpToRel
  <2> QED
    BY <2>1, WFMin
<1>3. \A k \in T : ~ (k < m)
  BY <1>1, <1>2
<1> QED
  BY <1>3

(* A set of numbers that has each one all of whose predecessors it has. *)
LEMMA Induction ==
  ASSUME NEW n \in Nat, NEW T,
         \A i \in 0 .. n : (\A j \in 0 .. i - 1 : j \in T) => i \in T
  PROVE  0 .. n \subseteq T
<1> SUFFICES ASSUME (0 .. n) \ T # {} PROVE FALSE
  OBVIOUS
<1>1. PICK m \in (0 .. n) \ T : \A k \in (0 .. n) \ T : m <= k
  <2> DEFINE U == (0 .. n) \ T
  <2>1. U \in SUBSET Nat /\ U # {}
    OBVIOUS
  <2> HIDE DEF U
  <2>2. \E m \in U : \A k \in U : m <= k
    BY <2>1, LeastOf
  <2> QED
    BY <2>2 DEF U
<1>2. \A j \in 0 .. m - 1 : j \in T
  BY <1>1
<1> QED
  BY <1>1, <1>2

GoesBack(n, V, stop, base, before, op) ==
  /\ \A i \in (0 .. n) \cap stop : base[i] \in V
  /\ \A i \in (0 .. n) \ stop : before[i] \in 0 .. i - 1 /\ \A v \in V : op[i][v] \in V

Recurs(f, n, V, stop, base, before, op) ==
  /\ f \in [0 .. n -> V]
  /\ \A i \in 0 .. n : f[i] = IF i \in stop THEN base[i] ELSE op[i][f[before[i]]]

LEMMA Recursion ==
  ASSUME NEW n \in Nat, NEW V, NEW stop, NEW base, NEW before, NEW op,
         GoesBack(n, V, stop, base, before, op)
  PROVE  \E f : Recurs(f, n, V, stop, base, before, op)
<1> USE DEF GoesBack
<1> DEFINE E(f, i) == IF i \in stop THEN base[i] ELSE op[i][f[before[i]]]
           UpTo(k, f) == f \in [0 .. k -> V] /\ \A i \in 0 .. k : f[i] = E(f, i)
           T == {k \in 0 .. n : \E f : UpTo(k, f)}
<1>1. ASSUME NEW k \in 0 .. n, \A j \in 0 .. k - 1 : j \in T PROVE k \in T
  <2>1. CASE k = 0
    <3> DEFINE f0 == [i \in 0 .. 0 |-> base[0]]
    <3>1. 0 \in stop /\ base[0] \in V
      OBVIOUS
    <3>2. UpTo(0, f0)
      BY <3>1
    <3> QED
      BY <2>1, <3>2
  <2>2. CASE k # 0
    <3>1. PICK g : UpTo(k - 1, g)
      <4>1. k - 1 \in T
        <5>1. k - 1 \in 0 .. k - 1
          BY <2>2
        <5> HIDE DEF T
        <5> QED
          BY <1>1, <5>1
      <4> HIDE DEF UpTo
      <4> QED
        BY <4>1
    <3> DEFINE h == [i \in 0 .. k |-> IF i < k THEN g[i] ELSE E(g, k)]
    <3>2. \A i \in 0 .. k - 1 : i \in 0 .. k /\ h[i] = g[i]
      OBVIOUS
    <3>3. \A i \in (0 .. k) \ stop : before[i] \in 0 .. k - 1 /\ before[i] \in 0 .. i - 1
      OBVIOUS
    <3>4. \A i \in 0 .. k : E(h, i) = E(g, i)
      <4> HIDE DEF h
      <4> QED
        BY <3>2, <3>3
    <3>5. E(g, k) \in V
      <4>1. CASE k \in stop
        BY <4>1
      <4>2. CASE k \notin stop
        <5>1. g[before[k]] \in V
          BY <3>1, <3>3, <4>2
        <5> QED
          BY <4>2, <5>1
      <4> QED
        BY <4>1, <4>2
    <3>6. h \in [0 .. k -> V]
      <4> HIDE DEF E
      <4> QED
        BY <3>1, <3>5
    <3>7. \A i \in 0 .. k : h[i] = E(g, i)
      <4>1. \A i \in 0 .. k - 1 : g[i] = E(g, i)
        BY <3>1
      <4> HIDE DEF E
      <4> QED
        BY <4>1
    <3>8. UpTo(k, h)
      <4> HIDE DEF E, h
      <4> QED
        BY <3>4, <3>6, <3>7
    <3> QED
      BY <3>8
  <2> QED
    BY <2>1, <2>2
<1>2. n \in T
  <2> HIDE DEF T
  <2>1. 0 .. n \subseteq T
    BY <1>1, Induction
  <2> QED
    BY <2>1
<1> QED
  BY <1>2 DEF Recurs

-----------------------------------------------------------------------------
(* The history of a response. *)

LastId == Earlier + 2 * Cardinality(Requests)

LEMMA IdsAre == LastId \in Nat /\ Earlier \in 0 .. LastId /\ Ids = 1 .. LastId /\ Ids \cup {0} = 0 .. LastId
<1>1. Cardinality(Requests) \in Nat
  BY FS_CardinalityType
<1> QED
  BY <1>1 DEF Ids, LastId

(* A response continues an earlier one. *)
Ordered ==
  /\ DOMAIN stored \subseteq Ids
  /\ \A i \in DOMAIN stored : stored[i].prev \in 0 .. i - 1 /\ stored[i].cut \in BOOLEAN

BackEquation ==
  Back = [i \in Ids \cup {0} |-> IF i \notin DOMAIN stored \/ stored[i].cut THEN <<i>>
                                 ELSE Append(Back[stored[i].prev], i)]

LEMMA BackDefined == Ordered => BackEquation
<1> SUFFICES ASSUME Ordered PROVE BackEquation
  OBVIOUS
<1> DEFINE E(f, i) == IF i \notin DOMAIN stored \/ stored[i].cut THEN <<i>>
                      ELSE Append(f[stored[i].prev], i)
           V == Seq(0 .. LastId)
           stop == {i \in 0 .. LastId : i \notin DOMAIN stored \/ stored[i].cut}
           base == [i \in stop |-> <<i>>]
           before == [i \in 0 .. LastId |-> stored[i].prev]
           op == [i \in 0 .. LastId |-> [s \in V |-> Append(s, i)]]
<1>1. \A i \in (0 .. LastId) \cap stop : base[i] \in V
  <2>1. \A i \in 0 .. LastId : <<i>> \in Seq(0 .. LastId)
    OBVIOUS
  <2> QED
    BY <2>1
<1>2. \A i \in (0 .. LastId) \ stop : before[i] \in 0 .. i - 1 /\ \A v \in V : op[i][v] \in V
  BY AppendProperties DEF Ordered
<1>3. \E f : Recurs(f, LastId, V, stop, base, before, op)
  <2> HIDE DEF V, stop, base, before, op
  <2>1. GoesBack(LastId, V, stop, base, before, op)
    BY <1>1, <1>2 DEF GoesBack
  <2> QED
    BY <2>1, IdsAre, Recursion
<1>4. \E f : f = [i \in Ids \cup {0} |-> E(f, i)]
  <2>1. PICK f \in [0 .. LastId -> V] :
          \A i \in 0 .. LastId : f[i] = IF i \in stop THEN base[i] ELSE op[i][f[before[i]]]
    BY <1>3 DEF Recurs
  <2>2. \A i \in (0 .. LastId) \ stop : before[i] = stored[i].prev /\ before[i] \in 0 .. LastId
    <3>1. \A i \in (0 .. LastId) \ stop : before[i] = stored[i].prev
      OBVIOUS
    <3> HIDE DEF before
    <3> QED
      BY <1>2, <3>1, IdsAre
  <2>3. \A i \in 0 .. LastId : f[i] = E(f, i)
    <3> TAKE i \in 0 .. LastId
    <3>1. CASE i \in stop
      BY <2>1, <3>1
    <3>2. CASE i \notin stop
      <4>1. f[before[i]] \in V
        BY <2>1, <2>2, <3>2
      <4>2. f[i] = op[i][f[before[i]]]
        BY <2>1, <3>2
      <4>3. op[i][f[before[i]]] = Append(f[before[i]], i)
        BY <4>1
      <4> QED
        BY <2>2, <3>2, <4>2, <4>3
    <3> QED
      BY <3>1, <3>2
  <2>4. f = [i \in 0 .. LastId |-> E(f, i)]
    <3> HIDE DEF E
    <3> QED
      BY <2>1, <2>3
  <2> QED
    BY <2>4, IdsAre
<1>5. Back = CHOOSE f : f = [i \in Ids \cup {0} |-> E(f, i)]
  BY DEF Back
<1>6. Back = [i \in Ids \cup {0} |-> E(Back, i)]
  <2> HIDE DEF E
  <2> QED
    BY <1>4, <1>5, Zenon
<1> QED
  BY <1>6 DEF BackEquation

AncestryEquation ==
  Ancestry = [i \in Ids \cup {0} |->
    IF i \notin DOMAIN stored THEN {}
    ELSE Ancestry[stored[i].prev] \cup (IF stored[i].cut THEN {} ELSE {i})]

LEMMA AncestryDefined == Ordered => AncestryEquation
<1> SUFFICES ASSUME Ordered PROVE AncestryEquation
  OBVIOUS
<1> DEFINE E(f, i) == IF i \notin DOMAIN stored THEN {}
                      ELSE f[stored[i].prev] \cup (IF stored[i].cut THEN {} ELSE {i})
           V == SUBSET (0 .. LastId)
           stop == {i \in 0 .. LastId : i \notin DOMAIN stored}
           base == [i \in stop |-> {}]
           before == [i \in 0 .. LastId |-> stored[i].prev]
           op == [i \in 0 .. LastId |-> [s \in V |-> s \cup (IF stored[i].cut THEN {} ELSE {i})]]
<1>1. \A i \in (0 .. LastId) \cap stop : base[i] \in V
  OBVIOUS
<1>2. \A i \in (0 .. LastId) \ stop : before[i] \in 0 .. i - 1 /\ \A v \in V : op[i][v] \in V
  BY DEF Ordered
<1>3. \E f : Recurs(f, LastId, V, stop, base, before, op)
  <2> HIDE DEF V, stop, base, before, op
  <2>1. GoesBack(LastId, V, stop, base, before, op)
    BY <1>1, <1>2 DEF GoesBack
  <2> QED
    BY <2>1, IdsAre, Recursion
<1>4. \E f : f = [i \in Ids \cup {0} |-> E(f, i)]
  <2>1. PICK f \in [0 .. LastId -> V] :
          \A i \in 0 .. LastId : f[i] = IF i \in stop THEN base[i] ELSE op[i][f[before[i]]]
    BY <1>3 DEF Recurs
  <2>2. \A i \in (0 .. LastId) \ stop : before[i] = stored[i].prev /\ before[i] \in 0 .. LastId
    <3>1. \A i \in (0 .. LastId) \ stop : before[i] = stored[i].prev
      OBVIOUS
    <3> HIDE DEF before
    <3> QED
      BY <1>2, <3>1, IdsAre
  <2>3. \A i \in 0 .. LastId : f[i] = E(f, i)
    <3> TAKE i \in 0 .. LastId
    <3>1. CASE i \in stop
      BY <2>1, <3>1
    <3>2. CASE i \notin stop
      <4>1. f[before[i]] \in V
        BY <2>1, <2>2, <3>2
      <4>2. f[i] = op[i][f[before[i]]]
        BY <2>1, <3>2
      <4>3. op[i][f[before[i]]] = f[before[i]] \cup (IF stored[i].cut THEN {} ELSE {i})
        BY <4>1
      <4> QED
        BY <2>2, <3>2, <4>2, <4>3
    <3> QED
      BY <3>1, <3>2
  <2>4. f = [i \in 0 .. LastId |-> E(f, i)]
    <3> HIDE DEF E
    <3> QED
      BY <2>1, <2>3
  <2> QED
    BY <2>4, IdsAre
<1>5. Ancestry = CHOOSE f : f = [i \in Ids \cup {0} |-> E(f, i)]
  BY DEF Ancestry
<1>6. Ancestry = [i \in Ids \cup {0} |-> E(Ancestry, i)]
  <2> HIDE DEF E
  <2> QED
    BY <1>4, <1>5, Zenon
<1> QED
  BY <1>6 DEF AncestryEquation

LEMMA ToSetAppend ==
  ASSUME NEW S, NEW s \in Seq(S), NEW x \in S
  PROVE  ToSet(Append(s, x)) = ToSet(s) \cup {x}
<1>1. Len(s) \in Nat /\ DOMAIN s = 1 .. Len(s)
  BY LenProperties
<1>2. /\ DOMAIN Append(s, x) = 1 .. Len(s) + 1
      /\ \A i \in 1 .. Len(s) : Append(s, x)[i] = s[i]
      /\ Append(s, x)[Len(s) + 1] = x
  BY AppendProperties, LenProperties
<1>3. \A y : y \in ToSet(Append(s, x)) <=> \E i \in 1 .. Len(s) + 1 : Append(s, x)[i] = y
  BY <1>2 DEF ToSet
<1>4. \A y : y \in ToSet(s) <=> \E i \in 1 .. Len(s) : s[i] = y
  BY <1>1 DEF ToSet
<1>5. 1 .. Len(s) + 1 = (1 .. Len(s)) \cup {Len(s) + 1}
  BY <1>1
<1> QED
  BY <1>2, <1>3, <1>4, <1>5

LEMMA ToSetEmpty == ToSet(<<>>) = {}
BY DEF ToSet

LEMMA ToSetOne == ASSUME NEW x PROVE ToSet(<<x>>) = {x}
BY DEF ToSet

BackShape(i) ==
  /\ Back[i] \in Seq(Ids \cup {0}) /\ Back[i] # <<>>
  /\ ContinuationItems(i) \in Seq(DOMAIN stored)

(* The same three cases, for the walk and for the items it leads to. *)
LEMMA WalkStops ==
  ASSUME Ordered, NEW i \in Ids \cup {0}, i \notin DOMAIN stored \/ stored[i].cut
  PROVE  /\ Back[i] = <<i>> /\ BackShape(i)
         /\ ContinuationItems(i) = IF i \in DOMAIN stored THEN <<i>> ELSE <<>>
<1>1. Back[i] = <<i>>
  BY BackDefined DEF BackEquation
<1>2. Head(<<i>>) = i /\ Tail(<<i>>) = <<>> /\ <<i>> \in Seq(Ids \cup {0}) /\ <<i>> # <<>>
  OBVIOUS
<1>3. ContinuationItems(i) = IF i \in DOMAIN stored THEN <<i>> ELSE <<>>
  BY <1>1, <1>2 DEF ContinuationItems
<1>4. ContinuationItems(i) \in Seq(DOMAIN stored)
  <2>1. <<>> \in Seq(DOMAIN stored) /\ \A j \in DOMAIN stored : <<j>> \in Seq(DOMAIN stored)
    OBVIOUS
  <2> QED
    BY <1>3, <2>1
<1> QED
  BY <1>1, <1>2, <1>3, <1>4 DEF BackShape

LEMMA WalkGoesOn ==
  ASSUME Ordered, NEW i \in DOMAIN stored, ~ stored[i].cut, BackShape(stored[i].prev)
  PROVE  /\ BackShape(i)
         /\ ContinuationItems(i) = Append(ContinuationItems(stored[i].prev), i)
<1> DEFINE p == stored[i].prev
<1>1. i \in Ids \cup {0} /\ Back[i] = Append(Back[p], i)
  BY BackDefined DEF BackEquation, Ordered
<1>2. Back[p] \in Seq(Ids \cup {0}) /\ Back[p] # <<>>
  BY DEF BackShape
<1>3. Back[i] \in Seq(Ids \cup {0}) /\ Back[i] # <<>>
  BY <1>1, <1>2, AppendProperties
<1>4. Head(Back[i]) = Head(Back[p]) /\ Tail(Back[i]) = Append(Tail(Back[p]), i)
  BY <1>1, <1>2, HeadTailAppend
<1>5. ContinuationItems(i) = Append(ContinuationItems(p), i)
  BY <1>1, <1>4 DEF ContinuationItems
<1>6. ContinuationItems(i) \in Seq(DOMAIN stored)
  <2>1. ContinuationItems(p) \in Seq(DOMAIN stored)
    BY DEF BackShape
  <2> QED
    BY <1>5, <2>1, AppendProperties
<1> QED
  BY <1>3, <1>5, <1>6 DEF BackShape

LEMMA BackShapes == Ordered => \A i \in Ids \cup {0} : BackShape(i)
<1> SUFFICES ASSUME Ordered PROVE \A i \in Ids \cup {0} : BackShape(i)
  OBVIOUS
<1> DEFINE T == {i \in 0 .. LastId : BackShape(i)}
<1>1. ASSUME NEW i \in 0 .. LastId, \A j \in 0 .. i - 1 : j \in T PROVE i \in T
  <2>1. CASE i \notin DOMAIN stored \/ stored[i].cut
    BY <2>1, IdsAre, WalkStops
  <2>2. CASE i \in DOMAIN stored /\ ~ stored[i].cut
    <3>1. stored[i].prev \in 0 .. i - 1
      BY <2>2 DEF Ordered
    <3>2. BackShape(stored[i].prev)
      BY <1>1, <3>1
    <3> QED
      BY <2>2, <3>2, WalkGoesOn
  <2> QED
    BY <2>1, <2>2
<1>2. 0 .. LastId \subseteq T
  <2> HIDE DEF T
  <2> QED
    BY <1>1, IdsAre, Induction
<1> QED
  BY <1>2, IdsAre

WordsEquation ==
  \A i \in Ids \cup {0} :
    Words(i) = IF i \notin DOMAIN stored THEN {}
               ELSE stored[i].covers \cup (IF stored[i].cut THEN {} ELSE Words(stored[i].prev))

LEMMA WordsDefined == Ordered => WordsEquation
<1> SUFFICES ASSUME Ordered, NEW i \in Ids \cup {0}
             PROVE  Words(i) = IF i \notin DOMAIN stored THEN {}
                               ELSE stored[i].covers \cup
                                    (IF stored[i].cut THEN {} ELSE Words(stored[i].prev))
  BY DEF WordsEquation
<1>1. CASE i \notin DOMAIN stored
  BY <1>1, WalkStops, ToSetEmpty DEF Words
<1>2. CASE i \in DOMAIN stored /\ stored[i].cut
  BY <1>2, WalkStops, ToSetOne DEF Words
<1>3. CASE i \in DOMAIN stored /\ ~ stored[i].cut
  <2> DEFINE p == stored[i].prev
  <2>1. p \in Ids \cup {0}
    BY <1>3, IdsAre DEF Ordered
  <2>2. BackShape(p) /\ ContinuationItems(p) \in Seq(DOMAIN stored)
    BY <2>1, BackShapes DEF BackShape
  <2>3. ContinuationItems(i) = Append(ContinuationItems(p), i)
    BY <1>3, <2>2, WalkGoesOn
  <2>4. ToSet(ContinuationItems(i)) = ToSet(ContinuationItems(p)) \cup {i}
    BY <1>3, <2>2, <2>3, ToSetAppend
  <2> QED
    BY <1>3, <2>4 DEF Words
<1> QED
  BY <1>1, <1>2, <1>3

(* A response continues one that is there, or none.  A summary's words are *)
(* those of all it goes back to, and any other's its own.                  *)
Linked ==
  \A i \in DOMAIN stored :
    /\ stored[i].prev \in DOMAIN stored \cup {0}
    /\ stored[i].covers = IF stored[i].cut THEN Ancestry[stored[i].prev] ELSE {i}
    /\ stored[i].knew = Ancestry[stored[i].prev]

LEMMA WordsComplete == Ordered /\ Linked => \A i \in Ids \cup {0} : Words(i) = Ancestry[i]
<1> SUFFICES ASSUME Ordered, Linked PROVE \A i \in Ids \cup {0} : Words(i) = Ancestry[i]
  OBVIOUS
<1> DEFINE T == {i \in 0 .. LastId : Words(i) = Ancestry[i]}
<1>1. ASSUME NEW i \in 0 .. LastId, \A j \in 0 .. i - 1 : j \in T PROVE i \in T
  <2>1. Words(i) = IF i \notin DOMAIN stored THEN {}
                   ELSE stored[i].covers \cup (IF stored[i].cut THEN {} ELSE Words(stored[i].prev))
    BY WordsDefined, IdsAre DEF WordsEquation
  <2>2. Ancestry[i] = IF i \notin DOMAIN stored THEN {}
                      ELSE Ancestry[stored[i].prev] \cup (IF stored[i].cut THEN {} ELSE {i})
    BY AncestryDefined, IdsAre DEF AncestryEquation
  <2>3. CASE i \notin DOMAIN stored \/ stored[i].cut
    BY <2>1, <2>2, <2>3 DEF Linked
  <2>4. CASE i \in DOMAIN stored /\ ~ stored[i].cut
    <3>1. stored[i].prev \in 0 .. i - 1
      BY <2>4 DEF Ordered
    <3>2. Words(stored[i].prev) = Ancestry[stored[i].prev]
      BY <1>1, <3>1
    <3>3. stored[i].covers = {i}
      BY <2>4 DEF Linked
    <3>4. Words(i) = {i} \cup Words(stored[i].prev) /\ Ancestry[i] = Ancestry[stored[i].prev] \cup {i}
      BY <2>1, <2>2, <2>4, <3>3
    <3> QED
      BY <3>2, <3>4
  <2> QED
    BY <2>3, <2>4
<1>2. 0 .. LastId \subseteq T
  <2> HIDE DEF T
  <2> QED
    BY <1>1, IdsAre, Induction
<1> QED
  BY <1>2, IdsAre

(* What a response goes back to stays, whatever is stored besides. *)
LEMMA AncestryKept ==
  ASSUME Ordered, Linked, Ordered', DOMAIN stored \subseteq DOMAIN stored',
         \A i \in DOMAIN stored : stored'[i] = stored[i],
         NEW i \in DOMAIN stored \cup {0}
  PROVE  Ancestry'[i] = Ancestry[i]
<1> DEFINE T == {j \in 0 .. LastId : j \in DOMAIN stored \cup {0} => Ancestry'[j] = Ancestry[j]}
<1>a. AncestryEquation'
  BY AncestryDefined, PTL
<1>b. 0 \notin DOMAIN stored' /\ 0 \notin DOMAIN stored /\ (Ids \cup {0})' = 0 .. LastId
  BY IdsAre DEF Ordered
<1>1. ASSUME NEW j \in 0 .. LastId, \A k \in 0 .. j - 1 : k \in T PROVE j \in T
  <2>1. Ancestry[j] = IF j \notin DOMAIN stored THEN {}
                      ELSE Ancestry[stored[j].prev] \cup (IF stored[j].cut THEN {} ELSE {j})
    BY AncestryDefined, IdsAre DEF AncestryEquation
  <2>2. Ancestry'[j] = IF j \notin DOMAIN stored' THEN {}
                       ELSE Ancestry'[stored'[j].prev] \cup (IF stored'[j].cut THEN {} ELSE {j})
    BY <1>a, <1>b DEF AncestryEquation
  <2>3. CASE j = 0
    BY <1>b, <2>1, <2>2, <2>3
  <2>4. CASE j \in DOMAIN stored
    <3>1. /\ stored[j].prev \in 0 .. j - 1
          /\ stored[j].prev \in DOMAIN stored \cup {0}
      BY <2>4 DEF Ordered, Linked
    <3>2. Ancestry'[stored[j].prev] = Ancestry[stored[j].prev]
      BY <1>1, <3>1
    <3> QED
      BY <2>1, <2>2, <2>4, <3>2
  <2> QED
    BY <2>3, <2>4
<1>2. 0 .. LastId \subseteq T
  <2> HIDE DEF T
  <2> QED
    BY <1>1, IdsAre, Induction
<1>3. i \in 0 .. LastId
  BY IdsAre DEF Ordered
<1> QED
  BY <1>2, <1>3

-----------------------------------------------------------------------------
(* The inductive invariant. *)

Records(n) ==
  [pc : PCs, kind : Kinds \cup {"deferred"}, keep : BOOLEAN, tools : ToolSets,
   calls : 0 .. MaxCalls, long : BOOLEAN, prev : Ids \cup {0}, id : 0 .. n - 1,
   round : 0 .. MaxToolIterations, text : BOOLEAN, todo : Seq(Items), out : Seq(Items)]

Nodes(i) ==
  [prev : 0 .. i - 1, items : Seq(Items), cut : BOOLEAN, covers : SUBSET Ids, knew : SUBSET Ids]

(* How many identifiers a request may still take. *)
Left(q) == CASE q.pc \in {"idle", "load", "summarize"} -> 2
             [] q.pc \in {"putSummary", "reload"} -> 1
             [] OTHER -> 0

ToTake == UNION {{r} \X (1 .. Left(req[r])) : r \in Requests}

StoreInv ==
  /\ nextId \in Nat /\ nextId >= Earlier + 1
  /\ nextId + Cardinality(ToTake) <= LastId + 1
  /\ DOMAIN stored \subseteq 1 .. nextId - 1
  /\ \A i \in DOMAIN stored : stored[i] \in Nodes(i)
  /\ Linked

(* What a request has at each place: which response it continues, and the  *)
(* name of the one it makes; there are the responses, n the next name.     *)
Stage(q, there, n) ==
  /\ q.prev < n
  /\ q.pc \in {"summarize", "putSummary", "reload", "call", "tool", "run", "put"} =>
       q.prev \in there \cup {0}
  /\ q.pc \in {"idle", "load", "summarize", "ended"} => q.id = 0
  /\ q.pc \in {"putSummary", "call", "tool", "run", "put"} => q.id \notin there /\ q.prev < q.id
  /\ q.pc = "reload" => q.id \in there
  /\ q.pc \in {"tool", "run"} => q.todo # <<>> /\ ~ q.text
  /\ q.pc = "complete" => q.kind = "stream"
  /\ q.pc = "ended" => ~ q.keep /\ q.kind # "stream"

RequestInv ==
  /\ req \in [Requests -> Records(nextId)]
  /\ \A r \in Requests : Stage(req[r], DOMAIN stored, nextId)
  /\ \A r, s \in Requests : r # s /\ req[r].id # 0 => req[r].id # req[s].id

(* Of a request q with answer a and audit row u, whose client left or not, *)
(* after mishaps or none.                                                  *)
OutcomeOf(q, store, a, u, left, mishaps) ==
  /\ q.pc = "idle" => a = "none" /\ u = "none"
  /\ q.pc \notin {"idle", "record", "answer", "return", "ended"} => a = "none" /\ u = "accepted"
  /\ q.pc = "record" => a = (IF q.kind = "stream" THEN "completed" ELSE "none") /\ u = "accepted"
  /\ q.pc = "answer" => a = "none" /\ u \in {"accepted", "completed"}
  /\ q.pc \in {"return", "ended"} =>
       \/ a # "failed" /\ u \in {"accepted", "completed"}
       \/ a # "completed" /\ u \in {"accepted", "failed", "cancelled"}
  /\ \/ q.pc \in {"complete", "record", "answer"}
     \/ q.pc = "return" /\ "completed" \in {a, u}
     => (q.keep => q.id \in DOMAIN store /\ store[q.id].items = q.out)
  /\ \/ q.pc = "refuse"
     \/ q.pc = "return" /\ "failed" \in {a, u}
     => (q.id \in DOMAIN store => left)
  /\ q.pc \in {"answer", "return", "ended"} /\ u = "accepted" => mishaps

Outcome(r) == OutcomeOf(req[r], stored, answer[r], audit[r], r \in gone, faults + crashes > 0)

(* The places of a stream's events that are open: Open(r) of what r heard. *)
OpenIn(h) ==
  {k \in DOMAIN h : h[k].what = "added" /\
     \A l \in k + 1 .. Len(h) :
       ~ (h[l].what # "added" /\ h[l].at = h[k].at /\ h[l].item = h[k].item)}

(* Of a request q with events h and answer a: what is open is the last     *)
(* event, and it is what q is about to close.                              *)
StreamOf(q, h, a) ==
  /\ q.kind # "stream" => h = <<>>
  /\ q.pc \in {"idle", "load", "summarize", "putSummary", "reload"} =>
       h = <<>> /\ q.out = <<>> /\ ~ q.text
  /\ OpenIn(h) \subseteq {Len(h)}
  /\ q.kind = "stream" /\ q.pc = "call" /\ q.text =>
       h # <<>> /\ h[Len(h)] = Event("added", Len(q.out), Item("message", q.round, 0))
  /\ q.kind = "stream" /\ q.pc = "run" =>
       h # <<>> /\ h[Len(h)] = Event("added", Len(q.out), Head(q.todo))
  /\ \/ q.pc = "call" /\ ~ q.text
     \/ q.pc \in {"tool", "put", "complete", "record", "answer"}
     \/ q.pc = "return" /\ a = "completed"
     => OpenIn(h) = {}
  /\ q.kind = "stream" =>
       \A k \in DOMAIN q.out : q.out[k].type = "function_call_output" =>
         Event("done", k - 1, q.out[k]) \in ToSet(h)

Stream(r) == StreamOf(req[r], heard[r], answer[r])

Events == [what : {"added", "done", "failed"}, at : Nat, item : Items]

AnswerStatus == {"none", "completed", "failed"}
AuditStatus == {"none", "accepted", "completed", "failed", "cancelled"}

RestOK ==
  /\ heard \in [Requests -> Seq(Events)]
  /\ answer \in [Requests -> AnswerStatus]
  /\ audit \in [Requests -> AuditStatus]
  /\ gone \subseteq Requests
  /\ faults \in 0 .. MaxMishaps /\ crashes \in 0 .. MaxMishaps

Inv ==
  /\ StoreInv /\ RequestInv /\ RestOK
  /\ \A r \in Requests : Outcome(r) /\ Stream(r)

-----------------------------------------------------------------------------
(* The identifiers suffice. *)

LEMMA LeftIs == \A q : Left(q) \in 0 .. 2
BY DEF Left

LEMMA MembersToTake ==
  ASSUME NEW x
  PROVE  x \in ToTake <=> \E r \in Requests : \E n \in 1 .. Left(req[r]) : x = <<r, n>>
BY DEF ToTake

LEMMA ToTakeFinite == IsFiniteSet(ToTake)
<1>1. PICK two \in Int : two = 2
  OBVIOUS
<1>2. IsFiniteSet(1 .. two)
  BY FS_Interval
<1>3. IsFiniteSet(Requests \X (1 .. two))
  BY <1>2, FS_Product
<1>4. ToTake \subseteq Requests \X (1 .. two)
  BY <1>1, LeftIs DEF ToTake
<1> QED
  BY <1>3, <1>4, FS_Subset

LEMMA NextIdBound == StoreInv => nextId \in Earlier + 1 .. LastId + 1
<1>1. Cardinality(ToTake) \in Nat
  BY ToTakeFinite, FS_CardinalityType
<1> QED
  BY <1>1, IdsAre DEF StoreInv

LEMMA RecordsGrow ==
  ASSUME NEW m \in Nat, NEW n \in Nat, m <= n, NEW q \in Records(m)
  PROVE  q \in Records(n) /\ q.prev \in Nat /\ q.id \in Nat /\ q.id < m
<1>1. 0 .. m - 1 \subseteq 0 .. n - 1
  OBVIOUS
<1>2. q.id \in 0 .. n - 1 /\ q.prev \in Ids \cup {0}
  BY <1>1 DEF Records
<1> QED
  BY <1>2, IdsAre DEF Records

LEMMA RequestTypes ==
  ASSUME StoreInv, RequestInv, NEW r \in Requests
  PROVE  /\ req[r] \in Records(nextId) /\ Stage(req[r], DOMAIN stored, nextId)
         /\ nextId \in Nat /\ req[r].prev \in Nat /\ req[r].id \in Nat /\ req[r].id < nextId
         /\ req[r].prev \in Ids \cup {0}
<1>1. nextId \in Nat /\ req[r] \in Records(nextId) /\ Stage(req[r], DOMAIN stored, nextId)
  BY DEF StoreInv, RequestInv
<1> QED
  BY <1>1, RecordsGrow DEF Records

LEMMA StoreOrders == StoreInv => Ordered
<1> SUFFICES ASSUME StoreInv PROVE Ordered
  OBVIOUS
<1>1. DOMAIN stored \subseteq Ids
  BY NextIdBound, IdsAre DEF StoreInv
<1>2. \A i \in DOMAIN stored : stored[i] \in Nodes(i)
  BY DEF StoreInv
<1> QED
  BY <1>1, <1>2 DEF Nodes, Ordered

(* A request takes an identifier only if it has one left. *)
Takes(r, q) ==
  \/ nextId' = nextId /\ Left(q) <= Left(req[r]) /\ q.id \in {0, req[r].id}
  \/ nextId' = nextId + 1 /\ Left(q) < Left(req[r]) /\ q.id = nextId

LEMMA IdsSuffice ==
  ASSUME StoreInv, RequestInv, NEW r \in Requests, NEW q,
         req' = [req EXCEPT ![r] = q], Takes(r, q)
  PROVE  nextId' + Cardinality(ToTake') <= LastId + 1
<1>1. /\ Cardinality(ToTake) \in Nat /\ nextId \in Nat /\ LastId \in Nat
      /\ nextId + Cardinality(ToTake) <= LastId + 1
  BY ToTakeFinite, FS_CardinalityType, IdsAre DEF StoreInv
<1>2. Left(q) \in 0 .. 2 /\ Left(req[r]) \in 0 .. 2 /\ Left(q) <= Left(req[r])
  BY LeftIs DEF Takes
<1>3. \A s \in Requests : req'[s] = IF s = r THEN q ELSE req[s]
  BY DEF RequestInv
<1>4. \A x : x \in ToTake' <=> \E s \in Requests : \E n \in 1 .. Left(req'[s]) : x = <<s, n>>
  BY DEF ToTake, Left
<1>5. ToTake' \subseteq ToTake
  <2> SUFFICES ASSUME NEW s \in Requests, NEW n \in 1 .. Left(req'[s]) PROVE <<s, n>> \in ToTake
    BY <1>4
  <2>1. n \in 1 .. Left(req[s])
    BY <1>2, <1>3
  <2> QED
    BY <2>1, MembersToTake
<1>6. CASE nextId' = nextId
  <2>1. Cardinality(ToTake') <= Cardinality(ToTake) /\ Cardinality(ToTake') \in Nat
    BY <1>5, ToTakeFinite, FS_Subset, FS_CardinalityType
  <2> QED
    BY <1>1, <1>6, <2>1
<1>7. CASE nextId' = nextId + 1
  <2> DEFINE x == <<r, Left(req[r])>>
  <2>1. Left(q) < Left(req[r])
    BY <1>1, <1>7 DEF Takes
  <2>2. x \in ToTake
    BY <1>2, <2>1, MembersToTake
  <2>3. x \notin ToTake'
    BY <1>2, <1>3, <1>4, <2>1
  <2>4. ToTake' \in SUBSET (ToTake \ {x})
    BY <1>5, <2>3
  <2>5. /\ IsFiniteSet(ToTake \ {x}) /\ Cardinality(ToTake \ {x}) = Cardinality(ToTake) - 1
    BY <2>2, ToTakeFinite, FS_RemoveElement
  <2>6. Cardinality(ToTake') <= Cardinality(ToTake \ {x}) /\ Cardinality(ToTake') \in Nat
    BY <2>4, <2>5, FS_Subset, FS_CardinalityType
  <2> QED
    BY <1>1, <1>7, <2>5, <2>6
<1> QED
  BY <1>6, <1>7 DEF Takes

-----------------------------------------------------------------------------
(* The store and the requests after a step of r. *)

(* What r may store: the response it was about to, under the one it        *)
(* continues, with the words it was given.                                 *)
NewNode(r, node) ==
  /\ req[r].pc \in {"putSummary", "put"}
  /\ node \in [prev : Ids \cup {0}, items : Seq(Items), cut : BOOLEAN,
                covers : SUBSET Ids, knew : SUBSET Ids]
  /\ node.prev = req[r].prev
  /\ node.covers = IF node.cut THEN Words(node.prev) ELSE {req[r].id}
  /\ node.knew = Words(node.prev)

Stores(r) == UNCHANGED stored \/ \E node : Add(req[r].id, node) /\ NewNode(r, node)

LEMMA WordsInIds == ASSUME StoreInv, NEW i \in Ids \cup {0} PROVE Words(i) \in SUBSET Ids
<1>1. ContinuationItems(i) \in Seq(DOMAIN stored)
  BY StoreOrders, BackShapes DEF BackShape
<1>2. ToSet(ContinuationItems(i)) \subseteq DOMAIN stored
  BY <1>1, LenProperties DEF ToSet
<1>3. \A j \in DOMAIN stored : stored[j].covers \in SUBSET Ids
  BY DEF StoreInv, Nodes
<1> QED
  BY <1>2, <1>3 DEF Words

(* The store only grows, by the response of r. *)
LEMMA StoreGrows ==
  ASSUME StoreInv, RequestInv, NEW r \in Requests, Stores(r)
  PROVE  /\ DOMAIN stored \subseteq DOMAIN stored'
         /\ DOMAIN stored' \subseteq DOMAIN stored \cup {req[r].id}
         /\ \A i \in DOMAIN stored : stored'[i] = stored[i]
         /\ \A s \in Requests \ {r} : req[s].id \in DOMAIN stored' => req[s].id \in DOMAIN stored
<1>1. CASE UNCHANGED stored
  BY <1>1
<1>2. ASSUME NEW node, Add(req[r].id, node), NewNode(r, node)
      PROVE  /\ DOMAIN stored' = DOMAIN stored \cup {req[r].id}
             /\ \A i \in DOMAIN stored : stored'[i] = stored[i]
             /\ \A s \in Requests \ {r} : req[s].id # req[r].id
  <2>1. req[r].id \notin DOMAIN stored /\ req[r].id # 0
    BY <1>2, RequestTypes DEF Stage, NewNode
  <2>2. stored' = [j \in DOMAIN stored \cup {req[r].id} |-> IF j = req[r].id THEN node ELSE stored[j]]
    BY <1>2 DEF Add
  <2>3. \A s \in Requests \ {r} : req[s].id # req[r].id
    BY <2>1 DEF RequestInv
  <2> QED
    BY <2>1, <2>2, <2>3
<1> QED
  BY <1>1, <1>2 DEF Stores

LEMMA StoreKept ==
  ASSUME StoreInv, RequestInv, NEW r \in Requests, NEW q,
         req' = [req EXCEPT ![r] = q], Takes(r, q), Stores(r)
  PROVE  StoreInv'
<1>1. nextId' + Cardinality(ToTake') <= LastId + 1
  BY IdsSuffice
<1>2. nextId' \in Nat /\ nextId' >= Earlier + 1 /\ nextId <= nextId'
  BY DEF StoreInv, Takes
<1>3. CASE UNCHANGED stored
  <2>1. Linked'
    <3>1. Ancestry' = Ancestry
      BY <1>3 DEF Ancestry
    <3> QED
      BY <1>3, <3>1 DEF StoreInv, Linked
  <2>2. DOMAIN stored' \subseteq 1 .. nextId' - 1 /\ \A i \in DOMAIN stored' : stored'[i] \in Nodes(i)
    BY <1>2, <1>3 DEF StoreInv
  <2> QED
    BY <1>1, <1>2, <2>1, <2>2 DEF StoreInv, LastId, Nodes
<1>4. ASSUME NEW node, Add(req[r].id, node), NewNode(r, node) PROVE StoreInv'
  <2> DEFINE n == req[r].id
             p == req[r].prev
  <2>1. /\ n \notin DOMAIN stored /\ n \in 1 .. nextId - 1
        /\ p \in 0 .. n - 1 /\ p \in DOMAIN stored \cup {0} /\ p \in Ids \cup {0}
    BY <1>4, RequestTypes DEF Stage, NewNode
  <2>2. /\ DOMAIN stored' = DOMAIN stored \cup {n} /\ stored'[n] = node
        /\ \A i \in DOMAIN stored : stored'[i] = stored[i]
    BY <1>4, <2>1 DEF Add
  <2>3. node \in Nodes(n) /\ node.prev = p
    BY <1>4, <2>1 DEF NewNode, Nodes
  <2>4. DOMAIN stored' \subseteq 1 .. nextId' - 1
    BY <1>2, <2>1, <2>2 DEF StoreInv
  <2>5. \A i \in DOMAIN stored' : stored'[i] \in Nodes(i)
    BY <2>1, <2>2, <2>3 DEF StoreInv
  <2>6. Ordered /\ Linked
    BY StoreOrders DEF StoreInv
  <2>7. Ordered'
    <3>1. n \in Ids /\ DOMAIN stored' \subseteq Ids
      BY <2>1, <2>2, <2>6, NextIdBound, IdsAre DEF Ordered
    <3> QED
      BY <2>5, <3>1 DEF Ordered, Nodes, Ids
  <2>8. \A i \in DOMAIN stored \cup {0} : Ancestry'[i] = Ancestry[i]
    BY <2>2, <2>6, <2>7, AncestryKept
  <2>9. Words(p) = Ancestry[p]
    BY <2>1, <2>6, WordsComplete
  <2>10. ASSUME NEW i \in DOMAIN stored'
         PROVE  /\ stored'[i].prev \in DOMAIN stored' \cup {0}
                /\ stored'[i].covers = IF stored'[i].cut THEN Ancestry'[stored'[i].prev] ELSE {i}
                /\ stored'[i].knew = Ancestry'[stored'[i].prev]
    <3>1. CASE i = n
      BY <1>4, <2>1, <2>2, <2>3, <2>8, <2>9, <3>1 DEF NewNode
    <3>2. CASE i \in DOMAIN stored
      BY <2>2, <2>6, <2>8, <3>2 DEF Linked
    <3> QED
      BY <2>2, <3>1, <3>2
  <2>11. Linked'
    BY <2>10 DEF Linked
  <2> QED
    BY <1>1, <1>2, <2>4, <2>5, <2>11 DEF StoreInv, LastId, Nodes
<1> QED
  BY <1>3, <1>4 DEF Stores

LEMMA RequestsKept ==
  ASSUME StoreInv, RequestInv, NEW r \in Requests, NEW q,
         req' = [req EXCEPT ![r] = q], Takes(r, q), Stores(r),
         q \in Records(nextId'), Stage(q, DOMAIN stored', nextId')
  PROVE  RequestInv'
<1>1. nextId \in Nat /\ nextId' \in Nat /\ nextId <= nextId'
  BY DEF StoreInv, Takes
<1>2. \A s \in Requests : req'[s] = IF s = r THEN q ELSE req[s]
  BY DEF RequestInv
<1>3. \A s \in Requests : req[s] \in Records(nextId')
  BY <1>1, RequestTypes, RecordsGrow
<1>4. req' \in [Requests -> Records(nextId')]
  BY <1>3 DEF RequestInv
<1>5. ASSUME NEW s \in Requests \ {r} PROVE Stage(req[s], DOMAIN stored', nextId')
  <2>1. Stage(req[s], DOMAIN stored, nextId) /\ req[s].prev \in Nat
    BY RequestTypes
  <2>2. /\ DOMAIN stored \subseteq DOMAIN stored'
        /\ req[s].id \in DOMAIN stored' => req[s].id \in DOMAIN stored
    BY StoreGrows
  <2> QED
    BY <1>1, <2>1, <2>2 DEF Stage
<1>6. ASSUME NEW s \in Requests, NEW t \in Requests, s # t, req'[s].id # 0
      PROVE  req'[s].id # req'[t].id
  <2>1. \A u \in Requests : req[u].id < nextId /\ req[u].id \in Nat
    BY RequestTypes
  <2>2. q.id \in {0, req[r].id} \/ q.id = nextId
    BY DEF Takes
  <2> QED
    BY <1>2, <1>6, <2>1, <2>2 DEF RequestInv
<1> QED
  BY <1>2, <1>4, <1>5, <1>6 DEF RequestInv, Records

-----------------------------------------------------------------------------
(* The whole invariant after a step of r that leaves it as q, with events  *)
(* h, answer a and audit row u.                                            *)

Leaves(r, q, h, a, u) ==
  /\ req' = [req EXCEPT ![r] = q] /\ heard' = [heard EXCEPT ![r] = h]
  /\ answer' = [answer EXCEPT ![r] = a] /\ audit' = [audit EXCEPT ![r] = u]

OneFault == UNCHANGED faults \/ (Mishaps < MaxMishaps /\ faults' = faults + 1)

LEMMA GoneFinite == RestOK => IsFiniteSet(gone) /\ Cardinality(gone) \in Nat
BY FS_Subset, FS_CardinalityType DEF RestOK

LEMMA StepKeeps ==
  ASSUME Inv, NEW r \in Requests, NEW q, NEW h \in Seq(Events), NEW a \in AnswerStatus,
         NEW u \in AuditStatus, Leaves(r, q, h, a, u), Takes(r, q), Stores(r),
         q \in Records(nextId'), Stage(q, DOMAIN stored', nextId'), steady, OneFault,
         OutcomeOf(q, stored', a, u, r \in gone, faults' + crashes > 0), StreamOf(q, h, a)
  PROVE  Inv'
<1>1. StoreInv' /\ RequestInv'
  BY StoreKept, RequestsKept DEF Inv, Leaves
<1>2. /\ faults \in Nat /\ crashes \in Nat /\ faults' \in 0 .. MaxMishaps
      /\ faults' >= faults /\ crashes' = crashes
      /\ faults + crashes > 0 => faults' + crashes > 0
  BY GoneFinite DEF Inv, RestOK, OneFault, Mishaps, steady
<1>3. RestOK'
  BY <1>2 DEF Inv, RestOK, Leaves, steady
<1>4. ASSUME NEW s \in Requests PROVE Outcome(s)' /\ Stream(s)'
  <2>1. CASE s = r
    <3>1. req'[s] = q /\ heard'[s] = h /\ answer'[s] = a /\ audit'[s] = u
      BY <2>1 DEF Inv, RequestInv, RestOK, Leaves
    <3> QED
      BY <1>2, <2>1, <3>1 DEF Outcome, Stream, steady
  <2>2. CASE s # r
    <3>1. req'[s] = req[s] /\ heard'[s] = heard[s] /\ answer'[s] = answer[s] /\ audit'[s] = audit[s]
      BY <2>2 DEF Inv, RequestInv, RestOK, Leaves
    <3>2. /\ DOMAIN stored \subseteq DOMAIN stored'
          /\ \A i \in DOMAIN stored : stored'[i] = stored[i]
          /\ req[s].id \in DOMAIN stored' => req[s].id \in DOMAIN stored
      BY <2>2, StoreGrows DEF Inv
    <3>3. OutcomeOf(req[s], stored', answer[s], audit[s], s \in gone, faults' + crashes > 0)
      <4>1. faults + crashes > 0 => faults' + crashes > 0
        BY <1>2
      <4>2. OutcomeOf(req[s], stored, answer[s], audit[s], s \in gone, faults + crashes > 0)
        BY DEF Inv, Outcome
      <4> QED
        BY <3>2, <4>1, <4>2 DEF OutcomeOf
    <3> QED
      BY <1>2, <3>1, <3>3 DEF Inv, Outcome, Stream, steady
  <2> QED
    BY <2>1, <2>2
<1> QED
  BY <1>1, <1>3, <1>4 DEF Inv

LEMMA ReqFacts ==
  ASSUME Inv, NEW r \in Requests
  PROVE  /\ req[r] \in Records(nextId) /\ Stage(req[r], DOMAIN stored, nextId)
         /\ nextId \in Nat /\ req[r].prev \in Nat /\ req[r].id \in Nat /\ req[r].id < nextId
         /\ req[r].prev \in Ids \cup {0}
         /\ OutcomeOf(req[r], stored, answer[r], audit[r], r \in gone, faults + crashes > 0)
         /\ StreamOf(req[r], heard[r], answer[r])
         /\ heard[r] \in Seq(Events) /\ answer[r] \in AnswerStatus /\ audit[r] \in AuditStatus
         /\ answer = [answer EXCEPT ![r] = answer[r]] /\ audit = [audit EXCEPT ![r] = audit[r]]
         /\ heard = [heard EXCEPT ![r] = heard[r]]
BY RequestTypes DEF Inv, Outcome, Stream, RestOK

LEMMA UnaskedTyped ==
  ASSUME NEW n \in Nat, n > 0
  PROVE  Unasked \in Records(n) /\ Returned \in Records(n)
<1>1. <<>> \in Seq(Items) /\ 0 \in 0 .. n - 1 /\ 0 \in 0 .. MaxCalls /\ 0 \in 0 .. MaxToolIterations
  OBVIOUS
<1> QED
  BY <1>1 DEF Records, Unasked, Returned, PCs, Kinds, ToolSets

(* An error on its way out of r. *)
LEMMA FailStep ==
  ASSUME Inv, NEW r \in Requests, Fail(r), NEW h \in Seq(Events),
         req[r].pc \notin {"idle", "record", "answer", "return", "ended"},
         req[r].id \in DOMAIN stored => r \in gone,
         heard' = [heard EXCEPT ![r] = h],
         req[r].kind # "stream" => h = <<>>, OpenIn(h) \subseteq {Len(h)},
         UNCHANGED <<stored, nextId, answer, audit>>, steady, OneFault
  PROVE  Inv'
<1> DEFINE q == [Unasked EXCEPT !.pc = "refuse", !.kind = req[r].kind,
                                !.keep = req[r].keep, !.id = req[r].id]
<1>1. /\ q.pc = "refuse" /\ q.kind = req[r].kind /\ q.keep = req[r].keep /\ q.id = req[r].id
      /\ q.prev = 0 /\ q.out = <<>>
  BY DEF Unasked
<1>2. q \in Records(nextId')
  <2>1. req[r] \in Records(nextId) /\ UNCHANGED nextId /\ nextId \in Nat /\ nextId > 0
    BY ReqFacts, NextIdBound DEF Inv
  <2>2. Unasked \in Records(nextId)
    BY <2>1, UnaskedTyped
  <2> QED
    BY <2>1, <2>2 DEF Records, PCs
<1>3. Leaves(r, q, h, "none", "accepted")
  BY ReqFacts DEF Leaves, Fail, OutcomeOf
<1>4. Left(q) = 0 /\ Takes(r, q) /\ Stores(r)
  BY <1>1, LeftIs DEF Left, Takes, Stores
<1>5. Stage(q, DOMAIN stored', nextId')
  BY <1>1, ReqFacts, NextIdBound DEF Stage, Inv
<1>6. OutcomeOf(q, stored', "none", "accepted", r \in gone, faults' + crashes > 0)
  BY <1>1 DEF OutcomeOf
<1>7. StreamOf(q, h, "none")
  BY <1>1 DEF StreamOf
<1> HIDE DEF q
<1> QED
  BY <1>2, <1>3, <1>4, <1>5, <1>6, <1>7, StepKeeps DEF AnswerStatus, AuditStatus

-----------------------------------------------------------------------------
(* Arrival, history, summaries. *)

(* A history that is found ends at a response that is there, or at none. *)
LEMMA FoundMeans ==
  ASSUME Inv, NEW i \in Ids \cup {0}, Found(i)
  PROVE  i \in DOMAIN stored \cup {0}
<1> SUFFICES ASSUME i \notin DOMAIN stored PROVE i = 0
  OBVIOUS
<1>1. Back[i] = <<i>>
  BY StoreOrders, WalkStops DEF Inv
<1>2. Head(<<i>>) = i
  OBVIOUS
<1> QED
  BY <1>1, <1>2 DEF Found

LEMMA ArriveStep ==
  ASSUME Inv, NEW r \in Requests, NEW sh \in Shapes[r], NEW prev \in 0 .. nextId - 1,
         NEW long \in BOOLEAN, Arrive(r, sh, prev, long)
  PROVE  Inv'
<1> DEFINE q == [Unasked EXCEPT !.pc = "load", !.kind = sh.kind, !.keep = sh.keep,
                   !.tools = sh.tools, !.calls = sh.calls, !.long = long, !.prev = prev]
<1>1. /\ q.pc = "load" /\ q.prev = prev /\ q.id = 0 /\ q.out = <<>> /\ ~ q.text
      /\ q.kind = sh.kind
  BY DEF Unasked
<1>2. /\ req[r].pc = "idle" /\ req[r].id = 0 /\ heard[r] = <<>> /\ answer[r] = "none"
      /\ nextId \in Nat /\ nextId > 0
  BY ReqFacts, NextIdBound DEF Arrive, Stage, StreamOf, OutcomeOf, Inv
<1>3. q \in Records(nextId')
  <2>1. sh \in [kind : Kinds, keep : BOOLEAN, tools : ToolSets, calls : 0 .. MaxCalls]
    OBVIOUS
  <2>2. Unasked \in Records(nextId) /\ nextId' = nextId
    BY <1>2, UnaskedTyped DEF Arrive
  <2>3. prev \in Ids \cup {0}
    BY NextIdBound, IdsAre DEF Inv
  <2> QED
    BY <2>1, <2>2, <2>3 DEF Records, PCs
<1>4. Leaves(r, q, <<>>, "none", "accepted")
  BY <1>2, ReqFacts DEF Leaves, Arrive
<1>5. Takes(r, q) /\ Stores(r) /\ steady /\ OneFault
  BY <1>1, <1>2 DEF Takes, Left, Stores, Arrive, OneFault
<1>6. Stage(q, DOMAIN stored', nextId')
  BY <1>1, <1>2 DEF Stage, Arrive
<1>7. OutcomeOf(q, stored', "none", "accepted", r \in gone, faults' + crashes > 0)
  BY <1>1 DEF OutcomeOf
<1>8. StreamOf(q, <<>>, "none") /\ <<>> \in Seq(Events)
  BY <1>1 DEF StreamOf, OpenIn
<1> HIDE DEF q
<1> QED
  BY <1>3, <1>4, <1>5, <1>6, <1>7, <1>8, StepKeeps DEF AnswerStatus, AuditStatus

(* The history is read, and the request goes on. *)
LEMMA BeginStep ==
  ASSUME Inv, NEW r \in Requests, NEW p \in {"load", "summarize", "call"}, Begin(r, p),
         \/ req[r].pc = "load" /\ req[r].prev \in DOMAIN stored \cup {0}
         \/ req[r].pc = "reload" /\ p = "call",
         UNCHANGED <<stored, faults>>, untold, steady
  PROVE  Inv'
<1> DEFINE q == [req[r] EXCEPT !.pc = p, !.id = IF p = "call" THEN nextId ELSE 0,
                   !.prev = IF req[r].pc = "reload" THEN req[r].id ELSE @,
                   !.kind = KindFor(r, p), !.long = @ /\ p # "call"]
<1>0. /\ req[r] \in Records(nextId) /\ nextId \in Nat /\ nextId' \in Nat /\ nextId <= nextId'
      /\ nextId' = IF p = "call" THEN nextId + 1 ELSE nextId
      /\ nextId > 0
  BY ReqFacts, NextIdBound DEF Begin, Inv
<1>1. /\ q.pc = p /\ q.id = (IF p = "call" THEN nextId ELSE 0) /\ q.out = req[r].out
      /\ q.text = req[r].text /\ q.keep = req[r].keep
      /\ q.prev = (IF req[r].pc = "reload" THEN req[r].id ELSE req[r].prev)
      /\ q.kind = (IF p = "load" THEN "deferred" ELSE req[r].kind)
  BY <1>0 DEF Records, KindFor
<1>2. /\ heard[r] = <<>> /\ req[r].out = <<>> /\ ~ req[r].text
      /\ answer[r] = "none" /\ audit[r] = "accepted"
      /\ q.prev \in DOMAIN stored \cup {0}
  BY <1>1, ReqFacts DEF StreamOf, OutcomeOf, Stage
<1>3. DOMAIN stored \subseteq 1 .. nextId - 1 /\ DOMAIN stored \subseteq Ids
  BY StoreOrders DEF Inv, StoreInv, Ordered
<1>4. q \in Records(nextId')
  <2>1. req[r] \in Records(nextId')
    BY <1>0, RecordsGrow
  <2>2. q.prev \in Ids \cup {0}
    BY <1>2, <1>3
  <2>3. q.id \in 0 .. nextId' - 1 /\ q.kind \in Kinds \cup {"deferred"}
    BY <1>0, <1>1 DEF Records
  <2>4. q = [req[r] EXCEPT !.pc = p, !.id = q.id, !.prev = q.prev, !.kind = q.kind,
                           !.long = @ /\ p # "call"]
    BY <1>0 DEF Records
  <2>5. (req[r].long /\ p # "call") \in BOOLEAN
    OBVIOUS
  <2> HIDE DEF q
  <2> QED
    BY <2>1, <2>2, <2>3, <2>4, <2>5 DEF Records, PCs
<1>5. Leaves(r, q, <<>>, "none", "accepted")
  BY <1>2, ReqFacts DEF Leaves, Begin, untold
<1>6. Takes(r, q) /\ Stores(r) /\ OneFault
  BY <1>0, <1>1 DEF Takes, Left, Stores, OneFault
<1>7. Stage(q, DOMAIN stored', nextId')
  BY <1>0, <1>1, <1>2, <1>3 DEF Stage
<1>8. OutcomeOf(q, stored', "none", "accepted", r \in gone, faults' + crashes > 0)
  BY <1>1 DEF OutcomeOf
<1>9. StreamOf(q, <<>>, "none") /\ <<>> \in Seq(Events)
  BY <1>1, <1>2 DEF StreamOf, OpenIn
<1> HIDE DEF q
<1> QED
  BY <1>4, <1>5, <1>6, <1>7, <1>8, <1>9, StepKeeps DEF AnswerStatus, AuditStatus

LEMMA FaultKinds ==
  /\ Works => OneFault
  /\ Fails => OneFault
  /\ \A r \in Requests : Broken(r) => OneFault
BY DEF Works, Fails, Broken, OneFault

(* The request fails where its response is not stored, and tells nothing. *)
LEMMA FailsQuietly ==
  ASSUME Inv, NEW r \in Requests, Fail(r),
         req[r].pc \in {"load", "summarize", "putSummary", "call", "tool", "run", "put", "complete"},
         req[r].pc = "complete" => r \in gone,
         UNCHANGED <<stored, nextId>>, untold, steady, OneFault
  PROVE  Inv'
<1>1. req[r].id \in DOMAIN stored => r \in gone
  <2>1. 0 \notin DOMAIN stored
    BY DEF Inv, StoreInv
  <2> QED
    BY <2>1, ReqFacts DEF Stage
<1>2. /\ heard' = [heard EXCEPT ![r] = heard[r]] /\ heard[r] \in Seq(Events)
      /\ req[r].kind # "stream" => heard[r] = <<>>
      /\ OpenIn(heard[r]) \subseteq {Len(heard[r])}
  BY ReqFacts DEF untold, StreamOf
<1> QED
  BY <1>1, <1>2, FailStep DEF untold

LEMMA LoadHistoryStep == ASSUME Inv, NEW r \in Requests, LoadHistory(r) PROVE Inv'
<1>1. req[r].pc = "load" /\ UNCHANGED stored /\ untold /\ steady
  BY DEF LoadHistory, unstored
<1>2. CASE Fail(r) /\ UNCHANGED nextId /\ OneFault
  BY <1>1, <1>2, FailsQuietly
<1>3. CASE Works /\ Found(req[r].prev) /\ AfterLoad(req[r]) # "refuse" /\ Begin(r, AfterLoad(req[r]))
  <2>1. AfterLoad(req[r]) \in {"load", "summarize", "call"}
    BY <1>3 DEF AfterLoad
  <2>2. req[r].prev \in DOMAIN stored \cup {0}
    BY <1>3, ReqFacts, FoundMeans
  <2> QED
    BY <1>1, <1>3, <2>1, <2>2, BeginStep DEF Works
<1> QED
  BY <1>2, <1>3, FaultKinds DEF LoadHistory

LEMMA ModelFailsStep == ASSUME Inv, NEW r \in Requests, ModelFails(r) PROVE Inv'
BY FailsQuietly DEF ModelFails, OneFault

(* A request that only goes to its next place. *)
Moved(r, p, q) == q = [req[r] EXCEPT !.pc = p]

LEMMA MovedIs ==
  ASSUME Inv, NEW r \in Requests, NEW p \in PCs, NEW q, Moved(r, p, q)
  PROVE  /\ q \in Records(nextId) /\ q.pc = p
         /\ q.kind = req[r].kind /\ q.keep = req[r].keep /\ q.prev = req[r].prev
         /\ q.id = req[r].id /\ q.round = req[r].round /\ q.text = req[r].text
         /\ q.todo = req[r].todo /\ q.out = req[r].out
BY ReqFacts DEF Records, Moved

LEMMA SummarizeStep == ASSUME Inv, NEW r \in Requests, Summarize(r) PROVE Inv'
<1> DEFINE q == [req[r] EXCEPT !.pc = "putSummary", !.id = nextId]
<1>0. /\ req[r] \in Records(nextId) /\ nextId \in Nat /\ nextId' = nextId + 1
      /\ req[r].pc = "summarize" /\ UNCHANGED <<stored, faults>> /\ untold /\ steady
  BY ReqFacts DEF Summarize
<1>1. /\ q.pc = "putSummary" /\ q.id = nextId /\ q.out = req[r].out /\ q.text = req[r].text
      /\ q.prev = req[r].prev /\ q.kind = req[r].kind
  BY <1>0 DEF Records
<1>2. /\ heard[r] = <<>> /\ req[r].out = <<>> /\ ~ req[r].text
      /\ answer[r] = "none" /\ audit[r] = "accepted"
      /\ req[r].prev \in DOMAIN stored \cup {0} /\ req[r].prev < nextId
  BY <1>0, ReqFacts DEF StreamOf, OutcomeOf, Stage
<1>3. q \in Records(nextId')
  <2>1. req[r] \in Records(nextId') /\ nextId \in 0 .. nextId' - 1
    BY <1>0, RecordsGrow
  <2> QED
    BY <2>1 DEF Records, PCs
<1>4. Leaves(r, q, <<>>, "none", "accepted")
  BY <1>0, <1>2, ReqFacts DEF Leaves, Summarize, untold
<1>5. Takes(r, q) /\ Stores(r) /\ OneFault
  BY <1>0, <1>1 DEF Takes, Left, Stores, OneFault
<1>6. Stage(q, DOMAIN stored', nextId')
  <2>1. nextId \notin DOMAIN stored
    BY <1>0 DEF Inv, StoreInv
  <2>2. req[r].prev \in Nat
    BY ReqFacts
  <2> QED
    BY <1>0, <1>1, <1>2, <2>1, <2>2 DEF Stage
<1>7. OutcomeOf(q, stored', "none", "accepted", r \in gone, faults' + crashes > 0)
  BY <1>1 DEF OutcomeOf
<1>8. StreamOf(q, <<>>, "none") /\ <<>> \in Seq(Events)
  BY <1>1, <1>2 DEF StreamOf, OpenIn
<1> HIDE DEF q
<1> QED
  BY <1>0, <1>3, <1>4, <1>5, <1>6, <1>7, <1>8, StepKeeps DEF AnswerStatus, AuditStatus

(* A response is stored under the name of the request. *)
LEMMA Added ==
  ASSUME Inv, NEW r \in Requests, NEW node, Add(req[r].id, node), NewNode(r, node)
  PROVE  /\ Stores(r) /\ DOMAIN stored' = DOMAIN stored \cup {req[r].id}
         /\ req[r].id \in DOMAIN stored' /\ stored'[req[r].id] = node
<1>1. stored' = [j \in DOMAIN stored \cup {req[r].id} |-> IF j = req[r].id THEN node ELSE stored[j]]
  BY DEF Add
<1> QED
  BY <1>1 DEF Stores

LEMMA PutSummaryStep == ASSUME Inv, NEW r \in Requests, PutSummary(r) PROVE Inv'
<1> DEFINE summary == <<Item("summary", 0, 0)>>
           p == IF req[r].kind = "compact" THEN "record" ELSE "reload"
           o == IF req[r].kind = "compact" THEN summary ELSE req[r].out
           q == [req[r] EXCEPT !.pc = p, !.out = o]
           node == Node(req[r].prev, summary, TRUE, Words(req[r].prev), Words(req[r].prev))
<1>0. /\ req[r].pc = "putSummary" /\ nextId' = nextId /\ untold /\ steady
      /\ req[r] \in Records(nextId) /\ nextId \in Nat
  BY ReqFacts DEF PutSummary
<1>1. CASE Fail(r) /\ UNCHANGED stored /\ OneFault
  BY <1>0, <1>1, FailsQuietly
<1>2. CASE Works /\ Add(req[r].id, node) /\ req' = [req EXCEPT ![r] = q]
  <2>1. /\ q.pc = p /\ q.out = o /\ q.id = req[r].id /\ q.kind = req[r].kind
        /\ q.prev = req[r].prev /\ q.text = req[r].text /\ q.keep = req[r].keep
    BY <1>0 DEF Records
  <2>2. summary \in Seq(Items)
    <3>1. Item("summary", 0, 0) \in Items
      BY DEF Item, Items, Types
    <3> QED
      BY <3>1
  <2>3. NewNode(r, node)
    <3>1. Words(req[r].prev) \in SUBSET Ids /\ req[r].prev \in Ids \cup {0}
      BY ReqFacts, WordsInIds DEF Inv
    <3> HIDE DEF summary
    <3> QED
      BY <1>0, <2>2, <3>1 DEF NewNode, Node
  <2>4. /\ Stores(r) /\ DOMAIN stored' = DOMAIN stored \cup {req[r].id}
        /\ req[r].id \in DOMAIN stored' /\ stored'[req[r].id] = node
    BY <1>2, <2>3, Added
  <2>5. /\ heard[r] = <<>> /\ req[r].out = <<>> /\ ~ req[r].text
        /\ answer[r] = "none" /\ audit[r] = "accepted"
        /\ req[r].prev < nextId /\ req[r].id \in Nat
    BY <1>0, ReqFacts DEF StreamOf, OutcomeOf, Stage
  <2>6. q \in Records(nextId')
    <3> HIDE DEF summary
    <3>1. p \in PCs /\ o \in Seq(Items)
      BY <1>0, <2>2 DEF PCs, Records
    <3> HIDE DEF p, o
    <3> QED
      BY <1>0, <3>1 DEF Records
  <2>7. Leaves(r, q, <<>>, "none", "accepted")
    BY <1>2, <1>0, <2>5, ReqFacts DEF Leaves, untold
  <2>8. Takes(r, q) /\ OneFault
    BY <1>0, <1>2, <2>1 DEF Takes, Left, OneFault, Works
  <2>9. Stage(q, DOMAIN stored', nextId')
    <3>1. req[r].prev \in DOMAIN stored \cup {0}
      BY <1>0, ReqFacts DEF Stage
    <3> QED
      BY <1>0, <2>1, <2>4, <2>5, <3>1 DEF Stage
  <2>10. OutcomeOf(q, stored', "none", "accepted", r \in gone, faults' + crashes > 0)
    BY <2>1, <2>4 DEF OutcomeOf, Node
  <2>11. StreamOf(q, <<>>, "none") /\ <<>> \in Seq(Events)
    <3>1. q.kind = "stream" => q.out = <<>>
      BY <2>1, <2>5
    <3> QED
      BY <2>1, <2>5, <3>1 DEF StreamOf, OpenIn
  <2> HIDE DEF q, node
  <2> QED
    BY <1>0, <2>4, <2>6, <2>7, <2>8, <2>9, <2>10, <2>11, StepKeeps DEF AnswerStatus, AuditStatus
<1>3. CASE /\ Works /\ Add(req[r].id, node)
           /\ req' = [req EXCEPT ![r].pc = p, ![r].out = IF req[r].kind = "compact" THEN summary ELSE @]
  <2>1. req' = [req EXCEPT ![r] = q]
    BY <1>0, <1>3 DEF Inv, RequestInv, Records
  <2> QED
    BY <1>2, <1>3, <2>1
<1> QED
  BY <1>1, <1>3, FaultKinds DEF PutSummary, unstored

LEMMA ReloadStep == ASSUME Inv, NEW r \in Requests, Reload(r) PROVE Inv'
<1>0. /\ req[r].pc = "reload" /\ UNCHANGED stored /\ untold /\ steady
      /\ req[r] \in Records(nextId) /\ nextId \in Nat /\ nextId > 0
  BY ReqFacts, NextIdBound DEF Reload, unstored, Inv
<1>1. CASE Works /\ Begin(r, "call")
  BY <1>0, <1>1, BeginStep DEF Works
<1>2. CASE OneFault /\ req' = [req EXCEPT ![r] = [Unasked EXCEPT !.pc = "refuse"]] /\ UNCHANGED nextId
  <2> DEFINE q == [Unasked EXCEPT !.pc = "refuse"]
  <2>1. /\ q.pc = "refuse" /\ q.id = 0 /\ q.prev = 0 /\ q.out = <<>> /\ ~ q.text
        /\ q.kind = "create"
    BY DEF Unasked
  <2>2. heard[r] = <<>> /\ answer[r] = "none" /\ audit[r] = "accepted" /\ 0 \notin DOMAIN stored
    BY <1>0, ReqFacts DEF StreamOf, OutcomeOf, Inv, StoreInv
  <2>3. q \in Records(nextId')
    <3>1. Unasked \in Records(nextId)
      BY <1>0, UnaskedTyped
    <3> QED
      BY <1>2, <3>1 DEF Records, PCs
  <2>4. Leaves(r, q, <<>>, "none", "accepted")
    BY <1>0, <1>2, <2>2, ReqFacts DEF Leaves, untold
  <2>5. Takes(r, q) /\ Stores(r)
    BY <1>0, <1>2, <2>1 DEF Takes, Left, Stores
  <2>6. Stage(q, DOMAIN stored', nextId')
    BY <1>0, <1>2, <2>1 DEF Stage
  <2>7. OutcomeOf(q, stored', "none", "accepted", r \in gone, faults' + crashes > 0)
    BY <1>0, <2>1, <2>2 DEF OutcomeOf
  <2>8. StreamOf(q, <<>>, "none") /\ <<>> \in Seq(Events)
    BY <2>1 DEF StreamOf, OpenIn
  <2> HIDE DEF q
  <2> QED
    BY <1>0, <1>2, <2>3, <2>4, <2>5, <2>6, <2>7, <2>8, StepKeeps DEF AnswerStatus, AuditStatus
<1> QED
  BY <1>1, <1>2, FaultKinds DEF Reload

-----------------------------------------------------------------------------
(* Storing, telling, settling. *)

LEMMA PutStep == ASSUME Inv, NEW r \in Requests, Put(r) PROVE Inv'
<1> DEFINE p == AfterPut(req[r])
           q == [req[r] EXCEPT !.pc = p]
           node == Node(req[r].prev, req[r].out, FALSE, {req[r].id}, Words(req[r].prev))
<1>0. /\ req[r].pc = "put" /\ nextId' = nextId /\ untold /\ steady
      /\ req[r] \in Records(nextId) /\ nextId \in Nat
  BY ReqFacts DEF Put
<1>1. CASE Fail(r) /\ UNCHANGED stored /\ OneFault
  BY <1>0, <1>1, FailsQuietly
<1>2. CASE Works /\ Add(req[r].id, node) /\ To(r, p)
  <2>1. p = IF req[r].kind = "stream" THEN "complete" ELSE "record"
    BY DEF AfterPut
  <2>2. p \in PCs
    BY <2>1 DEF PCs
  <2>3. /\ q \in Records(nextId) /\ q.pc = p
        /\ q.kind = req[r].kind /\ q.keep = req[r].keep /\ q.prev = req[r].prev
        /\ q.id = req[r].id /\ q.text = req[r].text /\ q.out = req[r].out
    BY <2>2, MovedIs DEF Moved
  <2>4. NewNode(r, node)
    <3>1. Words(req[r].prev) \in SUBSET Ids /\ req[r].prev \in Ids \cup {0}
      BY ReqFacts, WordsInIds DEF Inv
    <3>2. req[r].id \in Ids /\ req[r].out \in Seq(Items)
      <4>1. req[r].id \in 1 .. nextId - 1
        BY <1>0, ReqFacts DEF Stage
      <4> QED
        BY <1>0, <4>1, NextIdBound, IdsAre DEF Inv, Records
    <3> QED
      BY <1>0, <3>1, <3>2 DEF NewNode, Node
  <2>5. /\ Stores(r) /\ DOMAIN stored' = DOMAIN stored \cup {req[r].id}
        /\ req[r].id \in DOMAIN stored' /\ stored'[req[r].id] = node
    BY <1>2, <2>4, Added
  <2>6. Leaves(r, q, heard[r], answer[r], audit[r])
    BY <1>0, <1>2, ReqFacts DEF Leaves, untold, To, Inv, RequestInv
  <2>7. Takes(r, q) /\ OneFault
    BY <1>0, <1>2, <2>1, <2>3 DEF Takes, Left, OneFault, Works
  <2>8. Stage(q, DOMAIN stored', nextId')
    BY <1>0, <2>1, <2>3, ReqFacts DEF Stage
  <2>9. OutcomeOf(q, stored', answer[r], audit[r], r \in gone, faults' + crashes > 0)
    BY <1>0, <2>1, <2>3, <2>5, ReqFacts DEF OutcomeOf, Node
  <2>10. StreamOf(q, heard[r], answer[r])
    BY <1>0, <2>1, <2>3, ReqFacts DEF StreamOf
  <2> HIDE DEF q, node
  <2> QED
    BY <1>0, <2>3, <2>5, <2>6, <2>7, <2>8, <2>9, <2>10, ReqFacts, StepKeeps
<1> QED
  BY <1>1, <1>2, FaultKinds DEF Put, unstored

LEMMA CompleteStep == ASSUME Inv, NEW r \in Requests, Complete(r) PROVE Inv'
<1> DEFINE q == [req[r] EXCEPT !.pc = "record"]
<1>0. /\ req[r].pc = "complete" /\ UNCHANGED <<stored, nextId, heard, audit, faults>> /\ steady
      /\ audit[r] = "accepted" /\ answer[r] = "none"
  BY ReqFacts DEF Complete, OutcomeOf
<1>1. CASE r \in gone /\ Fail(r) /\ UNCHANGED answer
  BY <1>0, <1>1, FailsQuietly DEF untold, OneFault
<1>2. CASE To(r, "record") /\ answer' = [answer EXCEPT ![r] = "completed"] /\ req[r].kind = "stream"
  <2>1. /\ q \in Records(nextId) /\ q.pc = "record"
        /\ q.kind = req[r].kind /\ q.keep = req[r].keep /\ q.prev = req[r].prev
        /\ q.id = req[r].id /\ q.text = req[r].text /\ q.out = req[r].out
    BY MovedIs DEF Moved, PCs
  <2>2. Leaves(r, q, heard[r], "completed", audit[r])
    BY <1>0, <1>2, ReqFacts DEF Leaves, To, Inv, RequestInv
  <2>3. Takes(r, q) /\ Stores(r) /\ OneFault
    BY <1>0, <2>1 DEF Takes, Left, Stores, OneFault
  <2>4. Stage(q, DOMAIN stored', nextId')
    BY <1>0, <2>1, ReqFacts DEF Stage
  <2>5. OutcomeOf(q, stored', "completed", audit[r], r \in gone, faults' + crashes > 0)
    BY <1>0, <1>2, <2>1, ReqFacts DEF OutcomeOf
  <2>6. StreamOf(q, heard[r], "completed")
    BY <1>0, <2>1, ReqFacts DEF StreamOf
  <2> HIDE DEF q
  <2> QED
    BY <1>0, <2>1, <2>2, <2>3, <2>4, <2>5, <2>6, ReqFacts, StepKeeps DEF AnswerStatus
<1>3. req[r].kind = "stream"
  BY <1>0, ReqFacts DEF Stage
<1> QED
  BY <1>1, <1>2, <1>3 DEF Complete

LEMMA RecordStep == ASSUME Inv, NEW r \in Requests, Record(r) PROVE Inv'
<1> DEFINE p == IF req[r].kind = "stream" THEN "return" ELSE "answer"
           q == [req[r] EXCEPT !.pc = p]
<1>0. /\ req[r].pc = "record" /\ UNCHANGED <<stored, nextId, heard, answer>> /\ steady
      /\ audit[r] = "accepted" /\ answer[r] = (IF req[r].kind = "stream" THEN "completed" ELSE "none")
      /\ Settle(r, "completed") /\ To(r, p)
  BY ReqFacts DEF Record, OutcomeOf, Streams
<1>1. /\ q \in Records(nextId) /\ q.pc = p
      /\ q.kind = req[r].kind /\ q.keep = req[r].keep /\ q.prev = req[r].prev
      /\ q.id = req[r].id /\ q.text = req[r].text /\ q.out = req[r].out
  <2>1. p \in PCs
    BY DEF PCs
  <2> HIDE DEF p
  <2> QED
    BY <2>1, MovedIs DEF Moved
<1>2. Takes(r, q) /\ Stores(r)
  BY <1>0, <1>1 DEF Takes, Left, Stores
<1>3. Stage(q, DOMAIN stored', nextId')
  BY <1>0, <1>1, ReqFacts DEF Stage
<1>4. StreamOf(q, heard[r], answer[r])
  <2>1. q.pc \in {"return", "answer"}
    BY <1>1
  <2> HIDE DEF q
  <2> QED
    BY <1>0, <1>1, <2>1, ReqFacts DEF StreamOf
<1>5. ASSUME NEW u \in {"accepted", "completed"}, audit' = [audit EXCEPT ![r] = u],
             u = "accepted" => faults' + crashes > 0, OneFault
      PROVE  Inv'
  <2>1. Leaves(r, q, heard[r], answer[r], u)
    BY <1>0, <1>5, ReqFacts DEF Leaves, To
  <2>2. OutcomeOf(q, stored', answer[r], u, r \in gone, faults' + crashes > 0)
    BY <1>0, <1>1, <1>5, ReqFacts DEF OutcomeOf
  <2> HIDE DEF q
  <2> QED
    BY <1>0, <1>1, <1>2, <1>3, <1>4, <1>5, <2>1, <2>2, ReqFacts, StepKeeps DEF AuditStatus
<1>6. CASE Works /\ audit' = [audit EXCEPT ![r] = "completed"]
  BY <1>5, <1>6, FaultKinds
<1>7. CASE Fails /\ UNCHANGED audit
  <2>1. faults' + crashes > 0
    BY <1>7 DEF Fails, Inv, RestOK
  <2> QED
    BY <1>0, <1>5, <1>7, <2>1, ReqFacts, FaultKinds
<1> QED
  BY <1>0, <1>6, <1>7 DEF Settle

(* The client is told or has left; the goroutine is about to return. *)
LEMMA AnswerStep == ASSUME Inv, NEW r \in Requests, Answer(r) PROVE Inv'
<1> DEFINE q == [req[r] EXCEPT !.pc = "return"]
<1>0. /\ req[r].pc = "answer" /\ UNCHANGED <<stored, nextId, heard, audit, faults>> /\ steady
      /\ answer[r] = "none" /\ audit[r] \in {"accepted", "completed"} /\ To(r, "return")
  BY ReqFacts DEF Answer, OutcomeOf
<1>1. /\ q \in Records(nextId) /\ q.pc = "return"
      /\ q.kind = req[r].kind /\ q.keep = req[r].keep /\ q.prev = req[r].prev
      /\ q.id = req[r].id /\ q.text = req[r].text /\ q.out = req[r].out
  BY MovedIs DEF Moved, PCs
<1>2. Takes(r, q) /\ Stores(r) /\ OneFault
  BY <1>0, <1>1 DEF Takes, Left, Stores, OneFault
<1>3. Stage(q, DOMAIN stored', nextId')
  BY <1>0, <1>1, ReqFacts DEF Stage
<1>4. ASSUME NEW a \in {"none", "completed"}, answer' = [answer EXCEPT ![r] = a] PROVE Inv'
  <2>1. Leaves(r, q, heard[r], a, audit[r])
    BY <1>0, <1>4, ReqFacts DEF Leaves, To
  <2>2. OutcomeOf(q, stored', a, audit[r], r \in gone, faults' + crashes > 0)
    BY <1>0, <1>1, <1>4, ReqFacts DEF OutcomeOf
  <2>3. StreamOf(q, heard[r], a)
    BY <1>0, <1>1, ReqFacts DEF StreamOf
  <2> HIDE DEF q
  <2> QED
    BY <1>0, <1>1, <1>2, <1>3, <2>1, <2>2, <2>3, ReqFacts, StepKeeps DEF AnswerStatus
<1> QED
  BY <1>0, <1>4, ReqFacts DEF Answer

LEMMA RefuseStep == ASSUME Inv, NEW r \in Requests, Refuse(r) PROVE Inv'
<1> DEFINE q == [req[r] EXCEPT !.pc = "return"]
<1>0. /\ req[r].pc = "refuse" /\ UNCHANGED <<stored, nextId, heard>> /\ steady
      /\ answer[r] = "none" /\ audit[r] = "accepted" /\ To(r, "return")
      /\ req[r].id \in DOMAIN stored => r \in gone
  BY ReqFacts DEF Refuse, OutcomeOf
<1>1. /\ q \in Records(nextId) /\ q.pc = "return"
      /\ q.kind = req[r].kind /\ q.keep = req[r].keep /\ q.prev = req[r].prev
      /\ q.id = req[r].id /\ q.text = req[r].text /\ q.out = req[r].out
  BY MovedIs DEF Moved, PCs
<1>2. Takes(r, q) /\ Stores(r)
  BY <1>0, <1>1 DEF Takes, Left, Stores
<1>3. Stage(q, DOMAIN stored', nextId')
  BY <1>0, <1>1, ReqFacts DEF Stage
<1>4. ASSUME NEW a \in {"none", "failed"}, answer' = [answer EXCEPT ![r] = a],
             NEW u \in {"accepted", "failed", "cancelled"}, audit' = [audit EXCEPT ![r] = u],
             u = "accepted" => faults' + crashes > 0, OneFault
      PROVE  Inv'
  <2>1. Leaves(r, q, heard[r], a, u)
    BY <1>0, <1>4, ReqFacts DEF Leaves, To
  <2>2. OutcomeOf(q, stored', a, u, r \in gone, faults' + crashes > 0)
    BY <1>0, <1>1, <1>4 DEF OutcomeOf
  <2>3. StreamOf(q, heard[r], a)
    BY <1>0, <1>1, <1>4, ReqFacts DEF StreamOf
  <2> HIDE DEF q
  <2> QED
    BY <1>0, <1>1, <1>2, <1>3, <1>4, <2>1, <2>2, <2>3, ReqFacts, StepKeeps
       DEF AnswerStatus, AuditStatus
<1>5. PICK a \in {"none", "failed"} : answer' = [answer EXCEPT ![r] = a]
  BY <1>0, ReqFacts DEF Refuse
<1>6. PICK status \in {"failed", "cancelled"} : Settle(r, status)
  BY DEF Refuse
<1>7. CASE Works /\ audit' = [audit EXCEPT ![r] = status]
  BY <1>4, <1>5, <1>7, FaultKinds
<1>8. CASE Fails /\ UNCHANGED audit
  <2>1. faults' + crashes > 0
    BY <1>8 DEF Fails, Inv, RestOK
  <2> QED
    BY <1>0, <1>4, <1>5, <1>8, <2>1, ReqFacts, FaultKinds
<1> QED
  BY <1>6, <1>7, <1>8 DEF Settle

LEMMA ReturnStep == ASSUME Inv, NEW r \in Requests, Return(r) PROVE Inv'
<1>0. /\ req[r].pc = "return" /\ UNCHANGED <<stored, nextId, answer, audit, faults>> /\ steady
      /\ req' = [req EXCEPT ![r] = Returned] /\ heard' = [heard EXCEPT ![r] = <<>>]
      /\ nextId \in Nat /\ nextId > 0
  BY ReqFacts, NextIdBound DEF Return, Inv
<1>1. /\ Returned.pc = "ended" /\ Returned.id = 0 /\ Returned.prev = 0 /\ ~ Returned.keep
      /\ Returned.out = <<>> /\ ~ Returned.text /\ Returned.kind = "create"
  BY DEF Returned, Unasked
<1>2. Returned \in Records(nextId')
  BY <1>0, UnaskedTyped
<1>3. Leaves(r, Returned, <<>>, answer[r], audit[r])
  BY <1>0, ReqFacts DEF Leaves
<1>4. Takes(r, Returned) /\ Stores(r) /\ OneFault
  BY <1>0, <1>1 DEF Takes, Left, Stores, OneFault
<1>5. Stage(Returned, DOMAIN stored', nextId')
  BY <1>0, <1>1 DEF Stage
<1>6. OutcomeOf(Returned, stored', answer[r], audit[r], r \in gone, faults' + crashes > 0)
  BY <1>0, <1>1, ReqFacts DEF OutcomeOf
<1>7. StreamOf(Returned, <<>>, answer[r]) /\ <<>> \in Seq(Events)
  BY <1>1 DEF StreamOf, OpenIn
<1> QED
  BY <1>0, <1>2, <1>3, <1>4, <1>5, <1>6, <1>7, ReqFacts, StepKeeps

-----------------------------------------------------------------------------
(* Streams.  An event that adds an item may leave it open; one that ends   *)
(* an item leaves no event open that added it.                             *)

LEMMA OpenAppend ==
  ASSUME NEW h \in Seq(Events), NEW e \in Events
  PROVE  LET g == Append(h, e) IN
         /\ g \in Seq(Events) /\ g # <<>> /\ Len(g) = Len(h) + 1 /\ g[Len(g)] = e
         /\ ToSet(h) \subseteq ToSet(g) /\ e \in ToSet(g)
         /\ OpenIn(g) \subseteq OpenIn(h) \cup {Len(g)}
         /\ e.what # "added" => \A k \in OpenIn(g) :
              k \in OpenIn(h) /\ ~ (h[k].at = e.at /\ h[k].item = e.item)
<1> DEFINE g == Append(h, e)
<1>1. /\ g \in Seq(Events) /\ g # <<>> /\ Len(g) = Len(h) + 1 /\ g[Len(g)] = e
      /\ Len(h) \in Nat /\ DOMAIN h = 1 .. Len(h) /\ DOMAIN g = 1 .. Len(h) + 1
      /\ \A k \in 1 .. Len(h) : g[k] = h[k]
  BY AppendProperties, LenProperties
<1>2. ToSet(h) \subseteq ToSet(g) /\ e \in ToSet(g)
  BY ToSetAppend
<1> HIDE DEF g
<1>3. ASSUME NEW k \in OpenIn(g), k # Len(g) PROVE k \in OpenIn(h) /\ k \in 1 .. Len(h)
  <2>1. k \in 1 .. Len(h) /\ g[k].what = "added"
    BY <1>1, <1>3 DEF OpenIn
  <2>2. ASSUME NEW l \in k + 1 .. Len(h)
        PROVE  ~ (h[l].what # "added" /\ h[l].at = h[k].at /\ h[l].item = h[k].item)
    <3>1. l \in k + 1 .. Len(g) /\ g[l] = h[l] /\ g[k] = h[k]
      BY <1>1, <2>1
    <3> QED
      BY <1>3, <3>1 DEF OpenIn
  <2> QED
    BY <1>1, <2>1, <2>2 DEF OpenIn
<1>4. ASSUME e.what # "added", NEW k \in OpenIn(g)
      PROVE  k \in OpenIn(h) /\ ~ (h[k].at = e.at /\ h[k].item = e.item)
  <2>1. k # Len(g)
    BY <1>1, <1>4 DEF OpenIn
  <2>2. k \in OpenIn(h) /\ k \in 1 .. Len(h)
    BY <1>3, <2>1
  <2>3. Len(g) \in k + 1 .. Len(g) /\ g[k] = h[k]
    BY <1>1, <2>2
  <2> QED
    BY <1>1, <1>4, <2>2, <2>3 DEF OpenIn
<1>5. OpenIn(g) \subseteq OpenIn(h) \cup {Len(g)}
  BY <1>3
<1> QED
  BY <1>1, <1>2, <1>4, <1>5 DEF g

LEMMA OpensOne ==
  ASSUME NEW h \in Seq(Events), NEW e \in Events, OpenIn(h) = {}
  PROVE  OpenIn(Append(h, e)) \subseteq {Len(Append(h, e))}
BY OpenAppend

LEMMA ClosesOne ==
  ASSUME NEW h \in Seq(Events), NEW e \in Events, OpenIn(h) \subseteq {Len(h)},
         e.what # "added", h[Len(h)].at = e.at, h[Len(h)].item = e.item
  PROVE  OpenIn(Append(h, e)) = {}
BY OpenAppend

LEMMA NoneOpen == OpenIn(<<>>) = {}
BY DEF OpenIn

LEMMA EventTyped ==
  ASSUME NEW what \in {"added", "done", "failed"}, NEW at \in Nat, NEW item \in Items
  PROVE  /\ Event(what, at, item) \in Events /\ Event(what, at, item).what = what
         /\ Event(what, at, item).at = at /\ Event(what, at, item).item = item
BY DEF Event, Events

(* What a client hears: nothing, unless it gets a stream. *)
LEMMA TellOne ==
  ASSUME Inv, NEW r \in Requests, NEW e, Tell(r, <<e>>)
  PROVE  /\ req[r].kind = "stream" => heard' = [heard EXCEPT ![r] = Append(heard[r], e)]
         /\ req[r].kind # "stream" => heard' = [heard EXCEPT ![r] = <<>>] /\ heard[r] = <<>>
<1>1. heard[r] \in Seq(Events) /\ heard \in [Requests -> Seq(Events)]
  BY DEF Inv, RestOK
<1>2. heard[r] \o <<e>> = Append(heard[r], e)
  BY <1>1
<1>3. req[r].kind # "stream" => heard[r] = <<>>
  BY ReqFacts DEF StreamOf
<1> QED
  BY <1>1, <1>2, <1>3 DEF Tell, Streams

(* The item at the next place of the output of a request. *)
LEMMA NextItem ==
  ASSUME Inv, NEW r \in Requests
  PROVE  /\ Message(r) \in Items /\ Message(r) = Item("message", req[r].round, 0)
         /\ Len(req[r].out) \in Nat
         /\ req[r].pc \in {"tool", "run"} =>
              req[r].todo \in Seq(Items) /\ req[r].todo # <<>> /\ Head(req[r].todo) \in Items
<1>1. req[r].round \in 0 .. MaxToolIterations /\ req[r].out \in Seq(Items) /\ req[r].todo \in Seq(Items)
  BY ReqFacts DEF Records
<1>2. Message(r) \in Items /\ Message(r) = Item("message", req[r].round, 0)
  <2>1. 0 \in 0 .. MaxCalls
    OBVIOUS
  <2> QED
    BY <1>1, <2>1 DEF Message, Item, Items, Types
<1>3. Len(req[r].out) \in Nat
  BY <1>1, LenProperties
<1>4. req[r].pc \in {"tool", "run"} => req[r].todo # <<>>
  BY ReqFacts DEF Stage
<1> QED
  BY <1>1, <1>2, <1>3, <1>4, HeadTailProperties

LEMMA StreamTextStep == ASSUME Inv, NEW r \in Requests, StreamText(r) PROVE Inv'
<1> DEFINE q == [req[r] EXCEPT !.text = TRUE]
           e == Event("added", Len(req[r].out), Message(r))
           h == Append(heard[r], e)
<1>0. /\ req[r].pc = "call" /\ req[r].kind = "stream" /\ ~ req[r].text
      /\ UNCHANGED <<stored, nextId, answer, audit, faults>> /\ steady
      /\ answer[r] = "none" /\ audit[r] = "accepted"
      /\ req[r] \in Records(nextId) /\ OpenIn(heard[r]) = {}
  BY ReqFacts DEF StreamText, Streams, OutcomeOf, StreamOf
<1>1. CASE r \in gone /\ Fail(r) /\ UNCHANGED heard
  BY <1>0, <1>1, FailsQuietly DEF untold, OneFault
<1>2. CASE req' = [req EXCEPT ![r].text = TRUE] /\ Tell(r, <<e>>)
  <2>1. /\ q \in Records(nextId) /\ q.pc = "call" /\ q.text
        /\ q.kind = req[r].kind /\ q.keep = req[r].keep /\ q.prev = req[r].prev
        /\ q.id = req[r].id /\ q.out = req[r].out /\ q.round = req[r].round
    BY <1>0 DEF Records
  <2>2. e \in Events /\ e.what = "added" /\ e = Event("added", Len(q.out), Item("message", q.round, 0))
    BY <2>1, NextItem, EventTyped
  <2>3. /\ h \in Seq(Events) /\ h # <<>> /\ h[Len(h)] = e
        /\ ToSet(heard[r]) \subseteq ToSet(h)
    <3>1. h = Append(heard[r], e) /\ heard[r] \in Seq(Events)
      BY ReqFacts
    <3> HIDE DEF e
    <3> QED
      BY <2>2, <3>1, OpenAppend
  <2>4. OpenIn(h) \subseteq {Len(h)}
    BY <1>0, <2>2, ReqFacts, OpensOne
  <2>5. Leaves(r, q, h, "none", "accepted")
    <3>1. req' = [req EXCEPT ![r] = q]
      BY <1>2
    <3> QED
      BY <1>0, <1>2, <3>1, ReqFacts, TellOne DEF Leaves
  <2>6. Takes(r, q) /\ Stores(r) /\ OneFault
    BY <1>0, <2>1 DEF Takes, Left, Stores, OneFault
  <2>7. Stage(q, DOMAIN stored', nextId')
    BY <1>0, <2>1, ReqFacts DEF Stage
  <2>8. OutcomeOf(q, stored', "none", "accepted", r \in gone, faults' + crashes > 0)
    BY <2>1 DEF OutcomeOf
  <2>9. StreamOf(q, h, "none")
    <3> HIDE DEF q, h, e
    <3> QED
      BY <1>0, <2>1, <2>2, <2>3, <2>4, ReqFacts DEF StreamOf
  <2> HIDE DEF q, h, e
  <2> QED
    BY <1>0, <2>1, <2>3, <2>5, <2>6, <2>7, <2>8, <2>9, StepKeeps DEF AnswerStatus, AuditStatus
<1> QED
  BY <1>1, <1>2 DEF StreamText

LEMMA StartToolStep == ASSUME Inv, NEW r \in Requests, StartTool(r) PROVE Inv'
<1> DEFINE q == [req[r] EXCEPT !.pc = "run"]
           e == Event("added", Len(req[r].out), Head(req[r].todo))
           h == IF req[r].kind = "stream" THEN Append(heard[r], e) ELSE <<>>
<1>0. /\ req[r].pc = "tool" /\ UNCHANGED <<stored, nextId, answer, audit, faults>> /\ steady
      /\ answer[r] = "none" /\ audit[r] = "accepted"
      /\ req[r] \in Records(nextId) /\ OpenIn(heard[r]) = {}
  BY ReqFacts DEF StartTool, OutcomeOf, StreamOf
<1>1. CASE r \in gone /\ Fail(r) /\ UNCHANGED heard
  BY <1>0, <1>1, FailsQuietly DEF untold, OneFault
<1>2. CASE To(r, "run") /\ Tell(r, <<e>>)
  <2>1. /\ q \in Records(nextId) /\ q.pc = "run"
        /\ q.kind = req[r].kind /\ q.keep = req[r].keep /\ q.prev = req[r].prev
        /\ q.id = req[r].id /\ q.out = req[r].out /\ q.todo = req[r].todo /\ q.text = req[r].text
    BY MovedIs DEF Moved, PCs
  <2>2. e \in Events /\ e.what = "added" /\ e = Event("added", Len(q.out), Head(q.todo))
    <3>1. Head(req[r].todo) \in Items /\ Len(req[r].out) \in Nat
      BY <1>0, NextItem
    <3> HIDE DEF q
    <3> QED
      BY <2>1, <3>1, EventTyped
  <2>3. /\ h \in Seq(Events) /\ OpenIn(h) \subseteq {Len(h)}
        /\ req[r].kind = "stream" => h # <<>> /\ h[Len(h)] = e /\ ToSet(heard[r]) \subseteq ToSet(h)
        /\ req[r].kind # "stream" => h = <<>>
    <3> HIDE DEF e
    <3>1. CASE req[r].kind = "stream"
      <4>1. h = Append(heard[r], e) /\ heard[r] \in Seq(Events)
        BY <3>1, ReqFacts
      <4>2. /\ Append(heard[r], e) \in Seq(Events) /\ Append(heard[r], e) # <<>>
            /\ ToSet(heard[r]) \subseteq ToSet(Append(heard[r], e))
            /\ Append(heard[r], e)[Len(Append(heard[r], e))] = e
        BY <2>2, <4>1, OpenAppend
      <4>3. OpenIn(Append(heard[r], e)) \subseteq {Len(Append(heard[r], e))}
        BY <1>0, <2>2, <4>1, OpensOne
      <4> HIDE DEF h
      <4> QED
        BY <3>1, <4>1, <4>2, <4>3
    <3>2. CASE req[r].kind # "stream"
      BY <3>2, NoneOpen
    <3> QED
      BY <3>1, <3>2
  <2>5. Leaves(r, q, h, "none", "accepted")
    <3>1. req' = [req EXCEPT ![r] = q]
      BY <1>2 DEF To
    <3>2. heard' = [heard EXCEPT ![r] = h]
      <4> HIDE DEF e
      <4> QED
        BY <1>2, TellOne
    <3> QED
      BY <1>0, <3>1, <3>2, ReqFacts DEF Leaves
  <2>6. Takes(r, q) /\ Stores(r) /\ OneFault
    BY <1>0, <2>1 DEF Takes, Left, Stores, OneFault
  <2>7. Stage(q, DOMAIN stored', nextId')
    BY <1>0, <2>1, ReqFacts DEF Stage
  <2>8. OutcomeOf(q, stored', "none", "accepted", r \in gone, faults' + crashes > 0)
    BY <2>1 DEF OutcomeOf
  <2>9. StreamOf(q, h, "none")
    <3> HIDE DEF q, h, e
    <3> QED
      BY <1>0, <2>1, <2>2, <2>3, ReqFacts DEF StreamOf
  <2> HIDE DEF q, h, e
  <2> QED
    BY <1>0, <2>1, <2>3, <2>5, <2>6, <2>7, <2>8, <2>9, StepKeeps DEF AnswerStatus, AuditStatus
<1> QED
  BY <1>1, <1>2 DEF StartTool

(* The event that ends what is open. *)
LEMMA ToldTheEnd ==
  ASSUME Inv, NEW r \in Requests, NEW what \in {"done", "failed"}, NEW e, NEW h, req[r].pc = "run",
         e = Event(what, Len(req[r].out), Head(req[r].todo)), Tell(r, <<e>>),
         h = IF req[r].kind = "stream" THEN Append(heard[r], e) ELSE <<>>
  PROVE  /\ h \in Seq(Events) /\ OpenIn(h) = {} /\ heard' = [heard EXCEPT ![r] = h]
         /\ req[r].kind = "stream" => e \in ToSet(h) /\ ToSet(heard[r]) \subseteq ToSet(h)
         /\ req[r].kind # "stream" => h = <<>>
<1>1. /\ e \in Events /\ e.what # "added" /\ e.at = Len(req[r].out) /\ e.item = Head(req[r].todo)
  <2>1. Head(req[r].todo) \in Items /\ Len(req[r].out) \in Nat
    BY NextItem
  <2> QED
    BY <2>1, EventTyped
<1>2. CASE req[r].kind = "stream"
  <2>1. heard[r] \in Seq(Events) /\ OpenIn(heard[r]) \subseteq {Len(heard[r])}
    BY ReqFacts DEF StreamOf
  <2>2. heard[r][Len(heard[r])] = Event("added", Len(req[r].out), Head(req[r].todo))
    BY <1>2, ReqFacts DEF StreamOf
  <2>3. heard[r][Len(heard[r])].at = e.at /\ heard[r][Len(heard[r])].item = e.item
    BY <1>1, <2>2 DEF Event
  <2>4. OpenIn(Append(heard[r], e)) = {}
    BY <1>1, <2>1, <2>3, ClosesOne
  <2>5. /\ Append(heard[r], e) \in Seq(Events) /\ e \in ToSet(Append(heard[r], e))
        /\ ToSet(heard[r]) \subseteq ToSet(Append(heard[r], e))
    BY <1>1, <2>1, OpenAppend
  <2>6. heard' = [heard EXCEPT ![r] = Append(heard[r], e)]
    BY <1>2, TellOne
  <2> QED
    BY <1>2, <2>4, <2>5, <2>6
<1>3. CASE req[r].kind # "stream"
  BY <1>3, TellOne, NoneOpen
<1> QED
  BY <1>2, <1>3

LEMMA ExecuteToolStep == ASSUME Inv, NEW r \in Requests, ExecuteTool(r) PROVE Inv'
<1> DEFINE o == Append(req[r].out, Head(req[r].todo))
           t == Tail(req[r].todo)
           p == IF Len(req[r].todo) = 1 THEN "call" ELSE "tool"
           q == [req[r] EXCEPT !.out = o, !.todo = t, !.pc = p]
<1>0. /\ req[r].pc = "run" /\ UNCHANGED <<stored, nextId, answer, audit, faults>> /\ steady
      /\ answer[r] = "none" /\ audit[r] = "accepted" /\ ~ req[r].text
      /\ req[r] \in Records(nextId) /\ req[r].id \notin DOMAIN stored
  BY ReqFacts DEF ExecuteTool, OutcomeOf, Stage
<1>1. CASE r \in gone /\ Fail(r) /\ UNCHANGED heard
  BY <1>0, <1>1, FailsQuietly DEF untold, OneFault
<1>2. CASE Fail(r) /\ Tell(r, <<Event("failed", Len(req[r].out), Head(req[r].todo))>>)
  <2>1. PICK e : e = Event("failed", Len(req[r].out), Head(req[r].todo))
    OBVIOUS
  <2>2. PICK h : h = IF req[r].kind = "stream" THEN Append(heard[r], e) ELSE <<>>
    OBVIOUS
  <2>3. /\ h \in Seq(Events) /\ OpenIn(h) = {} /\ heard' = [heard EXCEPT ![r] = h]
        /\ req[r].kind # "stream" => h = <<>>
    BY <1>0, <1>2, <2>1, <2>2, ToldTheEnd
  <2>4. OneFault /\ UNCHANGED <<stored, nextId, answer, audit>> /\ OpenIn(h) \subseteq {Len(h)}
    BY <1>0, <2>3 DEF OneFault
  <2> QED
    BY <1>0, <1>2, <2>3, <2>4, FailStep
<1>3. CASE /\ Tell(r, <<Event("done", Len(req[r].out), Head(req[r].todo))>>)
           /\ req' = [req EXCEPT ![r] = q]
  <2>1. PICK e : e = Event("done", Len(req[r].out), Head(req[r].todo))
    OBVIOUS
  <2>2. PICK h : h = IF req[r].kind = "stream" THEN Append(heard[r], e) ELSE <<>>
    OBVIOUS
  <2>3. /\ h \in Seq(Events) /\ OpenIn(h) = {} /\ heard' = [heard EXCEPT ![r] = h]
        /\ req[r].kind = "stream" => e \in ToSet(h) /\ ToSet(heard[r]) \subseteq ToSet(h)
        /\ req[r].kind # "stream" => h = <<>>
    BY <1>0, <1>3, <2>1, <2>2, ToldTheEnd
  <2>4. /\ q.pc = p /\ q.out = o /\ q.todo = t /\ q.text = req[r].text
        /\ q.kind = req[r].kind /\ q.keep = req[r].keep /\ q.prev = req[r].prev /\ q.id = req[r].id
    BY <1>0 DEF Records
  <2>5. /\ req[r].out \in Seq(Items) /\ req[r].todo \in Seq(Items) /\ Head(req[r].todo) \in Items
        /\ req[r].todo # <<>>
    BY <1>0, NextItem DEF Records
  <2>6. /\ o \in Seq(Items) /\ Len(o) = Len(req[r].out) + 1 /\ o[Len(req[r].out) + 1] = Head(req[r].todo)
        /\ \A k \in 1 .. Len(req[r].out) : o[k] = req[r].out[k]
        /\ DOMAIN o = 1 .. Len(req[r].out) + 1 /\ DOMAIN req[r].out = 1 .. Len(req[r].out)
        /\ Len(req[r].out) \in Nat
    BY <2>5, AppendProperties, LenProperties
  <2>7. t \in Seq(Items) /\ (p = "tool" => t # <<>>) /\ p \in {"call", "tool"}
    <3>1. t \in Seq(Items) /\ Len(t) = Len(req[r].todo) - 1 /\ Len(req[r].todo) \in Nat
      BY <2>5, HeadTailProperties, LenProperties
    <3>2. Len(<<>>) = 0
      OBVIOUS
    <3> HIDE DEF t
    <3>3. ASSUME t = <<>> PROVE Len(req[r].todo) = 1
      <4>1. Len(t) = 0
        BY <3>2, <3>3
      <4> QED
        BY <3>1, <4>1
    <3> QED
      BY <3>1, <3>3
  <2>8. q \in Records(nextId)
    <3> HIDE DEF o, t, p
    <3> QED
      BY <1>0, <2>6, <2>7 DEF Records, PCs
  <2>9. Leaves(r, q, h, "none", "accepted")
    BY <1>0, <1>3, <2>3, ReqFacts DEF Leaves
  <2> HIDE DEF o, t, p, q
  <2>10. Takes(r, q) /\ Stores(r) /\ OneFault
    BY <1>0, <2>4, <2>7 DEF Takes, Left, Stores, OneFault
  <2>11. Stage(q, DOMAIN stored', nextId')
    BY <1>0, <2>4, <2>7, ReqFacts DEF Stage
  <2>12. OutcomeOf(q, stored', "none", "accepted", r \in gone, faults' + crashes > 0)
    BY <2>4, <2>7 DEF OutcomeOf
  <2>13. ASSUME q.kind = "stream", NEW k \in DOMAIN q.out, q.out[k].type = "function_call_output"
         PROVE  Event("done", k - 1, q.out[k]) \in ToSet(h)
    <3>1. CASE k = Len(req[r].out) + 1
      BY <2>1, <2>3, <2>4, <2>6, <2>13, <3>1
    <3>2. CASE k \in 1 .. Len(req[r].out)
      <4>1. q.out[k] = req[r].out[k] /\ k \in DOMAIN req[r].out
        BY <2>4, <2>6, <3>2
      <4>2. Event("done", k - 1, req[r].out[k]) \in ToSet(heard[r])
        BY <2>4, <2>13, <4>1, ReqFacts DEF StreamOf
      <4> QED
        BY <2>3, <2>4, <2>13, <4>1, <4>2
    <3> QED
      BY <2>4, <2>6, <2>13, <3>1, <3>2
  <2>14. StreamOf(q, h, "none")
    BY <1>0, <2>3, <2>4, <2>7, <2>13 DEF StreamOf
  <2> QED
    BY <1>0, <2>3, <2>8, <2>9, <2>10, <2>11, <2>12, <2>14, StepKeeps DEF AnswerStatus, AuditStatus
<1>4. CASE /\ Tell(r, <<Event("done", Len(req[r].out), Head(req[r].todo))>>)
           /\ req' = [req EXCEPT ![r].out = Append(@, Head(req[r].todo)), ![r].todo = Tail(@),
                                  ![r].pc = p]
  <2>1. req' = [req EXCEPT ![r] = q]
    BY <1>0, <1>4 DEF Inv, RequestInv, Records
  <2> QED
    BY <1>3, <1>4, <2>1
<1> QED
  BY <1>0, <1>1, <1>2, <1>4 DEF ExecuteTool, Place

LEMMA AppendTwo ==
  ASSUME NEW S, NEW s \in Seq(S), NEW x \in S, NEW y \in S
  PROVE  s \o (<<x>> \o <<y>>) = Append(Append(s, x), y)
OBVIOUS

(* The text of an answer is told to its end, whether it was begun or not. *)
LEMMA TextTold ==
  ASSUME Inv, NEW r \in Requests, req[r].pc = "call", NEW text \in BOOLEAN, req[r].text => text,
         Tell(r, TextDone(r, text))
  PROVE  \E h \in Seq(Events) :
           /\ heard' = [heard EXCEPT ![r] = h] /\ OpenIn(h) = {} /\ ToSet(heard[r]) \subseteq ToSet(h)
           /\ req[r].kind # "stream" => h = <<>>
<1>0. /\ heard[r] \in Seq(Events) /\ heard = [heard EXCEPT ![r] = heard[r]]
      /\ ~ req[r].text => OpenIn(heard[r]) = {}
      /\ OpenIn(heard[r]) \subseteq {Len(heard[r])}
      /\ req[r].kind # "stream" => heard[r] = <<>>
  BY ReqFacts DEF StreamOf
<1>1. CASE req[r].kind # "stream"
  <2>1. heard' = heard
    BY <1>1 DEF Tell, Streams
  <2> QED
    BY <1>0, <1>1, <2>1, NoneOpen
<1>2. CASE req[r].kind = "stream" /\ ~ text
  <2>1. heard[r] \o <<>> = heard[r]
    BY <1>0
  <2>2. heard' = [heard EXCEPT ![r] = heard[r]]
    BY <1>2, <2>1 DEF Tell, Streams, TextDone, Inv, RestOK
  <2> QED
    BY <1>0, <1>2, <2>2
<1>3. CASE req[r].kind = "stream" /\ text
  <2>1. PICK a : a = Event("added", Len(req[r].out), Message(r))
    OBVIOUS
  <2>2. PICK e : e = Event("done", Len(req[r].out), Message(r))
    OBVIOUS
  <2>3. /\ a \in Events /\ a.what = "added" /\ e \in Events /\ e.what # "added"
        /\ a.at = e.at /\ a.item = e.item
    <3>1. Message(r) \in Items /\ Len(req[r].out) \in Nat
      BY NextItem
    <3> QED
      BY <2>1, <2>2, <3>1, EventTyped
  <2>4. CASE req[r].text
    <3>1. heard[r][Len(heard[r])] = a
      BY <1>3, <2>1, <2>4, ReqFacts, NextItem DEF StreamOf
    <3>2. OpenIn(Append(heard[r], e)) = {}
      BY <1>0, <2>3, <3>1, ClosesOne
    <3>3. Append(heard[r], e) \in Seq(Events) /\ ToSet(heard[r]) \subseteq ToSet(Append(heard[r], e))
      BY <1>0, <2>3, OpenAppend
    <3>4. TextDone(r, text) = <<e>>
      BY <1>3, <2>2, <2>4 DEF TextDone
    <3>5. heard[r] \o <<e>> = Append(heard[r], e)
      BY <1>0
    <3>6. heard' = [heard EXCEPT ![r] = Append(heard[r], e)]
      BY <1>3, <3>4, <3>5 DEF Tell, Streams, Inv, RestOK
    <3> QED
      BY <1>3, <3>2, <3>3, <3>6
  <2>5. CASE ~ req[r].text
    <3>1. PICK g : g = Append(heard[r], a)
      OBVIOUS
    <3>2. g \in Seq(Events) /\ g[Len(g)] = a /\ ToSet(heard[r]) \subseteq ToSet(g)
      BY <1>0, <2>3, <3>1, OpenAppend
    <3>3. OpenIn(g) \subseteq {Len(g)}
      BY <1>0, <2>3, <2>5, <3>1, OpensOne
    <3>4. OpenIn(Append(g, e)) = {}
      BY <2>3, <3>2, <3>3, ClosesOne
    <3>5. Append(g, e) \in Seq(Events) /\ ToSet(g) \subseteq ToSet(Append(g, e))
      BY <2>3, <3>2, OpenAppend
    <3>6. TextDone(r, text) = <<a>> \o <<e>>
      BY <1>3, <2>1, <2>2, <2>5 DEF TextDone
    <3>7. heard[r] \o (<<a>> \o <<e>>) = Append(g, e)
      BY <1>0, <2>3, <3>1, AppendTwo
    <3>8. heard' = [heard EXCEPT ![r] = Append(g, e)]
      BY <1>3, <3>6, <3>7 DEF Tell, Streams, Inv, RestOK
    <3> QED
      BY <1>3, <3>2, <3>4, <3>5, <3>8
  <2> QED
    BY <2>4, <2>5
<1> QED
  BY <1>1, <1>2, <1>3

LEMMA ItemSeq ==
  ASSUME NEW n \in 0 .. MaxCalls, NEW type \in Types, NEW round \in 0 .. MaxToolIterations,
         NEW s, s = [k \in 1 .. n |-> Item(type, round, k)]
  PROVE  /\ s \in Seq(Items) /\ Len(s) = n /\ \A k \in 1 .. n : s[k].type = type
<1>1. \A k \in 1 .. n : s[k] \in Items /\ s[k].type = type
  BY DEF Item, Items
<1>2. n \in Nat /\ DOMAIN s = 1 .. n
  OBVIOUS
<1>3. s \in [1 .. n -> Items]
  BY <1>1, <1>2
<1>4. s \in Seq(Items)
  BY <1>2, <1>3
<1> QED
  BY <1>1, <1>2, <1>4, LenProperties

(* What is appended to the output when the model is done asks for no       *)
(* event: there is no output of a tool in it.                              *)
LEMMA NoNewOutputs ==
  ASSUME NEW s \in Seq(Items), NEW c \in Seq(Items), NEW m \in Seq(Items),
         \A k \in 1 .. Len(c) : c[k].type = "function_call",
         \A k \in 1 .. Len(m) : m[k].type = "message"
  PROVE  LET o == s \o c \o m IN
         /\ o \in Seq(Items)
         /\ \A k \in DOMAIN o : o[k].type = "function_call_output" =>
              k \in DOMAIN s /\ o[k] = s[k]
<1> DEFINE o == s \o c \o m
<1>1. PICK b : b = s \o c
  OBVIOUS
<1>2. Len(s) \in Nat /\ Len(c) \in Nat /\ Len(m) \in Nat /\ DOMAIN s = 1 .. Len(s)
  BY LenProperties
<1>3. /\ b \in Seq(Items) /\ Len(b) = Len(s) + Len(c)
      /\ \A k \in 1 .. Len(s) + Len(c) : b[k] = IF k <= Len(s) THEN s[k] ELSE c[k - Len(s)]
  BY <1>1, ConcatProperties
<1>4. /\ o \in Seq(Items) /\ Len(o) = Len(b) + Len(m)
      /\ \A k \in 1 .. Len(b) + Len(m) : o[k] = IF k <= Len(b) THEN b[k] ELSE m[k - Len(b)]
  BY <1>1, <1>3, ConcatProperties
<1> HIDE DEF o
<1>5. DOMAIN o = 1 .. Len(s) + Len(c) + Len(m)
  BY <1>2, <1>3, <1>4, LenProperties
<1>6. ASSUME NEW k \in DOMAIN o, o[k].type = "function_call_output"
      PROVE  k \in DOMAIN s /\ o[k] = s[k]
  <2>1. CASE k <= Len(s)
    BY <1>2, <1>3, <1>4, <1>5, <2>1
  <2>2. CASE k > Len(s) /\ k <= Len(s) + Len(c)
    <3>1. k - Len(s) \in 1 .. Len(c) /\ o[k] = c[k - Len(s)]
      BY <1>2, <1>3, <1>4, <1>5, <2>2
    <3> QED
      BY <1>6, <3>1
  <2>3. CASE k > Len(s) + Len(c)
    <3>1. k - Len(b) \in 1 .. Len(m) /\ o[k] = m[k - Len(b)]
      BY <1>2, <1>3, <1>4, <1>5, <2>3
    <3> QED
      BY <1>6, <3>1
  <2> QED
    BY <1>2, <1>5, <2>1, <2>2, <2>3
<1> QED
  BY <1>4, <1>6 DEF o

(* The model is done: its answer ends the response. *)
LEMMA EndStep ==
  ASSUME Inv, NEW r \in Requests, req[r].pc = "call", NEW o \in Seq(Items), NEW h \in Seq(Events),
         req' = [req EXCEPT ![r] = [req[r] EXCEPT !.out = o, !.pc = AfterOutput(req[r])]],
         heard' = [heard EXCEPT ![r] = h], OpenIn(h) = {}, ToSet(heard[r]) \subseteq ToSet(h),
         req[r].kind # "stream" => h = <<>>,
         \A k \in DOMAIN o : o[k].type = "function_call_output" =>
              k \in DOMAIN req[r].out /\ o[k] = req[r].out[k],
         UNCHANGED <<stored, nextId, answer, audit, faults>>, steady
  PROVE  Inv'
<1> DEFINE p == AfterOutput(req[r])
           q == [req[r] EXCEPT !.out = o, !.pc = p]
<1>0. /\ answer[r] = "none" /\ audit[r] = "accepted"
      /\ req[r] \in Records(nextId) /\ req[r].id \notin DOMAIN stored
  BY ReqFacts DEF OutcomeOf, Stage
<1>1. p \in {"put", "complete", "record"}
  BY DEF AfterOutput
<1>2. /\ q \in Records(nextId) /\ q.pc = p /\ q.out = o /\ q.text = req[r].text
      /\ q.kind = req[r].kind /\ q.keep = req[r].keep /\ q.prev = req[r].prev /\ q.id = req[r].id
  <2> HIDE DEF p
  <2> QED
    BY <1>0, <1>1 DEF Records, PCs
<1>3. Leaves(r, q, h, "none", "accepted")
  BY <1>0, ReqFacts DEF Leaves
<1>4. (p = "complete" => q.kind = "stream") /\ (p = "record" => q.kind # "stream" /\ ~ q.keep)
      /\ (p # "put" => ~ q.keep)
  BY <1>2 DEF AfterOutput
<1> HIDE DEF p, q
<1>5. Takes(r, q) /\ Stores(r) /\ OneFault
  BY <1>0, <1>1, <1>2 DEF Takes, Left, Stores, OneFault
<1>6. Stage(q, DOMAIN stored', nextId')
  BY <1>0, <1>1, <1>2, <1>4, ReqFacts DEF Stage
<1>7. OutcomeOf(q, stored', "none", "accepted", r \in gone, faults' + crashes > 0)
  BY <1>1, <1>2, <1>4 DEF OutcomeOf
<1>8. ASSUME q.kind = "stream", NEW k \in DOMAIN q.out, q.out[k].type = "function_call_output"
      PROVE  Event("done", k - 1, q.out[k]) \in ToSet(h)
  <2>1. q.out[k] = req[r].out[k] /\ k \in DOMAIN req[r].out
    BY <1>2, <1>8
  <2>2. Event("done", k - 1, req[r].out[k]) \in ToSet(heard[r])
    BY <1>2, <1>8, <2>1, ReqFacts DEF StreamOf
  <2> QED
    BY <2>1, <2>2
<1>9. StreamOf(q, h, "none")
  BY <1>1, <1>2, <1>8 DEF StreamOf
<1> QED
  BY <1>0, <1>2, <1>3, <1>5, <1>6, <1>7, <1>9, StepKeeps DEF AnswerStatus, AuditStatus

(* The tools the model asked for are to be executed. *)
LEMMA ToolsStep ==
  ASSUME Inv, NEW r \in Requests, req[r].pc = "call", NEW t \in Seq(Items), t # <<>>,
         NEW h \in Seq(Events), RoundsLeft(r),
         req' = [req EXCEPT ![r] = [req[r] EXCEPT !.pc = "tool", !.round = req[r].round + 1,
                                                  !.text = FALSE, !.todo = t]],
         heard' = [heard EXCEPT ![r] = h], OpenIn(h) = {}, ToSet(heard[r]) \subseteq ToSet(h),
         req[r].kind # "stream" => h = <<>>,
         UNCHANGED <<stored, nextId, answer, audit, faults>>, steady
  PROVE  Inv'
<1> DEFINE q == [req[r] EXCEPT !.pc = "tool", !.round = req[r].round + 1, !.text = FALSE, !.todo = t]
<1>0. /\ answer[r] = "none" /\ audit[r] = "accepted"
      /\ req[r] \in Records(nextId)
  BY ReqFacts DEF OutcomeOf
<1>1. req[r].round + 1 \in 0 .. MaxToolIterations
  BY <1>0 DEF Records, RoundsLeft
<1>2. /\ q \in Records(nextId) /\ q.pc = "tool" /\ ~ q.text /\ q.todo = t /\ q.out = req[r].out
      /\ q.kind = req[r].kind /\ q.keep = req[r].keep /\ q.prev = req[r].prev /\ q.id = req[r].id
  BY <1>0, <1>1 DEF Records, PCs
<1>3. Leaves(r, q, h, "none", "accepted")
  BY <1>0, ReqFacts DEF Leaves
<1> HIDE DEF q
<1>4. Takes(r, q) /\ Stores(r) /\ OneFault
  BY <1>0, <1>2 DEF Takes, Left, Stores, OneFault
<1>5. Stage(q, DOMAIN stored', nextId')
  BY <1>0, <1>2, ReqFacts DEF Stage
<1>6. OutcomeOf(q, stored', "none", "accepted", r \in gone, faults' + crashes > 0)
  BY <1>2 DEF OutcomeOf
<1>7. StreamOf(q, h, "none")
  BY <1>2, ReqFacts DEF StreamOf
<1> QED
  BY <1>0, <1>2, <1>3, <1>4, <1>5, <1>6, <1>7, StepKeeps DEF AnswerStatus, AuditStatus

LEMMA CallModelStep ==
  ASSUME Inv, NEW r \in Requests, NEW n \in 0 .. req[r].calls,
         NEW whose \in {"nobody", "client", "server", "unready"}, NEW text \in BOOLEAN,
         CallModel(r, n, whose, text)
  PROVE  Inv'
<1>0. /\ req[r].pc = "call" /\ (req[r].text => text)
      /\ (n = 0) = (whose = "nobody")
      /\ UNCHANGED <<stored, nextId, answer, audit, faults>> /\ steady
      /\ req[r] \in Records(nextId) /\ req[r].id \notin DOMAIN stored
  BY ReqFacts DEF CallModel, Stage
<1> DEFINE c == [k \in 1 .. n |-> Item("function_call", req[r].round, k)]
           m == IF text THEN <<Message(r)>> ELSE <<>>
           t == [k \in 1 .. n |-> Item("function_call_output", req[r].round, k)]
           Ends == req' = [req EXCEPT ![r].out = @ \o c \o m, ![r].pc = AfterOutput(req[r])]
           Tools == req' = [req EXCEPT ![r].pc = "tool", ![r].round = @ + 1, ![r].text = FALSE,
                                       ![r].todo = t]
<1>1. CASE r \in gone /\ Fail(r) /\ UNCHANGED heard
  BY <1>0, <1>1, FailsQuietly DEF untold, OneFault
<1>2. CASE Tell(r, TextDone(r, text)) /\ (Fail(r) \/ Ends \/ (whose = "server" /\ RoundsLeft(r) /\ Tools))
  <2>1. PICK h \in Seq(Events) :
           /\ heard' = [heard EXCEPT ![r] = h] /\ OpenIn(h) = {} /\ ToSet(heard[r]) \subseteq ToSet(h)
           /\ req[r].kind # "stream" => h = <<>>
    BY <1>0, <1>2, TextTold
  <2>2. n \in 0 .. MaxCalls /\ req[r].round \in 0 .. MaxToolIterations /\ req[r].out \in Seq(Items)
        /\ n \in Nat
    BY <1>0 DEF Records
  <2>3. CASE Fail(r)
    <3>1. OneFault /\ UNCHANGED <<stored, nextId, answer, audit>> /\ OpenIn(h) \subseteq {Len(h)}
      BY <1>0, <2>1 DEF OneFault
    <3> QED
      BY <1>0, <2>1, <2>3, <3>1, FailStep
  <2>4. CASE Ends
    <3>1. c \in Seq(Items) /\ \A k \in 1 .. Len(c) : c[k].type = "function_call"
      BY <2>2, <2>4, ItemSeq DEF Types
    <3>2. m \in Seq(Items) /\ \A k \in 1 .. Len(m) : m[k].type = "message"
      <4>1. Message(r) \in Items /\ Message(r).type = "message"
        BY NextItem DEF Item
      <4> QED
        BY <2>4, <4>1
    <3> DEFINE o == req[r].out \o c \o m
    <3> HIDE DEF c, m
    <3>4. /\ o \in Seq(Items)
          /\ \A k \in DOMAIN o : o[k].type = "function_call_output" =>
              k \in DOMAIN req[r].out /\ o[k] = req[r].out[k]
      BY <2>2, <3>1, <3>2, NoNewOutputs
    <3>5. req' = [req EXCEPT ![r] = [req[r] EXCEPT !.out = o, !.pc = AfterOutput(req[r])]]
      BY <1>0, <2>4 DEF Inv, RequestInv, Records
    <3> HIDE DEF o
    <3> QED
      BY <1>0, <2>1, <3>4, <3>5, EndStep
  <2>5. CASE whose = "server" /\ RoundsLeft(r) /\ Tools
    <3>1. t \in Seq(Items) /\ Len(t) = n
      BY <2>2, <2>5, ItemSeq DEF Types
    <3> HIDE DEF t
    <3>2. t # <<>>
      BY <1>0, <2>5, <3>1
    <3>3. req' = [req EXCEPT ![r] = [req[r] EXCEPT !.pc = "tool", !.round = req[r].round + 1,
                                                   !.text = FALSE, !.todo = t]]
      BY <1>0, <2>5 DEF Inv, RequestInv, Records
    <3> QED
      BY <1>0, <2>1, <2>5, <3>1, <3>2, <3>3, ToolsStep
  <2> QED
    BY <1>2, <2>3, <2>4, <2>5
<1> QED
  BY <1>1, <1>2 DEF CallModel

-----------------------------------------------------------------------------
(* A client leaves, or the process is killed. *)

LEMMA LeaveStep == ASSUME Inv, NEW r \in Requests, Leave(r) PROVE Inv'
<1>1. UNCHANGED <<stored, nextId, req, heard, answer, audit, faults, crashes>> /\ gone' = gone \cup {r}
  BY DEF Leave, untold
<1>2. StoreInv' /\ RequestInv'
  <2>1. Ancestry' = Ancestry /\ ToTake' = ToTake
    BY <1>1 DEF Ancestry, ToTake, Left
  <2> QED
    BY <1>1, <2>1 DEF Inv, StoreInv, RequestInv, Linked, LastId, Nodes, Records
<1>3. RestOK'
  BY <1>1 DEF Inv, RestOK
<1>4. ASSUME NEW s \in Requests PROVE Outcome(s)' /\ Stream(s)'
  <2>1. OutcomeOf(req[s], stored, answer[s], audit[s], s \in gone, faults + crashes > 0)
    BY DEF Inv, Outcome
  <2>2. OutcomeOf(req[s], stored, answer[s], audit[s], s \in gone', faults + crashes > 0)
    BY <1>1, <2>1 DEF OutcomeOf
  <2> QED
    BY <1>1, <2>2 DEF Inv, Outcome, Stream
<1> QED
  BY <1>2, <1>3, <1>4 DEF Inv

LEMMA CrashStep == ASSUME Inv, Crash PROVE Inv'
<1>1. /\ UNCHANGED <<stored, nextId, answer, audit, gone, faults>> /\ crashes' = crashes + 1
      /\ Mishaps < MaxMishaps
      /\ req' = [r \in Requests |-> IF req[r].pc = "idle" THEN Unasked ELSE Returned]
      /\ heard' = [r \in Requests |-> <<>>]
  BY DEF Crash
<1>2. nextId \in Nat /\ nextId > 0
  BY NextIdBound DEF Inv
<1>3. /\ Unasked.pc = "idle" /\ Unasked.id = 0 /\ Unasked.prev = 0 /\ Unasked.out = <<>>
      /\ ~ Unasked.text /\ ~ Unasked.keep /\ Unasked.kind = "create"
      /\ Returned.pc = "ended" /\ Returned.id = 0 /\ Returned.prev = 0 /\ Returned.out = <<>>
      /\ ~ Returned.text /\ ~ Returned.keep /\ Returned.kind = "create"
  BY DEF Unasked, Returned
<1>4. StoreInv'
  <2>1. ToTake' \subseteq ToTake
    <3>1. \A s \in Requests : Left(req'[s]) <= Left(req[s])
      BY <1>1, <1>3, LeftIs DEF Left
    <3>2. \A x : x \in ToTake' <=> \E s \in Requests : \E n \in 1 .. Left(req'[s]) : x = <<s, n>>
      BY DEF ToTake, Left
    <3> SUFFICES ASSUME NEW s \in Requests, NEW n \in 1 .. Left(req'[s]) PROVE <<s, n>> \in ToTake
      BY <3>2
    <3>3. Left(req'[s]) \in Nat /\ Left(req[s]) \in Nat
      BY LeftIs
    <3>4. n \in 1 .. Left(req[s])
      BY <3>1, <3>3
    <3> QED
      BY <3>4, MembersToTake
  <2>2. /\ Cardinality(ToTake') <= Cardinality(ToTake)
        /\ Cardinality(ToTake') \in Nat /\ Cardinality(ToTake) \in Nat
    BY <2>1, ToTakeFinite, FS_Subset, FS_CardinalityType
  <2>3. Ancestry' = Ancestry
    BY <1>1 DEF Ancestry
  <2>4. nextId' + Cardinality(ToTake') <= LastId + 1
    BY <1>1, <1>2, <2>2, IdsAre DEF Inv, StoreInv
  <2> QED
    BY <1>1, <2>3, <2>4 DEF Inv, StoreInv, Linked, LastId, Nodes
<1>5. RequestInv'
  <2>1. req' \in [Requests -> Records(nextId')]
    BY <1>1, <1>2, UnaskedTyped
  <2>2. \A s \in Requests : Stage(req'[s], DOMAIN stored', nextId') /\ req'[s].id = 0
    BY <1>1, <1>2, <1>3 DEF Stage
  <2> QED
    BY <2>1, <2>2 DEF RequestInv, Records
<1>6. /\ faults \in Nat /\ crashes \in Nat /\ crashes' \in 0 .. MaxMishaps /\ faults' + crashes' > 0
  BY <1>1, GoneFinite DEF Inv, RestOK, Mishaps
<1>7. RestOK'
  <2>1. <<>> \in Seq(Events)
    OBVIOUS
  <2> QED
    BY <1>1, <1>6, <2>1 DEF Inv, RestOK
<1>8. ASSUME NEW s \in Requests PROVE Outcome(s)' /\ Stream(s)'
  <2>1. OutcomeOf(req[s], stored, answer[s], audit[s], s \in gone, faults + crashes > 0)
        /\ answer[s] \in AnswerStatus /\ audit[s] \in AuditStatus
    BY DEF Inv, Outcome, RestOK
  <2>2. PICK q : q = IF req[s].pc = "idle" THEN Unasked ELSE Returned
    OBVIOUS
  <2>3. OutcomeOf(q, stored, answer[s], audit[s], s \in gone, TRUE)
    <3>1. CASE req[s].pc = "idle"
      BY <1>3, <2>1, <2>2, <3>1 DEF OutcomeOf
    <3>2. CASE req[s].pc # "idle"
      <4>1. q.pc = "ended"
        BY <1>3, <2>2, <3>2
      <4>2. \/ answer[s] # "failed" /\ audit[s] \in {"accepted", "completed"}
            \/ answer[s] # "completed" /\ audit[s] \in {"accepted", "failed", "cancelled"}
        <5>1. req[s].pc \in PCs
          BY ReqFacts DEF Records
        <5> QED
          BY <2>1, <3>2, <5>1 DEF OutcomeOf, PCs
      <4> QED
        BY <4>1, <4>2 DEF OutcomeOf
    <3> QED
      BY <3>1, <3>2
  <2>4. req'[s] = q /\ heard'[s] = <<>>
    BY <1>1, <2>2
  <2>5. StreamOf(q, <<>>, answer[s])
    BY <1>3, <2>2, NoneOpen DEF StreamOf
  <2>6. Outcome(s)'
    <3>1. OutcomeOf(q, stored, answer[s], audit[s], s \in gone, faults' + crashes' > 0)
      BY <1>6, <2>3 DEF OutcomeOf
    <3> QED
      BY <1>1, <2>4, <3>1 DEF Outcome
  <2> QED
    BY <1>1, <2>4, <2>5, <2>6 DEF Stream
<1> QED
  BY <1>4, <1>5, <1>7, <1>8 DEF Inv

-----------------------------------------------------------------------------
(* The invariant is one, and the properties follow from it. *)

LEMMA InitInv == Init => Inv
<1> SUFFICES ASSUME Init PROVE Inv
  OBVIOUS
<1> DEFINE first == <<Item("message", 0, 0)>>
<1>1. /\ DOMAIN stored = 1 .. Earlier
      /\ \A i \in 1 .. Earlier : stored[i] = Node(i - 1, first, FALSE, {i}, 1 .. i - 1)
      /\ nextId = Earlier + 1
      /\ req = [r \in Requests |-> Unasked]
      /\ heard = [r \in Requests |-> <<>>]
      /\ answer = [r \in Requests |-> "none"] /\ audit = [r \in Requests |-> "none"]
      /\ gone = {} /\ faults = 0 /\ crashes = 0
  BY DEF Init
<1>2. /\ Unasked.pc = "idle" /\ Unasked.id = 0 /\ Unasked.prev = 0 /\ Unasked.out = <<>>
      /\ ~ Unasked.text /\ ~ Unasked.keep /\ Unasked.kind = "create"
  BY DEF Unasked
<1>3. first \in Seq(Items)
  <2>1. Item("message", 0, 0) \in Items
    BY DEF Item, Items, Types
  <2> QED
    BY <2>1
<1> HIDE DEF first
<1>4. \A i \in 1 .. Earlier :
        /\ stored[i].prev = i - 1 /\ ~ stored[i].cut /\ stored[i].cut \in BOOLEAN
        /\ stored[i].covers = {i} /\ stored[i].knew = 1 .. i - 1 /\ stored[i].items = first
  <2> SUFFICES ASSUME NEW i \in 1 .. Earlier
               PROVE  /\ stored[i].prev = i - 1 /\ ~ stored[i].cut /\ stored[i].cut \in BOOLEAN
                      /\ stored[i].covers = {i} /\ stored[i].knew = 1 .. i - 1 /\ stored[i].items = first
    OBVIOUS
  <2>1. stored[i] = Node(i - 1, first, FALSE, {i}, 1 .. i - 1)
    BY <1>1
  <2> QED
    BY <2>1 DEF Node
<1>5. Ordered
  BY <1>1, <1>4, IdsAre DEF Ordered
<1>6. \A j \in 0 .. Earlier : Ancestry[j] = 1 .. j
  <2> DEFINE T == {j \in 0 .. Earlier : Ancestry[j] = 1 .. j}
  <2>1. ASSUME NEW j \in 0 .. Earlier, \A k \in 0 .. j - 1 : k \in T PROVE j \in T
    <3>1. Ancestry[j] = IF j \notin DOMAIN stored THEN {}
                        ELSE Ancestry[stored[j].prev] \cup (IF stored[j].cut THEN {} ELSE {j})
      <4>1. j \in Ids \cup {0}
        BY IdsAre
      <4> QED
        BY <1>5, <4>1, AncestryDefined DEF AncestryEquation
    <3>2. CASE j = 0
      BY <1>1, <3>1, <3>2
    <3>3. CASE j # 0
      <4>1. j \in 1 .. Earlier /\ j - 1 \in T
        BY <2>1, <3>3
      <4>2. Ancestry[j] = (1 .. j - 1) \cup {j}
        BY <1>1, <1>4, <3>1, <4>1
      <4>3. (1 .. j - 1) \cup {j} = 1 .. j
        BY <4>1
      <4> QED
        BY <4>2, <4>3
    <3> QED
      BY <3>2, <3>3
  <2>2. 0 .. Earlier \subseteq T
    <3> HIDE DEF T
    <3> QED
      BY <2>1, Induction
  <2> QED
    BY <2>2
<1>7. StoreInv
  <2>1. nextId + Cardinality(ToTake) <= LastId + 1
    <3>1. PICK one \in Int, two \in Int : one = 1 /\ two = 2
      OBVIOUS
    <3>2. IsFiniteSet(one .. two) /\ Cardinality(one .. two) = 2
      <4>1. IsFiniteSet(one .. two) /\ Cardinality(one .. two) = IF one > two THEN 0 ELSE two - one + 1
        BY FS_Interval
      <4> QED
        BY <3>1, <4>1
    <3>3. /\ IsFiniteSet(Requests \X (one .. two))
          /\ Cardinality(Requests \X (one .. two)) = Cardinality(Requests) * 2
      BY <3>2, FS_Product
    <3>4. ToTake \subseteq Requests \X (one .. two)
      BY <3>1, LeftIs DEF ToTake
    <3>5. Cardinality(ToTake) <= Cardinality(Requests) * 2 /\ Cardinality(ToTake) \in Nat
      BY <3>3, <3>4, FS_Subset, FS_CardinalityType
    <3>6. Cardinality(Requests) \in Nat
      BY FS_CardinalityType
    <3> QED
      BY <1>1, <3>5, <3>6 DEF LastId
  <2>2. \A i \in DOMAIN stored : stored[i] \in Nodes(i)
    <3> SUFFICES ASSUME NEW i \in 1 .. Earlier PROVE stored[i] \in Nodes(i)
      BY <1>1
    <3>1. {i} \in SUBSET Ids /\ 1 .. i - 1 \in SUBSET Ids /\ i - 1 \in 0 .. i - 1
      BY IdsAre
    <3>2. stored[i] = Node(i - 1, first, FALSE, {i}, 1 .. i - 1)
      BY <1>1
    <3> QED
      BY <1>3, <3>1, <3>2 DEF Node, Nodes
  <2>3. Linked
    <3> SUFFICES ASSUME NEW i \in 1 .. Earlier
                 PROVE  /\ stored[i].prev \in DOMAIN stored \cup {0}
                        /\ stored[i].covers = IF stored[i].cut THEN Ancestry[stored[i].prev] ELSE {i}
                        /\ stored[i].knew = Ancestry[stored[i].prev]
      BY <1>1 DEF Linked
    <3>1. i - 1 \in 0 .. Earlier /\ i - 1 \in DOMAIN stored \cup {0}
      BY <1>1
    <3>2. Ancestry[i - 1] = 1 .. i - 1
      BY <1>6, <3>1
    <3> QED
      BY <1>4, <3>1, <3>2
  <2> QED
    BY <1>1, <2>1, <2>2, <2>3 DEF StoreInv
<1>8. RequestInv
  <2>1. nextId \in Nat /\ nextId > 0
    BY <1>1
  <2> QED
    BY <1>1, <1>2, <2>1, UnaskedTyped DEF RequestInv, Stage, Records
<1>9. RestOK
  BY <1>1 DEF RestOK, AnswerStatus, AuditStatus
<1>10. \A r \in Requests : Outcome(r) /\ Stream(r)
  BY <1>1, <1>2, NoneOpen DEF Outcome, OutcomeOf, Stream, StreamOf
<1> QED
  BY <1>7, <1>8, <1>9, <1>10 DEF Inv

LEMMA NextInv == Inv /\ [Next]_vars => Inv'
<1> SUFFICES ASSUME Inv, [Next]_vars PROVE Inv'
  OBVIOUS
<1>1. ASSUME NEW r \in Requests, Serve(r) PROVE Inv'
  BY <1>1, LoadHistoryStep, SummarizeStep, ModelFailsStep, PutSummaryStep, ReloadStep,
     StreamTextStep, CallModelStep, StartToolStep, ExecuteToolStep, PutStep, CompleteStep,
     RecordStep, AnswerStep, RefuseStep, ReturnStep DEF Serve
<1>2. CASE UNCHANGED vars
  <2>1. Ancestry' = Ancestry /\ ToTake' = ToTake
    BY <1>2 DEF vars, Ancestry, ToTake, Left
  <2>2. StoreInv' /\ RequestInv' /\ RestOK'
    BY <1>2, <2>1 DEF vars, Inv, StoreInv, RequestInv, RestOK, Linked, LastId, Nodes, Records
  <2> QED
    BY <1>2, <2>2 DEF vars, Inv, Outcome, Stream
<1> QED
  BY <1>1, <1>2, ArriveStep, LeaveStep, CrashStep DEF Next

LEMMA Invariance == Spec => []Inv
BY InitInv, NextInv, PTL DEF Spec

(* Identifiers never run out, no record, row or event leaves its type, and *)
(* a response always continues one that is older.                          *)
THEOREM ResponsesTypes == Spec => []TypeOK
<1>1. Inv => TypeOK
  <2> SUFFICES ASSUME Inv PROVE TypeOK
    OBVIOUS
  <2>1. DOMAIN stored \subseteq Ids
    BY StoreOrders DEF Inv, Ordered
  <2>2. nextId \in Earlier + 1 .. LastId + 1
    BY NextIdBound DEF Inv
  <2> QED
    BY <2>1, <2>2 DEF Inv, StoreInv, RequestInv, RestOK, TypeOK, Nodes, Records, LastId, Events,
                       AnswerStatus, AuditStatus
<1> QED
  BY <1>1, Invariance, PTL

(* Whatever fails, and wherever the client leaves: the client, the audit   *)
(* row and the store agree on what became of a request.                    *)
THEOREM OutcomesAreAgreed == Spec => []OutcomesAgree
<1>1. Inv => OutcomesAgree
  <2> SUFFICES ASSUME Inv, NEW r \in Requests
               PROVE  /\ "completed" \in {answer[r], audit[r]} =>
                           /\ req[r].keep => req[r].id \in DOMAIN stored /\ stored[req[r].id].items = req[r].out
                           /\ answer[r] # "failed" /\ audit[r] \notin {"failed", "cancelled"}
                      /\ "failed" \in {answer[r], audit[r]} /\ req[r].id \in DOMAIN stored => r \in gone
                      /\ req[r].pc = "ended" /\ audit[r] = "accepted" => faults + crashes > 0
    BY DEF OutcomesAgree
  <2>1. OutcomeOf(req[r], stored, answer[r], audit[r], r \in gone, faults + crashes > 0)
    BY ReqFacts
  <2>2. /\ req[r].pc = "ended" => ~ req[r].keep /\ req[r].id = 0
        /\ 0 \notin DOMAIN stored
    BY ReqFacts DEF Stage, Inv, StoreInv
  <2>3. CASE req[r].pc \in {"return", "ended"}
    BY <2>1, <2>2, <2>3 DEF OutcomeOf
  <2>4. CASE req[r].pc \notin {"return", "ended"}
    BY <2>1, <2>4 DEF OutcomeOf
  <2> QED
    BY <2>3, <2>4
<1> QED
  BY <1>1, Invariance, PTL

(* However responses were continued and compacted, also by a process that  *)
(* was killed: the model is given the words of all a response goes back    *)
(* to, and no others.                                                      *)
THEOREM NothingIsForgotten == Spec => []NothingForgotten
<1>1. Inv => NothingForgotten
  <2> SUFFICES ASSUME Inv PROVE NothingForgotten
    OBVIOUS
  <2>1. Ordered /\ Linked
    BY StoreOrders DEF Inv, StoreInv
  <2>2. \A r \in Requests : Words(req[r].prev) = Ancestry[req[r].prev]
    BY <2>1, ReqFacts, WordsComplete
  <2> QED
    BY <2>1, <2>2 DEF NothingForgotten, Linked
<1> QED
  BY <1>1, Invariance, PTL

(* A stream has at most one item open, none when it is completed, and told *)
(* the output of every tool at its place.                                  *)
THEOREM StreamsClose == Spec => []StreamCloses
<1>1. Inv => StreamCloses
  <2> SUFFICES ASSUME Inv, NEW r \in Requests
               PROVE  /\ Cardinality(Open(r)) <= 1
                      /\ Streams(r) /\ answer[r] = "completed" =>
                           /\ Open(r) = {}
                           /\ \A k \in DOMAIN req[r].out : req[r].out[k].type = "function_call_output" =>
                                Event("done", k - 1, req[r].out[k]) \in ToSet(heard[r])
    BY DEF StreamCloses
  <2>1. Open(r) = OpenIn(heard[r])
    BY DEF Open, OpenIn
  <2>2. StreamOf(req[r], heard[r], answer[r])
    BY ReqFacts
  <2>3. Cardinality(Open(r)) <= 1
    <3>1. PICK x : Open(r) \subseteq {x}
      BY <2>1, <2>2 DEF StreamOf
    <3>2. IsFiniteSet({x}) /\ Cardinality({x}) = 1
      BY FS_Singleton
    <3> QED
      BY <3>1, <3>2, FS_Subset, FS_CardinalityType
  <2>4. ASSUME Streams(r), answer[r] = "completed" PROVE Open(r) = {}
    <3>1. req[r].pc \in {"record", "return"}
      BY <2>4, ReqFacts DEF Streams, OutcomeOf, Stage
    <3> QED
      BY <2>1, <2>2, <2>4, <3>1 DEF StreamOf
  <2> QED
    BY <2>2, <2>3, <2>4 DEF Streams, StreamOf
<1> QED
  BY <1>1, Invariance, PTL

-----------------------------------------------------------------------------
(* The store implements the tree: every step that stores a response adds   *)
(* it, whole, under one that is there, and no other step changes the tree. *)

LEMMA StepStores ==
  ASSUME Inv, [Next]_vars
  PROVE  \/ UNCHANGED stored
         \/ \E r \in Requests : \E node : Add(req[r].id, node) /\ NewNode(r, node)
<1>1. ASSUME NEW r \in Requests, Put(r), ~ UNCHANGED stored
      PROVE  \E node : Add(req[r].id, node) /\ NewNode(r, node)
  <2> DEFINE node == Node(req[r].prev, req[r].out, FALSE, {req[r].id}, Words(req[r].prev))
  <2>1. Add(req[r].id, node) /\ req[r].pc = "put"
    BY <1>1 DEF Put, unstored
  <2>2. Words(req[r].prev) \in SUBSET Ids /\ req[r].prev \in Ids \cup {0}
    BY ReqFacts, WordsInIds DEF Inv
  <2>3. req[r].id \in Ids /\ req[r].out \in Seq(Items)
    <3>1. /\ req[r].id \in 1 .. nextId - 1 /\ req[r].out \in Seq(Items) /\ nextId \in Nat
          /\ nextId <= LastId + 1
      BY <2>1, ReqFacts, NextIdBound, IdsAre DEF Inv, Stage, Records
    <3> QED
      BY <3>1, IdsAre
  <2>4. NewNode(r, node)
    BY <2>1, <2>2, <2>3 DEF NewNode, Node
  <2> HIDE DEF node
  <2> QED
    BY <2>1, <2>4
<1>2. ASSUME NEW r \in Requests, PutSummary(r), ~ UNCHANGED stored
      PROVE  \E node : Add(req[r].id, node) /\ NewNode(r, node)
  <2> DEFINE summary == <<Item("summary", 0, 0)>>
             node == Node(req[r].prev, summary, TRUE, Words(req[r].prev), Words(req[r].prev))
  <2>1. Add(req[r].id, node) /\ req[r].pc = "putSummary"
    BY <1>2 DEF PutSummary, unstored
  <2>2. Words(req[r].prev) \in SUBSET Ids /\ req[r].prev \in Ids \cup {0}
    BY ReqFacts, WordsInIds DEF Inv
  <2>3. summary \in Seq(Items)
    <3>1. Item("summary", 0, 0) \in Items
      BY DEF Item, Items, Types
    <3> QED
      BY <3>1
  <2> HIDE DEF summary
  <2>4. NewNode(r, node)
    BY <2>1, <2>2, <2>3 DEF NewNode, Node
  <2> HIDE DEF node
  <2> QED
    BY <2>1, <2>4
<1>3. ASSUME NEW r \in Requests, Serve(r), ~ Put(r), ~ PutSummary(r) PROVE UNCHANGED stored
  BY <1>3 DEF Serve, LoadHistory, Summarize, ModelFails, Reload, StreamText, CallModel, StartTool,
              ExecuteTool, Complete, Record, Answer, Refuse, Return, unstored
<1>4. ASSUME ~ \E r \in Requests : Serve(r) PROVE UNCHANGED stored
  BY <1>4 DEF Next, Arrive, Leave, Crash, vars
<1> QED
  BY <1>1, <1>2, <1>3, <1>4

LEMMA TreeStep ==
  ASSUME Inv, [Next]_vars
  PROVE  [Tree!Next]_StoredTree
<1>1. CASE UNCHANGED stored
  BY <1>1 DEF StoredTree
<1>2. ASSUME NEW r \in Requests, NEW node, Add(req[r].id, node), NewNode(r, node)
      PROVE  Tree!Next
  <2> DEFINE i == req[r].id
  <2>1. /\ i \notin DOMAIN stored /\ i \in 1 .. nextId - 1
        /\ req[r].prev \in DOMAIN stored \cup {0}
    BY <1>2, ReqFacts DEF Stage, NewNode
  <2>2. i \in Ids
    <3>1. nextId <= LastId + 1 /\ nextId \in Nat /\ LastId \in Nat
      BY NextIdBound, IdsAre DEF Inv
    <3> QED
      BY <2>1, <3>1, IdsAre
  <2>3. /\ DOMAIN stored' = DOMAIN stored \cup {i} /\ stored'[i] = node
        /\ \A j \in DOMAIN stored : stored'[j] = stored[j]
    BY <1>2, <2>1, Added, StoreGrows DEF Inv
  <2>4. node.prev = req[r].prev /\ node.items \in Seq(Items)
    BY <1>2 DEF NewNode
  <2> HIDE DEF i
  <2>5. /\ DOMAIN StoredTree = DOMAIN stored /\ DOMAIN StoredTree' = DOMAIN stored'
        /\ \A j \in DOMAIN stored : StoredTree[j] = [prev |-> stored[j].prev, items |-> stored[j].items]
        /\ \A j \in DOMAIN stored' :
             StoredTree'[j] = [prev |-> stored'[j].prev, items |-> stored'[j].items]
    BY DEF StoredTree
  <2>6. \A j \in DOMAIN StoredTree : StoredTree'[j] = StoredTree[j]
    BY <2>3, <2>5
  <2>7. Tree!Node(StoredTree'[i])
    <3>1. StoredTree'[i].prev = req[r].prev /\ StoredTree'[i].items = node.items
      <4>1. StoredTree'[i] = [prev |-> node.prev, items |-> node.items]
        BY <2>3, <2>5
      <4> QED
        BY <2>4, <4>1
    <3> QED
      BY <2>1, <2>4, <2>5, <3>1 DEF Tree!Node
  <2>8. Tree!Add(i)
    BY <2>1, <2>3, <2>5, <2>6, <2>7 DEF Tree!Add
  <2> QED
    BY <2>2, <2>8 DEF Tree!Next
<1> QED
  BY <1>1, <1>2, StepStores

LEMMA TreeInit == Inv => Tree!Init
<1> SUFFICES ASSUME Inv PROVE Tree!Init
  OBVIOUS
<1>1. /\ DOMAIN StoredTree = DOMAIN stored
      /\ \A j \in DOMAIN stored : StoredTree[j] = [prev |-> stored[j].prev, items |-> stored[j].items]
  BY DEF StoredTree
<1>2. DOMAIN stored \subseteq Ids
  BY StoreOrders DEF Inv, Ordered
<1>3. \A j \in DOMAIN stored : stored[j].prev \in DOMAIN stored \cup {0} /\ stored[j].items \in Seq(Items)
  BY DEF Inv, StoreInv, Linked, Nodes
<1> QED
  BY <1>1, <1>2, <1>3 DEF Tree!Init, Tree!Node

(* Whatever the requests do, in whatever order, and wherever the process   *)
(* is killed: the store is the tree that ResponseTree promises.            *)
THEOREM StoreIsATree == Spec => ImplementsTree
<1>1. Init => Tree!Init
  BY InitInv, TreeInit
<1>2. Inv /\ [Next]_vars => [Tree!Next]_StoredTree
  BY TreeStep
<1> QED
  BY <1>1, <1>2, Invariance, PTL DEF Spec, ImplementsTree, Tree!Spec
=============================================================================
