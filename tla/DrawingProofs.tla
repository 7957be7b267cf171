--------------------------- MODULE DrawingProofs ---------------------------
(***************************************************************************)
(* Proofs about Drawing, for any numbers of edits, openings, saves and     *)
(* operations that the history keeps: its types, and that undo and redo    *)
(* bring back what was drawn.                                              *)
(***************************************************************************)
EXTENDS Drawing, NumberLemmas, FiniteSetTheorems, SequenceTheorems

(* Sequences, of whatever elements.                                         *)

IsSeq(s) == \E S : s \in Seq(S)

\* A sequence has a length and the positions up to it; only the empty one has none.
LEMMA SeqShape ==
    ASSUME NEW s, IsSeq(s)
    PROVE  Len(s) \in Nat /\ DOMAIN s = 1 .. Len(s) /\ (s # <<>> <=> Len(s) > 0)
  <1>1. PICK S : s \in Seq(S)
    BY DEF IsSeq
  <1>2. Len(s) \in Nat /\ DOMAIN s = 1 .. Len(s)
    BY <1>1, LenProperties
  <1>3. s # <<>> => Len(s) > 0
    BY <1>1, EmptySeq
  <1>4. s = <<>> => Len(s) = 0
    OBVIOUS
  <1> QED  BY <1>2, <1>3, <1>4

\* The empty history.
LEMMA NoneIsSeq == IsSeq(<<>>) /\ Len(<<>>) = 0
  BY DEF IsSeq

\* An element more at the end.
LEMMA AppendShape ==
    ASSUME NEW s, IsSeq(s), NEW e
    PROVE  /\ IsSeq(Append(s, e)) /\ Len(Append(s, e)) = Len(s) + 1
           /\ \A i \in 1 .. Len(s) : Append(s, e)[i] = s[i]
           /\ Append(s, e)[Len(s) + 1] = e
  <1>1. PICK S : s \in Seq(S)
    BY DEF IsSeq
  <1>2. s \in Seq(S \cup {e}) /\ e \in S \cup {e}
    BY <1>1, SeqMonotonic
  <1> QED  BY <1>2, AppendProperties DEF IsSeq

\* A sequence of one element.
LEMMA OneIsSeq ==
    ASSUME NEW e
    PROVE  IsSeq(<<e>>) /\ Len(<<e>>) = 1 /\ <<e>>[1] = e
  <1>1. <<e>> = Append(<<>>, e)
    OBVIOUS
  <1>2. /\ IsSeq(Append(<<>>, e)) /\ Len(Append(<<>>, e)) = Len(<<>>) + 1
        /\ Append(<<>>, e)[Len(<<>>) + 1] = e
    BY NoneIsSeq, AppendShape
  <1>3. Len(<<>>) + 1 = 1
    BY NoneIsSeq
  <1> QED  BY <1>1, <1>2, <1>3

\* All but the last element.
LEMMA FrontShape ==
    ASSUME NEW s, IsSeq(s), s # <<>>
    PROVE  /\ IsSeq(Front(s)) /\ Len(Front(s)) = Len(s) - 1
           /\ \A i \in 1 .. Len(s) - 1 : Front(s)[i] = s[i]
  <1>1. PICK S : s \in Seq(S)
    BY DEF IsSeq
  <1>2. Len(s) \in Nat /\ Len(s) > 0
    BY SeqShape
  <1>3. \A i \in 1 .. Len(s) - 1 : s[i] \in S
    BY <1>1, <1>2, ElementOfSeq
  <1>4. /\ SubSeq(s, 1, Len(s) - 1) \in Seq(S)
        /\ Len(SubSeq(s, 1, Len(s) - 1)) = IF 1 <= Len(s) - 1 THEN Len(s) - 1 - 1 + 1 ELSE 0
        /\ \A i \in 1 .. Len(s) - 1 - 1 + 1 : SubSeq(s, 1, Len(s) - 1)[i] = s[1 + i - 1]
    BY <1>2, <1>3, SubSeqProperties
  <1>5. Len(SubSeq(s, 1, Len(s) - 1)) = Len(s) - 1
    <2>1. \A n \in Nat : n > 0 => (IF 1 <= n - 1 THEN n - 1 - 1 + 1 ELSE 0) = n - 1
      OBVIOUS
    <2> QED  BY <1>2, <1>4, <2>1
  <1>6. ASSUME NEW i \in 1 .. Len(s) - 1 PROVE SubSeq(s, 1, Len(s) - 1)[i] = s[i]
    <2>1. i \in 1 .. Len(s) - 1 - 1 + 1 /\ 1 + i - 1 = i
      BY <1>2
    <2> QED  BY <1>4, <2>1
  <1> QED  BY <1>4, <1>5, <1>6 DEF IsSeq, Front

\* All but the first element.
LEMMA TailShape ==
    ASSUME NEW s, IsSeq(s), s # <<>>
    PROVE  /\ IsSeq(Tail(s)) /\ Len(Tail(s)) = Len(s) - 1
           /\ \A i \in 1 .. Len(s) - 1 : Tail(s)[i] = s[i + 1]
  <1>1. PICK S : s \in Seq(S)
    BY DEF IsSeq
  <1> QED  BY <1>1, HeadTailProperties DEF IsSeq

\* One sequence after the other.
LEMMA ConcatShape ==
    ASSUME NEW s, IsSeq(s), NEW t, IsSeq(t)
    PROVE  /\ IsSeq(s \o t) /\ Len(s \o t) = Len(s) + Len(t)
           /\ \A i \in 1 .. Len(s) + Len(t) :
                 (s \o t)[i] = IF i <= Len(s) THEN s[i] ELSE t[i - Len(s)]
  <1>1. PICK S : s \in Seq(S)
    BY DEF IsSeq
  <1>2. PICK T : t \in Seq(T)
    BY DEF IsSeq
  <1>3. s \in Seq(S \cup T) /\ t \in Seq(S \cup T)
    BY <1>1, <1>2, SeqMonotonic
  <1> QED  BY <1>3, ConcatProperties DEF IsSeq

-----------------------------------------------------------------------------
(* Numbers.                                                                 *)

\* The first of some positions.
LEMMA FirstPosition ==
    ASSUME NEW I \in SUBSET Nat, I # {}
    PROVE  Min(I) \in I /\ \A m \in I : Min(I) <= m
  <1>1. PICK n \in I : \A m \in Nat : m < n => m \notin I
    BY LeastOne
  <1>2. \A m \in I : n <= m
    BY <1>1
  <1> QED  BY <1>2 DEF Min

\* A finite set of numbers has a greatest one.
LEMMA FiniteNatMax ==
    ASSUME NEW S \in SUBSET Nat, IsFiniteSet(S), S # {}
    PROVE  \E n \in S : \A m \in S : m <= n
  <1> DEFINE Below(n) == {m \in S : m <= n}
             Sizes == {Cardinality(S) - Cardinality(Below(n)) : n \in S}
  <1>1. \A n : IsFiniteSet(Below(n)) /\ Cardinality(Below(n)) \in Nat /\ Cardinality(Below(n)) <= Cardinality(S)
    BY FS_Subset, FS_CardinalityType
  <1>2. Sizes \in SUBSET Nat /\ Sizes # {}
    <2> HIDE DEF Below
    <2>1. Cardinality(S) \in Nat
      BY FS_CardinalityType
    <2>2. \A n \in S : Cardinality(S) - Cardinality(Below(n)) \in Nat
      BY <1>1, <2>1
    <2> QED  BY <2>2
  <1>3. PICK z \in Sizes : \A m \in Nat : m < z => m \notin Sizes
    <2> HIDE DEF Sizes
    <2> QED  BY <1>2, LeastOne
  <1>4. PICK n \in S : z = Cardinality(S) - Cardinality(Below(n))
    BY <1>3
  <1>5. ASSUME NEW m \in S, n < m PROVE FALSE
    <2>1. Below(n) \subseteq Below(m) /\ m \in Below(m) /\ m \notin Below(n)
      <3>1. \A l \in S : l <= n => l <= m
        BY <1>5
      <3>2. m <= m /\ ~(m <= n)
        BY <1>5
      <3> QED  BY <3>1, <3>2
    <2>2. Cardinality(Below(n)) < Cardinality(Below(m))
      <3> HIDE DEF Below
      <3>1. Cardinality(Below(n)) <= Cardinality(Below(m)) /\ Cardinality(Below(n)) # Cardinality(Below(m))
        BY <1>1, <2>1, FS_Subset
      <3>2. Cardinality(Below(n)) \in Nat /\ Cardinality(Below(m)) \in Nat
        BY <1>1
      <3> QED  BY <3>1, <3>2
    <2>3. /\ Cardinality(S) - Cardinality(Below(m)) \in Sizes
          /\ Cardinality(S) - Cardinality(Below(m)) \in Nat
          /\ Cardinality(S) - Cardinality(Below(m)) < z
      <3>1. Cardinality(S) - Cardinality(Below(m)) \in Sizes
        OBVIOUS
      <3> HIDE DEF Below, Sizes
      <3> QED  BY <1>1, <1>4, <2>2, <3>1, FS_CardinalityType
    <2> QED  BY <1>3, <2>3
  <1>6. \A m \in S : m <= n
    BY <1>5
  <1> QED  BY <1>4, <1>6

\* nth finds what it looks for.
LEMMA NthExists ==
    ASSUME NEW S \in SUBSET Nat, IsFiniteSet(S), NEW k \in 1 .. Cardinality(S)
    PROVE  nth(S, k) \in S
  <1> DEFINE Below(n) == {m \in S : m <= n}
             Far == {n \in S : Cardinality(Below(n)) >= k}
  <1>1. \A n : IsFiniteSet(Below(n)) /\ Cardinality(Below(n)) \in Nat
    BY FS_Subset, FS_CardinalityType
  <1>2. Far # {}
    <2>1. S # {}
      BY FS_EmptySet
    <2>2. \E n \in S : \A m \in S : m <= n
      BY <2>1, FiniteNatMax
    <2>3. PICK n \in S : \A m \in S : m <= n
      BY <2>2
    <2>4. Below(n) = S
      BY <2>3
    <2> QED  BY <2>3, <2>4
  <1>3. PICK x \in Far : \A m \in Nat : m < x => m \notin Far
    <2>1. Far \in SUBSET Nat
      OBVIOUS
    <2> HIDE DEF Far
    <2> QED  BY <1>2, <2>1, LeastOne
  <1> DEFINE Less == {m \in S : m < x}
  <1>4. /\ IsFiniteSet(Less) /\ Cardinality(Less) \in Nat
        /\ Cardinality(Below(x)) = Cardinality(Less) + 1
    <2>1. IsFiniteSet(Less) /\ Cardinality(Less) \in Nat
      BY FS_Subset, FS_CardinalityType
    <2>2. Below(x) = Less \cup {x} /\ x \notin Less
      <3>1. \A m \in S : m <= x <=> (m < x \/ m = x)
        OBVIOUS
      <3>2. x \in S /\ ~(x < x)
        OBVIOUS
      <3> QED  BY <3>1, <3>2
    <2> HIDE DEF Less, Below
    <2> QED  BY <2>1, <2>2, FS_AddElement
  <1>5. Cardinality(Less) < k
    <2>1. CASE Less = {}
      BY <2>1, FS_EmptySet
    <2>2. CASE Less # {}
      <3>1. Less \in SUBSET Nat
        OBVIOUS
      <3>2. PICK n \in Less : \A m \in Less : m <= n
        <4> HIDE DEF Less
        <4> QED  BY <1>4, <2>2, <3>1, FiniteNatMax
      <3>3. Below(n) = Less
        <4>1. n < x /\ n \in S
          OBVIOUS
        <4>2. \A m \in S : m <= n => m < x
          BY <4>1
        <4> QED  BY <3>2, <4>2
      <3>4. n \in S /\ n < x /\ n \in Nat
        OBVIOUS
      <3>5. n \notin Far
        <4> HIDE DEF Far
        <4> QED  BY <1>3, <3>4
      <3> QED  BY <1>1, <1>4, <3>3, <3>4, <3>5
    <2> QED  BY <2>1, <2>2
  <1>6. Cardinality(Below(x)) >= k
    BY <1>3
  <1>7. Cardinality(Below(x)) = k
    <2> HIDE DEF Below, Less
    <2> QED  BY <1>4, <1>5, <1>6
  <1> QED  BY <1>3, <1>7 DEF nth

-----------------------------------------------------------------------------
(* Types.                                                                   *)

Layer == [id : Ids, look : Looks]

\* A document with layers, when e edits are still to come, each of which may add one.
Fits(d, e) ==
    /\ d \in [layers : Seq(Layer), activeLayerId : Ids]
    /\ d.layers # <<>>
    /\ Len(d.layers) + e <= MaxEdits + 1

FitsChange(ch, e) ==
    /\ ch.doc = Keep \/ Fits(ch.doc, e)
    /\ DOMAIN ch.arrays \subseteq Ids
    /\ \A id \in DOMAIN ch.arrays : ch.arrays[id] \in Arrays
    /\ DOMAIN ch.copied \subseteq Ids

FitsOp(op, e) == FitsChange(op.undo, e) /\ FitsChange(op.redo, e)

FitsHistory(p, f, e) ==
    /\ IsSeq(p) /\ IsSeq(f)
    /\ \A i \in 1 .. Len(p) : FitsOp(p[i], e)
    /\ \A i \in 1 .. Len(f) : FitsOp(f[i], e)
    /\ Len(p) + Len(f) <= Limit

FitsBuffers(bufs) == DOMAIN bufs \subseteq Ids /\ \A id \in DOMAIN bufs : bufs[id] \in Arrays

\* A document that is kept with the strokes of its layers.
Manifest(m, e) == Fits(m.doc, e) /\ DOMAIN m.strokes = ids(m.doc)

FitsSlot(q, e) ==
    /\ q.pc \in DrawingSteps
    /\ q.pc \in {"autosave_write", "save_doc"} => Manifest(q.drawing, e)
    /\ q.pc = "save_version" => session.open

Counts ==
    /\ edits \in 0 .. MaxEdits
    /\ session \in [open : BOOLEAN, left : 0 .. MaxSessions, saves : 0 .. MaxSaves]
    /\ lastId \in Nat
    /\ lastId + 4 * session.left + edits <= 4 * MaxSessions + MaxEdits

EngineInv ==
    /\ \/ session.open /\ Fits(doc, edits)
       \/ ~session.open /\ doc = NoDoc /\ ~stroke.in /\ ~timer
    /\ FitsBuffers(buffers)
    /\ DOMAIN pixels = Arrays
    /\ FitsHistory(past, future, edits)
    /\ {dirty, timer, aside, stroke.in} \subseteq BOOLEAN

SavedInv ==
    /\ \A m \in {draft, stored} : m = NoManifest \/ Manifest(m, edits)
    /\ DOMAIN slot = Slots
    /\ \A c \in Slots : FitsSlot(slot[c], edits)

DrawingInv == mode \in Modes /\ Counts /\ EngineInv /\ SavedInv

\* What fits when more edits are to come fits when fewer are.
LEMMA FitsLater ==
    ASSUME NEW e \in Nat, NEW f \in Nat, f <= e
    PROVE  /\ \A d : Fits(d, e) => Fits(d, f)
           /\ \A op : FitsOp(op, e) => FitsOp(op, f)
           /\ \A m : Manifest(m, e) => Manifest(m, f)
           /\ \A q : FitsSlot(q, e) => FitsSlot(q, f)
           /\ \A p, q : FitsHistory(p, q, e) => FitsHistory(p, q, f)
  <1>1. ASSUME NEW d, Fits(d, e) PROVE Fits(d, f)
    <2>1. Len(d.layers) \in Nat
      BY <1>1, LenProperties DEF Fits
    <2>2. MaxEdits \in Nat
      BY DrawingAssumption
    <2> QED  BY <1>1, <2>1, <2>2 DEF Fits
  <1>2. \A ch : FitsChange(ch, e) => FitsChange(ch, f)
    BY <1>1 DEF FitsChange
  <1>3. \A op : FitsOp(op, e) => FitsOp(op, f)
    BY <1>2 DEF FitsOp
  <1>4. \A m : Manifest(m, e) => Manifest(m, f)
    BY <1>1 DEF Manifest
  <1>5. \A q : FitsSlot(q, e) => FitsSlot(q, f)
    BY <1>4 DEF FitsSlot
  <1> QED  BY <1>1, <1>3, <1>4, <1>5 DEF FitsHistory

\* The places of the layers of a document, and of an id among them.
LEMMA LayersOf ==
    ASSUME NEW d, NEW e, Fits(d, e)
    PROVE  /\ IsSeq(d.layers) /\ Len(d.layers) \in Nat /\ Len(d.layers) >= 1
           /\ DOMAIN d.layers = 1 .. Len(d.layers)
           /\ \A i \in 1 .. Len(d.layers) : d.layers[i] \in Layer
           /\ ids(d) \subseteq Ids /\ ids(d) # {}
  <1>1. d.layers \in Seq(Layer) /\ d.layers # <<>>
    BY DEF Fits
  <1>2. IsSeq(d.layers)
    BY <1>1 DEF IsSeq
  <1>3. /\ Len(d.layers) \in Nat /\ Len(d.layers) >= 1 /\ DOMAIN d.layers = 1 .. Len(d.layers)
    BY <1>1, <1>2, SeqShape
  <1>4. \A i \in 1 .. Len(d.layers) : d.layers[i] \in Layer
    BY <1>1, ElementOfSeq
  <1>5. \A i \in 1 .. Len(d.layers) : d.layers[i].id \in Ids
    BY <1>4 DEF Layer
  <1>6. 1 \in 1 .. Len(d.layers)
    BY <1>3
  <1> QED  BY <1>2, <1>3, <1>4, <1>5, <1>6 DEF ids

\* index finds the first layer of an id, when there is one.
LEMMA IndexOf ==
    ASSUME NEW e, Fits(doc, e), NEW id
    PROVE  /\ index(id) \in 0 .. Len(doc.layers)
           /\ index(id) # 0 => doc.layers[index(id)].id = id
           /\ id \in ids(doc) => index(id) # 0
           /\ \A j \in 1 .. index(id) - 1 : doc.layers[j].id # id
  <1> DEFINE I == {i \in 1 .. Len(doc.layers) : doc.layers[i].id = id}
  <1>1. index(id) = IF I # {} THEN Min(I) ELSE 0
    BY DEF index, SelectInSeq
  <1>2. /\ Len(doc.layers) \in Nat /\ DOMAIN doc.layers = 1 .. Len(doc.layers)
    BY LayersOf
  <1>3. CASE I = {}
    <2>1. index(id) = 0
      BY <1>1, <1>3
    <2>2. \A j \in 1 .. index(id) - 1 : FALSE
      BY <2>1
    <2> QED  BY <1>2, <1>3, <2>1, <2>2 DEF ids
  <1>4. CASE I # {}
    <2>1. I \in SUBSET Nat
      OBVIOUS
    <2>2. Min(I) \in I /\ \A m \in I : Min(I) <= m
      <3> HIDE DEF I
      <3> QED  BY <1>4, <2>1, FirstPosition
    <2>3. index(id) \in 1 .. Len(doc.layers) /\ doc.layers[index(id)].id = id
      BY <1>1, <1>4, <2>2
    <2>4. ASSUME NEW j \in 1 .. index(id) - 1, doc.layers[j].id = id PROVE FALSE
      <3>1. j \in 1 .. Len(doc.layers) /\ ~(index(id) <= j)
        BY <1>2, <2>3
      <3>2. j \in I
        BY <2>4, <3>1
      <3> QED  BY <1>1, <1>4, <2>2, <3>1, <3>2
    <2> QED  BY <2>3, <2>4
  <1> QED  BY <1>3, <1>4

-----------------------------------------------------------------------------
(* The documents that edits make.                                           *)

\* A document fits with a layer more, when an edit is used up.
LEMMA AddFits ==
    ASSUME NEW d, NEW e \in Nat, e > 0, Fits(d, e), NEW id \in Ids
    PROVE  /\ Fits(addLayer(d, id), e - 1)
           /\ Len(addLayer(d, id).layers) = Len(d.layers) + 1
           /\ \A i \in 1 .. Len(d.layers) : addLayer(d, id).layers[i] = d.layers[i]
           /\ addLayer(d, id).layers[Len(d.layers) + 1] = [id |-> id, look |-> "plain"]
  <1> DEFINE l == [id |-> id, look |-> "plain"]
  <1>1. d.layers \in Seq(Layer) /\ l \in Layer
    BY DEF Fits, Layer, Looks
  <1>2. /\ Append(d.layers, l) \in Seq(Layer) /\ Append(d.layers, l) # <<>>
        /\ Len(Append(d.layers, l)) = Len(d.layers) + 1
        /\ \A i \in 1 .. Len(d.layers) : Append(d.layers, l)[i] = d.layers[i]
        /\ Append(d.layers, l)[Len(d.layers) + 1] = l
    <2> HIDE DEF l
    <2> QED  BY <1>1, AppendProperties
  <1>3. Len(d.layers) \in Nat /\ MaxEdits \in Nat
    BY LayersOf, DrawingAssumption
  <1>4. Len(Append(d.layers, l)) + (e - 1) <= MaxEdits + 1
    <2> HIDE DEF l
    <2> QED  BY <1>2, <1>3 DEF Fits
  <1> QED  BY <1>2, <1>4 DEF addLayer, Fits

\* A document fits without the layers of an id, as long as one of another id is left.
LEMMA RemoveFits ==
    ASSUME NEW d, NEW e \in Nat, Fits(d, e), NEW id,
           Len(d.layers) = 1 \/ \E i \in 1 .. Len(d.layers) : d.layers[i].id # id
    PROVE  Fits(removeLayer(d, id), e)
  <1> DEFINE others == {i \in DOMAIN d.layers : d.layers[i].id # id}
             n == Cardinality(others)
             rest == [k \in 1 .. n |-> d.layers[nth(others, k)]]
  <1>1. /\ Len(d.layers) \in Nat /\ DOMAIN d.layers = 1 .. Len(d.layers) /\ MaxEdits \in Nat
        /\ \A i \in 1 .. Len(d.layers) : d.layers[i] \in Layer
    BY LayersOf, DrawingAssumption
  <1>2. CASE Len(d.layers) <= 1
    BY <1>2 DEF removeLayer
  <1>3. CASE ~(Len(d.layers) <= 1)
    <2>1. others \in SUBSET Nat /\ others # {} /\ others \subseteq 1 .. Len(d.layers)
      BY <1>1, <1>3
    <2>2. IsFiniteSet(others) /\ n \in Nat /\ n <= Len(d.layers) /\ n > 0
      <3>1. IsFiniteSet(1 .. Len(d.layers)) /\ Cardinality(1 .. Len(d.layers)) = Len(d.layers)
        BY <1>1, FS_Interval
      <3>2. IsFiniteSet(others) /\ n <= Len(d.layers)
        <4> HIDE DEF others
        <4> QED  BY <2>1, <3>1, FS_Subset
      <3>3. n \in Nat /\ n # 0
        <4> HIDE DEF others
        <4> QED  BY <2>1, <3>2, FS_CardinalityType, FS_EmptySet
      <3> QED  BY <3>2, <3>3
    <2>3. ASSUME NEW k \in 1 .. n PROVE d.layers[nth(others, k)] \in Layer
      <3>1. nth(others, k) \in others
        <4> HIDE DEF others
        <4> QED  BY <2>1, <2>2, NthExists
      <3> QED  BY <1>1, <2>1, <3>1
    <2>4. rest \in [1 .. n -> Layer]
      BY <2>3
    <2>5. rest \in Seq(Layer) /\ Len(rest) = n /\ rest[n] \in Layer
      <3>1. rest \in Seq(Layer)
        <4> HIDE DEF rest, n
        <4> QED  BY <2>2, <2>4, SeqDef
      <3>2. DOMAIN rest = 1 .. n /\ DOMAIN rest = 1 .. Len(rest) /\ Len(rest) \in Nat
        BY <3>1, LenProperties
      <3>3. Len(rest) = n
        <4> HIDE DEF rest, n
        <4> QED  BY <2>2, <3>2
      <3>4. n \in 1 .. n
        <4> HIDE DEF n
        <4> QED  BY <2>2
      <3>5. rest[n] \in Layer
        <4> HIDE DEF rest, n
        <4> QED  BY <2>4, <3>4
      <3> QED  BY <3>1, <3>3, <3>5
    <2> DEFINE active == IF d.activeLayerId = id THEN Last(rest).id ELSE d.activeLayerId
    <2>6. active \in Ids
      <3>1. Last(rest) = rest[n]
        BY <2>5 DEF Last
      <3> HIDE DEF rest, n
      <3> QED  BY <2>5, <3>1 DEF Fits, Layer
    <2>7. removeLayer(d, id) = [layers |-> rest, activeLayerId |-> active]
      BY <1>3 DEF removeLayer
    <2>8. rest # <<>> /\ Len(rest) + e <= MaxEdits + 1
      <3> HIDE DEF rest, n
      <3>1. rest # <<>>
        BY <2>2, <2>5
      <3> QED  BY <1>1, <2>2, <2>5, <3>1 DEF Fits
    <2> HIDE DEF rest, active
    <2> QED  BY <2>5, <2>6, <2>7, <2>8 DEF Fits
  <1> QED  BY <1>2, <1>3

\* A layer is added and put in another place.
LEMMA ReorderFits ==
    ASSUME NEW d, NEW e \in Nat, Fits(d, e), NEW i \in 1 .. Len(d.layers)
    PROVE  Fits(reorderLayer(d, Len(d.layers), i), e)
  <1> DEFINE s == d.layers
             n == Len(s)
             r == SubSeq(s, 1, n - 1) \o SubSeq(s, n + 1, n)
             t == (SubSeq(r, 1, i - 1) \o <<s[n]>>) \o SubSeq(r, i, Len(r))
  <1>1. s \in Seq(Layer) /\ n \in Nat /\ n >= 1 /\ \A k \in 1 .. n : s[k] \in Layer
    BY LayersOf DEF Fits
  <1>2. SubSeq(s, 1, n - 1) \in Seq(Layer) /\ Len(SubSeq(s, 1, n - 1)) = n - 1
    <2>1. \A k \in 1 .. n - 1 : s[k] \in Layer
      BY <1>1
    <2>2. n - 1 \in Int /\ (IF 1 <= n - 1 THEN n - 1 - 1 + 1 ELSE 0) = n - 1
      BY <1>1
    <2> QED  BY <2>1, <2>2, SubSeqProperties
  <1>3. SubSeq(s, n + 1, n) = <<>>
    BY <1>1, SubSeqEmpty
  <1>4. r \in Seq(Layer) /\ Len(r) = n - 1 /\ \A k \in 1 .. n - 1 : r[k] \in Layer
    <2>1. r = SubSeq(s, 1, n - 1)
      BY <1>2, <1>3, ConcatEmptySeq
    <2> HIDE DEF r
    <2> QED  BY <1>2, <2>1, ElementOfSeq
  <1>5. SubSeq(r, 1, i - 1) \in Seq(Layer) /\ Len(SubSeq(r, 1, i - 1)) = i - 1
    <2> HIDE DEF r
    <2>1. \A k \in 1 .. i - 1 : r[k] \in Layer
      BY <1>1, <1>4
    <2>2. i - 1 \in Int /\ (IF 1 <= i - 1 THEN i - 1 - 1 + 1 ELSE 0) = i - 1
      OBVIOUS
    <2> QED  BY <2>1, <2>2, SubSeqProperties
  <1>6. SubSeq(r, i, Len(r)) \in Seq(Layer) /\ Len(SubSeq(r, i, Len(r))) = n - i
    <2> HIDE DEF r
    <2>1. \A k \in i .. Len(r) : r[k] \in Layer
      BY <1>1, <1>4
    <2>2. Len(r) \in Int /\ (IF i <= Len(r) THEN Len(r) - i + 1 ELSE 0) = n - i
      BY <1>1, <1>4
    <2> QED  BY <2>1, <2>2, SubSeqProperties
  <1>7. <<s[n]>> \in Seq(Layer) /\ Len(<<s[n]>>) = 1
    BY <1>1
  <1>8. t \in Seq(Layer) /\ Len(t) = n
    <2> DEFINE u == SubSeq(r, 1, i - 1)
               v == <<s[n]>>
               w == SubSeq(r, i, Len(r))
    <2>1. u \o v \in Seq(Layer) /\ Len(u \o v) = Len(u) + Len(v)
      <3> HIDE DEF u, v
      <3> QED  BY <1>5, <1>7, ConcatProperties DEF u, v
    <2>2. (u \o v) \o w \in Seq(Layer) /\ Len((u \o v) \o w) = Len(u \o v) + Len(w)
      BY <1>6, <2>1, ConcatProperties
    <2>3. (i - 1 + 1) + (n - i) = n
      BY <1>1
    <2> QED  BY <1>5, <1>6, <1>7, <2>1, <2>2, <2>3
  <1>9. reorderLayer(d, n, i) = [d EXCEPT !.layers = t]
    BY DEF reorderLayer, InsertAt, RemoveAt
  <1>10. t # <<>> /\ Len(t) + e <= MaxEdits + 1
    <2> HIDE DEF t
    <2> QED  BY <1>1, <1>8 DEF Fits
  <1> HIDE DEF t
  <1> QED  BY <1>8, <1>9, <1>10 DEF Fits

\* A layer looks different.
LEMMA LookFits ==
    ASSUME NEW d, NEW e \in Nat, Fits(d, e), NEW i \in DOMAIN d.layers, NEW look \in Looks
    PROVE  Fits(updateLayer(d, i, look), e)
  <1>1. d.layers \in Seq(Layer) /\ i \in 1 .. Len(d.layers) /\ d.layers[i] \in Layer
    BY LayersOf DEF Fits
  <1> DEFINE l == [d.layers[i] EXCEPT !.look = look]
             t == [d.layers EXCEPT ![i] = l]
  <1>2. l \in Layer
    BY <1>1 DEF Layer
  <1>3. t \in Seq(Layer) /\ Len(t) = Len(d.layers)
    <2> HIDE DEF l
    <2> QED  BY <1>1, <1>2, ExceptSeq
  <1>4. t # <<>>
    <2> HIDE DEF t
    <2>1. IsSeq(t) /\ Len(t) > 0
      BY <1>3, LayersOf DEF IsSeq
    <2> QED  BY <2>1, SeqShape
  <1>5. updateLayer(d, i, look) = [d EXCEPT !.layers = t]
    BY DEF updateLayer
  <1> HIDE DEF t
  <1> QED  BY <1>3, <1>4, <1>5 DEF Fits

\* Another layer is the active one.
LEMMA ActiveFits ==
    ASSUME NEW d, NEW e \in Nat, Fits(d, e), NEW id \in Ids
    PROVE  Fits([d EXCEPT !.activeLayerId = id], e)
  BY DEF Fits

\* A document of one layer.
LEMMA OneLayerFits ==
    ASSUME NEW id \in Ids, NEW look \in Looks, NEW e \in Nat, e <= MaxEdits
    PROVE  Fits([layers |-> <<[id |-> id, look |-> look]>>, activeLayerId |-> id], e)
  <1> DEFINE l == [id |-> id, look |-> look]
             t == <<l>>
  <1>1. l \in Layer
    BY DEF Layer
  <1>2. t \in Seq(Layer) /\ Len(t) = 1 /\ t # <<>>
    BY <1>1
  <1>3. Len(t) + e <= MaxEdits + 1
    BY <1>2, DrawingAssumption
  <1> QED  BY <1>2, <1>3 DEF Fits

-----------------------------------------------------------------------------
(* Arrays.                                                                  *)

\* The free arrays are numbers, finitely many, and no buffer is one of them.
LEMMA FreeArrays ==
    ASSUME NEW bufs
    PROVE  /\ free(bufs) \in SUBSET Nat /\ free(bufs) \subseteq Arrays
           /\ IsFiniteSet(free(bufs)) /\ Cardinality(free(bufs)) \in Nat
           /\ \A id \in DOMAIN bufs : bufs[id] \notin free(bufs)
  <1>1. free(bufs) \subseteq Arrays
    BY DEF free
  <1>2. MaxArrays \in Nat
    BY DrawingAssumption
  <1>3. IsFiniteSet(Arrays) /\ Arrays \in SUBSET Nat
    BY <1>2, FS_Interval DEF Arrays
  <1>4. IsFiniteSet(free(bufs)) /\ Cardinality(free(bufs)) \in Nat
    BY <1>1, <1>3, FS_Subset, FS_CardinalityType
  <1>5. \A id \in DOMAIN bufs : bufs[id] \notin free(bufs)
    BY DEF free, held
  <1> QED  BY <1>1, <1>3, <1>4, <1>5

\* Where there is room for k arrays, each of the first k new ones is a free array.
LEMMA NewArrays ==
    ASSUME NEW bufs, NEW k \in Nat, Room(bufs, k), NEW n \in 1 .. k
    PROVE  newArray(bufs, n) \in Arrays /\ newArray(bufs, n) \in free(bufs)
  <1>1. n \in 1 .. Cardinality(free(bufs))
    BY FreeArrays DEF Room
  <1>2. nth(free(bufs), n) \in free(bufs)
    BY <1>1, FreeArrays, NthExists
  <1> QED  BY <1>2, FreeArrays DEF newArray

\* A buffer more.
LEMMA CopyFits ==
    ASSUME NEW bufs, FitsBuffers(bufs), NEW strokes, DOMAIN strokes = Arrays, NEW id \in Ids, NEW s,
           NEW k \in Nat, k >= 1, Room(bufs, k)
    PROVE  LET copy == Copied(bufs, strokes, id, s) IN
           /\ FitsBuffers(copy.buffers) /\ DOMAIN copy.buffers = DOMAIN bufs \cup {id}
           /\ copy.buffers[id] \in Arrays
           /\ DOMAIN copy.strokes = Arrays
           /\ Room(copy.buffers, k - 1)
  <1> DEFINE a == IF id \in DOMAIN bufs THEN bufs[id] ELSE newArray(bufs, 1)
             copy == Copied(bufs, strokes, id, s)
  <1>1. copy.buffers = Over(The(id, a), bufs) /\ copy.strokes = [strokes EXCEPT ![a] = s]
    BY DEF Copied
  <1>2. a \in Arrays /\ (id \notin DOMAIN bufs => a \in free(bufs))
    BY NewArrays DEF FitsBuffers
  <1>3. /\ DOMAIN copy.buffers = DOMAIN bufs \cup {id}
        /\ \A x \in DOMAIN copy.buffers : copy.buffers[x] = IF x = id THEN a ELSE bufs[x]
    BY <1>1 DEF The, Over
  <1>4. FitsBuffers(copy.buffers)
    BY <1>2, <1>3 DEF FitsBuffers
  <1>5. free(bufs) \ {a} \subseteq free(copy.buffers)
    BY <1>3 DEF free, held
  <1>6. k - 1 <= Cardinality(free(copy.buffers))
    <2>1. IsFiniteSet(free(bufs)) /\ IsFiniteSet(free(copy.buffers)) /\ Cardinality(free(bufs)) \in Nat
          /\ Cardinality(free(copy.buffers)) \in Nat
      BY FreeArrays
    <2>2. Cardinality(free(bufs) \ {a}) \in Nat /\ Cardinality(free(bufs) \ {a}) >= Cardinality(free(bufs)) - 1
      <3>1. CASE a \in free(bufs)
        <4>1. Cardinality(free(bufs) \ {a}) = Cardinality(free(bufs)) - 1 /\ IsFiniteSet(free(bufs) \ {a})
          BY <2>1, <3>1, FS_RemoveElement, FS_Subset
        <4> QED  BY <2>1, <4>1, FS_CardinalityType
      <3>2. CASE a \notin free(bufs)
        <4>1. free(bufs) \ {a} = free(bufs)
          BY <3>2
        <4> QED  BY <2>1, <4>1
      <3> QED  BY <3>1, <3>2
    <2>3. Cardinality(free(bufs) \ {a}) <= Cardinality(free(copy.buffers))
      BY <1>5, <2>1, FS_Subset
    <2> QED  BY <2>1, <2>2, <2>3 DEF Room
  <1> QED  BY <1>1, <1>2, <1>3, <1>4, <1>6 DEF Room

-----------------------------------------------------------------------------
(* The engine.                                                              *)

\* What History.push leaves of the history fits, within the limit.
LEMMA PushFits ==
    ASSUME NEW e \in Nat, FitsHistory(past, future, e), NEW op, FitsOp(op, e)
    PROVE  FitsHistory(pushed(op), <<>>, e)
  <1>1. IsSeq(past) /\ IsSeq(future) /\ Len(past) \in Nat /\ Len(future) \in Nat
        /\ Len(past) + Len(future) <= Limit /\ \A i \in 1 .. Len(past) : FitsOp(past[i], e)
    BY SeqShape DEF FitsHistory
  <1>2. Limit \in Nat \ {0}
    BY DrawingAssumption
  <1>3. ASSUME NEW p, IsSeq(p), Len(p) < Limit, \A i \in 1 .. Len(p) : FitsOp(p[i], e)
        PROVE  FitsHistory(Append(p, op), <<>>, e)
    <2>1. /\ IsSeq(Append(p, op)) /\ Len(Append(p, op)) = Len(p) + 1
          /\ \A i \in 1 .. Len(p) : Append(p, op)[i] = p[i]
          /\ Append(p, op)[Len(p) + 1] = op
      BY <1>3, AppendShape
    <2>2. Len(p) \in Nat
      BY <1>3, SeqShape
    <2>3. \A i \in 1 .. Len(p) + 1 : i \in 1 .. Len(p) \/ i = Len(p) + 1
      BY <2>2
    <2>4. \A i \in 1 .. Len(Append(p, op)) : FitsOp(Append(p, op)[i], e)
      BY <1>3, <2>1, <2>3
    <2>5. Len(Append(p, op)) + 0 <= Limit
      BY <1>2, <1>3, <2>1, <2>2
    <2> QED  BY <2>1, <2>4, <2>5, NoneIsSeq DEF FitsHistory
  <1>4. CASE Len(past) < Limit
    BY <1>1, <1>3, <1>4 DEF pushed
  <1>5. CASE ~(Len(past) < Limit)
    <2>1. past # <<>>
      BY <1>1, <1>2, <1>5, SeqShape
    <2>2. /\ IsSeq(Tail(past)) /\ Len(Tail(past)) = Len(past) - 1
          /\ \A i \in 1 .. Len(past) - 1 : Tail(past)[i] = past[i + 1]
      BY <1>1, <2>1, TailShape
    <2>3. \A i \in 1 .. Len(past) - 1 : i + 1 \in 1 .. Len(past)
      BY <1>1
    <2>4. \A i \in 1 .. Len(Tail(past)) : FitsOp(Tail(past)[i], e)
      BY <1>1, <2>2, <2>3
    <2>5. Len(Tail(past)) < Limit
      BY <1>1, <1>2, <2>2
    <2> QED  BY <1>3, <1>5, <2>2, <2>4, <2>5 DEF pushed
  <1> QED  BY <1>4, <1>5

\* Steps that leave the documents in storage and the requests alone.
LEMMA SavedStays ==
    ASSUME DrawingInv, edits' \in Nat, edits' <= edits, UNCHANGED <<draft, stored, slot>>,
           UNCHANGED session \/ session'.open = session.open
    PROVE  SavedInv'
  <1>1. edits \in Nat
    BY DrawingAssumption DEF DrawingInv, Counts
  <1>2. \A m : Manifest(m, edits) => Manifest(m, edits')
    BY <1>1, FitsLater
  <1>3. \A q : FitsSlot(q, edits) =>
                 /\ q.pc \in DrawingSteps
                 /\ q.pc \in {"autosave_write", "save_doc"} => Manifest(q.drawing, edits')
                 /\ q.pc = "save_version" => session'.open
    BY <1>2 DEF FitsSlot
  <1> QED  BY <1>2, <1>3 DEF DrawingInv, SavedInv, FitsSlot

\* The numbers that the bounds are.
LEMMA Bounds ==
    ASSUME Counts
    PROVE  /\ MaxEdits \in Nat /\ MaxSessions \in Nat /\ MaxArrays \in Nat /\ MaxEdits < MaxArrays
           /\ edits \in Nat /\ edits <= MaxEdits /\ lastId \in Nat
           /\ session.left \in Nat /\ session.open \in BOOLEAN
           /\ lastId \in Ids
           /\ \A n \in Nat : n <= 4 * MaxSessions + MaxEdits => n \in Ids
  <1>1. MaxEdits \in Nat /\ MaxSessions \in Nat /\ MaxArrays \in Nat /\ MaxEdits < MaxArrays
    BY DrawingAssumption
  <1>2. /\ edits \in Nat /\ edits <= MaxEdits /\ lastId \in Nat
        /\ session.left \in Nat /\ session.open \in BOOLEAN
    BY <1>1 DEF Counts
  <1>3. lastId <= 4 * MaxSessions + MaxEdits
    BY <1>1, <1>2 DEF Counts
  <1> QED  BY <1>1, <1>2, <1>3 DEF Ids

\* A new id is one of the ids, as long as edits are to come.
LEMMA NewIdFits ==
    ASSUME Counts, edits > 0
    PROVE  newId \in Ids /\ newId \in Nat /\ edits - 1 \in Nat
  <1>1. /\ MaxEdits \in Nat /\ MaxSessions \in Nat /\ edits \in Nat /\ lastId \in Nat /\ session.left \in Nat
        /\ lastId + 4 * session.left + edits <= 4 * MaxSessions + MaxEdits
    BY Bounds DEF Counts
  <1>2. lastId + 1 <= 4 * MaxSessions + MaxEdits /\ lastId + 1 \in Nat /\ edits - 1 \in Nat
    BY <1>1
  <1> QED  BY <1>2, Bounds DEF newId

\* Everything but the history and the buffers, after a gesture that takes an edit or none.
LEMMA CountsStep ==
    ASSUME Counts, UNCHANGED session,
           \/ edits' = edits /\ lastId' = lastId
           \/ edits > 0 /\ edits' = edits - 1 /\ lastId' \in {lastId, lastId + 1}
    PROVE  Counts' /\ edits' \in Nat /\ edits' <= edits
  <1>1. /\ MaxEdits \in Nat /\ MaxSessions \in Nat /\ edits \in Nat /\ lastId \in Nat /\ session.left \in Nat
        /\ edits <= MaxEdits /\ lastId + 4 * session.left + edits <= 4 * MaxSessions + MaxEdits
    BY Bounds DEF Counts
  <1>2. /\ edits' \in Nat /\ edits' <= edits /\ edits' <= MaxEdits /\ lastId' \in Nat
        /\ lastId' + 4 * session.left + edits' <= 4 * MaxSessions + MaxEdits
    BY <1>1
  <1>3. edits' \in 0 .. MaxEdits
    BY <1>1, <1>2
  <1> QED  BY <1>2, <1>3 DEF Counts

\* An edit that History knows.
LEMMA EditKeeps ==
    ASSUME DrawingInv, UNCHANGED mode,
           NEW d, NEW bufs, NEW strokes, NEW undo, NEW redo, NEW before,
           Edit(d, bufs, strokes, undo, redo, before),
           Fits(d, edits - 1), FitsBuffers(bufs), FitsChange(undo, edits - 1), FitsChange(redo, edits - 1),
           timer' \in BOOLEAN, aside' \in BOOLEAN, UNCHANGED stroke, lastId' \in {lastId, lastId + 1}
    PROVE  DrawingInv'
  <1>1. /\ session.open /\ UNCHANGED <<session, draft, stored, slot>>
        /\ edits > 0 /\ edits' = edits - 1 /\ doc' = d /\ dirty' = TRUE
    BY DEF Edit, Gesture, savedVars
  <1>2. Counts' /\ edits' \in Nat /\ edits' <= edits /\ edits \in Nat
    BY <1>1, CountsStep, Bounds DEF DrawingInv
  <1>3. PICK after : Arrange(bufs, strokes, pushed(Op(undo, redo, before, after)), <<>>)
    BY DEF Edit
  <1>4. buffers' = bufs /\ DOMAIN pixels' = Arrays /\ past' = pushed(Op(undo, redo, before, after))
        /\ future' = <<>>
    BY <1>3 DEF Arrange
  <1>5. FitsHistory(past, future, edits')
    BY <1>2, FitsLater DEF DrawingInv, EngineInv
  <1>6. FitsOp(Op(undo, redo, before, after), edits')
    BY <1>1 DEF FitsOp, Op
  <1>7. FitsHistory(pushed(Op(undo, redo, before, after)), <<>>, edits')
    BY <1>2, <1>5, <1>6, PushFits
  <1>8. EngineInv'
    <2>1. session'.open /\ Fits(d, edits')
      BY <1>1
    <2>2. stroke'.in \in BOOLEAN
      BY DEF DrawingInv, EngineInv
    <2>3. FitsHistory(past', future', edits')
      BY <1>4, <1>7
    <2> HIDE DEF DrawingInv
    <2> QED  BY <1>1, <1>4, <2>1, <2>2, <2>3 DEF EngineInv
  <1>9. SavedInv'
    BY <1>1, <1>2, SavedStays
  <1> QED  BY <1>2, <1>8, <1>9 DEF DrawingInv

\* An operation that only puts back a document.
LEMMA DocChangeFits ==
    ASSUME NEW d, NEW e, Fits(d, e), NEW deleted
    PROVE  FitsChange(Change(d, deleted, noArrays, noStrokes), e)
  BY DEF FitsChange, Change, noArrays, noStrokes

\* An operation that copies strokes into the buffer of an id.
LEMMA CopyChangeFits ==
    ASSUME NEW d, NEW e, d = Keep \/ Fits(d, e), NEW deleted, NEW id \in Ids, NEW s
    PROVE  FitsChange(Change(d, deleted, noArrays, The(id, s)), e)
  BY DEF FitsChange, Change, noArrays, The

\* An operation that makes arrays of its own the buffers.
LEMMA ArraysChangeFits ==
    ASSUME NEW d, NEW e, Fits(d, e), NEW deleted, NEW arrays, FitsBuffers(arrays)
    PROVE  FitsChange(Change(d, deleted, arrays, noStrokes), e)
  BY DEF FitsChange, Change, noStrokes, FitsBuffers

\* A gesture finds an open page.
LEMMA OpenPage ==
    ASSUME DrawingInv, session.open
    PROVE  /\ Fits(doc, edits) /\ doc.activeLayerId \in Ids /\ FitsBuffers(buffers) /\ DOMAIN pixels = Arrays
           /\ edits \in Nat /\ (edits > 0 => edits - 1 \in Nat /\ Fits(doc, edits - 1))
  <1>1. Fits(doc, edits) /\ FitsBuffers(buffers) /\ edits \in Nat /\ DOMAIN pixels = Arrays
    BY Bounds DEF DrawingInv, EngineInv
  <1>2. ASSUME edits > 0 PROVE edits - 1 \in Nat /\ Fits(doc, edits - 1)
    <2>1. edits - 1 \in Nat /\ edits - 1 <= edits
      BY <1>1, <1>2
    <2> QED  BY <1>1, <2>1, FitsLater
  <1> QED  BY <1>1, <1>2 DEF Fits

\* setActiveLayer keeps the invariant.
LEMMA ActiveKeeps ==
    ASSUME DrawingInv, UNCHANGED mode, NEW i \in DOMAIN doc.layers, setActiveLayer(doc.layers[i].id)
    PROVE  DrawingInv'
  <1> DEFINE id == doc.layers[i].id
             d == [doc EXCEPT !.activeLayerId = id]
  <1>1. /\ Edit(d, buffers, pixels, Change(doc, {}, noArrays, noStrokes),
                Change(d, {}, noArrays, noStrokes), Drawn(doc))
        /\ timer' = TRUE /\ UNCHANGED <<stroke, aside, lastId>>
    BY DEF setActiveLayer, Emits
  <1>2. session.open /\ edits > 0
    BY <1>1 DEF Edit, Gesture
  <1>3. Fits(doc, edits - 1) /\ FitsBuffers(buffers) /\ edits - 1 \in Nat
    BY <1>2, OpenPage
  <1>4. id \in Ids
    BY <1>3, LayersOf DEF Layer
  <1>5. Fits(d, edits - 1)
    BY <1>3, <1>4, ActiveFits
  <1>6. aside' \in BOOLEAN /\ timer' \in BOOLEAN
    BY <1>1 DEF DrawingInv, EngineInv
  <1> HIDE DEF d
  <1> QED  BY <1>1, <1>3, <1>5, <1>6, EditKeeps, DocChangeFits

\* addLayer and paste keep the invariant.
LEMMA NewLayerKeeps ==
    ASSUME DrawingInv, UNCHANGED mode, NEW strokes, NEW redone, NewLayer(strokes, redone)
    PROVE  DrawingInv'
  <1> DEFINE copy == Copied(buffers, pixels, newId, strokes)
             d == addLayer(doc, newId)
  <1>1. /\ Room(buffers, 1)
        /\ Edit(d, copy.buffers, copy.strokes, Change(doc, {newId}, noArrays, noStrokes),
                Change(d, {}, noArrays, The(newId, redone)), Drawn(doc))
        /\ lastId' = newId /\ aside' = (aside \/ newId \in ids(doc) \cup DOMAIN buffers)
        /\ timer' = TRUE /\ UNCHANGED stroke
    BY DEF NewLayer, NewId, Emits
  <1>2. session.open /\ edits > 0
    BY <1>1 DEF Edit, Gesture
  <1>3. /\ Fits(doc, edits) /\ Fits(doc, edits - 1) /\ FitsBuffers(buffers) /\ edits \in Nat
        /\ newId \in Ids /\ lastId' = lastId + 1 /\ DOMAIN pixels = Arrays
    BY <1>1, <1>2, OpenPage, NewIdFits DEF DrawingInv, newId
  <1>4. Fits(d, edits - 1)
    BY <1>2, <1>3, AddFits
  <1>5. FitsBuffers(copy.buffers)
    BY <1>1, <1>3, CopyFits
  <1>6. aside' \in BOOLEAN /\ timer' \in BOOLEAN
    BY <1>1 DEF DrawingInv, EngineInv
  <1> HIDE DEF d, copy
  <1> QED  BY <1>1, <1>3, <1>4, <1>5, <1>6, EditKeeps, DocChangeFits, CopyChangeFits

\* An import or an inked frame keeps the invariant.
LEMMA LayerAsideKeeps ==
    ASSUME DrawingInv, UNCHANGED mode, LayerAside
    PROVE  DrawingInv'
  <1> DEFINE copy == Copied(buffers, pixels, newId, {edits})
             d == addLayer(doc, newId)
  <1>1. /\ Room(buffers, 1)
        /\ Edit(d, copy.buffers, copy.strokes, Change(doc, {newId}, noArrays, noStrokes),
                Change(d, {}, noArrays, noStrokes), Drawn(doc))
        /\ lastId' = newId /\ aside' = TRUE /\ timer' = TRUE /\ UNCHANGED stroke
    BY DEF LayerAside, Emits
  <1>2. session.open /\ edits > 0
    BY <1>1 DEF Edit, Gesture
  <1>3. /\ Fits(doc, edits) /\ Fits(doc, edits - 1) /\ FitsBuffers(buffers) /\ edits \in Nat
        /\ newId \in Ids /\ lastId' = lastId + 1 /\ DOMAIN pixels = Arrays
    BY <1>1, <1>2, OpenPage, NewIdFits DEF DrawingInv, newId
  <1>4. Fits(d, edits - 1)
    BY <1>2, <1>3, AddFits
  <1>5. FitsBuffers(copy.buffers)
    BY <1>1, <1>3, CopyFits
  <1> HIDE DEF d, copy
  <1> QED  BY <1>1, <1>3, <1>4, <1>5, EditKeeps, DocChangeFits

\* removeLayer keeps the invariant.
LEMMA RemoveKeeps ==
    ASSUME DrawingInv, UNCHANGED mode, RemoveLayer
    PROVE  DrawingInv'
  <1> DEFINE buf == newArray(buffers, 1)
             d == removeLayer(doc, activeLayerId)
             without == [id \in DOMAIN buffers \ {activeLayerId} |-> buffers[id]]
             strokes == [pixels EXCEPT ![buf] = strokesOf(activeLayerId)]
  <1>1. /\ ids(doc) # {activeLayerId} \/ Len(doc.layers) = 1
        /\ Room(buffers, 1)
        /\ Edit(d, without, strokes, Change(doc, {}, The(activeLayerId, buf), noStrokes),
                Change(d, {activeLayerId}, noArrays, noStrokes), Drawn(doc))
        /\ timer' = TRUE /\ UNCHANGED <<stroke, aside, lastId>>
    BY DEF RemoveLayer, Emits
  <1>2. session.open /\ edits > 0
    BY <1>1 DEF Edit, Gesture
  <1>3. /\ Fits(doc, edits) /\ Fits(doc, edits - 1) /\ FitsBuffers(buffers) /\ edits - 1 \in Nat
        /\ activeLayerId \in Ids
    BY <1>2, OpenPage DEF activeLayerId
  <1>4. Fits(d, edits - 1)
    <2>1. Len(doc.layers) = 1 \/ \E i \in 1 .. Len(doc.layers) : doc.layers[i].id # activeLayerId
      BY <1>1, <1>3, LayersOf DEF ids
    <2> QED  BY <1>3, <2>1, RemoveFits
  <1>5. FitsBuffers(without)
    BY <1>3 DEF FitsBuffers
  <1>6. FitsBuffers(The(activeLayerId, buf))
    <2>1. buf \in Arrays
      BY <1>1, NewArrays
    <2> HIDE DEF buf
    <2> QED  BY <1>3, <2>1 DEF FitsBuffers, The
  <1>7. aside' \in BOOLEAN
    BY <1>1 DEF DrawingInv, EngineInv
  <1> HIDE DEF d, without, buf, strokes
  <1> QED  BY <1>1, <1>3, <1>4, <1>5, <1>6, <1>7, EditKeeps, DocChangeFits, ArraysChangeFits

\* duplicateLayer keeps the invariant: there is room for the buffers of all layers, twice.
LEMMA DuplicateKeeps ==
    ASSUME DrawingInv, UNCHANGED mode, DuplicateLayer
    PROVE  DrawingInv'
  <1> DEFINE i == index(activeLayerId)
             n == Len(doc.layers)
             grown == addLayer(doc, newId)
             d == reorderLayer(grown, n + 1, i + 1)
             copy == Copied(buffers, pixels, newId, strokesOf(activeLayerId))
             fresh(k) == newArray(copy.buffers, k)
             before == [id \in ids(doc) |-> fresh(index(id))]
             after == [id \in ids(d) |-> IF id = newId THEN fresh(2 * n + 1) ELSE fresh(n + index(id))]
  <1>1. PICK kept :
        /\ Room(buffers, 2 * n + 2)
        /\ Edit(d, copy.buffers, kept, Change(doc, Ids, before, noStrokes),
                Change(d, Ids, after, noStrokes), Drawn(doc))
        /\ lastId' = newId /\ aside' = (aside \/ newId \in ids(doc) \cup DOMAIN buffers)
        /\ UNCHANGED <<stroke, timer>>
    BY DEF DuplicateLayer, NewId
  <1>2. session.open /\ edits > 0
    BY <1>1 DEF Edit, Gesture
  <1>3. /\ Fits(doc, edits) /\ Fits(doc, edits - 1) /\ FitsBuffers(buffers) /\ edits - 1 \in Nat /\ edits \in Nat
        /\ newId \in Ids /\ lastId' = lastId + 1 /\ DOMAIN pixels = Arrays
    BY <1>1, <1>2, OpenPage, NewIdFits DEF DrawingInv, newId
  <1>4. n \in Nat /\ n >= 1 /\ ids(doc) \subseteq Ids
    BY <1>3, LayersOf
  <1>5. \A id : index(id) \in 0 .. n /\ (id \in ids(doc) => index(id) # 0)
    BY <1>3, IndexOf
  <1>6. Fits(d, edits - 1)
    <2>1. Fits(grown, edits - 1) /\ Len(grown.layers) = n + 1
      BY <1>2, <1>3, AddFits
    <2>2. i + 1 \in 1 .. n + 1
      BY <1>4, <1>5
    <2> HIDE DEF grown, i, n
    <2> QED  BY <1>3, <2>1, <2>2, ReorderFits
  <1>7. ids(d) \subseteq Ids
    <2> HIDE DEF d
    <2> QED  BY <1>6, LayersOf
  <1>8. FitsBuffers(copy.buffers) /\ Room(copy.buffers, 2 * n + 1)
    <2>1. 2 * n + 2 \in Nat /\ 2 * n + 2 >= 1 /\ (2 * n + 2) - 1 = 2 * n + 1
      BY <1>4
    <2>2. FitsBuffers(copy.buffers) /\ Room(copy.buffers, (2 * n + 2) - 1)
      <3> HIDE DEF n
      <3> QED  BY <1>1, <1>3, <2>1, CopyFits
    <2> QED  BY <2>1, <2>2
  <1>9. \A k \in 1 .. 2 * n + 1 : fresh(k) \in Arrays
    <2>1. 2 * n + 1 \in Nat
      BY <1>4
    <2> HIDE DEF copy, n
    <2> QED  BY <1>8, <2>1, NewArrays
  <1>10. FitsBuffers(before)
    <2>1. ASSUME NEW id \in ids(doc) PROVE fresh(index(id)) \in Arrays
      <3>1. index(id) \in 1 .. 2 * n + 1
        BY <1>4, <1>5
      <3> HIDE DEF fresh
      <3> QED  BY <1>9, <3>1
    <2> HIDE DEF fresh
    <2> QED  BY <1>4, <2>1 DEF FitsBuffers
  <1>11. FitsBuffers(after)
    <2>1. ASSUME NEW id PROVE fresh(n + index(id)) \in Arrays /\ fresh(2 * n + 1) \in Arrays
      <3>1. n + index(id) \in 1 .. 2 * n + 1 /\ 2 * n + 1 \in 1 .. 2 * n + 1
        BY <1>4, <1>5
      <3> HIDE DEF fresh
      <3> QED  BY <1>9, <3>1
    <2> HIDE DEF fresh, d
    <2> QED  BY <1>7, <2>1 DEF FitsBuffers
  <1>12. aside' \in BOOLEAN /\ timer' \in BOOLEAN
    BY <1>1 DEF DrawingInv, EngineInv
  <1> HIDE DEF d, copy, before, after
  <1> QED  BY <1>1, <1>3, <1>6, <1>8, <1>10, <1>11, <1>12, EditKeeps, ArraysChangeFits

\* mergeDown keeps the invariant.
LEMMA MergeKeeps ==
    ASSUME DrawingInv, UNCHANGED mode, MergeDown
    PROVE  DrawingInv'
  <1> DEFINE i == index(activeLayerId)
             top == activeLayerId
             below == doc.layers[i - 1].id
             merged == strokesOf(below) \cup strokesOf(top)
             d == removeLayer(doc, top)
             copy == Copied(buffers, pixels, below, merged)
             bufs == [id \in DOMAIN copy.buffers \ {top} |-> copy.buffers[id]]
             fresh(k) == newArray(copy.buffers, k)
             undone == Over(The(top, fresh(1)), The(below, fresh(2)))
             redone == The(below, fresh(3))
  <1>1. PICK strokes :
        /\ i > 1
        /\ Room(buffers, 4)
        /\ Edit(d, bufs, strokes, Change(doc, {}, undone, noStrokes),
                Change(d, {}, redone, noStrokes), Drawn(doc))
        /\ UNCHANGED <<stroke, aside, lastId, timer>>
    BY DEF MergeDown
  <1>2. session.open /\ edits > 0
    BY <1>1 DEF Edit, Gesture
  <1>3. /\ Fits(doc, edits) /\ Fits(doc, edits - 1) /\ FitsBuffers(buffers) /\ edits - 1 \in Nat /\ edits \in Nat
        /\ top \in Ids /\ DOMAIN pixels = Arrays
    BY <1>2, OpenPage DEF activeLayerId
  <1>4. /\ i \in 0 .. Len(doc.layers) /\ Len(doc.layers) \in Nat
        /\ \A j \in 1 .. i - 1 : doc.layers[j].id # top
        /\ \A j \in 1 .. Len(doc.layers) : doc.layers[j].id \in Ids
    BY <1>3, IndexOf, LayersOf DEF Layer
  <1>5. i - 1 \in 1 .. i - 1 /\ i - 1 \in 1 .. Len(doc.layers)
    <2> HIDE DEF i
    <2> QED  BY <1>1, <1>4
  <1>6. below \in Ids /\ below # top
    <2> HIDE DEF i
    <2> QED  BY <1>4, <1>5
  <1>7. Fits(d, edits - 1)
    <2>1. \E j \in 1 .. Len(doc.layers) : doc.layers[j].id # top
      BY <1>5, <1>6
    <2> QED  BY <1>3, <2>1, RemoveFits
  <1>8. FitsBuffers(copy.buffers) /\ Room(copy.buffers, 3)
    <2>1. FitsBuffers(copy.buffers) /\ Room(copy.buffers, 4 - 1)
      <3> HIDE DEF below, merged
      <3> QED  BY <1>1, <1>3, <1>6, CopyFits
    <2> QED  BY <2>1
  <1>9. fresh(1) \in Arrays /\ fresh(2) \in Arrays /\ fresh(3) \in Arrays
    <2> HIDE DEF copy
    <2> QED  BY <1>8, NewArrays
  <1>10. FitsBuffers(bufs)
    <2> HIDE DEF copy
    <2> QED  BY <1>8 DEF FitsBuffers
  <1>11. FitsBuffers(undone) /\ FitsBuffers(redone)
    <2> HIDE DEF fresh, below
    <2> QED  BY <1>3, <1>6, <1>9 DEF FitsBuffers, The, Over
  <1>12. aside' \in BOOLEAN /\ timer' \in BOOLEAN
    BY <1>1 DEF DrawingInv, EngineInv
  <1> HIDE DEF d, bufs, undone, redone
  <1> QED  BY <1>1, <1>3, <1>7, <1>10, <1>11, <1>12, EditKeeps, ArraysChangeFits

\* flattenImage keeps the invariant.
LEMMA FlattenKeeps ==
    ASSUME DrawingInv, UNCHANGED mode, FlattenImage
    PROVE  DrawingInv'
  <1> DEFINE n == Len(doc.layers)
             keepId == doc.layers[1].id
             look == IF doc.layers[1].look = "hidden" THEN "plain" ELSE doc.layers[1].look
             d == [layers |-> <<[id |-> keepId, look |-> look]>>, activeLayerId |-> keepId]
             copy == Copied(buffers, pixels, keepId, composite)
             fresh(k) == newArray(copy.buffers, k)
             before == [id \in ids(doc) |-> fresh(index(id))]
             bufs == The(keepId, copy.buffers[keepId])
             redone == The(keepId, fresh(n + 1))
  <1>1. PICK kept :
        /\ Room(buffers, n + 2)
        /\ Edit(d, bufs, kept, Change(doc, Ids, before, noStrokes), Change(d, {}, redone, noStrokes), Drawn(doc))
        /\ timer' = TRUE /\ UNCHANGED <<stroke, aside, lastId>>
    BY DEF FlattenImage, Emits
  <1>2. session.open /\ edits > 0
    BY <1>1 DEF Edit, Gesture
  <1>3. /\ Fits(doc, edits) /\ Fits(doc, edits - 1) /\ FitsBuffers(buffers) /\ edits - 1 \in Nat /\ edits \in Nat
        /\ DOMAIN pixels = Arrays
    BY <1>2, OpenPage
  <1>4. n \in Nat /\ n >= 1 /\ ids(doc) \subseteq Ids /\ keepId \in Ids /\ look \in Looks
    <2>1. Len(doc.layers) \in Nat /\ Len(doc.layers) >= 1 /\ ids(doc) \subseteq Ids
          /\ \A j \in 1 .. Len(doc.layers) : doc.layers[j] \in Layer
      BY <1>3, LayersOf
    <2>2. 1 \in 1 .. Len(doc.layers)
      BY <2>1
    <2> QED  BY <2>1, <2>2 DEF Layer, Looks
  <1>5. \A id : index(id) \in 0 .. n /\ (id \in ids(doc) => index(id) # 0)
    BY <1>3, IndexOf
  <1>6. Fits(d, edits - 1)
    <2>1. edits - 1 <= MaxEdits
      BY <1>3, Bounds DEF DrawingInv
    <2> HIDE DEF keepId, look
    <2> QED  BY <1>3, <1>4, <2>1, OneLayerFits
  <1>7. FitsBuffers(copy.buffers) /\ copy.buffers[keepId] \in Arrays /\ Room(copy.buffers, n + 1)
    <2>1. n + 2 \in Nat /\ n + 2 >= 1 /\ (n + 2) - 1 = n + 1
      BY <1>4
    <2>2. FitsBuffers(copy.buffers) /\ copy.buffers[keepId] \in Arrays /\ Room(copy.buffers, (n + 2) - 1)
      <3> HIDE DEF n, keepId
      <3> QED  BY <1>1, <1>3, <1>4, <2>1, CopyFits
    <2> QED  BY <2>1, <2>2
  <1>8. \A k \in 1 .. n + 1 : fresh(k) \in Arrays
    <2>1. n + 1 \in Nat
      BY <1>4
    <2> HIDE DEF copy, n
    <2> QED  BY <1>7, <2>1, NewArrays
  <1>9. FitsBuffers(before)
    <2>1. ASSUME NEW id \in ids(doc) PROVE fresh(index(id)) \in Arrays
      <3>1. index(id) \in 1 .. n + 1
        BY <1>4, <1>5
      <3> HIDE DEF fresh
      <3> QED  BY <1>8, <3>1
    <2> HIDE DEF fresh
    <2> QED  BY <1>4, <2>1 DEF FitsBuffers
  <1>10. FitsBuffers(bufs) /\ FitsBuffers(redone)
    <2>1. fresh(n + 1) \in Arrays
      <3>1. n + 1 \in 1 .. n + 1
        BY <1>4
      <3> HIDE DEF fresh
      <3> QED  BY <1>8, <3>1
    <2> HIDE DEF fresh, copy, keepId
    <2> QED  BY <1>4, <1>7, <2>1 DEF FitsBuffers, The
  <1>11. aside' \in BOOLEAN
    BY <1>1 DEF DrawingInv, EngineInv
  <1> HIDE DEF d, bufs, before, redone
  <1> QED  BY <1>1, <1>3, <1>6, <1>9, <1>10, <1>11, EditKeeps, ArraysChangeFits

\* A gesture that writes no document, or another of the same kind.
LEMMA GestureKeeps ==
    ASSUME DrawingInv, UNCHANGED <<mode, session, draft, stored, slot, lastId>>, session.open,
           edits' = edits \/ (edits > 0 /\ edits' = edits - 1),
           Fits(doc', edits'), FitsBuffers(buffers'), DOMAIN pixels' = Arrays,
           FitsHistory(past', future', edits'), {dirty', timer', aside', stroke'.in} \subseteq BOOLEAN
    PROVE  DrawingInv'
  <1>1. Counts' /\ edits' \in Nat /\ edits' <= edits
    BY CountsStep DEF DrawingInv
  <1>2. SavedInv'
    BY <1>1, SavedStays
  <1>3. EngineInv'
    <2> HIDE DEF DrawingInv
    <2> QED  BY DEF EngineInv
  <1> QED  BY <1>1, <1>2, <1>3 DEF DrawingInv

\* beginStroke keeps the invariant.
LEMMA StrokeBeginKeeps ==
    ASSUME DrawingInv, UNCHANGED mode, StrokeBegin
    PROVE  DrawingInv'
  <1> DEFINE copy == Copied(buffers, pixels, activeLayerId, strokesOf(activeLayerId) \cup {edits})
  <1>1. /\ session.open /\ edits > 0 /\ edits' = edits - 1 /\ Room(buffers, 1)
        /\ stroke'.in = TRUE /\ timer' = TRUE /\ Arrange(copy.buffers, copy.strokes, past, future)
        /\ UNCHANGED <<doc, dirty, aside, lastId, session, draft, stored, slot>>
    BY DEF StrokeBegin, Gesture, Emits, savedVars
  <1>2. /\ Fits(doc, edits) /\ Fits(doc, edits - 1) /\ FitsBuffers(buffers) /\ edits - 1 \in Nat /\ edits \in Nat
        /\ activeLayerId \in Ids /\ DOMAIN pixels = Arrays
    BY <1>1, OpenPage DEF activeLayerId
  <1>3. FitsBuffers(copy.buffers)
    BY <1>1, <1>2, CopyFits
  <1>4. edits - 1 <= edits
    BY <1>2
  <1>5. FitsHistory(past, future, edits - 1)
    BY <1>2, <1>4, FitsLater DEF DrawingInv, EngineInv
  <1>6. /\ buffers' = copy.buffers /\ DOMAIN pixels' = Arrays /\ past' = past /\ future' = future
    BY <1>1 DEF Arrange
  <1>7. {dirty', timer', aside', stroke'.in} \subseteq BOOLEAN
    BY <1>1 DEF DrawingInv, EngineInv
  <1> HIDE DEF copy
  <1> QED  BY <1>1, <1>2, <1>3, <1>5, <1>6, <1>7, GestureKeeps

\* commitStroke keeps the invariant.
LEMMA StrokeCommitKeeps ==
    ASSUME DrawingInv, UNCHANGED mode, StrokeCommit
    PROVE  DrawingInv'
  <1> DEFINE op == Op(Change(Keep, {}, noArrays, The(activeLayerId, stroke.before)),
                      Change(Keep, {}, noArrays, The(activeLayerId, strokesOf(activeLayerId))),
                      stroke.seen, Drawn(doc))
  <1>1. /\ session.open /\ dirty' = TRUE /\ timer' = TRUE /\ stroke' = NoStroke
        /\ Arrange(buffers, pixels, pushed(op), <<>>)
        /\ UNCHANGED <<doc, aside, lastId, session, draft, stored, slot, edits>>
    BY DEF StrokeCommit, Emits, savedVars
  <1>2. Fits(doc, edits) /\ FitsBuffers(buffers) /\ activeLayerId \in Ids /\ edits \in Nat
    BY <1>1, OpenPage DEF activeLayerId
  <1>3. FitsOp(op, edits)
    BY <1>2, CopyChangeFits DEF FitsOp, Op
  <1>4. FitsHistory(pushed(op), <<>>, edits)
    <2> HIDE DEF op
    <2> QED  BY <1>2, <1>3, PushFits DEF DrawingInv, EngineInv
  <1>5. buffers' = buffers /\ DOMAIN pixels' = Arrays /\ past' = pushed(op) /\ future' = <<>>
    BY <1>1 DEF Arrange
  <1>6. {dirty', timer', aside', stroke'.in} \subseteq BOOLEAN
    BY <1>1 DEF DrawingInv, EngineInv, NoStroke
  <1> HIDE DEF op
  <1> QED  BY <1>1, <1>2, <1>4, <1>5, <1>6, GestureKeeps

\* copySelection keeps the invariant.
LEMMA CopySelectionKeeps ==
    ASSUME DrawingInv, UNCHANGED mode, copySelection
    PROVE  DrawingInv'
  <1>1. /\ session.open
        /\ UNCHANGED <<doc, buffers, pixels, past, future, dirty, timer, stroke, aside, lastId, session,
                       draft, stored, slot, edits>>
    BY DEF copySelection, Gesture, savedVars
  <1>2. /\ Fits(doc, edits) /\ FitsBuffers(buffers) /\ DOMAIN pixels = Arrays
        /\ FitsHistory(past, future, edits) /\ {dirty, timer, aside, stroke.in} \subseteq BOOLEAN
    BY <1>1 DEF DrawingInv, EngineInv
  <1> QED  BY <1>1, <1>2, GestureKeeps

\* A property of a layer is changed: the invariant is kept.
LEMMA SetLayerKeeps ==
    ASSUME DrawingInv, UNCHANGED mode, NEW i \in DOMAIN doc.layers, NEW look \in Looks, setLayer(i, look)
    PROVE  DrawingInv'
  <1>1. /\ session.open /\ edits > 0 /\ edits' = edits - 1 /\ doc' = updateLayer(doc, i, look)
        /\ dirty' = TRUE /\ aside' = TRUE /\ timer' = TRUE
        /\ UNCHANGED <<buffers, pixels, past, future, stroke, lastId, session, draft, stored, slot>>
    BY DEF setLayer, Gesture, Emits, savedVars
  <1>2. Fits(doc, edits - 1) /\ edits - 1 \in Nat /\ edits \in Nat
    BY <1>1, OpenPage
  <1>3. Fits(updateLayer(doc, i, look), edits - 1)
    BY <1>2, LookFits
  <1>4. edits - 1 <= edits
    BY <1>2
  <1>5. /\ FitsBuffers(buffers) /\ DOMAIN pixels = Arrays /\ FitsHistory(past, future, edits - 1)
        /\ stroke.in \in BOOLEAN
    BY <1>2, <1>4, FitsLater DEF DrawingInv, EngineInv
  <1> QED  BY <1>1, <1>3, <1>5, GestureKeeps

\* An operation that is undone or redone.
LEMMA ReplayKeeps ==
    ASSUME DrawingInv, UNCHANGED <<mode, stroke, edits, lastId>>, Gesture, timer' = TRUE,
           NEW change, FitsChange(change, edits), NEW p, NEW f, FitsHistory(p, f, edits),
           Replay(change, p, f)
    PROVE  DrawingInv'
  <1> DEFINE bufs == Over(change.arrays, [id \in DOMAIN buffers \ change.deleted |-> buffers[id]])
             S == DOMAIN change.copied
             id == CHOOSE x \in S : TRUE
             copied == Copied(bufs, pixels, id, change.copied[id])
             copy == IF S = {} THEN [buffers |-> bufs, strokes |-> pixels] ELSE copied
  <1>1. session.open /\ UNCHANGED <<session, draft, stored, slot>>
    BY DEF Gesture, savedVars
  <1>2. /\ Fits(doc, edits) /\ FitsBuffers(buffers) /\ DOMAIN pixels = Arrays
        /\ {dirty, timer, aside, stroke.in} \subseteq BOOLEAN
    BY <1>1 DEF DrawingInv, EngineInv
  <1>3. /\ Room(bufs, 1) /\ Arrange(copy.buffers, copy.strokes, p, f)
        /\ doc' = IF change.doc = Keep THEN doc ELSE change.doc
        /\ dirty' = (dirty \/ change.doc # Keep)
        /\ aside' = (aside \/ DOMAIN change.arrays # {})
    BY DEF Replay
  <1>4. FitsBuffers(bufs)
    BY <1>2 DEF FitsChange, FitsBuffers, Over
  <1>5. FitsBuffers(copy.buffers)
    <2>1. CASE S = {}
      BY <1>4, <2>1
    <2>2. CASE S # {}
      <3>1. id \in S /\ S \subseteq Ids
        BY <2>2 DEF FitsChange
      <3>2. FitsBuffers(copied.buffers)
        <4> HIDE DEF bufs, id, S
        <4> QED  BY <1>2, <1>3, <1>4, <3>1, CopyFits
      <3> QED  BY <2>2, <3>2
    <2> QED  BY <2>1, <2>2
  <1>6. Fits(doc', edits)
    BY <1>2, <1>3 DEF FitsChange
  <1>7. buffers' = copy.buffers /\ DOMAIN pixels' = Arrays /\ past' = p /\ future' = f
    BY <1>3 DEF Arrange
  <1>8. {dirty', timer', aside', stroke'.in} \subseteq BOOLEAN
    BY <1>2, <1>3
  <1> HIDE DEF copy
  <1> QED  BY <1>1, <1>5, <1>6, <1>7, <1>8, GestureKeeps

\* Undo moves the last operation of the past to the front of the future.
LEMMA UndoKeeps ==
    ASSUME DrawingInv, UNCHANGED mode, Undo
    PROVE  DrawingInv'
  <1>1. /\ Gesture /\ past # <<>> /\ Replay(Last(past).undo, Front(past), <<Last(past)>> \o future)
        /\ timer' = TRUE /\ UNCHANGED <<stroke, edits, lastId>>
    BY DEF Undo, Emits
  <1>2. FitsHistory(past, future, edits)
    BY DEF DrawingInv, EngineInv
  <1>3. /\ Len(past) \in Nat /\ Len(past) > 0 /\ Len(past) \in 1 .. Len(past) /\ Len(future) \in Nat
    BY <1>1, <1>2, SeqShape DEF FitsHistory
  <1>4. Last(past) = past[Len(past)] /\ FitsOp(Last(past), edits)
    BY <1>2, <1>3 DEF FitsHistory, Last
  <1>5. /\ IsSeq(Front(past)) /\ Len(Front(past)) = Len(past) - 1
        /\ \A i \in 1 .. Len(past) - 1 : Front(past)[i] = past[i]
    BY <1>1, <1>2, FrontShape DEF FitsHistory
  <1> DEFINE f == <<Last(past)>> \o future
  <1>6. IsSeq(f) /\ Len(f) = 1 + Len(future)
        /\ \A i \in 1 .. 1 + Len(future) : f[i] = IF i <= 1 THEN Last(past) ELSE future[i - 1]
    <2>1. IsSeq(<<Last(past)>>) /\ Len(<<Last(past)>>) = 1 /\ <<Last(past)>>[1] = Last(past)
      BY OneIsSeq
    <2>2. /\ IsSeq(f) /\ Len(f) = 1 + Len(future)
          /\ \A i \in 1 .. 1 + Len(future) : f[i] = IF i <= 1 THEN <<Last(past)>>[i] ELSE future[i - 1]
      BY <1>2, <2>1, ConcatShape DEF FitsHistory
    <2>3. \A i \in 1 .. 1 + Len(future) : i <= 1 => i = 1
      BY <1>3
    <2> HIDE DEF f
    <2> QED  BY <2>1, <2>2, <2>3
  <1>7. FitsHistory(Front(past), f, edits)
    <2>1. \A i \in 1 .. Len(past) - 1 : i \in 1 .. Len(past)
      BY <1>3
    <2>2. \A i \in 1 .. Len(Front(past)) : FitsOp(Front(past)[i], edits)
      BY <1>2, <1>5, <2>1 DEF FitsHistory
    <2>3. \A i \in 1 .. 1 + Len(future) : i <= 1 \/ i - 1 \in 1 .. Len(future)
      BY <1>3
    <2>4. \A i \in 1 .. Len(f) : FitsOp(f[i], edits)
      <3> HIDE DEF f
      <3> QED  BY <1>2, <1>4, <1>6, <2>3 DEF FitsHistory
    <2>5. Len(Front(past)) + Len(f) <= Limit
      <3>1. Len(past) + Len(future) <= Limit /\ Limit \in Nat
        BY <1>2, DrawingAssumption DEF FitsHistory
      <3> HIDE DEF f
      <3> QED  BY <1>3, <1>5, <1>6, <3>1
    <2> HIDE DEF f
    <2> QED  BY <1>5, <1>6, <2>2, <2>4, <2>5 DEF FitsHistory
  <1>8. FitsChange(Last(past).undo, edits)
    BY <1>4 DEF FitsOp
  <1> HIDE DEF f
  <1> QED  BY <1>1, <1>7, <1>8, ReplayKeeps DEF f

\* Redo moves the first operation of the future to the end of the past.
LEMMA RedoKeeps ==
    ASSUME DrawingInv, UNCHANGED mode, Redo
    PROVE  DrawingInv'
  <1>1. /\ Gesture /\ future # <<>> /\ Replay(Head(future).redo, Append(past, Head(future)), Tail(future))
        /\ timer' = TRUE /\ UNCHANGED <<stroke, edits, lastId>>
    BY DEF Redo, Emits
  <1>2. FitsHistory(past, future, edits)
    BY DEF DrawingInv, EngineInv
  <1>3. /\ Len(past) \in Nat /\ Len(future) > 0 /\ Len(future) \in Nat /\ 1 \in 1 .. Len(future)
    BY <1>1, <1>2, SeqShape DEF FitsHistory
  <1>4. Head(future) = future[1]
    BY <1>1, <1>2 DEF FitsHistory, IsSeq
  <1>5. FitsOp(Head(future), edits)
    BY <1>2, <1>3, <1>4 DEF FitsHistory
  <1>6. /\ IsSeq(Tail(future)) /\ Len(Tail(future)) = Len(future) - 1
        /\ \A i \in 1 .. Len(future) - 1 : Tail(future)[i] = future[i + 1]
    BY <1>1, <1>2, TailShape DEF FitsHistory
  <1> DEFINE p == Append(past, Head(future))
  <1>7. /\ IsSeq(p) /\ Len(p) = Len(past) + 1
        /\ \A i \in 1 .. Len(past) : p[i] = past[i]
        /\ p[Len(past) + 1] = Head(future)
    BY <1>2, AppendShape DEF FitsHistory
  <1>8. FitsHistory(p, Tail(future), edits)
    <2>1. \A i \in 1 .. Len(future) - 1 : i + 1 \in 1 .. Len(future)
      BY <1>3
    <2>2. \A i \in 1 .. Len(Tail(future)) : FitsOp(Tail(future)[i], edits)
      BY <1>2, <1>6, <2>1 DEF FitsHistory
    <2>3. \A i \in 1 .. Len(past) + 1 : i \in 1 .. Len(past) \/ i = Len(past) + 1
      BY <1>3
    <2>4. \A i \in 1 .. Len(p) : FitsOp(p[i], edits)
      <3> HIDE DEF p
      <3> QED  BY <1>2, <1>5, <1>7, <2>3 DEF FitsHistory
    <2>5. Len(p) + Len(Tail(future)) <= Limit
      <3>1. Len(past) + Len(future) <= Limit /\ Limit \in Nat
        BY <1>2, DrawingAssumption DEF FitsHistory
      <3>2. (Len(past) + 1) + (Len(future) - 1) <= Limit
        BY <1>3, <3>1
      <3> QED  BY <1>6, <1>7, <3>2
    <2> HIDE DEF p
    <2> QED  BY <1>6, <1>7, <2>2, <2>4, <2>5 DEF FitsHistory
  <1>9. FitsChange(Head(future).redo, edits)
    BY <1>5 DEF FitsOp
  <1> HIDE DEF p
  <1> QED  BY <1>1, <1>8, <1>9, ReplayKeeps DEF p

-----------------------------------------------------------------------------
(* The page: loading, saving and leaving.                                   *)

\* The buffers of a new engine.
LEMMA EngineFits ==
    ASSUME NEW d, NEW e \in Nat, Fits(d, e) \/ d = NoDoc, NEW strokes, Engine(d, strokes)
    PROVE  /\ doc' = d /\ FitsBuffers(buffers') /\ DOMAIN pixels' = Arrays
           /\ past' = <<>> /\ future' = <<>> /\ dirty' = FALSE /\ stroke' = NoStroke /\ aside' = FALSE
           /\ edits' = edits
  <1> DEFINE at(id) == SelectInSeq(d.layers, LAMBDA l : l.id = id)
  <1>1. /\ doc' = d /\ buffers' = [id \in ids(d) |-> at(id)] /\ DOMAIN pixels' = Arrays
        /\ past' = <<>> /\ future' = <<>> /\ dirty' = FALSE /\ stroke' = NoStroke /\ aside' = FALSE
        /\ edits' = edits
    BY DEF Engine
  <1>2. CASE d = NoDoc
    <2>1. ids(d) = {}
      BY <1>2 DEF ids, NoDoc
    <2> QED  BY <1>1, <2>1 DEF FitsBuffers
  <1>3. CASE Fits(d, e)
    <2>1. /\ Len(d.layers) \in Nat /\ DOMAIN d.layers = 1 .. Len(d.layers) /\ ids(d) \subseteq Ids
      BY <1>3, LayersOf
    <2>2. Len(d.layers) <= MaxArrays
      <3>1. MaxEdits \in Nat /\ MaxArrays \in Nat /\ MaxEdits < MaxArrays
        BY DrawingAssumption
      <3> QED  BY <1>3, <2>1, <3>1 DEF Fits
    <2>3. ASSUME NEW id \in ids(d) PROVE at(id) \in Arrays
      <3> DEFINE I == {i \in 1 .. Len(d.layers) : d.layers[i].id = id}
      <3>1. at(id) = IF I # {} THEN Min(I) ELSE 0
        BY DEF SelectInSeq
      <3>2. I # {} /\ I \in SUBSET Nat
        BY <2>1 DEF ids
      <3>3. Min(I) \in I
        <4> HIDE DEF I
        <4> QED  BY <3>2, FirstPosition
      <3>4. at(id) \in 1 .. Len(d.layers)
        BY <3>1, <3>2, <3>3
      <3>5. MaxArrays \in Nat
        BY DrawingAssumption
      <3> HIDE DEF at
      <3> QED  BY <2>1, <2>2, <3>4, <3>5 DEF Arrays
    <2> HIDE DEF at
    <2> QED  BY <1>1, <2>1, <2>3 DEF FitsBuffers
  <1> QED  BY <1>1, <1>2, <1>3

\* A history without operations fits.
LEMMA EmptyHistoryFits == \A e : FitsHistory(<<>>, <<>>, e)
  <1>1. Limit \in Nat
    BY DrawingAssumption
  <1> QED  BY <1>1, NoneIsSeq DEF FitsHistory

\* A page that is opened gets the engine of a draft, of the stored document or of a new one.
LEMMA OpenedEngine ==
    ASSUME DrawingInv, Open
    PROVE  \E d, strokes : Fits(d, edits) /\ Engine(d, strokes) /\ draft' \in {draft, NoManifest}
  <1>1. session.left > 0
    BY DEF Open
  <1>2. PICK had \in BOOLEAN, image \in BOOLEAN :
          /\ had => stored # NoManifest
          /\ \/ /\ draft # NoManifest
                /\ Engine(draft.doc, Blank(draft.doc))
                /\ UNCHANGED draft
             \/ /\ draft' = NoManifest
                /\ IF had THEN Engine(stored.doc, stored.strokes)
                   ELSE LET d == createDocument(IF image THEN lastId + 2 ELSE lastId)
                        IN Engine(d, [id \in ids(d) |-> IF image THEN picture ELSE {}])
    BY DEF Open
  <1>3. /\ MaxEdits \in Nat /\ MaxSessions \in Nat /\ edits \in Nat /\ edits <= MaxEdits /\ lastId \in Nat
        /\ session.left \in Nat /\ lastId + 4 * session.left + edits <= 4 * MaxSessions + MaxEdits
    BY Bounds DEF DrawingInv, Counts
  <1>4. lastId + 1 \in Ids /\ lastId + 3 \in Ids
    <2>1. lastId + 3 <= 4 * MaxSessions + MaxEdits /\ lastId + 3 \in Nat /\ lastId + 1 \in Nat
          /\ lastId + 1 <= 4 * MaxSessions + MaxEdits
      BY <1>1, <1>3
    <2> QED  BY <2>1, Bounds DEF DrawingInv
  <1>5. CASE draft # NoManifest /\ Engine(draft.doc, Blank(draft.doc)) /\ UNCHANGED draft
    <2>1. Fits(draft.doc, edits)
      BY <1>5 DEF DrawingInv, SavedInv, Manifest
    <2> QED  BY <1>5, <2>1
  <1>6. CASE had /\ draft' = NoManifest /\ Engine(stored.doc, stored.strokes)
    <2>1. Fits(stored.doc, edits)
      BY <1>2, <1>6 DEF DrawingInv, SavedInv, Manifest
    <2> QED  BY <1>6, <2>1
  <1>7. CASE ~had /\ draft' = NoManifest
             /\ LET d == createDocument(IF image THEN lastId + 2 ELSE lastId)
                IN Engine(d, [id \in ids(d) |-> IF image THEN picture ELSE {}])
    <2> DEFINE last == IF image THEN lastId + 2 ELSE lastId
               d == createDocument(last)
               strokes == [id \in ids(d) |-> IF image THEN picture ELSE {}]
    <2>1. last + 1 \in Ids
      <3>1. (lastId + 2) + 1 = lastId + 3
        BY <1>3
      <3> QED  BY <1>4, <3>1
    <2>2. Fits(d, edits)
      <3>1. "plain" \in Looks
        BY DEF Looks
      <3> HIDE DEF last
      <3> QED  BY <1>3, <2>1, <3>1, OneLayerFits DEF createDocument
    <2>3. Engine(d, strokes)
      BY <1>7
    <2> HIDE DEF d, strokes
    <2> QED  BY <1>7, <2>2, <2>3
  <1> QED  BY <1>2, <1>5, <1>6, <1>7

\* A page is opened with new counts and an empty history.
LEMMA OpenKeeps ==
    ASSUME DrawingInv, UNCHANGED mode, Open
    PROVE  DrawingInv'
  <1>1. /\ ~session.open /\ session.left > 0 /\ session' = [session EXCEPT !.open = TRUE, !.left = @ - 1]
        /\ UNCHANGED <<timer, stored, slot>>
    BY DEF Open
  <1>2. /\ MaxEdits \in Nat /\ MaxSessions \in Nat /\ edits \in Nat /\ edits <= MaxEdits /\ lastId \in Nat
        /\ session.left \in Nat /\ lastId + 4 * session.left + edits <= 4 * MaxSessions + MaxEdits
        /\ session.left \in 0 .. MaxSessions /\ session.saves \in 0 .. MaxSaves
    BY Bounds DEF DrawingInv, Counts
  <1>3. session.left - 1 \in 0 .. MaxSessions /\ session.left >= 1
    BY <1>1, <1>2
  <1>4. lastId' \in Nat /\ lastId' <= lastId + 4
    <2>1. lastId' \in {lastId, lastId + 4, lastId + 2}
      BY DEF Open
    <2> QED  BY <1>2, <2>1
  <1>5. lastId' + 4 * (session.left - 1) + edits <= 4 * MaxSessions + MaxEdits
    BY <1>2, <1>3, <1>4
  <1>6. session'.open = TRUE /\ session'.left = session.left - 1
        /\ session' \in [open : BOOLEAN, left : 0 .. MaxSessions, saves : 0 .. MaxSaves]
    BY <1>1, <1>3 DEF DrawingInv, Counts
  <1>7. PICK d, strokes : Fits(d, edits) /\ Engine(d, strokes) /\ draft' \in {draft, NoManifest}
    BY OpenedEngine
  <1>8. /\ doc' = d /\ FitsBuffers(buffers') /\ DOMAIN pixels' = Arrays
        /\ past' = <<>> /\ future' = <<>> /\ dirty' = FALSE /\ stroke' = NoStroke /\ aside' = FALSE
        /\ edits' = edits
    BY <1>2, <1>7, EngineFits
  <1>9. EngineInv'
    <2>1. timer' \in BOOLEAN /\ stroke'.in \in BOOLEAN
      BY <1>1, <1>8 DEF DrawingInv, EngineInv, NoStroke
    <2>2. Fits(doc', edits') /\ session'.open
      BY <1>6, <1>7, <1>8
    <2>3. FitsHistory(past', future', edits')
      BY <1>8, EmptyHistoryFits
    <2> HIDE DEF DrawingInv
    <2> QED  BY <1>8, <2>1, <2>2, <2>3 DEF EngineInv
  <1>10. SavedInv'
    BY <1>1, <1>6, <1>7, <1>8 DEF DrawingInv, SavedInv, FitsSlot
  <1>11. Counts'
    <2>1. edits' \in 0 .. MaxEdits
      BY <1>8 DEF DrawingInv, Counts
    <2>2. lastId' + 4 * session'.left + edits' <= 4 * MaxSessions + MaxEdits
      BY <1>5, <1>6, <1>8
    <2> QED  BY <1>4, <1>6, <2>1, <2>2 DEF Counts
  <1> QED  BY <1>9, <1>10, <1>11 DEF DrawingInv

\* What serializeDoc gives of an open page.
LEMMA SerializedFits ==
    ASSUME DrawingInv, session.open
    PROVE  Manifest(serialized, edits)
  <1>1. Fits(doc, edits)
    BY OpenPage
  <1> QED  BY <1>1 DEF Manifest, serialized

\* Requests come and go, and what they store is what they have read.
LEMMA SavingKeeps ==
    ASSUME DrawingInv, UNCHANGED <<mode, doc, buffers, pixels, past, future, stroke, edits, aside, lastId>>,
           dirty' \in BOOLEAN, timer' \in BOOLEAN, timer' => timer,
           \A m \in {draft', stored'} : m = NoManifest \/ Manifest(m, edits),
           NEW c \in Slots, NEW request, slot' = [slot EXCEPT ![c] = request] \/ UNCHANGED slot,
           FitsSlot(request, edits),
           \/ UNCHANGED session
           \/ session.saves > 0 /\ session' = [session EXCEPT !.saves = @ - 1]
    PROVE  DrawingInv'
  <1>1. /\ session'.open = session.open /\ session'.left = session.left
        /\ session' \in [open : BOOLEAN, left : 0 .. MaxSessions, saves : 0 .. MaxSaves]
    <2>1. session \in [open : BOOLEAN, left : 0 .. MaxSessions, saves : 0 .. MaxSaves]
      BY DEF DrawingInv, Counts
    <2>2. session.saves > 0 => session.saves - 1 \in 0 .. MaxSaves
      BY <2>1, DrawingAssumption
    <2> QED  BY <2>1, <2>2
  <1>2. Counts'
    BY <1>1 DEF DrawingInv, Counts
  <1>3. EngineInv'
    BY <1>1 DEF DrawingInv, EngineInv
  <1>4. DOMAIN slot' = Slots /\ \A x \in Slots : slot'[x] = request \/ slot'[x] = slot[x]
    BY DEF DrawingInv, SavedInv
  <1>5. SavedInv'
    <2>1. \A x \in Slots : FitsSlot(slot[x], edits)
      BY DEF DrawingInv, SavedInv
    <2>2. ASSUME NEW x \in Slots PROVE FitsSlot(slot[x], edits)'
      BY <1>1, <1>4, <2>1 DEF FitsSlot
    <2> QED  BY <1>4, <2>2 DEF SavedInv
  <1> QED  BY <1>2, <1>3, <1>5 DEF DrawingInv

\* A slot without a request.
LEMMA IdleFits == \A e : FitsSlot(Idle, e)
  BY DEF FitsSlot, Idle, DrawingSteps

\* The timer of the autosave.
LEMMA AutosaveFiresKeeps ==
    ASSUME DrawingInv, UNCHANGED mode, NEW c \in Slots, AutosaveFires(c)
    PROVE  DrawingInv'
  <1>1. /\ timer /\ timer' = FALSE
        /\ UNCHANGED <<doc, buffers, pixels, past, future, dirty, stroke, edits, aside, lastId, draft, stored>>
    BY DEF AutosaveFires, engineVars, savedVars
  <1>2. session.open /\ dirty' \in BOOLEAN
    BY <1>1 DEF DrawingInv, EngineInv
  <1>3. \A m \in {draft', stored'} : m = NoManifest \/ Manifest(m, edits)
    BY <1>1 DEF DrawingInv, SavedInv
  <1>4. CASE dirty /\ Save /\ Enter(c, [pc |-> "autosave_write", drawing |-> serialized])
    <2> DEFINE request == [pc |-> "autosave_write", drawing |-> serialized]
    <2>1. slot' = [slot EXCEPT ![c] = request]
      BY <1>4 DEF Enter
    <2>2. FitsSlot(request, edits)
      BY <1>2, SerializedFits DEF FitsSlot, DrawingSteps
    <2>3. session.saves > 0 /\ session' = [session EXCEPT !.saves = @ - 1]
      BY <1>4 DEF Save
    <2> HIDE DEF request
    <2> QED  BY <1>1, <1>2, <1>3, <2>1, <2>2, <2>3, SavingKeeps
  <1>5. CASE UNCHANGED <<session, slot>>
    <2>1. FitsSlot(slot[c], edits)
      BY DEF DrawingInv, SavedInv
    <2> QED  BY <1>1, <1>2, <1>3, <1>5, <2>1, SavingKeeps
  <1> QED  BY <1>4, <1>5 DEF AutosaveFires

\* A step of a request that leaves the engine and the counts alone.
LEMMA RequestKeeps ==
    ASSUME DrawingInv,
           UNCHANGED <<mode, doc, buffers, pixels, past, future, stroke, edits, aside, lastId, timer, session>>,
           dirty' = dirty \/ dirty' = FALSE,
           draft' \in {draft, NoManifest} \/ Manifest(draft', edits),
           stored' = stored \/ Manifest(stored', edits),
           NEW c \in Slots, NEW request, slot' = [slot EXCEPT ![c] = request], FitsSlot(request, edits)
    PROVE  DrawingInv'
  <1>1. dirty' \in BOOLEAN /\ timer' \in BOOLEAN
    BY DEF DrawingInv, EngineInv
  <1>2. \A m \in {draft', stored'} : m = NoManifest \/ Manifest(m, edits)
    BY DEF DrawingInv, SavedInv
  <1> QED  BY <1>1, <1>2, SavingKeeps

\* The draft is what the autosave has serialized.
LEMMA AutosaveWriteKeeps ==
    ASSUME DrawingInv, UNCHANGED mode, NEW c \in Slots, AutosaveWrite(c)
    PROVE  DrawingInv'
  <1>1. /\ slot[c].pc = "autosave_write" /\ draft' = slot[c].drawing /\ slot' = [slot EXCEPT ![c] = Idle]
        /\ UNCHANGED <<doc, buffers, pixels, past, future, dirty, stroke, edits, aside, lastId, timer,
                       session, stored>>
    BY DEF AutosaveWrite, At, Finish, engineVars
  <1>2. Manifest(draft', edits)
    BY <1>1 DEF DrawingInv, SavedInv, FitsSlot
  <1> QED  BY <1>1, <1>2, IdleFits, RequestKeeps

\* The save of the user finds the page open.
LEMMA SaveClickKeeps ==
    ASSUME DrawingInv, UNCHANGED mode, NEW c \in Slots, SaveClick(c)
    PROVE  DrawingInv'
  <1> DEFINE request == [pc |-> "save_version", session |-> session.left, picture |-> composite]
  <1>1. /\ session.open /\ slot' = [slot EXCEPT ![c] = request]
        /\ session.saves > 0 /\ session' = [session EXCEPT !.saves = @ - 1]
        /\ UNCHANGED <<doc, buffers, pixels, past, future, dirty, stroke, edits, aside, lastId, timer,
                       draft, stored>>
    BY DEF SaveClick, Save, Enter, engineVars, savedVars
  <1>2. FitsSlot(request, edits)
    BY <1>1 DEF FitsSlot, DrawingSteps
  <1>3. dirty' \in BOOLEAN /\ timer' \in BOOLEAN
    BY <1>1 DEF DrawingInv, EngineInv
  <1>4. \A m \in {draft', stored'} : m = NoManifest \/ Manifest(m, edits)
    BY <1>1 DEF DrawingInv, SavedInv
  <1> HIDE DEF request
  <1> QED  BY <1>1, <1>2, <1>3, <1>4, SavingKeeps

\* The page is still open when the upload of the picture is answered.
LEMMA SaveVersionKeeps ==
    ASSUME DrawingInv, UNCHANGED mode, NEW c \in Slots, SaveVersion(c)
    PROVE  DrawingInv'
  <1> DEFINE request == [pc |-> "save_doc", session |-> slot[c].session, drawing |-> serialized]
  <1>1. /\ slot[c].pc = "save_version" /\ slot' = [slot EXCEPT ![c] = request]
        /\ UNCHANGED <<doc, buffers, pixels, past, future, dirty, stroke, edits, aside, lastId, timer,
                       session, draft, stored>>
    BY DEF SaveVersion, At, Become, engineVars
  <1>2. session.open
    BY <1>1 DEF DrawingInv, SavedInv, FitsSlot
  <1>3. FitsSlot(request, edits)
    BY <1>2, SerializedFits DEF FitsSlot, DrawingSteps
  <1> HIDE DEF request
  <1> QED  BY <1>1, <1>3, RequestKeeps

\* The stored document is what the save has serialized.
LEMMA SaveDocKeeps ==
    ASSUME DrawingInv, UNCHANGED mode, NEW c \in Slots, SaveDoc(c)
    PROVE  DrawingInv'
  <1> DEFINE request == [pc |-> "save_mark", session |-> slot[c].session]
  <1>1. /\ slot[c].pc = "save_doc" /\ stored' = slot[c].drawing /\ slot' = [slot EXCEPT ![c] = request]
        /\ UNCHANGED <<doc, buffers, pixels, past, future, dirty, stroke, edits, aside, lastId, timer,
                       session, draft>>
    BY DEF SaveDoc, At, Become, engineVars
  <1>2. Manifest(stored', edits)
    BY <1>1 DEF DrawingInv, SavedInv, FitsSlot
  <1>3. FitsSlot(request, edits)
    BY DEF FitsSlot, DrawingSteps
  <1> HIDE DEF request
  <1> QED  BY <1>1, <1>2, <1>3, RequestKeeps

\* The revision is marked saved, and the draft is gone.
LEMMA SaveMarkKeeps ==
    ASSUME DrawingInv, UNCHANGED mode, NEW c \in Slots, SaveMark(c)
    PROVE  DrawingInv'
  <1>1. /\ draft' = NoManifest /\ slot' = [slot EXCEPT ![c] = Idle]
        /\ dirty' = (dirty /\ ~(session.open /\ slot[c].session = session.left))
        /\ UNCHANGED <<doc, buffers, pixels, past, future, stroke, edits, aside, lastId, timer,
                       session, stored>>
    BY DEF SaveMark, Finish
  <1>2. dirty' = dirty \/ dirty' = FALSE
    BY <1>1 DEF DrawingInv, EngineInv
  <1> QED  BY <1>1, <1>2, IdleFits, RequestKeeps

\* A request that fails leaves the drawing alone.
LEMMA StudioFailsKeeps ==
    ASSUME DrawingInv, UNCHANGED mode, NEW c \in Slots, StudioFails(c)
    PROVE  DrawingInv'
  <1>1. /\ slot' = [slot EXCEPT ![c] = Idle]
        /\ UNCHANGED <<doc, buffers, pixels, past, future, dirty, stroke, edits, aside, lastId, timer,
                       session, draft, stored>>
    BY DEF StudioFails, Fail, Finish, engineVars, savedVars
  <1> QED  BY <1>1, IdleFits, RequestKeeps

\* The page is left.
LEMMA GoneKeeps ==
    ASSUME DrawingInv, UNCHANGED <<mode, draft, stored>>, Gone, lastId' \in {lastId, 0},
           DOMAIN slot' = Slots,
           \A c \in Slots : slot'[c].pc # "save_version" /\ FitsSlot(slot'[c], edits)
    PROVE  DrawingInv'
  <1>1. /\ session.open /\ session' = [session EXCEPT !.open = FALSE] /\ Engine(NoDoc, Blank(NoDoc))
        /\ timer' = FALSE
    BY DEF Gone
  <1>2. edits \in Nat /\ lastId \in Nat /\ MaxSessions \in Nat /\ MaxEdits \in Nat /\ session.left \in Nat
    BY Bounds DEF DrawingInv
  <1>3. /\ doc' = NoDoc /\ FitsBuffers(buffers') /\ DOMAIN pixels' = Arrays
        /\ past' = <<>> /\ future' = <<>> /\ dirty' = FALSE /\ stroke' = NoStroke /\ aside' = FALSE
        /\ edits' = edits
    BY <1>1, <1>2, EngineFits
  <1>4. /\ session'.open = FALSE /\ session'.left = session.left
        /\ session' \in [open : BOOLEAN, left : 0 .. MaxSessions, saves : 0 .. MaxSaves]
    BY <1>1 DEF DrawingInv, Counts
  <1>5. EngineInv'
    BY <1>1, <1>3, <1>4, EmptyHistoryFits DEF EngineInv, NoStroke
  <1>6. Counts'
    <2>1. lastId + 4 * session.left + edits <= 4 * MaxSessions + MaxEdits /\ edits \in 0 .. MaxEdits
      BY DEF DrawingInv, Counts
    <2>2. lastId' \in Nat /\ lastId' <= lastId
      BY <1>2
    <2>3. lastId' + 4 * session.left + edits <= 4 * MaxSessions + MaxEdits
      BY <1>2, <2>1, <2>2
    <2> QED  BY <1>3, <1>4, <2>1, <2>2, <2>3 DEF Counts
  <1>7. SavedInv'
    BY <1>3 DEF DrawingInv, SavedInv, FitsSlot
  <1> QED  BY <1>5, <1>6, <1>7 DEF DrawingInv

\* The page is closed; a save that waits for its answer goes on with what it has read.
LEMMA CloseKeeps ==
    ASSUME DrawingInv, UNCHANGED mode, Close
    PROVE  DrawingInv'
  <1>1. /\ Gone /\ UNCHANGED <<lastId, draft, stored>>
        /\ slot' = [c \in Slots |->
                      IF At(c, "save_version")
                      THEN [pc |-> "save_doc", session |-> slot[c].session, drawing |-> serialized]
                      ELSE slot[c]]
    BY DEF Close
  <1>2. session.open
    BY <1>1 DEF Gone
  <1>3. Manifest(serialized, edits)
    BY <1>2, SerializedFits
  <1>4. \A c \in Slots : slot'[c].pc # "save_version" /\ FitsSlot(slot'[c], edits)
    <2> SUFFICES ASSUME NEW c \in Slots PROVE slot'[c].pc # "save_version" /\ FitsSlot(slot'[c], edits)
      OBVIOUS
    <2>1. CASE At(c, "save_version")
      <3>1. slot'[c] = [pc |-> "save_doc", session |-> slot[c].session, drawing |-> serialized]
        BY <1>1, <2>1
      <3> QED  BY <1>3, <3>1 DEF FitsSlot, DrawingSteps
    <2>2. CASE ~At(c, "save_version")
      <3>1. slot'[c] = slot[c]
        BY <1>1, <2>2
      <3> QED  BY <2>2, <3>1 DEF At, DrawingInv, SavedInv
    <2> QED  BY <2>1, <2>2
  <1>5. DOMAIN slot' = Slots
    BY <1>1
  <1> QED  BY <1>1, <1>4, <1>5, GoneKeeps

\* The tab is closed or loaded anew.
LEMMA UnloadKeeps ==
    ASSUME DrawingInv, UNCHANGED mode, Unload
    PROVE  DrawingInv'
  <1>1. Gone /\ UNCHANGED <<draft, stored>> /\ slot' = [c \in Slots |-> Idle] /\ lastId' = 0
    BY DEF Unload, savedVars
  <1>2. \A c \in Slots : slot'[c].pc # "save_version" /\ FitsSlot(slot'[c], edits)
    BY <1>1, IdleFits DEF Idle
  <1> QED  BY <1>1, <1>2, GoneKeeps

-----------------------------------------------------------------------------
\* Every gesture keeps the invariant.
LEMMA DrawsKeep ==
    ASSUME DrawingInv, UNCHANGED mode, Draws
    PROVE  DrawingInv'
  <1>1. CASE StrokeBegin
    BY <1>1, StrokeBeginKeeps
  <1>2. CASE StrokeCommit
    BY <1>2, StrokeCommitKeeps
  <1>3. CASE copySelection
    BY <1>3, CopySelectionKeeps
  <1>4. CASE paste
    BY <1>4, NewLayerKeeps DEF paste
  <1>5. CASE AddLayer
    BY <1>5, NewLayerKeeps DEF AddLayer
  <1>6. CASE LayerAside
    BY <1>6, LayerAsideKeeps
  <1>7. CASE RemoveLayer
    BY <1>7, RemoveKeeps
  <1>8. CASE DuplicateLayer
    BY <1>8, DuplicateKeeps
  <1>9. CASE MergeDown
    BY <1>9, MergeKeeps
  <1>10. CASE FlattenImage
    BY <1>10, FlattenKeeps
  <1>11. CASE \E i \in DOMAIN doc.layers : \E look \in Looks : setLayer(i, look)
    BY <1>11, SetLayerKeeps
  <1>12. CASE \E i \in DOMAIN doc.layers : setActiveLayer(doc.layers[i].id)
    BY <1>12, ActiveKeeps
  <1>13. CASE Undo
    BY <1>13, UndoKeeps
  <1>14. CASE Redo
    BY <1>14, RedoKeeps
  <1> QED  BY <1>1, <1>2, <1>3, <1>4, <1>5, <1>6, <1>7, <1>8, <1>9, <1>10, <1>11, <1>12, <1>13, <1>14 DEF Draws

\* The scenes of a drawing satisfy the invariant.
LEMMA DrawingStarts ==
    ASSUME DrawingInit
    PROVE  DrawingInv
  <1>1. PICK s \in DrawingScenes : mode = s.mode /\ DrawingStart(s)
    BY DEF DrawingInit
  <1>2. s \in [mode : Modes, edits : 1 .. MaxEdits, openings : 1 .. MaxSessions, saves : 0 .. MaxSaves]
    BY DrawingAssumption
  <1>3. MaxEdits \in Nat /\ MaxSessions \in Nat /\ MaxSaves \in Nat
    BY DrawingAssumption
  <1>4. Counts
    <2>1. session = [open |-> FALSE, left |-> s.openings, saves |-> s.saves] /\ lastId = 0 /\ edits = s.edits
      BY <1>1 DEF DrawingStart
    <2>2. s.openings \in 0 .. MaxSessions /\ s.saves \in 0 .. MaxSaves /\ s.edits \in 0 .. MaxEdits
      BY <1>2, <1>3
    <2>3. 0 + 4 * s.openings + s.edits <= 4 * MaxSessions + MaxEdits
      BY <1>3, <2>2
    <2> QED  BY <2>1, <2>2, <2>3 DEF Counts
  <1>5. EngineInv
    BY <1>1, EmptyHistoryFits DEF DrawingStart, EngineInv, FitsBuffers, NoStroke
  <1>6. SavedInv
    <2>1. slot = [c \in Slots |-> Idle]
      BY DEF DrawingInit, RequestsInit
    <2> QED  BY <1>1, <2>1, IdleFits DEF DrawingStart, SavedInv
  <1>7. mode \in Modes
    BY DEF DrawingInit, RequestsInit
  <1> QED  BY <1>4, <1>5, <1>6, <1>7 DEF DrawingInv

\* Every step keeps the invariant.
LEMMA DrawingKeeps ==
    ASSUME DrawingInv, [DrawingNext]_drawingVars
    PROVE  DrawingInv'
  <1>1. CASE UNCHANGED drawingVars
    BY <1>1 DEF drawingVars, engineVars, savedVars, requestVars, DrawingInv, Counts, EngineInv, SavedInv,
                FitsHistory, FitsBuffers, FitsSlot
  <1>2. CASE DrawingNext
    <2>1. UNCHANGED mode
      BY <1>2 DEF DrawingNext
    <2>2. CASE Draws
      BY <2>1, <2>2, DrawsKeep
    <2>3. CASE Open
      BY <2>1, <2>3, OpenKeeps
    <2>4. CASE Close
      BY <2>1, <2>4, CloseKeeps
    <2>5. CASE Unload
      BY <2>1, <2>5, UnloadKeeps
    <2>6. ASSUME NEW c \in Slots,
                 \/ AutosaveFires(c) \/ AutosaveWrite(c) \/ SaveClick(c) \/ SaveVersion(c)
                 \/ SaveDoc(c) \/ SaveMark(c) \/ StudioFails(c)
          PROVE  DrawingInv'
      BY <2>1, <2>6, AutosaveFiresKeeps, AutosaveWriteKeeps, SaveClickKeeps, SaveVersionKeeps, SaveDocKeeps,
         SaveMarkKeeps, StudioFailsKeeps
    <2> QED  BY <1>2, <2>2, <2>3, <2>4, <2>5, <2>6 DEF DrawingNext
  <1> QED  BY <1>1, <1>2

\* The documents, buffers and counts of a drawing fit the bounds, and what is saved is a
\* document with the strokes of its layers.
THEOREM DrawingInvariant == DrawingSpec => []DrawingInv
  <1>1. DrawingInit => DrawingInv
    BY DrawingStarts
  <1>2. DrawingInv /\ [DrawingNext]_drawingVars => DrawingInv'
    BY DrawingKeeps
  <1> QED  BY <1>1, <1>2, PTL DEF DrawingSpec

\* The invariant gives the types.
LEMMA DrawingTyped ==
    ASSUME DrawingInv
    PROVE  DrawingTypeOK
  <1>1. ASSUME NEW i \in DOMAIN doc.layers PROVE doc.layers[i].id \in Ids /\ doc.layers[i].look \in Looks
    <2>1. CASE Fits(doc, edits)
      <3>1. doc.layers[i] \in Layer
        BY <2>1, LayersOf
      <3> QED  BY <3>1 DEF Layer
    <2>2. CASE doc = NoDoc
      BY <2>2 DEF NoDoc
    <2> QED  BY <2>1, <2>2 DEF DrawingInv, EngineInv
  <1>2. session.open => doc.activeLayerId \in Ids
    BY DEF DrawingInv, EngineInv, Fits
  <1>3. \A m \in {draft, stored} : DOMAIN m.strokes = ids(m.doc)
    <2>1. DOMAIN NoManifest.strokes = ids(NoManifest.doc)
      BY DEF NoManifest, ids, NoDoc
    <2> QED  BY <2>1 DEF DrawingInv, SavedInv, Manifest
  <1>4. lastId \in Ids
    BY Bounds DEF DrawingInv
  <1>5. {dirty, timer, aside} \subseteq BOOLEAN /\ stroke.in \in BOOLEAN /\ (stroke.in => session.open)
    BY DEF DrawingInv, EngineInv
  <1>6. DOMAIN buffers \subseteq Ids /\ \A id \in DOMAIN buffers : buffers[id] \in Arrays
    BY DEF DrawingInv, EngineInv, FitsBuffers
  <1>7. Len(past) + Len(future) <= Limit
    BY DEF DrawingInv, EngineInv, FitsHistory
  <1>8. session.left \in 0 .. MaxSessions /\ session.saves \in 0 .. MaxSaves /\ edits \in 0 .. MaxEdits
    BY DEF DrawingInv, Counts
  <1>9. \A c \in Slots : slot[c].pc \in DrawingSteps
    BY DEF DrawingInv, SavedInv, FitsSlot
  <1> QED  BY <1>1, <1>2, <1>3, <1>4, <1>5, <1>6, <1>7, <1>8, <1>9 DEF DrawingTypeOK

\* A drawing keeps to its types, however it is edited, saved, left and opened again.
THEOREM DrawingTypes == DrawingSpec => []DrawingTypeOK
  BY DrawingInvariant, DrawingTyped, PTL

-----------------------------------------------------------------------------
(* Undo: what an operation shows before and after itself.                   *)

\* Every buffer has an array of its own.
Apart(bufs) == \A i, j \in DOMAIN bufs : bufs[i] = bufs[j] => i = j

\* What is shown, with these strokes on the layer of an id.
Repainted(v, id, s) ==
    [i \in DOMAIN v |-> [id |-> v[i].id, look |-> v[i].look,
                         strokes |-> IF v[i].id = id THEN s ELSE v[i].strokes]]

\* What is shown has the layers of a document.
ShowsLayers(v, d) ==
    v = [i \in DOMAIN d.layers |-> [id |-> d.layers[i].id, look |-> d.layers[i].look,
                                    strokes |-> v[i].strokes]]

Plain(change, deleted, copied) ==
    change.deleted = deleted /\ DOMAIN change.arrays = {} /\ DOMAIN change.copied = copied

\* A stroke on the layer of an id.
Paints(op, id) ==
    /\ Plain(op.undo, {}, {id}) /\ Plain(op.redo, {}, {id})
    /\ op.undo.doc = Keep /\ op.redo.doc = Keep
    /\ op.before = Repainted(op.after, id, op.undo.copied[id])
    /\ op.after = Repainted(op.before, id, op.redo.copied[id])

\* A layer more, with a new id.
AddsLayer(op, id) ==
    /\ Plain(op.undo, {id}, {}) /\ Plain(op.redo, {}, {id})
    /\ op.undo.doc # Keep /\ op.redo.doc # Keep
    /\ ShowsLayers(op.before, op.undo.doc) /\ ShowsLayers(op.after, op.redo.doc)
    /\ DOMAIN op.before \subseteq DOMAIN op.after
    /\ \A i \in DOMAIN op.before : op.before[i].id # id /\ op.after[i] = op.before[i]
    /\ \A i \in DOMAIN op.after \ DOMAIN op.before :
          op.after[i].id = id /\ op.after[i].strokes = op.redo.copied[id]

\* Another active layer.
Activates(op) ==
    /\ Plain(op.undo, {}, {}) /\ Plain(op.redo, {}, {})
    /\ op.undo.doc # Keep /\ op.redo.doc # Keep
    /\ op.before = op.after
    /\ ShowsLayers(op.before, op.undo.doc) /\ ShowsLayers(op.before, op.redo.doc)

Reversible(op) == (\E id \in Ids : Paints(op, id) \/ AddsLayer(op, id)) \/ Activates(op)

\* Operations one after the other, of which v is shown between the past and the future.
Chained(p, f, v) ==
    /\ \A i \in 1 .. Len(p) : DOMAIN p[i].undo.arrays # {} \/ Reversible(p[i])
    /\ \A i \in 1 .. Len(f) : Reversible(f[i])
    /\ \A i \in 1 .. Len(p) - 1 : p[i].after = p[i + 1].before
    /\ \A i \in 1 .. Len(f) - 1 : f[i].after = f[i + 1].before
    /\ Len(p) > 0 => p[Len(p)].after = v
    /\ Len(f) > 0 => f[1].before = v

\* What is drawn, or was when the stroke began.
drawnLast == IF stroke.in THEN stroke.seen ELSE Drawn(doc)

UndoInv ==
    InTurn /\ session.open /\ ~aside =>
        /\ Apart(buffers)
        /\ stroke.in => stroke.seen = Repainted(Drawn(doc), doc.activeLayerId, stroke.before)
        /\ Chained(past, future, drawnLast)

\* The strokes of the layers, after the buffers and arrays have been arranged.
LEMMA ArrangedStrokes ==
    ASSUME NEW bufs, FitsBuffers(bufs), NEW strokes, NEW p, NEW f, Arrange(bufs, strokes, p, f)
    PROVE  \A id : strokesOf(id)' = IF id \in DOMAIN bufs THEN strokes[bufs[id]] ELSE {}
  <1>1. /\ buffers' = bufs
        /\ pixels' = [a \in Arrays |-> IF a \in held(bufs, p \o f) THEN strokes[a] ELSE {}]
    BY DEF Arrange
  <1>2. ASSUME NEW id \in DOMAIN bufs PROVE bufs[id] \in Arrays /\ bufs[id] \in held(bufs, p \o f)
    BY DEF FitsBuffers, held
  <1> QED  BY <1>1, <1>2 DEF strokesOf

\* The strokes of the layers, after some have been copied into a buffer.
LEMMA CopiedStrokes ==
    ASSUME NEW bufs, FitsBuffers(bufs), Apart(bufs), NEW strokes, DOMAIN strokes = Arrays,
           NEW id \in Ids, NEW s, Room(bufs, 1)
    PROVE  LET copy == Copied(bufs, strokes, id, s) IN
           /\ Apart(copy.buffers) /\ DOMAIN copy.buffers = DOMAIN bufs \cup {id}
           /\ \A x \in DOMAIN copy.buffers :
                 copy.strokes[copy.buffers[x]] = IF x = id THEN s ELSE strokes[bufs[x]]
  <1> DEFINE a == IF id \in DOMAIN bufs THEN bufs[id] ELSE newArray(bufs, 1)
             copy == Copied(bufs, strokes, id, s)
  <1>1. copy.buffers = Over(The(id, a), bufs) /\ copy.strokes = [strokes EXCEPT ![a] = s]
    BY DEF Copied
  <1>2. a \in Arrays /\ (id \notin DOMAIN bufs => a \in free(bufs))
    BY NewArrays DEF FitsBuffers
  <1>3. \A x \in DOMAIN bufs : x # id => bufs[x] # a
    BY <1>2, FreeArrays DEF Apart
  <1>4. /\ DOMAIN copy.buffers = DOMAIN bufs \cup {id}
        /\ \A x \in DOMAIN copy.buffers : copy.buffers[x] = IF x = id THEN a ELSE bufs[x]
    BY <1>1 DEF The, Over
  <1>5. Apart(copy.buffers)
    <2> HIDE DEF a, copy
    <2> QED  BY <1>3, <1>4 DEF Apart
  <1>6. ASSUME NEW x \in DOMAIN copy.buffers
        PROVE  copy.strokes[copy.buffers[x]] = IF x = id THEN s ELSE strokes[bufs[x]]
    <2> HIDE DEF a, copy
    <2>1. CASE x = id
      BY <1>1, <1>2, <1>4, <2>1
    <2>2. CASE x # id
      <3>1. x \in DOMAIN bufs /\ copy.buffers[x] = bufs[x] /\ bufs[x] # a
        BY <1>3, <1>4, <2>2
      <3>2. bufs[x] \in Arrays
        BY <3>1 DEF FitsBuffers
      <3> QED  BY <1>1, <2>2, <3>1, <3>2
    <2> QED  BY <2>1, <2>2
  <1> QED  BY <1>4, <1>5, <1>6

\* An operation that is pushed follows on those before it.
LEMMA PushChained ==
    ASSUME IsSeq(past), NEW v, Chained(past, <<>>, v), NEW op, op.before = v,
           DOMAIN op.undo.arrays # {} \/ Reversible(op)
    PROVE  Chained(pushed(op), <<>>, op.after)
  <1>1. Len(past) \in Nat /\ (past # <<>> <=> Len(past) > 0) /\ Limit \in Nat \ {0} /\ Len(<<>>) = 0
    BY SeqShape, DrawingAssumption, NoneIsSeq
  <1>2. ASSUME NEW p, IsSeq(p), Chained(p, <<>>, v)
        PROVE  Chained(Append(p, op), <<>>, op.after)
    <2> DEFINE q == Append(p, op)
    <2>1. /\ Len(q) = Len(p) + 1 /\ \A i \in 1 .. Len(p) : q[i] = p[i]
          /\ q[Len(p) + 1] = op
      BY <1>2, AppendShape
    <2>2. Len(p) \in Nat
      BY <1>2, SeqShape
    <2> HIDE DEF q
    <2>3. ASSUME NEW i \in 1 .. Len(q) PROVE DOMAIN q[i].undo.arrays # {} \/ Reversible(q[i])
      <3>1. i \in 1 .. Len(p) \/ i = Len(p) + 1
        BY <2>1, <2>2
      <3> QED  BY <1>2, <2>1, <3>1 DEF Chained
    <2>4. ASSUME NEW i \in 1 .. Len(q) - 1 PROVE q[i].after = q[i + 1].before
      <3>1. CASE i \in 1 .. Len(p) - 1
        <4>1. i \in 1 .. Len(p) /\ i + 1 \in 1 .. Len(p)
          BY <2>2, <3>1
        <4> QED  BY <1>2, <2>1, <3>1, <4>1 DEF Chained
      <3>2. CASE i = Len(p)
        <4>1. Len(p) > 0 /\ i \in 1 .. Len(p)
          BY <2>2, <3>2
        <4> QED  BY <1>2, <2>1, <3>2, <4>1 DEF Chained
      <3> QED  BY <2>1, <2>2, <3>1, <3>2
    <2>5. Len(q) > 0 => q[Len(q)].after = op.after
      BY <2>1
    <2>6. Chained(q, <<>>, op.after)
      <3>1. \A i \in Nat : ~(i \in 1 .. 0) /\ ~(i \in 1 .. 0 - 1)
        OBVIOUS
      <3> QED  BY <1>1, <2>3, <2>4, <2>5, <3>1 DEF Chained
    <2> QED  BY <2>6 DEF q
  <1>3. CASE Len(past) < Limit
    BY <1>2, <1>3 DEF pushed
  <1>4. CASE ~(Len(past) < Limit)
    <2>1. past # <<>>
      BY <1>1, <1>4
    <2> DEFINE t == Tail(past)
    <2>2. /\ IsSeq(t) /\ Len(t) = Len(past) - 1
          /\ \A i \in 1 .. Len(past) - 1 : t[i] = past[i + 1]
      BY <2>1, TailShape
    <2>3. Chained(t, <<>>, v)
      <3> HIDE DEF t
      <3>1. ASSUME NEW i \in 1 .. Len(t) PROVE DOMAIN t[i].undo.arrays # {} \/ Reversible(t[i])
        <4>1. i \in 1 .. Len(past) - 1 /\ i + 1 \in 1 .. Len(past)
          BY <1>1, <2>2
        <4> QED  BY <2>2, <4>1 DEF Chained
      <3>2. ASSUME NEW i \in 1 .. Len(t) - 1 PROVE t[i].after = t[i + 1].before
        <4>1. i \in 1 .. Len(past) - 1 /\ i + 1 \in 1 .. Len(past) - 1
          BY <1>1, <2>2
        <4>2. past[i + 1].after = past[(i + 1) + 1].before
          BY <4>1 DEF Chained
        <4> QED  BY <2>2, <4>1, <4>2
      <3>3. ASSUME Len(t) > 0 PROVE t[Len(t)].after = v
        <4>1. Len(t) \in 1 .. Len(past) - 1 /\ Len(t) + 1 = Len(past) /\ Len(past) > 0
          BY <1>1, <2>2, <3>3
        <4>2. t[Len(t)] = past[Len(past)]
          BY <2>2, <4>1
        <4> QED  BY <4>1, <4>2 DEF Chained
      <3>4. \A i \in Nat : ~(i \in 1 .. 0) /\ ~(i \in 1 .. 0 - 1)
        OBVIOUS
      <3> QED  BY <1>1, <3>1, <3>2, <3>3, <3>4 DEF Chained
    <2> HIDE DEF t
    <2>4. Chained(Append(t, op), <<>>, op.after)
      BY <1>2, <2>2, <2>3
    <2> QED  BY <1>4, <2>4 DEF pushed, t
  <1> QED  BY <1>3, <1>4

\* The future may be forgotten.
LEMMA ForgetFuture ==
    ASSUME NEW p, NEW f, NEW v, Chained(p, f, v)
    PROVE  Chained(p, <<>>, v)
  <1>1. Len(<<>>) = 0
    BY NoneIsSeq
  <1>2. \A i \in Nat : ~(i \in 1 .. 0) /\ ~(i \in 1 .. 0 - 1)
    OBVIOUS
  <1> QED  BY <1>1, <1>2 DEF Chained

\* What there is after an edit that the history knows.
LEMMA EditShows ==
    ASSUME NEW d, NEW bufs, FitsBuffers(bufs), NEW strokes, NEW undo, NEW redo, NEW before,
           Edit(d, bufs, strokes, undo, redo, before)
    PROVE  /\ past' = pushed(Op(undo, redo, before, Drawn(doc)')) /\ future' = <<>>
           /\ doc' = d /\ buffers' = bufs
           /\ \A id : strokesOf(id)' = IF id \in DOMAIN bufs THEN strokes[bufs[id]] ELSE {}
  <1> DEFINE after == [i \in DOMAIN d.layers |->
                          [id |-> d.layers[i].id, look |-> d.layers[i].look,
                           strokes |-> IF d.layers[i].id \in DOMAIN bufs
                                       THEN strokes[bufs[d.layers[i].id]] ELSE {}]]
  <1>1. doc' = d /\ Arrange(bufs, strokes, pushed(Op(undo, redo, before, after)), <<>>)
    BY DEF Edit
  <1>2. \A id : strokesOf(id)' = IF id \in DOMAIN bufs THEN strokes[bufs[id]] ELSE {}
    <2> HIDE DEF after
    <2> QED  BY <1>1, ArrangedStrokes
  <1>3. Drawn(doc)' = after
    BY <1>1, <1>2 DEF Drawn
  <1> HIDE DEF after
  <1> QED  BY <1>1, <1>2, <1>3 DEF Arrange

\* An edit that follows on what is drawn.
LEMMA EditUndone ==
    ASSUME DrawingInv, UndoInv, UNCHANGED <<mode, stroke>>,
           NEW d, NEW bufs, FitsBuffers(bufs), NEW strokes, NEW undo, NEW redo,
           Edit(d, bufs, strokes, undo, redo, Drawn(doc)), aside => aside',
           ~aside' /\ Apart(buffers) =>
               Apart(bufs)
               /\ (DOMAIN undo.arrays # {} \/ Reversible(Op(undo, redo, Drawn(doc), Drawn(doc)')))
    PROVE  UndoInv'
  <1> SUFFICES ASSUME InTurn, ~aside' PROVE UndoInv'
    BY DEF UndoInv, InTurn
  <1> DEFINE op == Op(undo, redo, Drawn(doc), Drawn(doc)')
  <1>1. ~aside /\ session.open /\ ~stroke.in
    BY DEF Edit, Gesture
  <1>2. Apart(buffers) /\ Chained(past, future, Drawn(doc))
    BY <1>1 DEF UndoInv, drawnLast
  <1>3. /\ past' = pushed(op) /\ future' = <<>> /\ buffers' = bufs
    BY EditShows
  <1>4. op.before = Drawn(doc) /\ op.after = Drawn(doc)' /\ (DOMAIN op.undo.arrays # {} \/ Reversible(op))
    BY <1>2 DEF Op
  <1>5. IsSeq(past)
    BY DEF DrawingInv, EngineInv, FitsHistory
  <1>6. Chained(pushed(op), <<>>, op.after)
    <2> HIDE DEF op
    <2> QED  BY <1>2, <1>4, <1>5, ForgetFuture, PushChained
  <1>7. Chained(past', future', Drawn(doc)')
    <2> HIDE DEF op
    <2> QED  BY <1>3, <1>4, <1>6
  <1> HIDE DEF op
  <1> QED  BY <1>1, <1>2, <1>3, <1>7 DEF UndoInv, drawnLast

\* The documents that an operation puts back are documents.
LEMMA FitsIsNotKeep ==
    ASSUME NEW d, NEW e, Fits(d, e)
    PROVE  d # Keep
  BY DEF Fits, Keep

\* What is drawn has the layers of its document.
LEMMA DrawnShows ==
    /\ ShowsLayers(Drawn(doc), doc)
    /\ ShowsLayers(Drawn(doc)', doc')
  BY DEF ShowsLayers, Drawn

\* setActiveLayer draws nothing.
LEMMA ActiveUndone ==
    ASSUME DrawingInv, UndoInv, UNCHANGED mode, NEW i \in DOMAIN doc.layers, setActiveLayer(doc.layers[i].id)
    PROVE  UndoInv'
  <1> DEFINE id == doc.layers[i].id
             d == [doc EXCEPT !.activeLayerId = id]
             undo == Change(doc, {}, noArrays, noStrokes)
             redo == Change(d, {}, noArrays, noStrokes)
  <1>1. Edit(d, buffers, pixels, undo, redo, Drawn(doc)) /\ UNCHANGED <<stroke, aside>>
    BY DEF setActiveLayer
  <1>2. session.open /\ edits > 0
    BY <1>1 DEF Edit, Gesture
  <1>3. Fits(doc, edits - 1) /\ FitsBuffers(buffers) /\ edits - 1 \in Nat
    BY <1>2, OpenPage
  <1>4. id \in Ids
    BY <1>3, LayersOf DEF Layer
  <1>5. Fits(d, edits - 1)
    BY <1>3, <1>4, ActiveFits
  <1>6. /\ doc' = d /\ \A x : strokesOf(x)' = strokesOf(x)
    <2> HIDE DEF d, undo, redo
    <2> QED  BY <1>1, <1>3, EditShows DEF strokesOf
  <1>7. d.layers = doc.layers
    BY <1>3 DEF Fits
  <1>8. Drawn(doc)' = Drawn(doc)
    <2> HIDE DEF d
    <2> QED  BY <1>6, <1>7 DEF Drawn
  <1>9. ShowsLayers(Drawn(doc), doc) /\ ShowsLayers(Drawn(doc), d)
    <2> HIDE DEF d
    <2> QED  BY <1>6, <1>8, DrawnShows
  <1>10. Activates(Op(undo, redo, Drawn(doc), Drawn(doc)'))
    <2>1. doc # Keep /\ d # Keep
      <3> HIDE DEF d
      <3> QED  BY <1>3, <1>5, FitsIsNotKeep
    <2> HIDE DEF d
    <2> QED  BY <1>8, <1>9, <2>1 DEF Activates, Op, Plain, Change, noArrays, noStrokes
  <1> HIDE DEF d, undo, redo
  <1> QED  BY <1>1, <1>3, <1>10, EditUndone DEF Reversible

\* A layer that is added has an id of its own, or the drawing is aside from then on.
LEMMA NewLayerUndone ==
    ASSUME DrawingInv, UndoInv, UNCHANGED mode, NEW strokes, NEW redone, NewLayer(strokes, redone),
           newId \notin DOMAIN buffers => strokes = redone
    PROVE  UndoInv'
  <1> DEFINE copy == Copied(buffers, pixels, newId, strokes)
             d == addLayer(doc, newId)
             undo == Change(doc, {newId}, noArrays, noStrokes)
             redo == Change(d, {}, noArrays, The(newId, redone))
             before == Drawn(doc)
             after == Drawn(doc)'
  <1>1. /\ Room(buffers, 1)
        /\ Edit(d, copy.buffers, copy.strokes, undo, redo, Drawn(doc))
        /\ aside' = (aside \/ newId \in ids(doc) \cup DOMAIN buffers) /\ UNCHANGED stroke
    BY DEF NewLayer, NewId
  <1>2. session.open /\ edits > 0
    BY <1>1 DEF Edit, Gesture
  <1>3. /\ Fits(doc, edits) /\ Fits(doc, edits - 1) /\ FitsBuffers(buffers) /\ edits \in Nat
        /\ newId \in Ids /\ DOMAIN pixels = Arrays
    BY <1>1, <1>2, OpenPage, NewIdFits DEF DrawingInv
  <1>4. Fits(d, edits - 1)
    BY <1>2, <1>3, AddFits
  <1>5. FitsBuffers(copy.buffers)
    BY <1>1, <1>3, CopyFits
  <1>6. ASSUME ~aside', Apart(buffers)
        PROVE  Apart(copy.buffers) /\ Reversible(Op(undo, redo, before, after))
    <2>1. newId \notin ids(doc) /\ newId \notin DOMAIN buffers /\ strokes = redone
      BY <1>1, <1>6
    <2>2. /\ Apart(copy.buffers) /\ DOMAIN copy.buffers = DOMAIN buffers \cup {newId}
          /\ \A x \in DOMAIN copy.buffers :
                copy.strokes[copy.buffers[x]] = IF x = newId THEN strokes ELSE pixels[buffers[x]]
      BY <1>1, <1>3, <1>6, CopiedStrokes
    <2>3. /\ doc' = d
          /\ \A x : strokesOf(x)' = IF x \in DOMAIN copy.buffers THEN copy.strokes[copy.buffers[x]] ELSE {}
      <3> HIDE DEF d, undo, redo, copy
      <3> QED  BY <1>1, <1>5, EditShows
    <2>4. \A x : strokesOf(x)' = IF x = newId THEN redone ELSE strokesOf(x)
      <3> HIDE DEF copy, d
      <3> QED  BY <2>1, <2>2, <2>3 DEF strokesOf
    <2>5. /\ Len(d.layers) = Len(doc.layers) + 1 /\ Len(doc.layers) \in Nat
          /\ DOMAIN d.layers = 1 .. Len(doc.layers) + 1 /\ DOMAIN doc.layers = 1 .. Len(doc.layers)
          /\ \A i \in 1 .. Len(doc.layers) : d.layers[i] = doc.layers[i]
          /\ d.layers[Len(doc.layers) + 1] = [id |-> newId, look |-> "plain"]
      <3>1. IsSeq(doc.layers) /\ Len(doc.layers) \in Nat /\ DOMAIN doc.layers = 1 .. Len(doc.layers)
        BY <1>3, LayersOf
      <3>2. d.layers = Append(doc.layers, [id |-> newId, look |-> "plain"])
        BY DEF addLayer
      <3>3. DOMAIN d.layers = 1 .. Len(d.layers)
        <4> HIDE DEF d
        <4> QED  BY <1>4, LayersOf
      <3> HIDE DEF d
      <3> QED  BY <3>1, <3>2, <3>3, AppendShape
    <2> HIDE DEF copy
    <2>6. /\ DOMAIN before = DOMAIN doc.layers /\ DOMAIN after = DOMAIN d.layers
          /\ \A i \in DOMAIN before : before[i] = [id |-> doc.layers[i].id, look |-> doc.layers[i].look,
                                                   strokes |-> strokesOf(doc.layers[i].id)]
          /\ \A i \in DOMAIN after : after[i] = [id |-> d.layers[i].id, look |-> d.layers[i].look,
                                                 strokes |-> IF d.layers[i].id = newId THEN redone
                                                             ELSE strokesOf(d.layers[i].id)]
      <3> HIDE DEF d
      <3> QED  BY <2>3, <2>4 DEF Drawn
    <2>7. \A i \in DOMAIN doc.layers : doc.layers[i].id # newId
      BY <2>1 DEF ids
    <2>8. DOMAIN before \subseteq DOMAIN after
      <3> HIDE DEF d, before, after
      <3> QED  BY <2>5, <2>6
    <2>9. ASSUME NEW i \in DOMAIN before PROVE before[i].id # newId /\ after[i] = before[i]
      <3> HIDE DEF d, before, after
      <3>1. i \in DOMAIN doc.layers /\ i \in 1 .. Len(doc.layers) /\ i \in DOMAIN after
        BY <2>5, <2>6, <2>8
      <3>2. d.layers[i] = doc.layers[i] /\ doc.layers[i].id # newId
        BY <2>5, <2>7, <3>1
      <3>3. after[i] = [id |-> doc.layers[i].id, look |-> doc.layers[i].look,
                        strokes |-> IF doc.layers[i].id = newId THEN redone
                                    ELSE strokesOf(doc.layers[i].id)]
        BY <2>6, <3>1, <3>2
      <3>4. after[i] = before[i]
        BY <2>6, <3>2, <3>3
      <3>5. before[i] = [id |-> doc.layers[i].id, look |-> doc.layers[i].look,
                         strokes |-> strokesOf(doc.layers[i].id)]
        BY <2>6
      <3>6. before[i].id = doc.layers[i].id
        BY <3>5
      <3> QED  BY <3>2, <3>4, <3>6
    <2>10. ASSUME NEW i \in DOMAIN after \ DOMAIN before
           PROVE  after[i].id = newId /\ after[i].strokes = The(newId, redone)[newId]
      <3> HIDE DEF d, before, after
      <3>1. i = Len(doc.layers) + 1
        BY <2>5, <2>6
      <3>2. d.layers[i] = [id |-> newId, look |-> "plain"]
        BY <2>5, <3>1
      <3>3. d.layers[i].id = newId
        BY <3>2
      <3>4. after[i] = [id |-> d.layers[i].id, look |-> d.layers[i].look,
                        strokes |-> IF d.layers[i].id = newId THEN redone ELSE strokesOf(d.layers[i].id)]
        BY <2>6
      <3>5. after[i].id = newId /\ after[i].strokes = redone
        BY <3>3, <3>4
      <3> QED  BY <3>5 DEF The
    <2>11. ShowsLayers(before, doc) /\ ShowsLayers(after, d)
      <3> HIDE DEF d
      <3> QED  BY <2>3, DrawnShows
    <2>12. doc # Keep /\ d # Keep
      <3> HIDE DEF d
      <3> QED  BY <1>3, <1>4, FitsIsNotKeep
    <2>13. Plain(undo, {newId}, {}) /\ Plain(redo, {}, {newId})
      BY DEF Plain, Change, noArrays, noStrokes, The
    <2>14. undo.doc = doc /\ redo.doc = d /\ redo.copied = The(newId, redone)
      BY DEF Change
    <2>15. AddsLayer(Op(undo, redo, before, after), newId)
      <3> HIDE DEF d, undo, redo, before, after
      <3> QED  BY <2>8, <2>9, <2>10, <2>11, <2>12, <2>13, <2>14 DEF AddsLayer, Op
    <2> HIDE DEF d, undo, redo, before, after
    <2> QED  BY <1>3, <2>2, <2>15 DEF Reversible, copy
  <1>7. aside => aside'
    BY <1>1
  <1> HIDE DEF d, undo, redo, copy
  <1> QED  BY <1>1, <1>5, <1>6, <1>7, EditUndone

\* removeLayer keeps the array of the layer, for undo to make it the buffer again.
LEMMA RemoveUndone ==
    ASSUME DrawingInv, UndoInv, UNCHANGED mode, RemoveLayer
    PROVE  UndoInv'
  <1> DEFINE buf == newArray(buffers, 1)
             d == removeLayer(doc, activeLayerId)
             without == [id \in DOMAIN buffers \ {activeLayerId} |-> buffers[id]]
             strokes == [pixels EXCEPT ![buf] = strokesOf(activeLayerId)]
             undo == Change(doc, {}, The(activeLayerId, buf), noStrokes)
             redo == Change(d, {activeLayerId}, noArrays, noStrokes)
  <1>1. Edit(d, without, strokes, undo, redo, Drawn(doc)) /\ UNCHANGED <<stroke, aside>>
    BY DEF RemoveLayer
  <1>2. FitsBuffers(without)
    BY DEF DrawingInv, EngineInv, FitsBuffers
  <1>3. Apart(buffers) => Apart(without)
    BY DEF Apart
  <1>4. DOMAIN undo.arrays # {}
    BY DEF Change, The
  <1> HIDE DEF d, without, strokes, undo, redo
  <1> QED  BY <1>1, <1>2, <1>3, <1>4, EditUndone

\* duplicateLayer keeps the arrays of all layers.
LEMMA DuplicateUndone ==
    ASSUME DrawingInv, UndoInv, UNCHANGED mode, DuplicateLayer
    PROVE  UndoInv'
  <1> DEFINE n == Len(doc.layers)
             copy == Copied(buffers, pixels, newId, strokesOf(activeLayerId))
  <1>1. PICK d, kept, before, redo :
           /\ Room(buffers, 2 * n + 2)
           /\ DOMAIN before = ids(doc)
           /\ Edit(d, copy.buffers, kept, Change(doc, Ids, before, noStrokes), redo, Drawn(doc))
           /\ aside' = (aside \/ newId \in ids(doc) \cup DOMAIN buffers) /\ UNCHANGED stroke
    BY DEF DuplicateLayer, NewId
  <1>2. session.open /\ edits > 0
    BY <1>1 DEF Edit, Gesture
  <1>3. Fits(doc, edits) /\ FitsBuffers(buffers) /\ DOMAIN pixels = Arrays /\ newId \in Ids
    BY <1>2, OpenPage, NewIdFits DEF DrawingInv
  <1>4. n \in Nat /\ ids(doc) # {}
    BY <1>3, LayersOf
  <1>5. Room(buffers, 1) /\ 2 * n + 2 \in Nat /\ 2 * n + 2 >= 1
    <2> HIDE DEF n
    <2>1. 1 <= 2 * n + 2 /\ 2 * n + 2 \in Nat
      BY <1>4
    <2> QED  BY <1>1, <2>1, FreeArrays DEF Room
  <1>6. FitsBuffers(copy.buffers)
    BY <1>3, <1>5, CopyFits
  <1>7. Apart(buffers) => Apart(copy.buffers)
    BY <1>3, <1>5, CopiedStrokes
  <1>8. DOMAIN Change(doc, Ids, before, noStrokes).arrays # {}
    BY <1>1, <1>4 DEF Change
  <1> HIDE DEF copy
  <1> QED  BY <1>1, <1>6, <1>7, <1>8, EditUndone

\* mergeDown keeps the arrays of two layers.
LEMMA MergeUndone ==
    ASSUME DrawingInv, UndoInv, UNCHANGED mode, MergeDown
    PROVE  UndoInv'
  <1> DEFINE top == activeLayerId
             below == doc.layers[index(activeLayerId) - 1].id
             copy == Copied(buffers, pixels, below, strokesOf(below) \cup strokesOf(top))
             bufs == [id \in DOMAIN copy.buffers \ {top} |-> copy.buffers[id]]
  <1>1. PICK d, kept, first, second, redo :
           /\ index(activeLayerId) > 1 /\ Room(buffers, 4)
           /\ Edit(d, bufs, kept, Change(doc, {}, Over(The(top, first), The(below, second)), noStrokes),
                   redo, Drawn(doc))
           /\ UNCHANGED <<stroke, aside>>
    BY DEF MergeDown
  <1>2. session.open
    BY <1>1 DEF Edit, Gesture
  <1>3. Fits(doc, edits) /\ FitsBuffers(buffers) /\ DOMAIN pixels = Arrays
    BY <1>2, OpenPage
  <1>4. below \in Ids
    <2>1. index(activeLayerId) \in 0 .. Len(doc.layers) /\ Len(doc.layers) \in Nat
      BY <1>3, IndexOf, LayersOf
    <2>2. index(activeLayerId) - 1 \in 1 .. Len(doc.layers)
      BY <1>1, <2>1
    <2>3. doc.layers[index(activeLayerId) - 1] \in Layer
      BY <1>3, <2>2, LayersOf
    <2> QED  BY <2>3 DEF Layer
  <1>5. Room(buffers, 1)
    BY <1>1, FreeArrays DEF Room
  <1>6. FitsBuffers(copy.buffers)
    <2> HIDE DEF below
    <2> QED  BY <1>3, <1>4, <1>5, CopyFits
  <1>7. Apart(buffers) => Apart(copy.buffers)
    <2> HIDE DEF below
    <2> QED  BY <1>3, <1>4, <1>5, CopiedStrokes
  <1>8. FitsBuffers(bufs) /\ (Apart(buffers) => Apart(bufs))
    <2> HIDE DEF copy
    <2> QED  BY <1>6, <1>7 DEF FitsBuffers, Apart
  <1>9. DOMAIN Change(doc, {}, Over(The(top, first), The(below, second)), noStrokes).arrays # {}
    BY DEF Change, Over, The
  <1> HIDE DEF bufs, top, below
  <1> QED  BY <1>1, <1>8, <1>9, EditUndone

\* flattenImage keeps the arrays of all layers.
LEMMA FlattenUndone ==
    ASSUME DrawingInv, UndoInv, UNCHANGED mode, FlattenImage
    PROVE  UndoInv'
  <1> DEFINE keepId == doc.layers[1].id
             copy == Copied(buffers, pixels, keepId, composite)
             bufs == The(keepId, copy.buffers[keepId])
  <1>1. PICK d, kept, before, redo :
           /\ Room(buffers, Len(doc.layers) + 2)
           /\ DOMAIN before = ids(doc)
           /\ Edit(d, bufs, kept, Change(doc, Ids, before, noStrokes), redo, Drawn(doc))
           /\ UNCHANGED <<stroke, aside>>
    BY DEF FlattenImage
  <1>2. session.open
    BY <1>1 DEF Edit, Gesture
  <1>3. Fits(doc, edits) /\ FitsBuffers(buffers) /\ DOMAIN pixels = Arrays
    BY <1>2, OpenPage
  <1>4. Len(doc.layers) \in Nat /\ Len(doc.layers) >= 1 /\ ids(doc) # {} /\ keepId \in Ids
    <2>1. Len(doc.layers) \in Nat /\ Len(doc.layers) >= 1 /\ ids(doc) # {}
          /\ \A i \in 1 .. Len(doc.layers) : doc.layers[i] \in Layer
      BY <1>3, LayersOf
    <2>2. doc.layers[1] \in Layer
      BY <2>1
    <2> QED  BY <2>1, <2>2 DEF Layer
  <1>5. Room(buffers, 1)
    BY <1>1, <1>4, FreeArrays DEF Room
  <1>6. copy.buffers[keepId] \in Arrays
    <2> HIDE DEF keepId
    <2> QED  BY <1>3, <1>4, <1>5, CopyFits
  <1>7. FitsBuffers(bufs) /\ Apart(bufs)
    <2> HIDE DEF copy, keepId
    <2> QED  BY <1>4, <1>6 DEF FitsBuffers, Apart, The
  <1>8. DOMAIN Change(doc, Ids, before, noStrokes).arrays # {}
    BY <1>1, <1>4 DEF Change
  <1> HIDE DEF bufs
  <1> QED  BY <1>1, <1>7, <1>8, EditUndone

\* The strokes that one sees on the layer of an id after a step.
strokesNow(id) == IF id \in DOMAIN buffers' THEN pixels'[buffers'[id]] ELSE {}

\* What is drawn after a step, in terms of the document and the buffers after it.
LEMMA DrawnNow ==
    /\ \A x : strokesOf(x)' = strokesNow(x)
    /\ Drawn(doc)' = [i \in DOMAIN doc'.layers |->
                         [id |-> doc'.layers[i].id, look |-> doc'.layers[i].look,
                          strokes |-> strokesNow(doc'.layers[i].id)]]
  BY DEF strokesOf, strokesNow, Drawn

\* While a stroke is in progress, what was seen before it is what the layer was before.
LEMMA StrokeBeginUndone ==
    ASSUME DrawingInv, UndoInv, UNCHANGED mode, StrokeBegin
    PROVE  UndoInv'
  <1> DEFINE copy == Copied(buffers, pixels, activeLayerId, strokesOf(activeLayerId) \cup {edits})
  <1>1. /\ session.open /\ (InTurn => ~stroke.in) /\ Room(buffers, 1)
        /\ stroke' = [in |-> TRUE, before |-> strokesOf(activeLayerId), seen |-> Drawn(doc)]
        /\ Arrange(copy.buffers, copy.strokes, past, future)
        /\ UNCHANGED <<doc, aside>>
    BY DEF StrokeBegin, Gesture
  <1> SUFFICES ASSUME InTurn, ~aside PROVE UndoInv'
    BY <1>1 DEF UndoInv, InTurn
  <1>2. Apart(buffers) /\ Chained(past, future, Drawn(doc))
    BY <1>1 DEF UndoInv, drawnLast
  <1>3. /\ FitsBuffers(buffers) /\ activeLayerId \in Ids /\ DOMAIN pixels = Arrays
    BY <1>1, OpenPage DEF activeLayerId
  <1>4. FitsBuffers(copy.buffers)
    BY <1>1, <1>3, CopyFits
  <1>5. /\ Apart(copy.buffers) /\ DOMAIN copy.buffers = DOMAIN buffers \cup {activeLayerId}
        /\ \A x \in DOMAIN copy.buffers :
              copy.strokes[copy.buffers[x]] = IF x = activeLayerId THEN strokesOf(activeLayerId) \cup {edits}
                                              ELSE pixels[buffers[x]]
    BY <1>1, <1>2, <1>3, CopiedStrokes
  <1> HIDE DEF copy
  <1>6. \A x : strokesOf(x)' = IF x \in DOMAIN copy.buffers THEN copy.strokes[copy.buffers[x]] ELSE {}
    BY <1>1, <1>4, ArrangedStrokes
  <1>7. \A x : x # activeLayerId => strokesOf(x)' = strokesOf(x)
    BY <1>5, <1>6 DEF strokesOf
  <1>8. buffers' = copy.buffers /\ past' = past /\ future' = future
    BY <1>1 DEF Arrange
  <1>9. stroke'.seen = Repainted(Drawn(doc)', doc'.activeLayerId, stroke'.before)
    <2>1. \A i \in DOMAIN doc.layers :
             strokesOf(doc.layers[i].id) = IF doc.layers[i].id = activeLayerId THEN strokesOf(activeLayerId)
                                           ELSE strokesNow(doc.layers[i].id)
      BY <1>7, DrawnNow
    <2>2. Drawn(doc)' = [i \in DOMAIN doc.layers |->
                           [id |-> doc.layers[i].id, look |-> doc.layers[i].look,
                            strokes |-> strokesNow(doc.layers[i].id)]]
      BY <1>1, DrawnNow
    <2>3. Drawn(doc) = Repainted(Drawn(doc)', activeLayerId, strokesOf(activeLayerId))
      BY <2>1, <2>2 DEF Drawn, Repainted
    <2> QED  BY <1>1, <2>3 DEF activeLayerId
  <1>10. drawnLast' = Drawn(doc)
    BY <1>1 DEF drawnLast
  <1> QED  BY <1>2, <1>5, <1>8, <1>9, <1>10 DEF UndoInv

\* A stroke is undone by what was on the layer before, and redone by what is on it now.
LEMMA StrokeCommitUndone ==
    ASSUME DrawingInv, UndoInv, UNCHANGED mode, StrokeCommit
    PROVE  UndoInv'
  <1> DEFINE id == activeLayerId
             undo == Change(Keep, {}, noArrays, The(id, stroke.before))
             redo == Change(Keep, {}, noArrays, The(id, strokesOf(id)))
             op == Op(undo, redo, stroke.seen, Drawn(doc))
  <1>1. /\ stroke.in /\ session.open /\ stroke' = NoStroke
        /\ Arrange(buffers, pixels, pushed(op), <<>>)
        /\ UNCHANGED <<doc, aside>>
    BY DEF StrokeCommit
  <1> SUFFICES ASSUME InTurn, ~aside PROVE UndoInv'
    BY <1>1 DEF UndoInv, InTurn
  <1>2. /\ Apart(buffers) /\ stroke.seen = Repainted(Drawn(doc), id, stroke.before)
        /\ Chained(past, future, stroke.seen)
    BY <1>1 DEF UndoInv, drawnLast, activeLayerId
  <1>3. FitsBuffers(buffers) /\ id \in Ids
    BY <1>1, OpenPage DEF activeLayerId
  <1>4. /\ buffers' = buffers /\ past' = pushed(op) /\ future' = <<>>
    BY <1>1 DEF Arrange
  <1>5. \A x : strokesOf(x)' = strokesOf(x)
    <2> HIDE DEF op
    <2> QED  BY <1>1, <1>3, ArrangedStrokes DEF strokesOf
  <1>6. Drawn(doc)' = Drawn(doc)
    BY <1>1, <1>5 DEF Drawn
  <1>7. Drawn(doc) = Repainted(stroke.seen, id, strokesOf(id))
    <2> HIDE DEF id
    <2>1. Drawn(doc) = Repainted(Repainted(Drawn(doc), id, stroke.before), id, strokesOf(id))
      BY DEF Drawn, Repainted
    <2> QED  BY <1>2, <2>1
  <1>8. Paints(op, id)
    <2>1. Plain(undo, {}, {id}) /\ Plain(redo, {}, {id}) /\ undo.doc = Keep /\ redo.doc = Keep
          /\ undo.copied[id] = stroke.before /\ redo.copied[id] = strokesOf(id)
      BY DEF Plain, Change, noArrays, The
    <2> HIDE DEF undo, redo, id
    <2> QED  BY <1>2, <1>7, <2>1 DEF Paints, Op
  <1>9. Reversible(op) /\ op.before = stroke.seen /\ op.after = Drawn(doc)
    <2>1. op.before = stroke.seen /\ op.after = Drawn(doc)
      BY DEF Op
    <2> HIDE DEF op, id
    <2> QED  BY <1>3, <1>8, <2>1 DEF Reversible
  <1>10. IsSeq(past)
    BY DEF DrawingInv, EngineInv, FitsHistory
  <1>11. Chained(pushed(op), <<>>, Drawn(doc))
    <2> HIDE DEF op
    <2>1. Chained(past, <<>>, stroke.seen)
      BY <1>2, ForgetFuture
    <2> QED  BY <1>9, <1>10, <2>1, PushChained
  <1>12. ~stroke'.in /\ drawnLast' = Drawn(doc)
    BY <1>1, <1>6 DEF drawnLast, NoStroke
  <1> HIDE DEF op
  <1> QED  BY <1>2, <1>4, <1>11, <1>12 DEF UndoInv

\* Steps that leave the engine alone.
LEMMA EngineStays ==
    ASSUME UndoInv, UNCHANGED <<mode, doc, buffers, pixels, past, future, stroke, aside>>,
           session'.open = session.open
    PROVE  UndoInv'
  <1>1. \A x : strokesOf(x)' = strokesOf(x)
    BY DEF strokesOf
  <1>2. Drawn(doc)' = Drawn(doc)
    BY <1>1 DEF Drawn
  <1>3. drawnLast' = drawnLast
    BY <1>2 DEF drawnLast
  <1> QED  BY <1>2, <1>3 DEF UndoInv, InTurn

\* What an operation without arrays of its own leaves of the buffers.
LEMMA ReplayShows ==
    ASSUME DrawingInv, session.open, NEW change, FitsChange(change, edits), DOMAIN change.arrays = {},
           NEW id \in Ids, DOMAIN change.copied = {} \/ DOMAIN change.copied = {id},
           NEW p, NEW f, Replay(change, p, f), Apart(buffers)
    PROVE  /\ Apart(buffers') /\ past' = p /\ future' = f
           /\ doc' = IF change.doc = Keep THEN doc ELSE change.doc
           /\ \A x : strokesNow(x) = IF x \in DOMAIN change.copied THEN change.copied[x]
                                     ELSE IF x \in change.deleted THEN {} ELSE strokesOf(x)
  <1> DEFINE bufs == Over(change.arrays, [x \in DOMAIN buffers \ change.deleted |-> buffers[x]])
             S == DOMAIN change.copied
             one == CHOOSE x \in S : TRUE
             copied == Copied(bufs, pixels, one, change.copied[one])
             copy == IF S = {} THEN [buffers |-> bufs, strokes |-> pixels] ELSE copied
  <1>1. /\ FitsBuffers(buffers) /\ DOMAIN pixels = Arrays
    BY OpenPage
  <1>2. /\ Room(bufs, 1) /\ Arrange(copy.buffers, copy.strokes, p, f)
        /\ doc' = IF change.doc = Keep THEN doc ELSE change.doc
    BY DEF Replay
  <1>3. /\ DOMAIN bufs = DOMAIN buffers \ change.deleted
        /\ \A x \in DOMAIN bufs : bufs[x] = buffers[x]
    BY DEF Over
  <1>4. FitsBuffers(bufs) /\ Apart(bufs)
    <2> HIDE DEF bufs
    <2> QED  BY <1>1, <1>3 DEF FitsBuffers, Apart
  <1>5. FitsBuffers(copy.buffers) /\ Apart(copy.buffers) /\ DOMAIN copy.buffers = DOMAIN bufs \cup S
        /\ \A x \in DOMAIN copy.buffers :
              copy.strokes[copy.buffers[x]] = IF x \in S THEN change.copied[x] ELSE pixels[bufs[x]]
    <2>1. CASE S = {}
      BY <1>4, <2>1
    <2>2. CASE S = {id}
      <3>1. one = id /\ copy = copied
        BY <2>2
      <3>2. FitsBuffers(copied.buffers)
        <4> HIDE DEF bufs, one, S
        <4> QED  BY <1>1, <1>2, <1>4, <3>1, CopyFits
      <3>3. /\ Apart(copied.buffers) /\ DOMAIN copied.buffers = DOMAIN bufs \cup {one}
            /\ \A x \in DOMAIN copied.buffers :
                  copied.strokes[copied.buffers[x]] = IF x = one THEN change.copied[one] ELSE pixels[bufs[x]]
        <4> HIDE DEF bufs, one, S
        <4> QED  BY <1>1, <1>2, <1>4, <3>1, CopiedStrokes
      <3> HIDE DEF bufs, one, S, copied, copy
      <3> QED  BY <2>2, <3>1, <3>2, <3>3
    <2> QED  BY <2>1, <2>2
  <1> HIDE DEF copy, bufs
  <1>6. \A x : strokesNow(x) = IF x \in DOMAIN copy.buffers THEN copy.strokes[copy.buffers[x]] ELSE {}
    BY <1>2, <1>5, ArrangedStrokes, DrawnNow
  <1>7. \A x : strokesNow(x) = IF x \in S THEN change.copied[x]
                               ELSE IF x \in change.deleted THEN {} ELSE strokesOf(x)
    <2> HIDE DEF S
    <2> QED  BY <1>3, <1>5, <1>6 DEF strokesOf
  <1>8. buffers' = copy.buffers /\ past' = p /\ future' = f
    BY <1>2 DEF Arrange
  <1> QED  BY <1>2, <1>5, <1>7, <1>8

\* An operation is undone: what was drawn before it is drawn again.
LEMMA UndoShows ==
    ASSUME DrawingInv, session.open, Apart(buffers), NEW op, FitsChange(op.undo, edits), Reversible(op),
           op.after = Drawn(doc), NEW p, NEW f, Replay(op.undo, p, f)
    PROVE  /\ Apart(buffers') /\ past' = p /\ future' = f
           /\ Drawn(doc)' = op.before
  <1>1. Drawn(doc)' = [i \in DOMAIN doc'.layers |->
                          [id |-> doc'.layers[i].id, look |-> doc'.layers[i].look,
                           strokes |-> strokesNow(doc'.layers[i].id)]]
    BY DrawnNow
  <1>2. ASSUME NEW id \in Ids, Paints(op, id)
        PROVE  Apart(buffers') /\ past' = p /\ future' = f /\ Drawn(doc)' = op.before
    <2>1. /\ Apart(buffers') /\ past' = p /\ future' = f /\ doc' = doc
          /\ \A x : strokesNow(x) = IF x = id THEN op.undo.copied[id] ELSE strokesOf(x)
      BY <1>2, ReplayShows DEF Paints, Plain
    <2>2. op.before = Repainted(Drawn(doc), id, op.undo.copied[id])
      BY <1>2 DEF Paints
    <2>3. Drawn(doc)' = Repainted(Drawn(doc), id, op.undo.copied[id])
      BY <1>1, <2>1 DEF Repainted, Drawn
    <2> QED  BY <2>1, <2>2, <2>3
  <1>3. ASSUME NEW id \in Ids, AddsLayer(op, id)
        PROVE  Apart(buffers') /\ past' = p /\ future' = f /\ Drawn(doc)' = op.before
    <2>1. /\ Apart(buffers') /\ past' = p /\ future' = f /\ doc' = op.undo.doc
          /\ \A x : x # id => strokesNow(x) = strokesOf(x)
      BY <1>3, ReplayShows DEF AddsLayer, Plain
    <2>2. op.before = [i \in DOMAIN op.undo.doc.layers |->
                          [id |-> op.undo.doc.layers[i].id, look |-> op.undo.doc.layers[i].look,
                           strokes |-> op.before[i].strokes]]
      BY <1>3 DEF AddsLayer, ShowsLayers
    <2>3. ASSUME NEW i \in DOMAIN op.undo.doc.layers
          PROVE  op.before[i].strokes = strokesNow(op.undo.doc.layers[i].id)
      <3>1. op.before[i].id # id /\ Drawn(doc)[i] = op.before[i] /\ i \in DOMAIN Drawn(doc)
        BY <1>3, <2>2 DEF AddsLayer
      <3>2. Drawn(doc)[i].strokes = strokesOf(Drawn(doc)[i].id)
        BY <3>1 DEF Drawn
      <3>3. op.before[i].id = op.undo.doc.layers[i].id
        BY <2>2
      <3> QED  BY <2>1, <3>1, <3>2, <3>3
    <2> QED  BY <1>1, <2>1, <2>2, <2>3
  <1>4. CASE Activates(op)
    <2>1. 0 \in Ids
      <3>1. MaxSessions \in Nat /\ MaxEdits \in Nat
        BY DrawingAssumption
      <3> QED  BY <3>1 DEF Ids
    <2>2. /\ Apart(buffers') /\ past' = p /\ future' = f /\ doc' = op.undo.doc
          /\ \A x : strokesNow(x) = strokesOf(x)
      BY <1>4, <2>1, ReplayShows DEF Activates, Plain
    <2>3. op.before = Drawn(doc)
          /\ op.before = [i \in DOMAIN op.undo.doc.layers |->
                             [id |-> op.undo.doc.layers[i].id, look |-> op.undo.doc.layers[i].look,
                              strokes |-> op.before[i].strokes]]
      BY <1>4 DEF Activates, ShowsLayers
    <2>4. ASSUME NEW i \in DOMAIN op.undo.doc.layers
          PROVE  op.before[i].strokes = strokesNow(op.undo.doc.layers[i].id)
      <3>1. i \in DOMAIN Drawn(doc)
        BY <2>3
      <3>2. Drawn(doc)[i].strokes = strokesOf(Drawn(doc)[i].id)
        BY <3>1 DEF Drawn
      <3>3. op.before[i].id = op.undo.doc.layers[i].id
        BY <2>3
      <3> QED  BY <2>2, <2>3, <3>2, <3>3
    <2> QED  BY <1>1, <2>2, <2>3, <2>4
  <1> QED  BY <1>2, <1>3, <1>4 DEF Reversible

\* An operation is redone: what was drawn after it is drawn again.
LEMMA RedoShows ==
    ASSUME DrawingInv, session.open, Apart(buffers), NEW op, FitsChange(op.redo, edits), Reversible(op),
           op.before = Drawn(doc), NEW p, NEW f, Replay(op.redo, p, f)
    PROVE  /\ Apart(buffers') /\ past' = p /\ future' = f
           /\ Drawn(doc)' = op.after
  <1>1. Drawn(doc)' = [i \in DOMAIN doc'.layers |->
                          [id |-> doc'.layers[i].id, look |-> doc'.layers[i].look,
                           strokes |-> strokesNow(doc'.layers[i].id)]]
    BY DrawnNow
  <1>2. ASSUME NEW id \in Ids, Paints(op, id)
        PROVE  Apart(buffers') /\ past' = p /\ future' = f /\ Drawn(doc)' = op.after
    <2>1. /\ Apart(buffers') /\ past' = p /\ future' = f /\ doc' = doc
          /\ \A x : strokesNow(x) = IF x = id THEN op.redo.copied[id] ELSE strokesOf(x)
      BY <1>2, ReplayShows DEF Paints, Plain
    <2>2. op.after = Repainted(Drawn(doc), id, op.redo.copied[id])
      BY <1>2 DEF Paints
    <2>3. Drawn(doc)' = Repainted(Drawn(doc), id, op.redo.copied[id])
      BY <1>1, <2>1 DEF Repainted, Drawn
    <2> QED  BY <2>1, <2>2, <2>3
  <1>3. ASSUME NEW id \in Ids, AddsLayer(op, id)
        PROVE  Apart(buffers') /\ past' = p /\ future' = f /\ Drawn(doc)' = op.after
    <2>1. /\ Apart(buffers') /\ past' = p /\ future' = f /\ doc' = op.redo.doc
          /\ \A x : strokesNow(x) = IF x = id THEN op.redo.copied[id] ELSE strokesOf(x)
      BY <1>3, ReplayShows DEF AddsLayer, Plain
    <2>2. op.after = [i \in DOMAIN op.redo.doc.layers |->
                          [id |-> op.redo.doc.layers[i].id, look |-> op.redo.doc.layers[i].look,
                           strokes |-> op.after[i].strokes]]
      BY <1>3 DEF AddsLayer, ShowsLayers
    <2>3. ASSUME NEW i \in DOMAIN op.redo.doc.layers
          PROVE  op.after[i].strokes = strokesNow(op.redo.doc.layers[i].id)
      <3>1. i \in DOMAIN op.after /\ op.after[i].id = op.redo.doc.layers[i].id
        BY <2>2
      <3>2. CASE i \in DOMAIN op.before
        <4>1. op.before[i].id # id /\ op.after[i] = op.before[i] /\ op.before[i] = Drawn(doc)[i]
              /\ i \in DOMAIN Drawn(doc)
          BY <1>3, <3>2 DEF AddsLayer
        <4>2. Drawn(doc)[i].strokes = strokesOf(Drawn(doc)[i].id)
          BY <4>1 DEF Drawn
        <4> QED  BY <2>1, <3>1, <4>1, <4>2
      <3>3. CASE i \notin DOMAIN op.before
        <4>1. op.after[i].id = id /\ op.after[i].strokes = op.redo.copied[id]
          BY <1>3, <3>1, <3>3 DEF AddsLayer
        <4> QED  BY <2>1, <3>1, <4>1
      <3> QED  BY <3>2, <3>3
    <2>4. Drawn(doc)' = [i \in DOMAIN op.redo.doc.layers |->
                            [id |-> op.redo.doc.layers[i].id, look |-> op.redo.doc.layers[i].look,
                             strokes |-> strokesNow(op.redo.doc.layers[i].id)]]
      BY <1>1, <2>1
    <2>5. op.after = Drawn(doc)'
      BY <2>2, <2>3, <2>4
    <2> QED  BY <2>1, <2>5
  <1>4. CASE Activates(op)
    <2>1. 0 \in Ids
      <3>1. MaxSessions \in Nat /\ MaxEdits \in Nat
        BY DrawingAssumption
      <3> QED  BY <3>1 DEF Ids
    <2>2. /\ Apart(buffers') /\ past' = p /\ future' = f /\ doc' = op.redo.doc
          /\ \A x : strokesNow(x) = strokesOf(x)
      BY <1>4, <2>1, ReplayShows DEF Activates, Plain
    <2>3. op.before = Drawn(doc) /\ op.after = op.before
          /\ op.before = [i \in DOMAIN op.redo.doc.layers |->
                             [id |-> op.redo.doc.layers[i].id, look |-> op.redo.doc.layers[i].look,
                              strokes |-> op.before[i].strokes]]
      BY <1>4 DEF Activates, ShowsLayers
    <2>4. ASSUME NEW i \in DOMAIN op.redo.doc.layers
          PROVE  op.before[i].strokes = strokesNow(op.redo.doc.layers[i].id)
      <3>1. i \in DOMAIN Drawn(doc)
        BY <2>3
      <3>2. Drawn(doc)[i].strokes = strokesOf(Drawn(doc)[i].id)
        BY <3>1 DEF Drawn
      <3>3. op.before[i].id = op.redo.doc.layers[i].id
        BY <2>3
      <3> QED  BY <2>2, <2>3, <3>2, <3>3
    <2> QED  BY <1>1, <2>2, <2>3, <2>4
  <1> QED  BY <1>2, <1>3, <1>4 DEF Reversible

\* Undo draws what was drawn before the last operation, and the histories stay chained.
LEMMA UndoUndone ==
    ASSUME DrawingInv, UndoInv, UNCHANGED mode, Undo
    PROVE  UndoInv'
  <1> DEFINE op == Last(past)
             f == <<op>> \o future
  <1>1. /\ session.open /\ (InTurn => ~stroke.in) /\ past # <<>> /\ Replay(op.undo, Front(past), f)
        /\ UNCHANGED stroke
    BY DEF Undo, Gesture
  <1>2. aside' = (aside \/ DOMAIN op.undo.arrays # {})
    BY <1>1 DEF Replay
  <1> SUFFICES ASSUME InTurn, ~aside' PROVE UndoInv'
    BY DEF UndoInv, InTurn
  <1>3. Apart(buffers) /\ Chained(past, future, Drawn(doc)) /\ ~stroke.in
    BY <1>1, <1>2 DEF UndoInv, drawnLast
  <1>4. FitsHistory(past, future, edits)
    BY DEF DrawingInv, EngineInv
  <1>5. /\ Len(past) \in Nat /\ Len(past) > 0 /\ Len(future) \in Nat /\ Len(past) \in 1 .. Len(past)
        /\ op = past[Len(past)]
    BY <1>1, <1>4, SeqShape DEF FitsHistory, Last
  <1>6. Reversible(op) /\ FitsChange(op.undo, edits) /\ op.after = Drawn(doc)
    BY <1>2, <1>3, <1>4, <1>5 DEF Chained, FitsHistory, FitsOp
  <1>7. /\ Apart(buffers') /\ past' = Front(past) /\ future' = f /\ Drawn(doc)' = op.before
    <2> HIDE DEF op, f
    <2> QED  BY <1>1, <1>3, <1>6, UndoShows
  <1>8. /\ Len(Front(past)) = Len(past) - 1
        /\ \A i \in 1 .. Len(past) - 1 : Front(past)[i] = past[i]
    BY <1>1, <1>4, FrontShape DEF FitsHistory
  <1>9. /\ Len(f) = 1 + Len(future)
        /\ \A i \in 1 .. 1 + Len(future) : f[i] = IF i <= 1 THEN op ELSE future[i - 1]
    <2>1. IsSeq(<<op>>) /\ Len(<<op>>) = 1 /\ <<op>>[1] = op
      BY OneIsSeq
    <2>2. /\ Len(f) = 1 + Len(future)
          /\ \A i \in 1 .. 1 + Len(future) : f[i] = IF i <= 1 THEN <<op>>[i] ELSE future[i - 1]
      BY <1>4, <2>1, ConcatShape DEF FitsHistory
    <2>3. \A i \in 1 .. 1 + Len(future) : i <= 1 => i = 1
      BY <1>5
    <2> HIDE DEF f, op
    <2> QED  BY <2>1, <2>2, <2>3
  <1> HIDE DEF op, f
  <1>10. Chained(Front(past), f, op.before)
    <2> DEFINE p == Front(past)
    <2>1. ASSUME NEW i \in 1 .. Len(p) PROVE DOMAIN p[i].undo.arrays # {} \/ Reversible(p[i])
      <3>1. i \in 1 .. Len(past) - 1 /\ i \in 1 .. Len(past)
        BY <1>5, <1>8
      <3> QED  BY <1>3, <1>8, <3>1 DEF Chained
    <2>2. ASSUME NEW i \in 1 .. Len(p) - 1 PROVE p[i].after = p[i + 1].before
      <3>1. i \in 1 .. Len(past) - 1 /\ i + 1 \in 1 .. Len(past) - 1
        BY <1>5, <1>8
      <3> QED  BY <1>3, <1>8, <3>1 DEF Chained
    <2>3. ASSUME Len(p) > 0 PROVE p[Len(p)].after = op.before
      <3>1. Len(p) \in 1 .. Len(past) - 1 /\ Len(p) + 1 = Len(past)
        BY <1>5, <1>8, <2>3
      <3> QED  BY <1>3, <1>5, <1>8, <3>1 DEF Chained
    <2>4. ASSUME NEW i \in 1 .. Len(f) PROVE Reversible(f[i])
      <3>1. i \in 1 .. 1 + Len(future) /\ (i <= 1 \/ i - 1 \in 1 .. Len(future))
        BY <1>5, <1>9
      <3> QED  BY <1>3, <1>6, <1>9, <3>1 DEF Chained
    <2>5. ASSUME NEW i \in 1 .. Len(f) - 1 PROVE f[i].after = f[i + 1].before
      <3>1. /\ i \in 1 .. 1 + Len(future) /\ i + 1 \in 1 .. 1 + Len(future) /\ ~(i + 1 <= 1) /\ (i + 1) - 1 = i
            /\ Len(future) > 0
        BY <1>5, <1>9
      <3>2. f[i + 1] = future[i]
        BY <1>9, <3>1
      <3>3. CASE i <= 1
        <4>1. i = 1
          BY <3>1, <3>3
        <4>2. f[i] = op /\ future[i].before = Drawn(doc)
          BY <1>3, <1>9, <3>1, <3>3, <4>1 DEF Chained
        <4> QED  BY <1>6, <3>2, <4>2
      <3>4. CASE ~(i <= 1)
        <4>1. i - 1 \in 1 .. Len(future) - 1 /\ (i - 1) + 1 = i
          BY <1>5, <1>9, <3>4
        <4>2. future[i - 1].after = future[(i - 1) + 1].before
          BY <1>3, <4>1 DEF Chained
        <4>3. f[i] = future[i - 1]
          BY <1>9, <3>1, <3>4
        <4> QED  BY <3>2, <4>1, <4>2, <4>3
      <3> QED  BY <3>3, <3>4
    <2>6. f[1].before = op.before
      <3>1. 1 \in 1 .. 1 + Len(future) /\ 1 <= 1
        BY <1>5
      <3> QED  BY <1>9, <3>1
    <2> HIDE DEF p
    <2>7. Chained(p, f, op.before)
      BY <2>1, <2>2, <2>3, <2>4, <2>5, <2>6 DEF Chained
    <2> QED  BY <2>7 DEF p
  <1>11. Chained(past', future', Drawn(doc)') /\ ~stroke'.in
    BY <1>1, <1>3, <1>7, <1>10
  <1> QED  BY <1>7, <1>11 DEF UndoInv, drawnLast

\* Redo draws what was drawn after the next operation, and the histories stay chained.
LEMMA RedoUndone ==
    ASSUME DrawingInv, UndoInv, UNCHANGED mode, Redo
    PROVE  UndoInv'
  <1> DEFINE op == Head(future)
             p == Append(past, op)
  <1>1. /\ session.open /\ (InTurn => ~stroke.in) /\ future # <<>> /\ Replay(op.redo, p, Tail(future))
        /\ UNCHANGED stroke
    BY DEF Redo, Gesture
  <1>2. aside' = (aside \/ DOMAIN op.redo.arrays # {})
    BY <1>1 DEF Replay
  <1> SUFFICES ASSUME InTurn, ~aside' PROVE UndoInv'
    BY DEF UndoInv, InTurn
  <1>3. Apart(buffers) /\ Chained(past, future, Drawn(doc)) /\ ~stroke.in
    BY <1>1, <1>2 DEF UndoInv, drawnLast
  <1>4. FitsHistory(past, future, edits)
    BY DEF DrawingInv, EngineInv
  <1>5. /\ Len(past) \in Nat /\ Len(future) > 0 /\ Len(future) \in Nat /\ 1 \in 1 .. Len(future)
    BY <1>1, <1>4, SeqShape DEF FitsHistory
  <1>6. op = future[1]
    BY <1>1, <1>4 DEF FitsHistory, IsSeq
  <1>7. Reversible(op) /\ FitsChange(op.redo, edits) /\ op.before = Drawn(doc)
    BY <1>3, <1>4, <1>5, <1>6 DEF Chained, FitsHistory, FitsOp
  <1>8. /\ Apart(buffers') /\ past' = p /\ future' = Tail(future) /\ Drawn(doc)' = op.after
    <2> HIDE DEF op, p
    <2> QED  BY <1>1, <1>3, <1>7, RedoShows
  <1>9. /\ Len(Tail(future)) = Len(future) - 1
        /\ \A i \in 1 .. Len(future) - 1 : Tail(future)[i] = future[i + 1]
    BY <1>1, <1>4, TailShape DEF FitsHistory
  <1>10. /\ Len(p) = Len(past) + 1
         /\ \A i \in 1 .. Len(past) : p[i] = past[i]
         /\ p[Len(past) + 1] = op
    BY <1>4, AppendShape DEF FitsHistory
  <1> HIDE DEF op, p
  <1>11. Chained(p, Tail(future), op.after)
    <2> DEFINE f == Tail(future)
    <2>1. ASSUME NEW i \in 1 .. Len(p) PROVE DOMAIN p[i].undo.arrays # {} \/ Reversible(p[i])
      <3>1. i \in 1 .. Len(past) \/ i = Len(past) + 1
        BY <1>5, <1>10
      <3> QED  BY <1>3, <1>7, <1>10, <3>1 DEF Chained
    <2>2. ASSUME NEW i \in 1 .. Len(p) - 1 PROVE p[i].after = p[i + 1].before
      <3>1. CASE i \in 1 .. Len(past) - 1
        <4>1. i \in 1 .. Len(past) /\ i + 1 \in 1 .. Len(past)
          BY <1>5, <3>1
        <4> QED  BY <1>3, <1>10, <3>1, <4>1 DEF Chained
      <3>2. CASE i = Len(past)
        <4>1. i \in 1 .. Len(past) /\ Len(past) > 0
          BY <1>5, <1>10, <3>2
        <4> QED  BY <1>3, <1>7, <1>10, <3>2, <4>1 DEF Chained
      <3>3. i \in 1 .. Len(past) - 1 \/ i = Len(past)
        BY <1>5, <1>10
      <3> QED  BY <3>1, <3>2, <3>3
    <2>3. p[Len(p)].after = op.after
      BY <1>10
    <2>4. ASSUME NEW i \in 1 .. Len(f) PROVE Reversible(f[i])
      <3>1. i \in 1 .. Len(future) - 1 /\ i + 1 \in 1 .. Len(future)
        BY <1>5, <1>9
      <3> QED  BY <1>3, <1>9, <3>1 DEF Chained
    <2>5. ASSUME NEW i \in 1 .. Len(f) - 1 PROVE f[i].after = f[i + 1].before
      <3>1. i \in 1 .. Len(future) - 1 /\ i + 1 \in 1 .. Len(future) - 1
        BY <1>5, <1>9
      <3>2. future[i + 1].after = future[(i + 1) + 1].before
        BY <1>3, <3>1 DEF Chained
      <3> QED  BY <1>9, <3>1, <3>2
    <2>6. ASSUME Len(f) > 0 PROVE f[1].before = op.after
      <3>1. 1 \in 1 .. Len(future) - 1 /\ 1 + 1 = 2
        BY <1>5, <1>9, <2>6
      <3>2. f[1] = future[1 + 1] /\ future[1].after = future[1 + 1].before
        BY <1>3, <1>9, <3>1 DEF Chained
      <3> QED  BY <1>6, <3>2
    <2> HIDE DEF f
    <2>7. Chained(p, f, op.after)
      BY <2>1, <2>2, <2>3, <2>4, <2>5, <2>6 DEF Chained
    <2> QED  BY <2>7 DEF f
  <1>12. Chained(past', future', Drawn(doc)') /\ ~stroke'.in
    BY <1>1, <1>3, <1>8, <1>11
  <1> QED  BY <1>8, <1>12 DEF UndoInv, drawnLast

\* The buffers of a new engine, which has no history.
LEMMA EngineUndone ==
    ASSUME NEW d, NEW e, Fits(d, e), NEW strokes, Engine(d, strokes)
    PROVE  UndoInv'
  <1> DEFINE at(id) == SelectInSeq(d.layers, LAMBDA l : l.id = id)
  <1>1. /\ buffers' = [id \in ids(d) |-> at(id)]
        /\ past' = <<>> /\ future' = <<>> /\ stroke' = NoStroke
    BY DEF Engine
  <1>2. Len(d.layers) \in Nat /\ DOMAIN d.layers = 1 .. Len(d.layers)
    BY LayersOf
  <1>3. ASSUME NEW id \in ids(d) PROVE d.layers[at(id)].id = id
    <2> DEFINE I == {i \in 1 .. Len(d.layers) : d.layers[i].id = id}
    <2>1. at(id) = IF I # {} THEN Min(I) ELSE 0
      BY DEF SelectInSeq
    <2>2. I # {} /\ I \in SUBSET Nat
      BY <1>2 DEF ids
    <2>3. Min(I) \in I
      <3> HIDE DEF I
      <3> QED  BY <2>2, FirstPosition
    <2>4. at(id) \in I
      BY <2>1, <2>2, <2>3
    <2> HIDE DEF at
    <2> QED  BY <2>4
  <1>4. Apart(buffers')
    <2> HIDE DEF at
    <2>1. \A i, j \in ids(d) : at(i) = at(j) => i = j
      BY <1>3
    <2> QED  BY <1>1, <2>1 DEF Apart
  <1>5. \A v : Chained(<<>>, <<>>, v)
    <2>1. Len(<<>>) = 0
      BY NoneIsSeq
    <2>2. \A i \in Nat : ~(i \in 1 .. 0) /\ ~(i \in 1 .. 0 - 1)
      OBVIOUS
    <2> QED  BY <2>1, <2>2 DEF Chained
  <1>6. Chained(past', future', drawnLast')
    BY <1>1, <1>5
  <1> QED  BY <1>1, <1>4, <1>6 DEF UndoInv, NoStroke

\* Every gesture keeps the history in step with what is drawn.
LEMMA DrawsUndone ==
    ASSUME DrawingInv, UndoInv, UNCHANGED mode, Draws
    PROVE  UndoInv'
  <1>1. CASE StrokeBegin
    BY <1>1, StrokeBeginUndone
  <1>2. CASE StrokeCommit
    BY <1>2, StrokeCommitUndone
  <1>3. CASE copySelection
    BY <1>3, EngineStays DEF copySelection, Gesture
  <1>4. CASE paste
    BY <1>4, NewLayerUndone DEF paste
  <1>5. CASE AddLayer
    <2>1. newId \notin DOMAIN buffers => strokesOf(newId) = {}
      BY DEF strokesOf
    <2> QED  BY <1>5, <2>1, NewLayerUndone DEF AddLayer
  <1>6. CASE LayerAside
    BY <1>6 DEF LayerAside, UndoInv
  <1>7. CASE RemoveLayer
    BY <1>7, RemoveUndone
  <1>8. CASE DuplicateLayer
    BY <1>8, DuplicateUndone
  <1>9. CASE MergeDown
    BY <1>9, MergeUndone
  <1>10. CASE FlattenImage
    BY <1>10, FlattenUndone
  <1>11. CASE \E i \in DOMAIN doc.layers : \E look \in Looks : setLayer(i, look)
    BY <1>11 DEF setLayer, UndoInv
  <1>12. CASE \E i \in DOMAIN doc.layers : setActiveLayer(doc.layers[i].id)
    BY <1>12, ActiveUndone
  <1>13. CASE Undo
    BY <1>13, UndoUndone
  <1>14. CASE Redo
    BY <1>14, RedoUndone
  <1> QED  BY <1>1, <1>2, <1>3, <1>4, <1>5, <1>6, <1>7, <1>8, <1>9, <1>10, <1>11, <1>12, <1>13, <1>14 DEF Draws

\* The requests of the page leave what is drawn and its history alone.
LEMMA RequestsUndone ==
    ASSUME DrawingInv, UndoInv, UNCHANGED mode, NEW c \in Slots,
           \/ AutosaveFires(c) \/ AutosaveWrite(c) \/ SaveClick(c) \/ SaveVersion(c)
           \/ SaveDoc(c) \/ SaveMark(c) \/ StudioFails(c)
    PROVE  UndoInv'
  <1>1. UNCHANGED <<doc, buffers, pixels, past, future, stroke, aside>>
    BY DEF AutosaveFires, AutosaveWrite, SaveClick, SaveVersion, SaveDoc, SaveMark, StudioFails, engineVars
  <1>2. UNCHANGED session \/ session' = [session EXCEPT !.saves = @ - 1]
    BY DEF AutosaveFires, AutosaveWrite, SaveClick, SaveVersion, SaveDoc, SaveMark, StudioFails, Save
  <1>3. session'.open = session.open
    BY <1>2 DEF DrawingInv, Counts
  <1> QED  BY <1>1, <1>3, EngineStays

\* Every step keeps the history in step with what is drawn.
LEMMA UndoKept ==
    ASSUME DrawingInv, UndoInv, [DrawingNext]_drawingVars
    PROVE  UndoInv'
  <1>1. CASE UNCHANGED drawingVars
    BY <1>1, EngineStays DEF drawingVars, engineVars, requestVars
  <1>2. CASE DrawingNext
    <2>1. UNCHANGED mode
      BY <1>2 DEF DrawingNext
    <2>2. CASE Draws
      BY <2>1, <2>2, DrawsUndone
    <2>3. CASE Open
      <3>1. PICK d, strokes : Fits(d, edits) /\ Engine(d, strokes)
        BY <2>3, OpenedEngine
      <3> QED  BY <3>1, EngineUndone
    <2>4. CASE Close \/ Unload
      <3>1. session'.open = FALSE
        BY <2>4 DEF Close, Unload, Gone, DrawingInv, Counts
      <3> QED  BY <3>1 DEF UndoInv
    <2>5. ASSUME NEW c \in Slots,
                 \/ AutosaveFires(c) \/ AutosaveWrite(c) \/ SaveClick(c) \/ SaveVersion(c)
                 \/ SaveDoc(c) \/ SaveMark(c) \/ StudioFails(c)
          PROVE  UndoInv'
      BY <2>1, <2>5, RequestsUndone
    <2> QED  BY <1>2, <2>2, <2>3, <2>4, <2>5 DEF DrawingNext
  <1> QED  BY <1>1, <1>2

\* The operations of the history follow one on the other, each with what was drawn before and
\* after it, and what is drawn stands between the last that was done and the next that can be
\* redone; no two layers share a buffer.
THEOREM UndoInvariant == DrawingSpec => []UndoInv
  <1>1. DrawingInit => UndoInv
    BY DEF DrawingInit, DrawingStart, UndoInv
  <1>2. DrawingInv /\ UndoInv /\ [DrawingNext]_drawingVars => UndoInv'
    BY UndoKept
  <1> QED  BY <1>1, <1>2, DrawingInvariant, PTL DEF DrawingSpec

\* One gesture after the other, undo brings back what was drawn before the last operation and
\* redo what was drawn after the next one, however long the history and however many layers.
THEOREM UndoStays == DrawingSpec => []UndoRestores
  <1>1. DrawingInv /\ UndoInv => UndoRestores
    <2> SUFFICES ASSUME DrawingInv, UndoInv, InTurn, session.open, ~stroke.in, ~aside
                 PROVE  /\ past # <<>> => Last(past).after = Drawn(doc)
                        /\ future # <<>> => Head(future).before = Drawn(doc)
      BY DEF UndoRestores
    <2>1. Chained(past, future, Drawn(doc))
      BY DEF UndoInv, drawnLast
    <2>2. IsSeq(past) /\ IsSeq(future)
      BY DEF DrawingInv, EngineInv, FitsHistory
    <2>3. past # <<>> => Last(past).after = Drawn(doc)
      BY <2>1, <2>2, SeqShape DEF Chained, Last
    <2>4. ASSUME future # <<>> PROVE Head(future).before = Drawn(doc)
      <3>1. Head(future) = future[1]
        BY <2>2, <2>4 DEF IsSeq
      <3> QED  BY <2>1, <2>2, <2>4, <3>1, SeqShape DEF Chained
    <2> QED  BY <2>3, <2>4
  <1> QED  BY <1>1, DrawingInvariant, UndoInvariant, PTL
=============================================================================
