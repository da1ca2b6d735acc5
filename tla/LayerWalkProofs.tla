-------------------------- MODULE LayerWalkProofs --------------------------
(***************************************************************************)
(* The FileMap of layer.Walk is the layered filesystem but for the paths   *)
(* that go with a directory, and WalkFiles delivers its files, for every   *)
(* image whose layers are differences of filesystems (Built): any number   *)
(* of layers, entries and paths, whiteouts and opaque markers anywhere in  *)
(* a tar, directories removed or replaced.                                 *)
(***************************************************************************)
EXTENDS LayerWalk, TLAPS

\* Entry k of layer l is behind the cursor, or Walk has read every layer.
Behind(l, k) == l < layer \/ (l = layer /\ k < entry)
Walked(l, k) == phase = "walk" => Behind(l, k)

\* What the entry does to p when it is walked.
WritesAt(l, k, p) == IsWrite(image[l][k]) /\ image[l][k].path = p
HidesAt(l, k, p) ==
  \/ image[l][k].kind = "white" /\ image[l][k].path = p
  \/ image[l][k].kind = "opaque" /\ image[l][k].path # <<>> /\ Below(p, image[l][k].path)

\* A path that has an owner was written by it, and nothing walked since in a
\* higher layer wrote or hid it.
OwnerWrote(p) == \E k \in DOMAIN image[owner[p]] : Walked(owner[p], k) /\ WritesAt(owner[p], k, p)
OwnerStands(p) ==
  \A m \in DOMAIN image : \A k \in DOMAIN image[m] :
    m > owner[p] /\ Walked(m, k) => ~WritesAt(m, k, p) /\ ~HidesAt(m, k, p)

\* A path without an owner was hidden by a layer above each one that wrote it.
AllHidden(p) ==
  \A l \in DOMAIN image : \A k \in DOMAIN image[l] :
    Walked(l, k) /\ WritesAt(l, k, p) =>
      \E m \in DOMAIN image : \E j \in DOMAIN image[m] : m > l /\ Walked(m, j) /\ HidesAt(m, j, p)

OwnerOK(p) == IF owner[p] = NoLayer THEN AllHidden(p)
              ELSE owner[p] \in DOMAIN image /\ OwnerWrote(p) /\ OwnerStands(p)

\* The FileMap agrees with what has been walked, until the walk fails.
MapInv == phase # "failed" \/ delivered # <<>> => \A p \in Paths : OwnerOK(p)

\* What was delivered is a file of its owner.
DeliveredFrom(n) ==
  LET d == delivered[n] IN
  /\ d.layer \in DOMAIN image /\ d.entry \in DOMAIN image[d.layer]
  /\ image[d.layer][d.entry].kind = "file" /\ image[d.layer][d.entry].path = d.path
  /\ owner[d.path] = d.layer
  /\ phase # "failed" => Behind(d.layer, d.entry)

\* Behind the cursor of WalkFiles every file has been delivered by its owner,
\* and once.
StreamInv ==
  /\ phase = "walk" => delivered = <<>>
  /\ \A n \in DOMAIN delivered : DeliveredFrom(n)
  /\ \A m, n \in DOMAIN delivered : delivered[m].path = delivered[n].path => m = n
  /\ phase \in {"stream", "done"} =>
       \A l \in DOMAIN image : \A k \in DOMAIN image[l] :
         /\ Behind(l, k) /\ image[l][k].kind = "file" /\ owner[image[l][k].path] = l
         => \E n \in DOMAIN delivered : delivered[n].path = image[l][k].path
  /\ phase = "done" => layer > Len(image)

WalkInv == Built(image) => MapInv /\ StreamInv

-----------------------------------------------------------------------------
(* Types.                                                                  *)

\* An image is a sequence of sequences of entries.
LEMMA ImageFacts ==
  ASSUME image \in Images
  PROVE  /\ Len(image) \in Nat /\ DOMAIN image = 1 .. Len(image)
         /\ \A l \in DOMAIN image : Len(image[l]) \in Nat /\ DOMAIN image[l] = 1 .. Len(image[l])
         /\ \A l \in DOMAIN image : \A k \in DOMAIN image[l] :
              image[l][k] \in [kind : Kinds, path : Paths]
<1>1. image \in Seq(Seq([kind : Kinds, path : Paths]))
  BY LayerWalkAssumption
<1>2. Len(image) \in Nat /\ DOMAIN image = 1 .. Len(image)
  BY <1>1
<1>3. \A l \in DOMAIN image : image[l] \in Seq([kind : Kinds, path : Paths])
  BY <1>1
<1>4. ASSUME NEW l \in DOMAIN image
      PROVE  /\ Len(image[l]) \in Nat /\ DOMAIN image[l] = 1 .. Len(image[l])
             /\ \A k \in DOMAIN image[l] : image[l][k] \in [kind : Kinds, path : Paths]
  <2> DEFINE tar == image[l]
             R == [kind : Kinds, path : Paths]
  <2>1. tar \in Seq(R)
    BY <1>3, <1>4
  <2> HIDE DEF tar, R
  <2>2. /\ Len(tar) \in Nat /\ DOMAIN tar = 1 .. Len(tar)
        /\ \A k \in DOMAIN tar : tar[k] \in R
    BY <2>1
  <2>3. QED BY <2>2 DEF tar, R
<1>5. QED BY <1>2, <1>4

\* The cursor is on an entry of the image.
LEMMA CursorFacts ==
  ASSUME TypeOK, More
  PROVE  /\ layer \in DOMAIN image /\ entry \in DOMAIN image[layer]
         /\ Current \in [kind : Kinds, path : Paths]
<1>1. image \in Images /\ layer \in 1 .. Len(image) + 1 /\ entry \in Nat \ {0}
  BY DEF TypeOK
<1>2. layer \in DOMAIN image
  BY <1>1, ImageFacts DEF More
<1>3. entry \in DOMAIN image[layer]
  BY <1>1, <1>2, ImageFacts DEF More
<1>4. QED BY <1>1, <1>2, <1>3, ImageFacts DEF Current

\* The variables keep their types (Walk, WalkFiles).
THEOREM TypeCorrect == Spec => []TypeOK
<1>1. Init => TypeOK
  <2> SUFFICES ASSUME Init PROVE TypeOK
    OBVIOUS
  <2>1. image \in Images /\ Len(image) \in Nat
    BY ImageFacts DEF Init
  <2>2. 1 \in 1 .. Len(image) + 1 /\ 0 \in 0 .. Len(image)
    BY <2>1
  <2>3. QED BY <2>1, <2>2 DEF Init, TypeOK, NoLayer
<1>2. TypeOK /\ [Next]_vars => TypeOK'
  <2> SUFFICES ASSUME TypeOK, [Next]_vars PROVE TypeOK'
    OBVIOUS
  <2>0. image \in Images /\ Len(image) \in Nat /\ DOMAIN image = 1 .. Len(image)
    BY ImageFacts DEF TypeOK
  <2>1. CASE WalkLayer
    <3>1. layer \in 1 .. Len(image) /\ Current \in [kind : Kinds, path : Paths] /\ 0 \in 0 .. Len(image)
          /\ layer \in 0 .. Len(image)
      BY <2>0, <2>1, CursorFacts DEF WalkLayer, TypeOK
    <3>2. owner' \in [Paths -> 0 .. Len(image)]
      <4>1. CASE Current.kind = "opaque"
        BY <2>1, <3>1, <4>1 DEF WalkLayer, RemovePrefixFromPriorLayers, NoLayer, TypeOK
      <4>2. CASE Current.kind = "white"
        BY <2>1, <3>1, <4>2 DEF WalkLayer, NoLayer, TypeOK
      <4>3. CASE Current.kind = "dir"
        BY <2>1, <3>1, <4>3 DEF WalkLayer, TypeOK
      <4>4. CASE Current.kind \in {"file", "link"}
        BY <2>1, <3>1, <4>4 DEF WalkLayer, TypeOK
      <4>5. QED BY <3>1, <4>1, <4>2, <4>3, <4>4 DEF Kinds
    <3>3. QED BY <2>1, <3>2 DEF WalkLayer, TypeOK
  <2>2. CASE NextLayer
    BY <2>0, <2>2 DEF NextLayer, TypeOK
  <2>3. CASE StartStream
    BY <2>0, <2>3 DEF StartStream, TypeOK
  <2>4. ASSUME More, UNCHANGED <<image, layer, owner>>, phase' \in {"stream", "failed"},
               entry' \in {entry, entry + 1},
               delivered' \in {delivered,
                 Append(delivered, [path |-> Current.path, layer |-> layer, entry |-> entry])}
        PROVE  TypeOK'
    <3>1. [path |-> Current.path, layer |-> layer, entry |-> entry] \in [path : Paths, layer : Nat, entry : Nat]
      BY <2>0, <2>4, CursorFacts DEF TypeOK
    <3>2. delivered' \in Seq([path : Paths, layer : Nat, entry : Nat])
      <4> DEFINE R == [path : Paths, layer : Nat, entry : Nat]
                 r == [path |-> Current.path, layer |-> layer, entry |-> entry]
      <4>1. r \in R /\ delivered \in Seq(R) /\ delivered' \in {delivered, Append(delivered, r)}
        BY <2>4, <3>1 DEF TypeOK
      <4> HIDE DEF R, r
      <4>2. delivered' \in Seq(R)
        BY <4>1
      <4>3. QED BY <4>2 DEF R
    <3>3. QED BY <2>4, <3>2 DEF TypeOK
  <2>5. CASE StreamLayer
    BY <2>4, <2>5 DEF StreamLayer
  <2>6. CASE VisitorFails
    BY <2>4, <2>6 DEF VisitorFails
  <2>7. CASE ReadFails \/ Finish \/ UNCHANGED vars
    BY <2>7 DEF ReadFails, Finish, vars, TypeOK
  <2>8. QED BY <2>1, <2>2, <2>3, <2>5, <2>6, <2>7 DEF Next
<1>3. QED BY <1>1, <1>2, PTL DEF Spec

-----------------------------------------------------------------------------
(* The FileMap.                                                            *)

\* A path keeps its place in the map when no entry walked in the step writes
\* or hides it.
LEMMA OwnerCarries ==
  ASSUME image' = image, NEW p \in Paths, OwnerOK(p), owner'[p] = owner[p],
         \A l \in DOMAIN image : \A k \in DOMAIN image[l] : Walked(l, k) => Walked(l, k)',
         \A l \in DOMAIN image : \A k \in DOMAIN image[l] :
           Walked(l, k)' => Walked(l, k) \/ (~WritesAt(l, k, p) /\ ~HidesAt(l, k, p))
  PROVE  OwnerOK(p)'
<1>1. \A l, k : (WritesAt(l, k, p)' <=> WritesAt(l, k, p)) /\ (HidesAt(l, k, p)' <=> HidesAt(l, k, p))
  BY DEF WritesAt, HidesAt
<1>2. CASE owner[p] = NoLayer
  <2>1. AllHidden(p)
    BY <1>2 DEF OwnerOK
  <2>2. AllHidden(p)'
    <3> SUFFICES ASSUME NEW l \in DOMAIN image, NEW k \in DOMAIN image[l],
                        Walked(l, k)', WritesAt(l, k, p)
                 PROVE  \E m \in DOMAIN image : \E j \in DOMAIN image[m] :
                          m > l /\ Walked(m, j)' /\ HidesAt(m, j, p)'
      BY <1>1 DEF AllHidden
    <3>1. Walked(l, k)
      OBVIOUS
    <3>2. PICK m \in DOMAIN image : \E j \in DOMAIN image[m] : m > l /\ Walked(m, j) /\ HidesAt(m, j, p)
      BY <2>1, <3>1 DEF AllHidden
    <3>3. QED BY <1>1, <3>2
  <2>3. QED BY <1>2, <2>2 DEF OwnerOK
<1>3. CASE owner[p] # NoLayer
  <2>1. owner[p] \in DOMAIN image /\ OwnerWrote(p) /\ OwnerStands(p)
    BY <1>3 DEF OwnerOK
  <2>2. OwnerWrote(p)'
    BY <1>1, <2>1 DEF OwnerWrote
  <2>3. OwnerStands(p)'
    BY <1>1, <2>1 DEF OwnerStands
  <2>4. QED BY <1>3, <2>1, <2>2, <2>3 DEF OwnerOK
<1>4. QED BY <1>2, <1>3

\* What is behind the cursor, and what a step of it adds.
LEMMA CursorMoves ==
  ASSUME TypeOK, image' = image, NEW l \in DOMAIN image, NEW k \in DOMAIN image[l]
  PROVE  /\ More /\ layer' = layer /\ entry' = entry + 1 =>
              (Behind(l, k)' <=> Behind(l, k) \/ (l = layer /\ k = entry))
         /\ ~More /\ layer <= Len(image) /\ layer' = layer + 1 /\ entry' = 1 =>
              (Behind(l, k)' <=> Behind(l, k))
         /\ layer > Len(image) => Behind(l, k)
<1>1. /\ layer \in Nat /\ entry \in Nat \ {0} /\ Len(image) \in Nat /\ Len(image[l]) \in Nat
      /\ l \in Nat /\ l >= 1 /\ l <= Len(image) /\ k \in Nat /\ k >= 1 /\ k <= Len(image[l])
  <2>1. image \in Images /\ layer \in 1 .. Len(image) + 1 /\ entry \in Nat \ {0}
    BY DEF TypeOK
  <2>2. l \in 1 .. Len(image) /\ k \in 1 .. Len(image[l]) /\ Len(image) \in Nat /\ Len(image[l]) \in Nat
    BY <2>1, ImageFacts
  <2>3. QED BY <2>1, <2>2
<1>2. ASSUME More, layer' = layer, entry' = entry + 1
      PROVE  Behind(l, k)' <=> Behind(l, k) \/ (l = layer /\ k = entry)
  BY <1>1, <1>2 DEF Behind
<1>3. ASSUME ~More, layer <= Len(image), layer' = layer + 1, entry' = 1
      PROVE  Behind(l, k)' <=> Behind(l, k)
  <2>1. ~(entry <= Len(image[layer]))
    BY <1>3 DEF More
  <2>2. CASE l = layer
    BY <1>1, <1>3, <2>1, <2>2 DEF Behind
  <2>3. CASE l # layer
    BY <1>1, <1>3, <2>3 DEF Behind
  <2>4. QED BY <2>2, <2>3
<1>4. layer > Len(image) => Behind(l, k)
  BY <1>1 DEF Behind
<1>5. QED BY <1>2, <1>3, <1>4

\* walkLayer keeps the map in step with the entries it has read.
LEMMA WalkLayerKeepsMap ==
  ASSUME TypeOK, Built(image), WalkLayer, NEW p \in Paths, OwnerOK(p)
  PROVE  OwnerOK(p)'
<1> DEFINE e == Current
\* The cursor and the owner before the step, as constants.
<1> SUFFICES ASSUME NEW L, L = layer, NEW K, K = entry, NEW o, o = owner[p] PROVE OwnerOK(p)'
  OBVIOUS
<1>0. /\ phase = "walk" /\ phase' = "walk" /\ image' = image /\ layer' = layer /\ entry' = entry + 1
      /\ More
  BY DEF WalkLayer
<1>1. /\ layer \in DOMAIN image /\ entry \in DOMAIN image[layer]
      /\ e \in [kind : Kinds, path : Paths] /\ e = image[layer][entry]
  BY <1>0, CursorFacts DEF Current
<1>2. /\ image \in Images /\ layer \in Nat /\ layer >= 1 /\ entry \in Nat /\ entry >= 1
      /\ owner[p] \in Nat /\ owner \in [Paths -> Nat]
      /\ \A l \in DOMAIN image : l \in Nat /\ l >= 1
      /\ \A l \in DOMAIN image : \A k \in DOMAIN image[l] : k \in Nat /\ k >= 1
  <2>1. image \in Images
    BY DEF TypeOK
  <2>2. QED BY <2>1, ImageFacts DEF TypeOK
<1>3. ASSUME NEW l \in DOMAIN image, NEW k \in DOMAIN image[l]
      PROVE  /\ Walked(l, k) <=> l < layer \/ (l = layer /\ k < entry)
             /\ Walked(l, k)' <=> Walked(l, k) \/ (l = layer /\ k = entry)
  <2>1. Behind(l, k)' <=> Behind(l, k) \/ (l = layer /\ k = entry)
    BY <1>0, <1>3, CursorMoves
  <2>2. QED BY <1>0, <2>1 DEF Walked, Behind
<1>4. \A l, k : (WritesAt(l, k, p)' <=> WritesAt(l, k, p)) /\ (HidesAt(l, k, p)' <=> HidesAt(l, k, p))
  BY <1>0 DEF WritesAt, HidesAt
\* The entry is of no concern to p.
<1>5. ASSUME ~WritesAt(layer, entry, p), ~HidesAt(layer, entry, p), owner'[p] = owner[p]
      PROVE  OwnerOK(p)'
  <2>1. \A l \in DOMAIN image : \A k \in DOMAIN image[l] : Walked(l, k) => Walked(l, k)'
    BY <1>3
  <2>2. \A l \in DOMAIN image : \A k \in DOMAIN image[l] :
          Walked(l, k)' => Walked(l, k) \/ (~WritesAt(l, k, p) /\ ~HidesAt(l, k, p))
    BY <1>3, <1>5
  <2>3. QED BY <1>0, <1>5, <2>1, <2>2, OwnerCarries
\* The entry writes p: the layer at hand owns it, and none is above.
<1>6. CASE WritesAt(layer, entry, p)
  <2>1. e.kind \in {"file", "link"} /\ e.path = p
    BY <1>1, <1>6 DEF WritesAt, IsWrite
  <2>2. owner'[p] = layer
    BY <1>2, <2>1 DEF WalkLayer
  <2>3. OwnerWrote(p)'
    <3>1. Walked(L, K)' /\ WritesAt(L, K, p)'
      BY <1>1, <1>3, <1>4, <1>6
    <3>2. owner'[p] = L /\ K \in DOMAIN image[L]
      BY <1>1, <2>2
    <3>3. QED BY <1>0, <3>1, <3>2 DEF OwnerWrote, Walked, Behind, WritesAt
  <2>4. \A m \in DOMAIN image : \A k \in DOMAIN image[m] : ~(m > layer /\ Walked(m, k)')
    BY <1>2, <1>3
  <2>5. OwnerStands(p)'
    BY <1>0, <2>2, <2>4 DEF OwnerStands
  <2>6. owner'[p] # NoLayer
    BY <1>2, <2>2 DEF NoLayer
  <2>7. QED BY <1>0, <1>1, <2>2, <2>3, <2>5, <2>6 DEF OwnerOK
\* The entry hides p, and p loses its owner: the layers that wrote it are below.
<1>7. ASSUME HidesAt(layer, entry, p), owner'[p] = NoLayer,
             \A k \in DOMAIN image[layer] : Walked(layer, k) => ~WritesAt(layer, k, p),
             ~WritesAt(layer, entry, p)
      PROVE  OwnerOK(p)'
  <2>1. AllHidden(p)'
    <3> SUFFICES ASSUME NEW l \in DOMAIN image, NEW k \in DOMAIN image[l],
                        Walked(l, k)', WritesAt(l, k, p)
                 PROVE  \E m \in DOMAIN image : \E j \in DOMAIN image[m] :
                          m > l /\ Walked(m, j)' /\ HidesAt(m, j, p)'
      BY <1>0, <1>4 DEF AllHidden
    <3>1. layer > l
      BY <1>2, <1>3, <1>7
    <3>2. Walked(L, K)' /\ HidesAt(L, K, p)'
      BY <1>1, <1>3, <1>4, <1>7
    <3>3. QED BY <1>1, <3>1, <3>2
  <2>2. QED BY <1>0, <1>7, <2>1 DEF OwnerOK
<1>8. CASE e.kind = "white" /\ e.path = p
  <2>1. owner'[p] = NoLayer
    BY <1>2, <1>8 DEF WalkLayer
  <2>2. HidesAt(layer, entry, p) /\ ~WritesAt(layer, entry, p)
    BY <1>1, <1>8 DEF HidesAt, WritesAt, IsWrite
  <2>3. BuiltEntry(image, layer, entry)
    BY <1>1 DEF Built
  <2>4. \A j \in 1 .. entry - 1 : IsWrite(image[layer][j]) => image[layer][j].path # p
    BY <1>1, <1>8, <2>3 DEF BuiltEntry
  <2>5. \A k \in DOMAIN image[layer] : Walked(layer, k) => ~WritesAt(layer, k, p)
    <3> SUFFICES ASSUME NEW k \in DOMAIN image[layer], Walked(layer, k) PROVE ~WritesAt(layer, k, p)
      OBVIOUS
    <3>1. k \in 1 .. entry - 1
      BY <1>1, <1>2, <1>3
    <3>2. QED BY <2>4, <3>1 DEF WritesAt
  <2>6. QED BY <1>7, <2>1, <2>2, <2>5
<1>9. CASE e.kind = "opaque" /\ e.path # <<>> /\ Below(p, e.path)
  <2>1. HidesAt(layer, entry, p) /\ ~WritesAt(layer, entry, p)
    BY <1>1, <1>9 DEF HidesAt, WritesAt, IsWrite
  <2>2. e.path # <<>>
    BY <1>9
  <2>3. owner' = RemovePrefixFromPriorLayers(owner, e.path, layer)
    BY <1>9 DEF WalkLayer
  <2>4. CASE owner[p] < layer
    <3>1. owner'[p] = NoLayer
      BY <1>9, <2>2, <2>3, <2>4 DEF RemovePrefixFromPriorLayers
    <3>2. CASE owner[p] = NoLayer
      \* No entry of this layer can have written p: it would be hidden above.
      <4>1. AllHidden(p)
        BY <3>2 DEF OwnerOK
      <4>2. ASSUME NEW k \in DOMAIN image[layer], Walked(layer, k), WritesAt(layer, k, p) PROVE FALSE
        <5>1. PICK m \in DOMAIN image : \E j \in DOMAIN image[m] : m > layer /\ Walked(m, j)
          BY <1>1, <4>1, <4>2 DEF AllHidden
        <5>2. QED BY <1>2, <1>3, <5>1
      <4>3. QED BY <1>7, <2>1, <3>1, <4>2
    <3>3. CASE owner[p] # NoLayer
      <4>1. OwnerStands(p)
        BY <3>3 DEF OwnerOK
      <4>2. \A k \in DOMAIN image[layer] : Walked(layer, k) => ~WritesAt(layer, k, p)
        BY <1>1, <1>2, <2>4, <4>1 DEF OwnerStands
      <4>3. QED BY <1>7, <2>1, <3>1, <4>2
    <3>4. QED BY <3>2, <3>3
  <2>5. CASE ~(owner[p] < layer)
    <3>1. owner'[p] = owner[p] /\ owner[p] # NoLayer
      BY <1>2, <2>3, <2>5 DEF RemovePrefixFromPriorLayers, NoLayer
    <3>2. owner[p] \in DOMAIN image /\ OwnerWrote(p) /\ OwnerStands(p)
      BY <3>1 DEF OwnerOK
    <3>3. OwnerWrote(p)'
      <4>1. PICK k \in DOMAIN image[o] : Walked(o, k) /\ WritesAt(o, k, p)
        BY <3>2 DEF OwnerWrote
      <4>2. Walked(o, k)' /\ WritesAt(o, k, p)'
        BY <1>3, <1>4, <3>2, <4>1
      <4>3. QED BY <1>0, <3>1, <4>1, <4>2 DEF OwnerWrote, Walked, Behind, WritesAt
    <3>4. OwnerStands(p)'
      <4>1. \A m \in DOMAIN image : \A k \in DOMAIN image[m] : ~(m > owner[p] /\ Walked(m, k)')
        BY <1>2, <1>3, <2>5
      <4>2. QED BY <1>0, <3>1, <4>1 DEF OwnerStands
    <3>5. QED BY <1>0, <3>1, <3>2, <3>3, <3>4 DEF OwnerOK
  <2>6. QED BY <2>4, <2>5
\* Otherwise the entry is of no concern to p.
<1>10. CASE /\ ~WritesAt(layer, entry, p)
            /\ ~(e.kind = "white" /\ e.path = p) /\ ~(e.kind = "opaque" /\ e.path # <<>> /\ Below(p, e.path))
  <2>1. ~HidesAt(layer, entry, p)
    BY <1>1, <1>10 DEF HidesAt
  <2>2. owner'[p] = owner[p]
    <3>1. CASE e.kind = "opaque"
      BY <1>10, <3>1 DEF WalkLayer, RemovePrefixFromPriorLayers
    <3>2. CASE e.kind = "white"
      BY <1>2, <1>10, <3>2 DEF WalkLayer
    <3>3. CASE e.kind = "dir"
      BY <3>3 DEF WalkLayer
    <3>4. CASE e.kind \in {"file", "link"}
      BY <1>1, <1>2, <1>10, <3>4 DEF WalkLayer, WritesAt, IsWrite
    <3>5. QED BY <1>1, <3>1, <3>2, <3>3, <3>4 DEF Kinds
  <2>3. QED BY <1>5, <1>10, <2>1, <2>2
<1>11. QED BY <1>6, <1>8, <1>9, <1>10

\* Every step keeps the map, as long as it is going to be used.
LEMMA StepKeepsMap ==
  ASSUME TypeOK, Built(image), MapInv, StreamInv, [Next]_vars
  PROVE  MapInv'
<1>1. ASSUME NEW p \in Paths, OwnerOK(p), image' = image, owner' = owner,
             \A l \in DOMAIN image : \A k \in DOMAIN image[l] : Walked(l, k)' <=> Walked(l, k)
      PROVE  OwnerOK(p)'
  BY <1>1, OwnerCarries
<1>2. CASE WalkLayer
  <2>1. ASSUME NEW p \in Paths PROVE OwnerOK(p)'
    BY <1>2, WalkLayerKeepsMap DEF WalkLayer, MapInv
  <2>2. QED BY <2>1 DEF MapInv
<1>3. CASE NextLayer
  <2>1. image' = image /\ owner' = owner /\ phase' = phase /\ phase # "failed"
    BY <1>3 DEF NextLayer
  <2>2. ASSUME NEW l \in DOMAIN image, NEW k \in DOMAIN image[l] PROVE Walked(l, k)' <=> Walked(l, k)
    <3>1. Behind(l, k)' <=> Behind(l, k)
      BY <1>3, <2>2, CursorMoves DEF NextLayer
    <3>2. QED BY <2>1, <3>1 DEF Walked
  <2>3. QED BY <1>1, <2>1, <2>2 DEF MapInv
<1>4. CASE StartStream
  <2>1. image' = image /\ owner' = owner /\ phase # "failed" /\ phase' # "walk" /\ layer > Len(image)
    BY <1>4 DEF StartStream
  <2>2. ASSUME NEW l \in DOMAIN image, NEW k \in DOMAIN image[l] PROVE Walked(l, k)' <=> Walked(l, k)
    <3>1. Behind(l, k)
      BY <1>4, <2>1, <2>2, CursorMoves
    <3>2. QED BY <2>1, <3>1 DEF Walked
  <2>3. QED BY <1>1, <2>1, <2>2 DEF MapInv
\* Once everything is walked the cursor no longer matters.
<1>5. ASSUME image' = image, owner' = owner, phase # "walk", phase' # "walk",
             phase # "failed" \/ delivered # <<>>
      PROVE  MapInv'
  <2>1. \A l \in DOMAIN image : \A k \in DOMAIN image[l] : Walked(l, k)' <=> Walked(l, k)
    BY <1>5 DEF Walked
  <2>2. QED BY <1>1, <1>5, <2>1 DEF MapInv
<1>6. CASE StreamLayer \/ VisitorFails \/ Finish
  BY <1>5, <1>6 DEF StreamLayer, VisitorFails, Finish
<1>7. CASE ReadFails
  <2>1. CASE phase = "walk"
    BY <1>7, <2>1 DEF ReadFails, StreamInv, MapInv
  <2>2. CASE phase = "stream"
    BY <1>5, <1>7, <2>2 DEF ReadFails
  <2>3. QED BY <1>7, <2>1, <2>2 DEF ReadFails
<1>8. CASE UNCHANGED vars
  <2>1. \A l \in DOMAIN image : \A k \in DOMAIN image[l] : Walked(l, k)' <=> Walked(l, k)
    BY <1>8 DEF vars, Walked, Behind
  <2>2. QED BY <1>1, <1>8, <2>1 DEF vars, MapInv
<1>9. QED BY <1>2, <1>3, <1>4, <1>6, <1>7, <1>8 DEF Next

-----------------------------------------------------------------------------
(* The delivery.                                                           *)

\* streamLayer hands over a file of the layer that owns it, and has not done
\* so before: an earlier file of that path would be in the same tar.
LEMMA DeliveryIsNew ==
  ASSUME TypeOK, Built(image), StreamInv, phase = "stream", More, Visits,
         UNCHANGED <<image, owner>>,
         delivered' = Append(delivered, [path |-> Current.path, layer |-> layer, entry |-> entry])
  PROVE  /\ Len(delivered) \in Nat /\ DOMAIN delivered = 1 .. Len(delivered)
         /\ DOMAIN delivered' = 1 .. Len(delivered) + 1
         /\ \A n \in 1 .. Len(delivered) : delivered'[n] = delivered[n]
         /\ delivered'[Len(delivered) + 1] = [path |-> Current.path, layer |-> layer, entry |-> entry]
         /\ \A m, n \in DOMAIN delivered' : delivered'[m].path = delivered'[n].path => m = n
<1> DEFINE R == [path : Paths, layer : Nat, entry : Nat]
           r == [path |-> Current.path, layer |-> layer, entry |-> entry]
           N == Len(delivered)
<1>1. /\ layer \in DOMAIN image /\ entry \in DOMAIN image[layer]
      /\ Current \in [kind : Kinds, path : Paths] /\ Current = image[layer][entry]
      /\ Current.kind = "file" /\ owner[Current.path] = layer
  BY CursorFacts DEF Current, Visits
<1>2. r \in R
  BY <1>1 DEF TypeOK
<1>3. /\ N \in Nat /\ DOMAIN delivered = 1 .. N
      /\ DOMAIN delivered' = 1 .. N + 1
      /\ \A n \in 1 .. N : delivered'[n] = delivered[n]
      /\ delivered'[N + 1] = r
  <2>1. delivered \in Seq(R) /\ delivered' = Append(delivered, r)
    BY DEF TypeOK
  <2> HIDE DEF R, r
  <2>2. QED BY <1>2, <2>1
<1>4. ASSUME NEW n \in 1 .. N PROVE delivered[n].path # Current.path
  <2> DEFINE d == delivered[n]
  <2>1. SUFFICES ASSUME d.path = Current.path PROVE FALSE
    OBVIOUS
  <2>2. DeliveredFrom(n)
    BY <1>3, <1>4 DEF StreamInv
  <2>3. /\ d.layer = layer /\ d.entry \in DOMAIN image[layer]
        /\ image[layer][d.entry].kind = "file" /\ image[layer][d.entry].path = Current.path
        /\ Behind(layer, d.entry)
    BY <1>1, <2>1, <2>2 DEF DeliveredFrom
  <2>4. d.entry \in 1 .. entry - 1
    <3>1. image \in Images /\ entry \in Nat /\ layer \in Nat
      BY DEF TypeOK
    <3>2. d.entry \in 1 .. Len(image[layer]) /\ Len(image[layer]) \in Nat
      BY <1>1, <2>3, <3>1, ImageFacts
    <3>3. d.entry < entry
      BY <2>3, <3>1 DEF Behind
    <3>4. QED BY <3>1, <3>2, <3>3
  <2>5. BuiltEntry(image, layer, entry)
    BY <1>1 DEF Built
  \* The same file twice in a tar: not built so.
  <2>6. ~IsPrefix(Current.path, image[layer][d.entry].path)
    <3>1. d.entry \in DOMAIN image[layer] \ {entry}
      BY <2>3, <2>4, <1>1 DEF TypeOK
    <3>2. IsWrite(Current) /\ image[layer][d.entry].kind # "white"
      BY <1>1, <2>3 DEF IsWrite
    <3>3. QED BY <1>1, <2>5, <3>1, <3>2 DEF BuiltEntry
  <2>7. Current.path \in Paths /\ Paths \subseteq Seq(STRING)
    BY <1>1, LayerWalkAssumption
  <2>8. IsPrefix(Current.path, Current.path)
    BY <2>7 DEF IsPrefix
  <2>9. QED BY <2>3, <2>6, <2>8
<1>5. r.path = Current.path
  OBVIOUS
<1>6. ASSUME NEW m \in 1 .. N + 1, NEW n \in 1 .. N + 1, delivered'[m].path = delivered'[n].path PROVE m = n
  <2>1. CASE m \in 1 .. N /\ n \in 1 .. N
    BY <1>3, <1>6, <2>1 DEF StreamInv
  <2>2. CASE m \in 1 .. N /\ n = N + 1
    BY <1>3, <1>4, <1>5, <1>6, <2>2
  <2>3. CASE m = N + 1 /\ n \in 1 .. N
    BY <1>3, <1>4, <1>5, <1>6, <2>3
  <2>4. CASE m = N + 1 /\ n = N + 1
    BY <2>4
  <2>5. QED BY <1>3, <1>6, <2>1, <2>2, <2>3, <2>4
<1>7. QED BY <1>3, <1>6

\* Files of the image behind the cursor whose owner is their layer.
Due(l, k) == Behind(l, k) /\ image[l][k].kind = "file" /\ owner[image[l][k].path] = l

\* Every step keeps what was delivered in line with the map and the cursor.
LEMMA StepKeepsStream ==
  ASSUME TypeOK, Built(image), StreamInv, [Next]_vars
  PROVE  StreamInv'
<1>0. /\ Len(image) \in Nat
      /\ \A l \in DOMAIN image : l \in Nat /\ l >= 1
      /\ \A l \in DOMAIN image : \A k \in DOMAIN image[l] : k \in Nat /\ k >= 1
  <2>1. image \in Images
    BY DEF TypeOK
  <2>2. QED BY <2>1, ImageFacts
\* Nothing is delivered and nothing new is behind the cursor.
<1>1. ASSUME UNCHANGED <<image, owner, delivered>>,
             phase' = "walk" => delivered = <<>>,
             phase' # "failed" => phase # "failed",
             phase' \in {"stream", "done"} => phase \in {"stream", "done"},
             phase' # "failed" => \A l \in DOMAIN image : \A k \in DOMAIN image[l] : Behind(l, k)' <=> Behind(l, k),
             phase' = "done" => layer' > Len(image)
      PROVE  StreamInv'
  <2>1. ASSUME NEW n \in DOMAIN delivered' PROVE DeliveredFrom(n)'
    <3>1. DeliveredFrom(n)
      BY <1>1, <2>1 DEF StreamInv
    <3>2. QED BY <1>1, <3>1 DEF DeliveredFrom, Behind
  <2>2. \A m, n \in DOMAIN delivered' : delivered'[m].path = delivered'[n].path => m = n
    BY <1>1 DEF StreamInv
  <2>3. ASSUME phase' \in {"stream", "done"}, NEW l \in DOMAIN image', NEW k \in DOMAIN image'[l], Due(l, k)'
        PROVE  \E n \in DOMAIN delivered' : delivered'[n].path = image'[l][k].path
    <3>1. phase \in {"stream", "done"} /\ Due(l, k)
      BY <1>1, <2>3 DEF Due
    <3>2. QED BY <1>1, <2>3, <3>1 DEF StreamInv, Due
  <2>4. QED BY <1>1, <2>1, <2>2, <2>3 DEF StreamInv, Due
<1>2. CASE WalkLayer
  <2>1. delivered' = <<>> /\ phase' = "walk"
    BY <1>2 DEF WalkLayer, StreamInv
  <2>2. QED BY <2>1 DEF StreamInv
<1>3. CASE NextLayer
  <2>1. \A l \in DOMAIN image : \A k \in DOMAIN image[l] : Behind(l, k)' <=> Behind(l, k)
    BY <1>3, CursorMoves DEF NextLayer
  <2>2. UNCHANGED <<image, owner, delivered, phase>> /\ phase \in {"walk", "stream"}
    BY <1>3 DEF NextLayer
  <2>3. QED BY <1>1, <2>1, <2>2 DEF StreamInv
<1>4. CASE StartStream
  <2>1. delivered' = <<>> /\ phase' = "stream" /\ layer' = 1 /\ entry' = 1 /\ image' = image
    BY <1>4 DEF StartStream, StreamInv
  <2>2. \A l \in DOMAIN image' : \A k \in DOMAIN image'[l] : ~Behind(l, k)'
    BY <1>0, <2>1 DEF Behind
  <2>3. QED BY <2>1, <2>2 DEF StreamInv
<1>5. CASE (StreamLayer \/ VisitorFails) /\ Visits
      /\ delivered' = Append(delivered, [path |-> Current.path, layer |-> layer, entry |-> entry])
  <2> SUFFICES ASSUME NEW N, N = Len(delivered), NEW L, L = layer, NEW K, K = entry PROVE StreamInv'
    OBVIOUS
  <2>1. /\ phase = "stream" /\ More /\ UNCHANGED <<image, owner, layer>>
        /\ (phase' = "stream" /\ entry' = entry + 1) \/ phase' = "failed"
    BY <1>5 DEF StreamLayer, VisitorFails
  <2>2. /\ N \in Nat /\ DOMAIN delivered = 1 .. N /\ DOMAIN delivered' = 1 .. N + 1
        /\ \A n \in 1 .. N : delivered'[n] = delivered[n]
        /\ delivered'[N + 1] = [path |-> Current.path, layer |-> layer, entry |-> entry]
        /\ \A m, n \in DOMAIN delivered' : delivered'[m].path = delivered'[n].path => m = n
    BY <1>5, <2>1, DeliveryIsNew
  <2>3. /\ L \in DOMAIN image /\ K \in DOMAIN image[L] /\ Current = image[L][K]
        /\ Current.kind = "file" /\ owner[Current.path] = L
    BY <1>5, <2>1, CursorFacts DEF Current, Visits
  <2>4. ASSUME phase' # "failed", NEW l \in DOMAIN image, NEW k \in DOMAIN image[l]
        PROVE  Behind(l, k)' <=> Behind(l, k) \/ (l = L /\ k = K)
    BY <2>1, <2>4, CursorMoves
  <2>5. ASSUME NEW n \in 1 .. N PROVE DeliveredFrom(n)'
    <3>1. DeliveredFrom(n) /\ delivered'[n] = delivered[n]
      BY <2>2, <2>5 DEF StreamInv
    <3>2. phase' # "failed" => Behind(delivered[n].layer, delivered[n].entry)'
      <4> SUFFICES ASSUME phase' # "failed", NEW l, l = delivered[n].layer, NEW k, k = delivered[n].entry
                   PROVE  Behind(l, k)'
        BY <2>2, <2>5 DEF Behind
      <4>1. l \in DOMAIN image /\ k \in DOMAIN image[l] /\ Behind(l, k)
        BY <2>1, <3>1 DEF DeliveredFrom
      <4>2. QED BY <2>4, <4>1
    <3>3. QED BY <2>1, <3>1, <3>2 DEF DeliveredFrom, Behind
  <2>6. DeliveredFrom(N + 1)'
    <3>1. phase' # "failed" => Behind(L, K)'
      BY <2>3, <2>4
    <3>2. /\ delivered'[N + 1].path = Current.path /\ delivered'[N + 1].layer = L
          /\ delivered'[N + 1].entry = K
      BY <2>2
    <3>3. QED BY <2>1, <2>3, <3>1, <3>2 DEF DeliveredFrom, Behind
  <2>7. \A n \in DOMAIN delivered' : DeliveredFrom(n)'
    <3>1. \A n \in 1 .. N + 1 : n \in 1 .. N \/ n = N + 1
      BY <2>2
    <3>2. QED BY <2>2, <2>5, <2>6, <3>1
  <2>8. ASSUME phase' \in {"stream", "done"}, NEW l \in DOMAIN image', NEW k \in DOMAIN image'[l], Due(l, k)'
        PROVE  \E n \in DOMAIN delivered' : delivered'[n].path = image'[l][k].path
    <3>0. N + 1 \in DOMAIN delivered' /\ \A n \in 1 .. N : n \in DOMAIN delivered'
      BY <2>2
    <3>1. Due(l, k) \/ (l = L /\ k = K)
      BY <2>1, <2>4, <2>8 DEF Due
    <3>2. CASE Due(l, k)
      <4>1. PICK n \in 1 .. N : delivered[n].path = image[l][k].path
        BY <2>1, <2>2, <2>8, <3>2 DEF StreamInv, Due
      <4>2. QED BY <2>1, <2>2, <3>0, <4>1
    <3>3. CASE l = L /\ k = K
      <4>1. delivered'[N + 1].path = image'[l][k].path
        BY <2>1, <2>2, <2>3, <3>3
      <4>2. QED BY <3>0, <4>1
    <3>4. QED BY <3>1, <3>2, <3>3
  <2>9. QED BY <2>1, <2>2, <2>7, <2>8 DEF StreamInv, Due
<1>6. CASE StreamLayer /\ ~Visits
  <2>1. /\ phase = "stream" /\ phase' = "stream" /\ More /\ UNCHANGED <<image, owner, layer, delivered>>
        /\ entry' = entry + 1
    BY <1>6 DEF StreamLayer
  <2>2. layer \in DOMAIN image /\ entry \in DOMAIN image[layer] /\ ~(Current.kind = "file" /\ owner[Current.path] = layer)
    BY <1>6, <2>1, CursorFacts DEF Visits
  <2>3. ASSUME NEW l \in DOMAIN image, NEW k \in DOMAIN image[l]
        PROVE  Behind(l, k)' <=> Behind(l, k) \/ (l = layer /\ k = entry)
    BY <2>1, <2>3, CursorMoves
  <2>4. ASSUME NEW n \in DOMAIN delivered' PROVE DeliveredFrom(n)'
    <3>1. DeliveredFrom(n)
      BY <2>1, <2>4 DEF StreamInv
    <3> SUFFICES ASSUME NEW l, l = delivered[n].layer, NEW k, k = delivered[n].entry PROVE DeliveredFrom(n)'
      OBVIOUS
    <3>2. l \in DOMAIN image /\ k \in DOMAIN image[l] /\ Behind(l, k)
      BY <2>1, <3>1 DEF DeliveredFrom
    <3>3. Behind(l, k)'
      BY <2>3, <3>2
    <3>4. QED BY <2>1, <3>1, <3>3 DEF DeliveredFrom, Behind
  <2>5. ASSUME NEW l \in DOMAIN image', NEW k \in DOMAIN image'[l], Due(l, k)' PROVE Due(l, k)
    BY <2>1, <2>2, <2>3, <2>5 DEF Due, Current
  <2>6. QED BY <2>1, <2>4, <2>5 DEF StreamInv, Due
<1>7. CASE ReadFails
  BY <1>1, <1>7 DEF ReadFails
<1>8. CASE Finish
  BY <1>1, <1>8 DEF Finish, Behind
<1>9. CASE UNCHANGED vars
  BY <1>1, <1>9 DEF vars, Behind, StreamInv
<1>10. QED
  BY <1>2, <1>3, <1>4, <1>5, <1>6, <1>7, <1>8, <1>9 DEF Next, StreamLayer, VisitorFails

-----------------------------------------------------------------------------
(* Theorems.                                                               *)

\* The map follows the walk and the delivery follows the map, for an image of
\* filesystem differences, up to an error (walkLayer, streamLayer).
THEOREM WalkInvariant == Spec => []WalkInv
<1>1. Init => WalkInv
  <2> SUFFICES ASSUME Init PROVE MapInv /\ StreamInv
    BY DEF WalkInv
  <2>1. image \in Images /\ phase = "walk" /\ layer = 1 /\ entry = 1 /\ delivered = <<>>
        /\ \A p \in Paths : owner[p] = NoLayer
    BY DEF Init
  <2>2. ASSUME NEW l \in DOMAIN image, NEW k \in DOMAIN image[l] PROVE ~Walked(l, k)
    <3>1. l \in Nat /\ l >= 1 /\ k \in Nat /\ k >= 1
      BY <2>1, <2>2, ImageFacts
    <3>2. QED BY <2>1, <3>1 DEF Walked, Behind
  <2>3. MapInv
    BY <2>1, <2>2 DEF MapInv, OwnerOK, AllHidden
  <2>4. StreamInv
    BY <2>1 DEF StreamInv
  <2>5. QED BY <2>3, <2>4
<1>2. TypeOK /\ WalkInv /\ [Next]_vars => WalkInv'
  <2> SUFFICES ASSUME TypeOK, WalkInv, [Next]_vars, Built(image)' PROVE MapInv' /\ StreamInv'
    BY DEF WalkInv
  <2>1. image' = image
    BY DEF Next, WalkLayer, NextLayer, StartStream, StreamLayer, VisitorFails, ReadFails, Finish, vars
  <2>2. Built(image)
    BY <2>1
  <2>3. MapInv /\ StreamInv
    BY <2>2 DEF WalkInv
  <2>4. QED BY <2>2, <2>3, StepKeepsMap, StepKeepsStream
<1>3. QED BY <1>1, <1>2, TypeCorrect, PTL DEF Spec

\* Two layers cannot both be the last to write a path.
LEMMA LastWriterIsUnique ==
  ASSUME image \in Images, NEW p, NEW l \in DOMAIN image, NEW o \in DOMAIN image,
         LastWriter(l, p), LastWriter(o, p)
  PROVE  l = o
<1>1. Len(image) \in Nat /\ l \in 1 .. Len(image) /\ o \in 1 .. Len(image)
  BY ImageFacts
<1>2. l < o => o \in l + 1 .. Len(image)
  BY <1>1
<1>3. o < l => l \in o + 1 .. Len(image)
  BY <1>1
<1>4. ~(l < o) /\ ~(o < l)
  BY <1>2, <1>3 DEF LastWriter
<1>5. QED BY <1>1, <1>4

\* The layer that shows a path is its effective layer; a path lost with its
\* directory has none.
LEMMA EffectiveFacts ==
  ASSUME image \in Images, NEW p, NEW l \in DOMAIN image, LastWriter(l, p)
  PROVE  EffectiveLayer(p) = IF DirectoryGone(l, p) THEN NoLayer ELSE l
<1>1. \A o \in DOMAIN image : Shows(o, p) => o = l
  BY LastWriterIsUnique DEF Shows
<1>2. CASE DirectoryGone(l, p)
  <2>1. ~\E o \in DOMAIN image : Shows(o, p)
    BY <1>1, <1>2 DEF Shows
  <2>2. QED BY <1>2, <2>1 DEF EffectiveLayer
<1>3. CASE ~DirectoryGone(l, p)
  <2>1. Shows(l, p)
    BY <1>3 DEF Shows
  <2>2. QED BY <1>1, <1>3, <2>1 DEF EffectiveLayer
<1>4. QED BY <1>2, <1>3

\* A map that agrees with every entry of the image names the layer whose
\* content a reader finds, or the last writer of a path lost with its
\* directory.
LEMMA OwnerOKIsEffective ==
  ASSUME TypeOK, phase # "walk", NEW p \in Paths, OwnerOK(p)
  PROVE  owner[p] = EffectiveLayer(p) \/ LostWithDirectory(owner[p], p)
<1>1. /\ image \in Images /\ Len(image) \in Nat /\ DOMAIN image = 1 .. Len(image)
      /\ owner[p] \in 0 .. Len(image)
  BY ImageFacts DEF TypeOK
<1>2. \A l, k : Walked(l, k)
  BY DEF Walked
<1>3. ASSUME NEW l \in DOMAIN image
      PROVE  /\ Writes(l, p) <=> \E k \in DOMAIN image[l] : WritesAt(l, k, p)
             /\ FileHides(l, p) <=> \E k \in DOMAIN image[l] : HidesAt(l, k, p)
  BY DEF Writes, WritesAt, FileHides, HidesAt, Entries, ToSet
<1>4. CASE owner[p] = NoLayer
  <2>1. ASSUME NEW l \in DOMAIN image, Shows(l, p) PROVE FALSE
    <3>1. PICK k \in DOMAIN image[l] : WritesAt(l, k, p)
      BY <1>3, <2>1 DEF Shows, LastWriter
    <3>2. PICK m \in DOMAIN image : \E j \in DOMAIN image[m] : m > l /\ HidesAt(m, j, p)
      BY <1>2, <1>4, <3>1 DEF OwnerOK, AllHidden
    <3>3. FileHides(m, p)
      BY <1>3, <3>2
    <3>4. m \in l + 1 .. Len(image)
      BY <1>1, <3>2
    <3>5. QED BY <2>1, <3>3, <3>4 DEF Shows, LastWriter
  <2>2. QED BY <1>4, <2>1 DEF EffectiveLayer
<1>5. CASE owner[p] # NoLayer
  <2> DEFINE o == owner[p]
  <2>1. o \in DOMAIN image /\ OwnerWrote(p) /\ OwnerStands(p)
    BY <1>5 DEF OwnerOK
  <2>2. Writes(o, p)
    BY <1>3, <2>1 DEF OwnerWrote
  <2>3. ASSUME NEW m \in o + 1 .. Len(image) PROVE ~Writes(m, p) /\ ~FileHides(m, p)
    <3>1. m \in DOMAIN image /\ m > o
      BY <1>1, <2>1, <2>3
    <3>2. \A j \in DOMAIN image[m] : ~WritesAt(m, j, p) /\ ~HidesAt(m, j, p)
      BY <1>2, <2>1, <3>1 DEF OwnerStands
    <3>3. QED BY <1>3, <3>1, <3>2
  <2>4. LastWriter(o, p)
    BY <2>2, <2>3 DEF LastWriter
  <2>5. QED BY <1>1, <2>1, <2>4, EffectiveFacts DEF LostWithDirectory
<1>6. QED BY <1>4, <1>5

\* Walk returns the owner of every path: the layer a reader of the image finds
\* there, or the last writer of a path that went with its directory (Walk,
\* removePrefixFromPriorLayers).
THEOREM OwnerTheorem == Spec => [](Built(image) => OwnerIsEffective)
<1>1. TypeOK /\ WalkInv => (Built(image) => OwnerIsEffective)
  <2> SUFFICES ASSUME TypeOK, WalkInv, Built(image), phase \in {"stream", "done"}, NEW p \in Paths
               PROVE  owner[p] = EffectiveLayer(p) \/ LostWithDirectory(owner[p], p)
    BY DEF OwnerIsEffective
  <2>1. OwnerOK(p) /\ phase # "walk"
    BY DEF WalkInv, MapInv
  <2>2. QED BY <2>1, OwnerOKIsEffective
<1>2. QED BY <1>1, TypeCorrect, WalkInvariant, PTL

\* WalkFiles calls its visitor at most once for a path and only with the
\* content of its last writer, visible unless the path went with its
\* directory, whether the walk ends, fails or is stopped
\* by the visitor (streamLayer).
THEOREM DeliveryTheorem == Spec => [](Built(image) => DeliveredOnceFromOwner)
<1>1. TypeOK /\ WalkInv => (Built(image) => DeliveredOnceFromOwner)
  <2> SUFFICES ASSUME TypeOK, WalkInv, Built(image) PROVE DeliveredOnceFromOwner
    OBVIOUS
  <2>1. MapInv /\ StreamInv
    BY DEF WalkInv
  <2>2. ASSUME NEW n \in DOMAIN delivered
        PROVE  \/ delivered[n].layer = EffectiveLayer(delivered[n].path)
               \/ LostWithDirectory(delivered[n].layer, delivered[n].path)
    <3>1. DeliveredFrom(n) /\ delivered # <<>> /\ phase # "walk"
      BY <2>1, <2>2 DEF StreamInv
    <3>2. delivered[n].path \in Paths
      <4> DEFINE R == [path : Paths, layer : Nat, entry : Nat]
      <4>1. delivered \in Seq(R)
        BY DEF TypeOK
      <4>2. delivered[n] \in R
        <5> HIDE DEF R
        <5>1. QED BY <2>2, <4>1
      <4>3. QED BY <4>2
    <3>3. OwnerOK(delivered[n].path)
      BY <2>1, <3>1, <3>2 DEF MapInv
    <3>4. \/ owner[delivered[n].path] = EffectiveLayer(delivered[n].path)
          \/ LostWithDirectory(owner[delivered[n].path], delivered[n].path)
      BY <3>1, <3>2, <3>3, OwnerOKIsEffective
    <3>5. QED BY <3>1, <3>4 DEF DeliveredFrom
  <2>3. QED BY <2>1, <2>2 DEF StreamInv, DeliveredOnceFromOwner
<1>2. QED BY <1>1, TypeCorrect, WalkInvariant, PTL

\* When WalkFiles returns without an error, every visible regular file has been
\* handed to the visitor.
THEOREM NoFileMissedTheorem == Spec => [](Built(image) => NoFileMissed)
<1>1. TypeOK /\ WalkInv => (Built(image) => NoFileMissed)
  <2> SUFFICES ASSUME TypeOK, WalkInv, Built(image), phase = "done",
                      NEW l \in DOMAIN image, NEW e \in Entries(l),
                      e.kind = "file", EffectiveLayer(e.path) = l
               PROVE  \E n \in DOMAIN delivered : delivered[n].path = e.path
    BY DEF NoFileMissed
  <2>1. MapInv /\ StreamInv
    BY DEF WalkInv
  <2>2. PICK k \in DOMAIN image[l] : e = image[l][k]
    BY DEF Entries, ToSet
  <2>3. image \in Images
    BY DEF TypeOK
  <2>4. image[l][k] \in [kind : Kinds, path : Paths]
    BY <2>3, ImageFacts
  <2>5. e.path \in Paths
    BY <2>2, <2>4
  <2>6. owner[e.path] = l
    <3>1. owner[e.path] = l \/ LostWithDirectory(owner[e.path], e.path)
      BY <2>1, <2>5, OwnerOKIsEffective DEF MapInv
    \* A path lost with its directory is in no layer.
    <3>2. LostWithDirectory(owner[e.path], e.path) => l = NoLayer
      BY <2>3, EffectiveFacts DEF LostWithDirectory
    <3>3. l # NoLayer
      BY <2>3, ImageFacts DEF NoLayer
    <3>4. QED BY <3>1, <3>2, <3>3
  <2>7. layer > Len(image)
    BY <2>1 DEF StreamInv
  <2>8. Behind(l, k)
    <3>1. layer \in Nat /\ l \in 1 .. Len(image) /\ Len(image) \in Nat
      BY <2>3, ImageFacts DEF TypeOK
    <3>2. QED BY <2>7, <3>1 DEF Behind
  <2>9. QED BY <2>1, <2>2, <2>6, <2>8 DEF StreamInv
<1>2. QED BY <1>1, TypeCorrect, WalkInvariant, PTL

=============================================================================
