----------------------------- MODULE LayerWalk -----------------------------
(***************************************************************************)
(* layer.Walk and layer.WalkFiles (src/internal/image/layer/walker.go and  *)
(* extract.go).  Walk streams the tar of every layer, bottom first, into a *)
(* FileMap from path to the layer that last wrote it, applying whiteouts;  *)
(* WalkFiles then streams the layers again and hands a file to the visitor *)
(* when the FileMap names the layer at hand as its owner.                  *)
(*                                                                         *)
(* A path is the sequence of its names; the root directory is <<>>.  An    *)
(* entry of a tar is a record [kind, path]: "file" and "link" (any entry   *)
(* that is not a regular file) and "dir" at path, "white" for              *)
(* dir/.wh.name with path the name it hides, "opaque" for                  *)
(* dir/.wh..wh..opq with path the directory.                               *)
(***************************************************************************)
EXTENDS Integers, Sequences, FiniteSets, SequencesExt

CONSTANTS
  Paths,    \* paths of the entries
  Images    \* the images walked: sequences of layers, a layer a sequence of entries

NoLayer == 0

Kinds == {"file", "link", "dir", "white", "opaque"}

ASSUME LayerWalkAssumption ==
  /\ Paths \subseteq Seq(STRING)
  /\ Images \subseteq Seq(Seq([kind : Kinds, path : Paths]))

VARIABLES
  image,      \* the layers of the image
  phase,      \* "walk", "stream", "done" or "failed"
  layer,      \* the layer being read
  entry,      \* the next entry of its tar
  owner,      \* FileMap.paths; NoLayer when the path is not in it
  delivered   \* what the visitor was called with, in order: [path, layer, entry]

vars == <<image, phase, layer, entry, owner, delivered>>

Init ==
  /\ image \in Images
  /\ phase = "walk"
  /\ layer = 1
  /\ entry = 1
  /\ owner = [p \in Paths |-> NoLayer]
  /\ delivered = <<>>

\* The tar entry under the cursor, if the cursor is on one.
More == layer <= Len(image) /\ entry <= Len(image[layer])
Current == image[layer][entry]

\* p is below the directory d.
Below(p, d) == IsStrictPrefix(d, p)

\* Faulty variant: an opaque marker also evicts what its own layer wrote.
RemovePrefixOfAnyLayer(own, d, currentLayer) ==
  [p \in Paths |-> IF d # <<>> /\ Below(p, d) THEN NoLayer ELSE own[p]]

\* removePrefixFromPriorLayers.  At the root the prefix is "./", which no
\* path of the map begins with.
RemovePrefixFromPriorLayers(own, d, currentLayer) ==
  [p \in Paths |-> IF d # <<>> /\ Below(p, d) /\ own[p] < currentLayer THEN NoLayer ELSE own[p]]

\* walkLayer, one entry.
WalkLayer ==
  /\ phase = "walk" /\ More
  /\ owner' = CASE Current.kind = "opaque" -> RemovePrefixFromPriorLayers(owner, Current.path, layer)
                [] Current.kind = "white"  -> [owner EXCEPT ![Current.path] = NoLayer]
                [] Current.kind = "dir"    -> owner
                [] OTHER                   -> [owner EXCEPT ![Current.path] = layer]
  /\ entry' = entry + 1
  /\ UNCHANGED <<image, phase, layer, delivered>>

\* Faulty variant: the cursor is not set back for the next layer's tar.
NextLayerSameEntry ==
  /\ phase \in {"walk", "stream"} /\ layer <= Len(image) /\ ~More
  /\ layer' = layer + 1
  /\ UNCHANGED <<image, phase, entry, owner, delivered>>

\* The end of a layer's tar.
NextLayer ==
  /\ phase \in {"walk", "stream"} /\ layer <= Len(image) /\ ~More
  /\ layer' = layer + 1
  /\ entry' = 1
  /\ UNCHANGED <<image, phase, owner, delivered>>

\* Walk has returned the FileMap; WalkFiles reads the layers again.
StartStream ==
  /\ phase = "walk" /\ layer > Len(image)
  /\ phase' = "stream"
  /\ layer' = 1 /\ entry' = 1
  /\ UNCHANGED <<image, owner, delivered>>

\* Faulty variant: the owner of the path is not looked at.
VisitsAnyVisible ==
  /\ Current.kind = "file"
  /\ owner[Current.path] # NoLayer

\* streamLayer forwards regular files that this layer owns.
Visits ==
  /\ Current.kind = "file"
  /\ owner[Current.path] = layer

\* streamLayer, one entry; the visitor returns nil or SkipFile.
StreamLayer ==
  /\ phase = "stream" /\ More
  /\ delivered' = IF Visits
                  THEN Append(delivered, [path |-> Current.path, layer |-> layer, entry |-> entry])
                  ELSE delivered
  /\ entry' = entry + 1
  /\ UNCHANGED <<image, phase, layer, owner>>

\* The visitor returns an error: the walk halts.
VisitorFails ==
  /\ phase = "stream" /\ More /\ Visits
  /\ delivered' = Append(delivered, [path |-> Current.path, layer |-> layer, entry |-> entry])
  /\ phase' = "failed"
  /\ UNCHANGED <<image, layer, entry, owner>>

\* A layer cannot be read, or the context is cancelled.
ReadFails ==
  /\ phase \in {"walk", "stream"} /\ layer <= Len(image)
  /\ phase' = "failed"
  /\ UNCHANGED <<image, layer, entry, owner, delivered>>

Finish ==
  /\ phase = "stream" /\ layer > Len(image)
  /\ phase' = "done"
  /\ UNCHANGED <<image, layer, entry, owner, delivered>>

Next == WalkLayer \/ NextLayer \/ StartStream \/ StreamLayer \/ VisitorFails \/ ReadFails \/ Finish

Spec == Init /\ [][Next]_vars

-----------------------------------------------------------------------------
(* The layered filesystem, stated without a walk: a path belongs to the    *)
(* highest layer that wrote it and that no higher layer hides.             *)

IsWrite(e) == e.kind \in {"file", "link"}

Entries(l) == ToSet(image[l])
Writes(l, p) == \E e \in Entries(l) : IsWrite(e) /\ e.path = p

\* Layer m hides what a lower layer put at p: by p's own whiteout, or by an
\* opaque marker on a directory above it.
FileHides(m, p) ==
  \E e \in Entries(m) :
    \/ e.kind = "white" /\ e.path = p
    \/ e.kind = "opaque" /\ e.path # <<>> /\ Below(p, e.path)

\* Layer m hides it by what it does to a directory: one above p is removed,
\* is the root and opaque, or gives way to a file or a link; or p itself
\* becomes a directory.
DirectoryHides(m, p) ==
  \E e \in Entries(m) :
    \/ e.kind = "white" /\ Below(p, e.path)
    \/ e.kind = "opaque" /\ e.path = <<>> /\ Below(p, <<>>)
    \/ IsWrite(e) /\ Below(p, e.path)
    \/ e.kind \in {"dir", "opaque"} /\ e.path = p
    \/ Below(e.path, p)

\* Layer l is the last to write p, and p is not hidden as a file since.
LastWriter(l, p) == Writes(l, p) /\ \A m \in l + 1 .. Len(image) : ~Writes(m, p) /\ ~FileHides(m, p)
DirectoryGone(l, p) == \E m \in l + 1 .. Len(image) : DirectoryHides(m, p)

Shows(l, p) == LastWriter(l, p) /\ ~DirectoryGone(l, p)

\* The layer that holds what a reader of the image finds at p.
EffectiveLayer(p) ==
  IF \E l \in DOMAIN image : Shows(l, p) THEN CHOOSE l \in DOMAIN image : Shows(l, p) ELSE NoLayer

\* walkLayer compares paths, not directories: p keeps its last writer when
\* only a change of directories hides it.
LostWithDirectory(l, p) == l \in DOMAIN image /\ LastWriter(l, p) /\ DirectoryGone(l, p)

\* Entry k of layer l as the difference of two filesystems: the whiteout of a
\* path comes before what the layer itself writes there, and a file or a link
\* is in the tar once and has nothing below it.
BuiltEntry(img, l, k) ==
  LET e == img[l][k] IN
  /\ e.kind = "white" => \A j \in 1 .. k - 1 : IsWrite(img[l][j]) => img[l][j].path # e.path
  /\ IsWrite(e) => \A j \in DOMAIN img[l] \ {k} :
                     img[l][j].kind # "white" => ~IsPrefix(e.path, img[l][j].path)

Built(img) == \A l \in DOMAIN img : \A k \in DOMAIN img[l] : BuiltEntry(img, l, k)

-----------------------------------------------------------------------------
(* Properties.                                                             *)

TypeOK ==
  /\ image \in Images
  /\ phase \in {"walk", "stream", "done", "failed"}
  /\ layer \in 1 .. Len(image) + 1
  /\ entry \in Nat \ {0}
  /\ owner \in [Paths -> 0 .. Len(image)]
  /\ delivered \in Seq([path : Paths, layer : Nat, entry : Nat])

\* The FileMap that Walk returns names, for every path, the layer a reader of
\* the image finds there, wherever in a layer's tar the whiteouts stand; the
\* one way it can differ is to keep the last writer of a path that went with
\* its directory.
OwnerIsEffective ==
  phase \in {"stream", "done"} =>
    \A p \in Paths : owner[p] = EffectiveLayer(p) \/ LostWithDirectory(owner[p], p)

\* The visitor is never called twice for a path, nor with bytes of a layer
\* that a higher one replaced or hid, unless the path went with its directory.
DeliveredOnceFromOwner ==
  /\ \A m, n \in DOMAIN delivered : delivered[m].path = delivered[n].path => m = n
  /\ \A n \in DOMAIN delivered :
       LET d == delivered[n] IN d.layer = EffectiveLayer(d.path) \/ LostWithDirectory(d.layer, d.path)

\* A walk that succeeds has handed over every visible regular file.
NoFileMissed ==
  phase = "done" =>
    \A l \in DOMAIN image : \A e \in Entries(l) :
      e.kind = "file" /\ EffectiveLayer(e.path) = l =>
        \E n \in DOMAIN delivered : delivered[n].path = e.path

-----------------------------------------------------------------------------
(* What the comments promise of any image (checked in a run of its own).   *)

\* ""Visible" means the file is currently present in the layered filesystem
\* (not removed by a later whiteout)."
DeliveredIsVisible ==
  \A n \in DOMAIN delivered : delivered[n].layer = EffectiveLayer(delivered[n].path)
=============================================================================
