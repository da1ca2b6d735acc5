---------------------------- MODULE MCLayerWalk ----------------------------
(* Images for LayerWalk: a directory d with two files and a file a beside, *)
(* each of which may take the place of the other's kind.                   *)
EXTENDS LayerWalk

A == <<"a">>
AX == <<"a", "x">>
D == <<"d">>
DF == <<"d", "f">>
DG == <<"d", "g">>

TreePaths == {<<>>, A, AX, D, DF, DG}

E(kind, p) == [kind |-> kind, path |-> p]

\* Files, links and directories, whiteouts of files, opaque directories; and
\* what changes a directory: its removal, a file in its place, a directory in
\* the place of a file, the root opaque.
FileEntries ==
  {E("file", A), E("file", DF), E("file", DG), E("link", DF), E("dir", D),
   E("white", A), E("white", DF), E("opaque", D)}
DirectoryEntries ==
  {E("white", D), E("file", D), E("link", D), E("dir", A), E("file", AX), E("opaque", <<>>)}

Tars(entries, n) == UNION {{tar \in [1 .. k -> entries] : IsInjective(tar)} : k \in 0 .. n}

BaseLayers == { <<>>, <<E("file", A), E("dir", D), E("file", DF)>>, <<E("file", DG), E("link", DF)>> }

\* A base layer, then every layer of at most three entries about files or of
\* at most two of any kind, in every order, then a layer of at most one entry.
BuiltImages ==
  {img \in {<<b, m, t>> : b \in BaseLayers,
                          m \in Tars(FileEntries, 3) \cup Tars(FileEntries \cup DirectoryEntries, 2),
                          t \in Tars(FileEntries \cup DirectoryEntries, 1)} : Built(img)}

\* The removal of a directory: rm -r d in a Dockerfile.
DirectoryRemoved == {<< <<E("file", DF)>>, <<E("white", D)>> >>}

=============================================================================
