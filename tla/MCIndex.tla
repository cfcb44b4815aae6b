-------------------------------- MODULE MCIndex --------------------------------
(* Two small workspaces for Index.  In the first, one file is named by two     *)
(* different URIs (an editor percent-encodes a character that URIFromPath does *)
(* not) and one by a single URI.  In the second there is a file and a buffer   *)
(* that is not a file.                                                         *)
EXTENDS Index, TLC

CONSTANTS model, modelAlias, store, untitled, modelPath, storePath

AliasURIs == {model, modelAlias, store}
AliasPaths == {modelPath, storePath}
AliasPathOf == (model :> modelPath) @@ (modelAlias :> modelPath) @@ (store :> storePath)

BufferURIs == {model, untitled}
BufferPaths == {modelPath}
BufferPathOf == (model :> modelPath) @@ (untitled :> NoPath)

ModelTreeURIs == {model, modelAlias}
BufferTreeURIs == {model}

(* A state up to the choice of addresses: each pointer is described by the     *)
(* document it leads to and by the keys under which that document is stored.   *)
Keys(d) == <<{u \in URIs : docs[u] = d}, {p \in Paths : byPath[p] = d}>>
Described(d) == IF d = NoDoc THEN <<>> ELSE <<heap[d], Keys(d)>>

UpToAddresses ==
    <<[u \in URIs |-> Described(docs[u])],
      [p \in Paths |-> Described(byPath[p])],
      [w \in Workers |-> <<pc[w], target[w], Described(pend[w]), {Described(d) : d \in held[w]}>>],
      writer,
      {heap[d].tree : d \in DocIds \ Reachable}>>

AnyWorker == Permutations(Workers)
===============================================================================
