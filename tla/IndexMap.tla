------------------------------- MODULE IndexMap -------------------------------
(* What package analysis promises of its Index: a map from document URIs to    *)
(* the text last stored under them, and a map from file paths to the document  *)
(* that answers for the file.  Storing and deleting happen at once; locks,     *)
(* parsing and memory are the business of module Index, which implements this. *)
EXTENDS Integers

CONSTANTS
    URIs,       \* the document URIs clients and the scanner use
    Paths,      \* the local files those URIs name
    NoPath,     \* PathFromURI of a URI that is not a file:// one: ""
    PathOf,     \* PathFromURI; two URIs may name one file
    Versions,   \* protocol.Integer; 0 is "read from disk"
    Contents,   \* the texts a document can have
    Absent,     \* no document is stored under the URI
    NoURI       \* no document answers for the path

VARIABLES
    entry,      \* entry[u]: the version and content stored under u, or Absent
    owner       \* owner[p]: the URI of the document GetByPath(p) returns, or NoURI

vars == <<entry, owner>>

Entry == [version : Versions, content : Contents]

Init ==
    /\ entry = [u \in URIs |-> Absent]
    /\ owner = [p \in Paths |-> NoURI]

(* A synced text (version > 0) loses to a newer one already stored; a text     *)
(* read from disk (version 0) always replaces what is there.                   *)
Outdated(u, version) ==
    /\ entry[u] # Absent
    /\ version > 0
    /\ entry[u].version > version

Put(u, version, content) ==
    \/ Outdated(u, version) /\ UNCHANGED vars
    \/ /\ ~Outdated(u, version)
       /\ entry' = [entry EXCEPT ![u] = [version |-> version, content |-> content]]
       /\ owner' = IF PathOf[u] = NoPath THEN owner
                                         ELSE [owner EXCEPT ![PathOf[u]] = u]

(* Deleting one of two URIs of a file leaves the path to the other, if the     *)
(* other was stored last.                                                      *)
Delete(u) ==
    /\ entry[u] # Absent
    /\ entry' = [entry EXCEPT ![u] = Absent]
    /\ owner' = IF PathOf[u] # NoPath /\ owner[PathOf[u]] = u
                THEN [owner EXCEPT ![PathOf[u]] = NoURI]
                ELSE owner

Next ==
    \/ \E u \in URIs, v \in Versions, c \in Contents : Put(u, v, c)
    \/ \E u \in URIs : Delete(u)

Spec == Init /\ [][Next]_vars

-------------------------------------------------------------------------------
TypeOK ==
    /\ entry \in [URIs -> Entry \cup {Absent}]
    /\ owner \in [Paths -> URIs \cup {NoURI}]

(* A path is only ever answered by a stored document of that very file.        *)
OwnerStored ==
    \A p \in Paths : owner[p] # NoURI => entry[owner[p]] # Absent /\ PathOf[owner[p]] = p

(* A file that a single URI names is found by its path exactly when it is      *)
(* stored: no store or delete of another document can hide it.                 *)
FoundByPath ==
    \A u \in URIs :
        (PathOf[u] # NoPath /\ \A w \in URIs \ {u} : PathOf[w] # PathOf[u])
            => (entry[u] # Absent <=> owner[PathOf[u]] = u)
===============================================================================
