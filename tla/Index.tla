--------------------------------- MODULE Index ---------------------------------
(* analysis.Index (internal/analysis/index.go): the documents a server or an   *)
(* MCP workspace knows, shared by every goroutine that handles a request.  A   *)
(* document owns a tree-sitter tree, which is C memory: Close frees it, and a  *)
(* freed tree must not be walked.  The text is parsed before the lock is       *)
(* taken; stores and deletes run under the write lock, requests read under the *)
(* read lock and keep pointers to documents until they release it.             *)
EXTENDS Integers, FiniteSets

CONSTANTS
    URIs, Paths, NoPath, PathOf, Versions, Contents,  \* as in IndexMap
    TreeURIs,   \* URIs whose documents are models: only those are parsed into a tree
    Workers,    \* goroutines that handle requests
    DocIds,     \* addresses of *Document
    NoDoc,      \* a nil *Document
    NoWorker,   \* nobody
    Absent, NoURI   \* as in IndexMap: the refinement mapping below uses them

ASSUME PathAssumption == NoPath \notin Paths /\ PathOf \in [URIs -> Paths \cup {NoPath}]
ASSUME VersionAssumption == Versions \subseteq Int
ASSUME NilAssumption == NoDoc \notin DocIds /\ NoWorker \notin Workers
ASSUME AbsentAssumption ==
    NoURI \notin URIs /\ Absent \notin [version : Versions, content : Contents]

VARIABLES
    docs,       \* Index.docs: URI -> address, NoDoc where the map has no key
    byPath,     \* Index.byPath: path -> address, NoDoc where the map has no key
    heap,       \* the documents at each address
    pc,         \* what each worker is doing
    pend,       \* pend[w]: the document w has analysed and not stored yet
    target,     \* target[w]: the URI w is deleting
    held,       \* held[w]: documents w got from its View and may still use
    writer      \* Index.mu: the worker that holds or waits for the write lock

vars == <<docs, byPath, heap, pc, pend, target, held, writer>>

Document ==
    [uri : URIs, version : Versions, content : Contents, tree : {"none", "live", "freed"}]

(* An address nothing points to: what is there does not matter.                *)
Blank ==
    [uri |-> CHOOSE u \in URIs : TRUE, version |-> CHOOSE v \in Versions : TRUE,
     content |-> CHOOSE c \in Contents : TRUE, tree |-> "none"]

ASSUME BlankAssumption == Blank \in Document

Init ==
    /\ docs = [u \in URIs |-> NoDoc]
    /\ byPath = [p \in Paths |-> NoDoc]
    /\ heap = [d \in DocIds |-> Blank]
    /\ pc = [w \in Workers |-> "idle"]
    /\ pend = [w \in Workers |-> NoDoc]
    /\ target = [w \in Workers |-> NoURI]
    /\ held = [w \in Workers |-> {}]
    /\ writer = NoWorker

Stored == {docs[u] : u \in URIs}
Reachable ==
    Stored \cup {byPath[p] : p \in Paths} \cup {pend[w] : w \in Workers} \cup UNION {held[w] : w \in Workers}

Readers == {w \in Workers : pc[w] = "reading"}

-------------------------------------------------------------------------------
(* Document.Close: frees the tree once.                                        *)
Close(doc) == [doc EXCEPT !.tree = IF @ = "live" THEN "freed" ELSE @]

(* Put's first line: the text is analysed into a new document, at an address   *)
(* that nothing reaches, before any lock is taken.                             *)
Analyze(w, u, v, c) ==
    /\ pc[w] = "idle"
    /\ \E d \in DocIds \ Reachable :
        /\ heap' = [heap EXCEPT ![d] = [uri |-> u, version |-> v, content |-> c,
                                        tree |-> IF u \in TreeURIs THEN "live" ELSE "none"]]
        /\ pend' = [pend EXCEPT ![w] = d]
    /\ pc' = [pc EXCEPT ![w] = "put"]
    /\ UNCHANGED <<docs, byPath, target, held, writer>>

StartDelete(w, u) ==
    /\ pc[w] = "idle"
    /\ pc' = [pc EXCEPT ![w] = "delete"]
    /\ target' = [target EXCEPT ![w] = u]
    /\ UNCHANGED <<docs, byPath, heap, pend, held, writer>>

(* RWMutex.Lock: one writer at a time announces itself, which stops new        *)
(* readers, and then waits for the readers that are inside.                    *)
Lock(w) ==
    /\ pc[w] \in {"put", "delete"}
    /\ writer = NoWorker
    /\ writer' = w
    /\ UNCHANGED <<docs, byPath, heap, pc, pend, target, held>>

(* Faulty variant of HasWriteLock: a writer ignores the readers inside.        *)
LockedAgainstWriters(w) == writer = w
HasWriteLock(w) == writer = w /\ Readers = {}

(* Faulty variant of Outdated: the versions are compared the wrong way round.  *)
NewerThanStored(d) ==
    LET previous == docs[heap[d].uri]
    IN  previous # NoDoc /\ heap[d].version > 0 /\ heap[previous].version < heap[d].version

(* Put's test for a text that comes too late; one read from disk never does.   *)
Outdated(d) ==
    LET previous == docs[heap[d].uri]
    IN  previous # NoDoc /\ heap[d].version > 0 /\ heap[previous].version > heap[d].version

(* Faulty variant of DropOutdated: the dropped document stays open.            *)
DropOutdatedOpen(w) ==
    /\ pc[w] = "put" /\ HasWriteLock(w)
    /\ Outdated(pend[w])
    /\ pc' = [pc EXCEPT ![w] = "idle"]
    /\ pend' = [pend EXCEPT ![w] = NoDoc]
    /\ writer' = NoWorker
    /\ UNCHANGED <<docs, byPath, heap, target, held>>

(* Faulty variant of DropOutdated: the early return stays locked.              *)
DropOutdatedLocked(w) ==
    /\ pc[w] = "put" /\ HasWriteLock(w)
    /\ Outdated(pend[w])
    /\ heap' = [heap EXCEPT ![pend[w]] = Close(@)]
    /\ pc' = [pc EXCEPT ![w] = "idle"]
    /\ pend' = [pend EXCEPT ![w] = NoDoc]
    /\ UNCHANGED <<docs, byPath, target, held, writer>>

(* Put's critical section when a newer synced document is stored: the new      *)
(* document is closed and dropped.                                             *)
DropOutdated(w) ==
    LET d == pend[w] IN
    /\ pc[w] = "put" /\ HasWriteLock(w)
    /\ Outdated(d)
    /\ heap' = [heap EXCEPT ![d] = Close(@)]
    /\ pc' = [pc EXCEPT ![w] = "idle"]
    /\ pend' = [pend EXCEPT ![w] = NoDoc]
    /\ writer' = NoWorker
    /\ UNCHANGED <<docs, byPath, target, held>>

(* Faulty variant of FileByPath: only texts read from disk are filed.          *)
FileSynced(d) == IF heap[d].version > 0 THEN byPath ELSE [byPath EXCEPT ![PathOf[heap[d].uri]] = d]

(* What Put records under the document's path, if it has one.                  *)
FileByPath(d) ==
    LET path == PathOf[heap[d].uri]
    IN  IF path = NoPath THEN byPath ELSE [byPath EXCEPT ![path] = d]

(* Put's critical section otherwise: the previous document is closed and the   *)
(* new one takes its place, and the place of whatever answered for the path.   *)
Store(w) ==
    LET d == pend[w]
        u == heap[d].uri
        previous == docs[u]
    IN
    /\ pc[w] = "put" /\ HasWriteLock(w)
    /\ ~Outdated(d)
    /\ heap' = IF previous = NoDoc THEN heap ELSE [heap EXCEPT ![previous] = Close(@)]
    /\ docs' = [docs EXCEPT ![u] = d]
    /\ byPath' = FileByPath(d)
    /\ pc' = [pc EXCEPT ![w] = "idle"]
    /\ pend' = [pend EXCEPT ![w] = NoDoc]
    /\ writer' = NoWorker
    /\ UNCHANGED <<target, held>>

(* Faulty variant of ForgetPath: the path keeps its document.                  *)
ForgetNoPath(u) == byPath

(* Delete forgets the path only if this very document answers for it.          *)
ForgetPath(u) ==
    IF docs[u] # NoDoc /\ PathOf[u] # NoPath /\ byPath[PathOf[u]] = docs[u]
    THEN [byPath EXCEPT ![PathOf[u]] = NoDoc]
    ELSE byPath

(* Delete's critical section.                                                  *)
Remove(w) ==
    LET u == target[w]
        d == docs[u]
    IN
    /\ pc[w] = "delete" /\ HasWriteLock(w)
    /\ heap' = IF d = NoDoc THEN heap ELSE [heap EXCEPT ![d] = Close(@)]
    /\ docs' = [docs EXCEPT ![u] = NoDoc]
    /\ byPath' = ForgetPath(u)
    /\ pc' = [pc EXCEPT ![w] = "idle"]
    /\ target' = [target EXCEPT ![w] = NoURI]
    /\ writer' = NoWorker
    /\ UNCHANGED <<pend, held>>

StartRead(w) ==
    /\ pc[w] = "idle"
    /\ pc' = [pc EXCEPT ![w] = "rlock"]
    /\ UNCHANGED <<docs, byPath, heap, pend, target, held, writer>>

(* Faulty variant of RLock: a reader overtakes a waiting writer.               *)
RLockBarging(w) ==
    /\ pc[w] = "rlock"
    /\ pc' = [pc EXCEPT ![w] = "reading"]
    /\ UNCHANGED <<docs, byPath, heap, pend, target, held, writer>>

(* RWMutex.RLock: waits while a writer holds the lock or is waiting for it.    *)
RLock(w) ==
    /\ pc[w] = "rlock"
    /\ writer = NoWorker
    /\ pc' = [pc EXCEPT ![w] = "reading"]
    /\ UNCHANGED <<docs, byPath, heap, pend, target, held, writer>>

Hold(w, d) ==
    /\ pc[w] = "reading"
    /\ d # NoDoc
    /\ held' = [held EXCEPT ![w] = @ \cup {d}]
    /\ UNCHANGED <<docs, byPath, heap, pc, pend, target, writer>>

Get(w, u) == Hold(w, docs[u])
GetByPath(w, p) == Hold(w, byPath[p])

(* Read returns: what the callback found leaves it as copied values.           *)
RUnlock(w) ==
    /\ pc[w] = "reading"
    /\ pc' = [pc EXCEPT ![w] = "idle"]
    /\ held' = [held EXCEPT ![w] = {}]
    /\ UNCHANGED <<docs, byPath, heap, pend, target, writer>>

Call(w) ==
    \/ \E u \in URIs, v \in Versions, c \in Contents : Analyze(w, u, v, c)
    \/ \E u \in URIs : StartDelete(w, u)
    \/ StartRead(w)

Finish(w) == DropOutdated(w) \/ Store(w) \/ Remove(w)

Use(w) ==
    \/ \E u \in URIs : Get(w, u)
    \/ \E p \in Paths : GetByPath(w, p)

Next == \E w \in Workers : Call(w) \/ Lock(w) \/ Finish(w) \/ RLock(w) \/ Use(w) \/ RUnlock(w)

Spec == Init /\ [][Next]_vars

(* Critical sections end, and sync.RWMutex serves whoever waits: a Mutex in    *)
(* starvation mode hands over in arrival order, and an Unlock admits every     *)
(* reader that waits.  Nothing obliges a caller to call again.                 *)
FairSpec ==
    Spec /\ \A w \in Workers : SF_vars(Lock(w)) /\ WF_vars(Finish(w)) /\ SF_vars(RLock(w)) /\ WF_vars(RUnlock(w))

-------------------------------------------------------------------------------
PCs == {"idle", "put", "delete", "rlock", "reading"}

(* Calls and lock belong together: who holds the write lock is in a Put or a   *)
(* Delete, a Put holds its document until it ends, and documents are only held *)
(* under the read lock.                                                        *)
CallsOK ==
    /\ writer # NoWorker => pc[writer] \in {"put", "delete"}
    /\ \A w \in Workers :
        /\ pc[w] = "put" <=> pend[w] # NoDoc
        /\ pc[w] = "delete" => target[w] \in URIs
        /\ held[w] # {} => pc[w] = "reading"

(* The types of the variables, and CallsOK: no call leaves the lock taken.     *)
TypeOK ==
    /\ CallsOK
    /\ docs \in [URIs -> DocIds \cup {NoDoc}]
    /\ byPath \in [Paths -> DocIds \cup {NoDoc}]
    /\ heap \in [DocIds -> Document]
    /\ pc \in [Workers -> PCs]
    /\ pend \in [Workers -> DocIds \cup {NoDoc}]
    /\ target \in [Workers -> URIs \cup {NoURI}]
    /\ held \in [Workers -> SUBSET DocIds]
    /\ writer \in Workers \cup {NoWorker}

(* No request walks a freed tree: a document that a worker got from its View   *)
(* stays open until the worker releases the read lock, whatever the editors    *)
(* and the scanner store meanwhile.                                            *)
NoUseAfterFree == \A w \in Workers : \A d \in held[w] : heap[d].tree # "freed"

(* No tree is lost: a live one belongs to a stored document or to a Put that   *)
(* has not finished, so dropping an outdated text or replacing a document      *)
(* never leaks C memory.                                                       *)
NoLeak ==
    \A d \in DocIds : heap[d].tree = "live" => d \in Stored \cup {pend[w] : w \in Workers}

(* Both maps only lead to open documents, filed under their own URI and path:  *)
(* a path never leads to a document that was replaced or deleted.              *)
MapsAgree ==
    /\ \A u \in URIs : docs[u] # NoDoc => heap[docs[u]].uri = u /\ heap[docs[u]].tree # "freed"
    /\ \A p \in Paths : byPath[p] # NoDoc =>
            PathOf[heap[byPath[p]].uri] = p /\ docs[heap[byPath[p]].uri] = byPath[p]

(* Every call returns: neither a stream of readers nor one of writers keeps    *)
(* another caller out.                                                         *)
EveryCallReturns == \A w \in Workers : pc[w] # "idle" ~> pc[w] = "idle"

AbsEntry ==
    [u \in URIs |->
        IF docs[u] = NoDoc THEN Absent
        ELSE [version |-> heap[docs[u]].version, content |-> heap[docs[u]].content]]

AbsOwner == [p \in Paths |-> IF byPath[p] = NoDoc THEN NoURI ELSE heap[byPath[p]].uri]

Abstract == INSTANCE IndexMap WITH entry <- AbsEntry, owner <- AbsOwner

(* The index is the abstract map: parsing outside the lock, stale puts and     *)
(* pointer comparison in Delete add nothing to it that a caller could see.     *)
ImplementsIndexMap == Abstract!Spec

(* A file that a single URI names is found by its path exactly when it is      *)
(* stored (IndexMap!FoundByPath through the mapping).                          *)
FoundByPath == Abstract!FoundByPath
===============================================================================
