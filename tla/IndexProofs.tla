------------------------------ MODULE IndexProofs ------------------------------
(* Proofs about Index, for every set of URIs, paths, workers and addresses.    *)
(* The inductive invariant adds to the checked ones who owns a document: one   *)
(* that a worker has analysed is nowhere else, and one that a worker holds is  *)
(* stored, because nobody can store or delete while it reads.                  *)
EXTENDS Index, TLAPS

PendingOwned ==
    \A w \in Workers : pend[w] # NoDoc =>
        /\ heap[pend[w]].tree # "freed"
        /\ \A u \in URIs : docs[u] # pend[w]
        /\ \A v \in Workers \ {w} : pend[v] # pend[w]
        /\ \A v \in Workers : pend[w] \notin held[v]

HeldStored == \A w \in Workers : \A d \in held[w] : \E u \in URIs : docs[u] = d

IInv == TypeOK /\ MapsAgree /\ NoLeak /\ PendingOwned /\ HeldStored

(* An address that Analyze may use is in none of the maps and in no hands.     *)
LEMMA FreshAddress ==
    ASSUME NEW d \in DocIds \ Reachable
    PROVE  /\ \A u \in URIs : docs[u] # d
           /\ \A p \in Paths : byPath[p] # d
           /\ \A w \in Workers : pend[w] # d /\ d \notin held[w]
  BY DEF Reachable, Stored

(* Nothing is stored at first, so every part of the invariant holds.           *)
LEMMA InitIInv == Init => IInv
<1> SUFFICES ASSUME Init PROVE IInv
  OBVIOUS
<1>1. Blank \in Document /\ Blank.tree = "none"
  BY BlankAssumption DEF Blank
<1>2. TypeOK
  BY <1>1, NilAssumption DEF Init, TypeOK, CallsOK, PCs
<1>3. MapsAgree /\ PendingOwned /\ HeldStored
  BY DEF Init, MapsAgree, PendingOwned, HeldStored
<1>4. NoLeak
  BY <1>1 DEF Init, NoLeak
<1> QED BY <1>2, <1>3, <1>4 DEF IInv

(* Analysing a text only touches an address nothing else leads to.             *)
LEMMA AnalyzeIInv ==
    ASSUME IInv, NEW w \in Workers, NEW u \in URIs, NEW v \in Versions, NEW c \in Contents,
           Analyze(w, u, v, c)
    PROVE  IInv'
<1> USE NilAssumption DEF IInv
<1>1. PICK d \in DocIds \ Reachable :
        /\ heap' = [heap EXCEPT ![d] = [uri |-> u, version |-> v, content |-> c,
                                        tree |-> IF u \in TreeURIs THEN "live" ELSE "none"]]
        /\ pend' = [pend EXCEPT ![w] = d]
  BY DEF Analyze
<1>2. /\ pc[w] = "idle" /\ pc' = [pc EXCEPT ![w] = "put"]
      /\ UNCHANGED <<docs, byPath, target, held, writer>>
  BY DEF Analyze
<1>3. /\ \A x \in URIs : docs[x] # d
      /\ \A p \in Paths : byPath[p] # d
      /\ \A x \in Workers : pend[x] # d /\ d \notin held[x]
  BY <1>1, FreshAddress
<1>4. \A x \in DocIds : x # d => heap'[x] = heap[x]
  BY <1>1 DEF TypeOK
<1>5. heap'[d] = [uri |-> u, version |-> v, content |-> c,
                  tree |-> IF u \in TreeURIs THEN "live" ELSE "none"]
  BY <1>1 DEF TypeOK
<1>6. TypeOK'
  <2>1. heap' \in [DocIds -> Document]
    BY <1>1 DEF TypeOK, Document
  <2>2. CallsOK'
    BY <1>1, <1>2 DEF TypeOK, CallsOK, PCs
  <2> QED BY <1>1, <1>2, <2>1, <2>2 DEF TypeOK, PCs
<1>7. MapsAgree'
  BY <1>2, <1>3, <1>4 DEF MapsAgree, TypeOK
<1>8. NoLeak'
  BY <1>1, <1>2, <1>3, <1>4 DEF NoLeak, Stored, TypeOK, CallsOK
<1>9. PendingOwned'
  BY <1>1, <1>2, <1>3, <1>4, <1>5 DEF PendingOwned, TypeOK
<1>10. HeldStored'
  BY <1>2 DEF HeldStored
<1> QED BY <1>6, <1>7, <1>8, <1>9, <1>10

(* Dropping an outdated text frees a tree that only this call had.             *)
LEMMA DropOutdatedIInv ==
    ASSUME IInv, NEW w \in Workers, DropOutdated(w)
    PROVE  IInv'
<1> USE NilAssumption DEF IInv
<1> DEFINE d == pend[w]
<1>1. /\ pc[w] = "put" /\ writer = w /\ d \in DocIds
      /\ heap' = [heap EXCEPT ![d] = Close(@)]
      /\ pc' = [pc EXCEPT ![w] = "idle"] /\ pend' = [pend EXCEPT ![w] = NoDoc]
      /\ writer' = NoWorker /\ UNCHANGED <<docs, byPath, target, held>>
  BY DEF DropOutdated, HasWriteLock, TypeOK, CallsOK
<1>2. /\ heap'[d] = Close(heap[d])
      /\ \A x \in DocIds : x # d => heap'[x] = heap[x]
  BY <1>1 DEF TypeOK
<1>3. Close(heap[d]) \in Document /\ Close(heap[d]).tree # "live" /\ Close(heap[d]).uri = heap[d].uri
  BY <1>1 DEF Close, TypeOK, Document
<1>4. TypeOK'
  BY <1>1, <1>2, <1>3 DEF TypeOK, CallsOK, PCs
<1>5. MapsAgree'
  <2>1. \A u \in URIs : docs[u] # d
    BY <1>1 DEF PendingOwned
  <2>2. \A p \in Paths : byPath[p] # NoDoc => byPath[p] # d
    BY <2>1 DEF MapsAgree, TypeOK, Document
  <2> QED BY <1>1, <1>2, <2>1, <2>2 DEF MapsAgree, TypeOK
<1>6. NoLeak'
  BY <1>1, <1>2, <1>3 DEF NoLeak, Stored, TypeOK
<1>7. PendingOwned'
  BY <1>1, <1>2 DEF PendingOwned, TypeOK
<1>8. HeldStored'
  BY <1>1 DEF HeldStored
<1> QED BY <1>4, <1>5, <1>6, <1>7, <1>8

(* While a worker has the write lock, nobody holds a document.                 *)
LEMMA NobodyHolds ==
    ASSUME TypeOK, NEW w \in Workers, HasWriteLock(w)
    PROVE  \A v \in Workers : held[v] = {}
  BY DEF HasWriteLock, Readers, TypeOK, CallsOK

(* Storing closes the document it replaces, which no map and no reader keeps.  *)
LEMMA StoreIInv ==
    ASSUME IInv, NEW w \in Workers, Store(w)
    PROVE  IInv'
<1> USE NilAssumption, PathAssumption DEF IInv
<1> DEFINE d == pend[w]
           u == heap[d].uri
           previous == docs[u]
<1>1. /\ pc[w] = "put" /\ writer = w /\ d \in DocIds /\ u \in URIs
      /\ heap' = IF previous = NoDoc THEN heap ELSE [heap EXCEPT ![previous] = Close(@)]
      /\ docs' = [docs EXCEPT ![u] = d]
      /\ byPath' = FileByPath(d)
      /\ pc' = [pc EXCEPT ![w] = "idle"] /\ pend' = [pend EXCEPT ![w] = NoDoc]
      /\ writer' = NoWorker /\ UNCHANGED <<target, held>>
  BY DEF Store, HasWriteLock, TypeOK, CallsOK, Document
<1>2. /\ \A x \in Workers : held[x] = {}
      /\ \A x \in URIs : docs[x] # d
      /\ heap[d].tree # "freed"
  BY <1>1, NobodyHolds DEF Store, PendingOwned
<1>3. \A x \in DocIds : x # previous => heap'[x] = heap[x]
  BY <1>1 DEF TypeOK
<1>4. previous # NoDoc => /\ heap'[previous] \in Document
                          /\ heap'[previous].tree # "live"
                          /\ heap'[previous].uri = u
  <2> SUFFICES ASSUME previous # NoDoc
               PROVE  /\ heap'[previous] \in Document
                      /\ heap'[previous].tree # "live"
                      /\ heap'[previous].uri = u
    OBVIOUS
  <2>1. previous \in DocIds /\ heap[previous] \in Document /\ heap[previous].uri = u
    BY <1>1 DEF TypeOK, MapsAgree
  <2>2. heap'[previous] = Close(heap[previous])
    BY <1>1, <2>1 DEF TypeOK
  <2> QED BY <2>1, <2>2 DEF Close, Document
<1>5. TypeOK'
  <2>1. heap' \in [DocIds -> Document]
    BY <1>1, <1>4 DEF TypeOK
  <2>2. byPath' \in [Paths -> DocIds \cup {NoDoc}]
    BY <1>1 DEF FileByPath, TypeOK
  <2>3. CallsOK'
    BY <1>1, <1>2 DEF TypeOK, CallsOK, PCs
  <2> QED BY <1>1, <2>1, <2>2, <2>3 DEF TypeOK, PCs
<1>6. MapsAgree'
  <2>1. ASSUME NEW x \in URIs, docs'[x] # NoDoc
        PROVE  heap'[docs'[x]].uri = x /\ heap'[docs'[x]].tree # "freed"
    <3>1. CASE x = u
      BY <3>1, <1>1, <1>2, <1>3 DEF TypeOK
    <3>2. CASE x # u
      <4>1. docs'[x] = docs[x] /\ docs[x] \in DocIds /\ heap[docs[x]].uri = x /\ heap[docs[x]].tree # "freed"
        BY <3>2, <2>1, <1>1 DEF TypeOK, MapsAgree
      <4>2. docs[x] # previous
        BY <3>2, <4>1, <1>1 DEF MapsAgree
      <4> QED BY <4>1, <4>2, <1>3
    <3> QED BY <3>1, <3>2
  <2>2. ASSUME NEW p \in Paths, byPath'[p] # NoDoc
        PROVE  PathOf[heap'[byPath'[p]].uri] = p /\ docs'[heap'[byPath'[p]].uri] = byPath'[p]
    <3>1. CASE p = PathOf[u]
      <4>1. byPath'[p] = d
        BY <3>1, <1>1 DEF FileByPath, TypeOK
      <4>2. heap'[d].uri = u
        BY <1>1, <1>2, <1>3
      <4> QED BY <3>1, <4>1, <4>2, <1>1 DEF TypeOK
    <3>2. CASE p # PathOf[u]
      <4>1. byPath'[p] = byPath[p] /\ byPath[p] \in DocIds
        BY <3>2, <2>2, <1>1 DEF FileByPath, TypeOK
      <4>2. PathOf[heap[byPath[p]].uri] = p /\ docs[heap[byPath[p]].uri] = byPath[p]
        BY <4>1 DEF MapsAgree
      <4>3. heap[byPath[p]].uri \in URIs /\ heap[byPath[p]].uri # u
        BY <3>2, <4>1, <4>2 DEF TypeOK, Document
      <4>4. byPath[p] # previous
        BY <4>1, <4>3, <1>1 DEF MapsAgree
      <4> QED BY <4>1, <4>2, <4>3, <4>4, <1>1, <1>3 DEF TypeOK
    <3> QED BY <3>1, <3>2
  <2> QED BY <2>1, <2>2 DEF MapsAgree
<1>7. NoLeak'
  <2> SUFFICES ASSUME NEW x \in DocIds, heap'[x].tree = "live"
               PROVE  (\E y \in URIs : docs'[y] = x) \/ (\E y \in Workers : pend'[y] = x)
    BY DEF NoLeak, Stored
  <2>1. x # previous /\ heap[x].tree = "live"
    BY <1>3, <1>4
  <2>2. CASE \E y \in URIs : docs[y] = x
    BY <2>1, <2>2, <1>1 DEF TypeOK
  <2>3. CASE \E y \in Workers : pend[y] = x
    <3>1. CASE x = d
      BY <3>1, <1>1 DEF TypeOK
    <3>2. CASE x # d
      BY <2>3, <3>2, <1>1 DEF TypeOK
    <3> QED BY <3>1, <3>2
  <2> QED BY <2>1, <2>2, <2>3 DEF NoLeak, Stored
<1>8. PendingOwned'
  <2> SUFFICES ASSUME NEW x \in Workers, pend'[x] # NoDoc
               PROVE  /\ heap'[pend'[x]].tree # "freed"
                      /\ \A y \in URIs : docs'[y] # pend'[x]
                      /\ \A y \in Workers \ {x} : pend'[y] # pend'[x]
                      /\ \A y \in Workers : pend'[x] \notin held'[y]
    BY DEF PendingOwned
  <2>1. x # w /\ pend'[x] = pend[x] /\ pend[x] \in DocIds
    BY <1>1 DEF TypeOK
  <2>2. pend[x] # d /\ pend[x] # previous
    BY <2>1, <1>1 DEF PendingOwned
  <2> QED BY <2>1, <2>2, <1>1, <1>2, <1>3 DEF PendingOwned, TypeOK
<1>9. HeldStored'
  BY <1>1, <1>2 DEF HeldStored
<1> QED BY <1>5, <1>6, <1>7, <1>8, <1>9

(* Deleting closes a document and drops both ways that led to it.              *)
LEMMA RemoveIInv ==
    ASSUME IInv, NEW w \in Workers, Remove(w)
    PROVE  IInv'
<1> USE NilAssumption, PathAssumption DEF IInv
<1> DEFINE u == target[w]
           d == docs[u]
<1>1. /\ pc[w] = "delete" /\ writer = w /\ u \in URIs
      /\ heap' = IF d = NoDoc THEN heap ELSE [heap EXCEPT ![d] = Close(@)]
      /\ docs' = [docs EXCEPT ![u] = NoDoc]
      /\ byPath' = ForgetPath(u)
      /\ pc' = [pc EXCEPT ![w] = "idle"] /\ target' = [target EXCEPT ![w] = NoURI]
      /\ writer' = NoWorker /\ UNCHANGED <<pend, held>>
  BY DEF Remove, HasWriteLock, TypeOK, CallsOK
<1>2. \A x \in Workers : held[x] = {}
  BY NobodyHolds DEF Remove
<1>3. \A x \in DocIds : x # d => heap'[x] = heap[x]
  BY <1>1 DEF TypeOK
<1>4. d # NoDoc => heap'[d] \in Document /\ heap'[d].tree # "live"
  BY <1>1 DEF Close, TypeOK, Document
<1>5. TypeOK'
  <2>1. heap' \in [DocIds -> Document]
    BY <1>1, <1>4 DEF TypeOK
  <2>2. byPath' \in [Paths -> DocIds \cup {NoDoc}]
    BY <1>1 DEF ForgetPath, TypeOK
  <2>3. CallsOK'
    BY <1>1, <1>2 DEF TypeOK, CallsOK, PCs
  <2> QED BY <1>1, <2>1, <2>2, <2>3 DEF TypeOK, PCs
<1>6. MapsAgree'
  <2>1. ASSUME NEW x \in URIs, docs'[x] # NoDoc
        PROVE  heap'[docs'[x]].uri = x /\ heap'[docs'[x]].tree # "freed"
    <3>1. x # u /\ docs'[x] = docs[x] /\ docs[x] \in DocIds
      BY <2>1, <1>1 DEF TypeOK
    <3>2. docs[x] # d
      BY <3>1, <1>1 DEF MapsAgree
    <3> QED BY <3>1, <3>2, <1>3 DEF MapsAgree
  <2>2. ASSUME NEW p \in Paths, byPath'[p] # NoDoc
        PROVE  PathOf[heap'[byPath'[p]].uri] = p /\ docs'[heap'[byPath'[p]].uri] = byPath'[p]
    <3>1. byPath'[p] = byPath[p] /\ byPath[p] \in DocIds
      BY <2>2, <1>1 DEF ForgetPath, TypeOK
    <3>2. PathOf[heap[byPath[p]].uri] = p /\ docs[heap[byPath[p]].uri] = byPath[p]
      BY <3>1 DEF MapsAgree
    <3>3. byPath[p] # d
      <4> SUFFICES ASSUME byPath[p] = d PROVE FALSE
        OBVIOUS
      <4>1. heap[d].uri = u /\ PathOf[u] = p
        BY <3>1, <3>2, <1>1 DEF MapsAgree
      <4>2. byPath'[p] = NoDoc
        BY <4>1, <3>1, <1>1 DEF ForgetPath, TypeOK
      <4> QED BY <4>2, <2>2
    <3>4. heap[byPath[p]].uri \in URIs /\ heap[byPath[p]].uri # u
      BY <3>1, <3>2, <3>3 DEF TypeOK, Document
    <3> QED BY <3>1, <3>2, <3>3, <3>4, <1>1, <1>3 DEF TypeOK
  <2> QED BY <2>1, <2>2 DEF MapsAgree
<1>7. NoLeak'
  <2> SUFFICES ASSUME NEW x \in DocIds, heap'[x].tree = "live"
               PROVE  (\E y \in URIs : docs'[y] = x) \/ (\E y \in Workers : pend'[y] = x)
    BY DEF NoLeak, Stored
  <2>1. x # d /\ heap[x].tree = "live"
    BY <1>3, <1>4
  <2> QED BY <2>1, <1>1 DEF NoLeak, Stored, TypeOK
<1>8. PendingOwned'
  <2> SUFFICES ASSUME NEW x \in Workers, pend[x] # NoDoc
               PROVE  /\ heap'[pend[x]].tree # "freed"
                      /\ \A y \in URIs : docs'[y] # pend[x]
    BY <1>1 DEF PendingOwned
  <2>1. pend[x] \in DocIds /\ pend[x] # d
    BY <1>1 DEF PendingOwned, TypeOK
  <2> QED BY <2>1, <1>1, <1>3 DEF PendingOwned, TypeOK
<1>9. HeldStored'
  BY <1>1, <1>2 DEF HeldStored
<1> QED BY <1>5, <1>6, <1>7, <1>8, <1>9

(* A reader only ever takes stored documents.                                  *)
LEMMA HoldIInv ==
    ASSUME IInv, NEW w \in Workers, NEW d \in DocIds \cup {NoDoc}, Hold(w, d),
           d # NoDoc => \E u \in URIs : docs[u] = d
    PROVE  IInv'
<1> USE NilAssumption DEF IInv, Hold
<1>1. TypeOK'
  BY DEF TypeOK, CallsOK, PCs
<1>2. MapsAgree' /\ NoLeak'
  BY DEF MapsAgree, NoLeak, Stored
<1>3. PendingOwned' /\ HeldStored'
  BY DEF PendingOwned, HeldStored, TypeOK
<1> QED BY <1>1, <1>2, <1>3

(* Waiting for the lock, and reading, change no document.                      *)
LEMMA LockIInv ==
    ASSUME IInv, NEW w \in Workers,
           Lock(w) \/ StartRead(w) \/ RLock(w) \/ RUnlock(w) \/ \E u \in URIs : StartDelete(w, u)
    PROVE  IInv'
<1> USE NilAssumption DEF IInv, Lock, StartRead, RLock, RUnlock, StartDelete
<1>1. TypeOK'
  BY DEF TypeOK, CallsOK, PCs
<1>2. MapsAgree' /\ NoLeak'
  BY DEF MapsAgree, NoLeak, Stored
<1>3. PendingOwned' /\ HeldStored'
  BY DEF PendingOwned, HeldStored, TypeOK
<1> QED BY <1>1, <1>2, <1>3

(* Every step preserves the invariant.                                        *)
LEMMA NextIInv == IInv /\ [Next]_vars => IInv'
<1> SUFFICES ASSUME IInv, [Next]_vars PROVE IInv'
  OBVIOUS
<1>1. CASE UNCHANGED vars
  BY <1>1 DEF vars, IInv, TypeOK, CallsOK, MapsAgree, NoLeak, Stored, PendingOwned, HeldStored
<1>2. CASE Next
  <2>1. PICK w \in Workers : Call(w) \/ Lock(w) \/ Finish(w) \/ RLock(w) \/ Use(w) \/ RUnlock(w)
    BY <1>2 DEF Next
  <2>2. CASE Call(w)
    BY <2>2, AnalyzeIInv, LockIInv DEF Call
  <2>3. CASE Finish(w)
    BY <2>3, DropOutdatedIInv, StoreIInv, RemoveIInv DEF Finish
  <2>4. CASE Use(w)
    <3>1. ASSUME NEW u \in URIs, Get(w, u) PROVE IInv'
      <4>1. docs[u] \in DocIds \cup {NoDoc}
        BY DEF IInv, TypeOK
      <4> QED BY <3>1, <4>1, HoldIInv DEF Get
    <3>2. ASSUME NEW p \in Paths, GetByPath(w, p) PROVE IInv'
      <4>1. byPath[p] \in DocIds \cup {NoDoc}
        BY DEF IInv, TypeOK
      <4>2. byPath[p] # NoDoc => heap[byPath[p]].uri \in URIs /\ docs[heap[byPath[p]].uri] = byPath[p]
        BY <4>1 DEF IInv, TypeOK, MapsAgree, Document
      <4> QED BY <3>2, <4>1, <4>2, HoldIInv DEF GetByPath
    <3> QED BY <2>4, <3>1, <3>2 DEF Use
  <2>5. CASE Lock(w) \/ RLock(w) \/ RUnlock(w)
    BY <2>5, LockIInv
  <2> QED BY <2>1, <2>2, <2>3, <2>4, <2>5
<1> QED BY <1>1, <1>2

-------------------------------------------------------------------------------
(* The inductive invariant holds in every reachable state.                     *)
THEOREM InductiveInvariant == Spec => []IInv
  BY InitIInv, NextIInv, PTL DEF Spec

(* The variables of Index keep their types, and no call leaves the lock taken. *)
THEOREM TypeCorrect == Spec => []TypeOK
  BY InductiveInvariant, PTL DEF IInv

(* Both maps of the index only lead to open documents, under their own keys.   *)
THEOREM MapsAlwaysAgree == Spec => []MapsAgree
  BY InductiveInvariant, PTL DEF IInv

(* A tree that Analyze built is never lost: it is stored, pending or freed.    *)
THEOREM NothingLeaks == Spec => []NoLeak
  BY InductiveInvariant, PTL DEF IInv

(* No request ever walks a freed tree, with any number of goroutines: what a   *)
(* reader holds is stored, and what is stored is open.                         *)
THEOREM NoUseAfterFreeEver == Spec => []NoUseAfterFree
<1>1. IInv => NoUseAfterFree
  BY NilAssumption DEF IInv, HeldStored, MapsAgree, TypeOK, NoUseAfterFree
<1> QED BY <1>1, InductiveInvariant, PTL

-------------------------------------------------------------------------------
(* A step that changes neither map nor a stored document is a stutter of the   *)
(* abstract map.                                                               *)
LEMMA SameMap ==
    ASSUME IInv, docs' = docs, byPath' = byPath,
           \A u \in URIs : docs[u] # NoDoc => heap'[docs[u]] = heap[docs[u]]
    PROVE  UNCHANGED Abstract!vars
<1>1. AbsEntry' = AbsEntry
  BY DEF AbsEntry
<1>2. \A p \in Paths : byPath[p] # NoDoc => heap'[byPath[p]] = heap[byPath[p]]
  <2> SUFFICES ASSUME NEW p \in Paths, byPath[p] # NoDoc
               PROVE  heap'[byPath[p]] = heap[byPath[p]]
    OBVIOUS
  <2>1. heap[byPath[p]].uri \in URIs /\ docs[heap[byPath[p]].uri] = byPath[p]
    BY DEF IInv, TypeOK, MapsAgree, Document
  <2> QED BY <2>1
<1>3. AbsOwner' = AbsOwner
  BY <1>2 DEF AbsOwner
<1> QED BY <1>1, <1>3 DEF Abstract!vars

(* An index without documents is an empty map.                                *)
LEMMA InitAbstract == Init => Abstract!Init
  BY DEF Init, Abstract!Init, AbsEntry, AbsOwner

(* Storing a document is an abstract Put of its text.                          *)
LEMMA StoreAbstract ==
    ASSUME IInv, NEW w \in Workers, Store(w)
    PROVE  \E u \in URIs, v \in Versions, c \in Contents : Abstract!Put(u, v, c)
<1> USE NilAssumption, PathAssumption DEF IInv
<1> DEFINE d == pend[w]
           u == heap[d].uri
           previous == docs[u]
<1>1. /\ d \in DocIds /\ u \in URIs /\ heap[d].version \in Versions /\ heap[d].content \in Contents
      /\ heap' = IF previous = NoDoc THEN heap ELSE [heap EXCEPT ![previous] = Close(@)]
      /\ docs' = [docs EXCEPT ![u] = d]
      /\ byPath' = FileByPath(d)
      /\ ~Outdated(d)
      /\ previous # d
  BY DEF Store, TypeOK, CallsOK, Document, PendingOwned
<1>2. \A x \in DocIds : /\ heap'[x].uri = heap[x].uri
                         /\ heap'[x].version = heap[x].version
                         /\ heap'[x].content = heap[x].content
  BY <1>1 DEF TypeOK, Document, Close
<1>3. AbsEntry' = [AbsEntry EXCEPT ![u] = [version |-> heap[d].version, content |-> heap[d].content]]
  <2>1. \A x \in URIs : docs'[x] = IF x = u THEN d ELSE docs[x]
    BY <1>1 DEF TypeOK
  <2>2. ASSUME NEW x \in URIs
        PROVE  AbsEntry'[x] = IF x = u THEN [version |-> heap[d].version, content |-> heap[d].content]
                                       ELSE AbsEntry[x]
    <3>1. docs[x] \in DocIds \cup {NoDoc}
      BY DEF TypeOK
    <3>2. CASE x = u
      <4>1. docs'[x] = d /\ d # NoDoc
        BY <3>2, <1>1, <2>1
      <4>2. AbsEntry'[x] = [version |-> heap'[d].version, content |-> heap'[d].content]
        BY <4>1 DEF AbsEntry
      <4>3. heap'[d].version = heap[d].version /\ heap'[d].content = heap[d].content
        BY <1>1, <1>2
      <4> QED BY <3>2, <4>2, <4>3
    <3>3. CASE x # u
      BY <3>1, <3>3, <1>2, <2>1 DEF AbsEntry
    <3> QED BY <3>2, <3>3
  <2>3. AbsEntry' = [x \in URIs |-> AbsEntry'[x]] /\ AbsEntry = [x \in URIs |-> AbsEntry[x]]
    BY DEF AbsEntry
  <2> QED BY <1>1, <2>2, <2>3
<1>4. AbsOwner' = IF PathOf[u] = NoPath THEN AbsOwner ELSE [AbsOwner EXCEPT ![PathOf[u]] = u]
  <2>1. \A p \in Paths : byPath[p] \in DocIds \cup {NoDoc}
    BY DEF TypeOK
  <2>2. CASE PathOf[u] = NoPath
    BY <2>1, <2>2, <1>1, <1>2 DEF AbsOwner, FileByPath
  <2>3. CASE PathOf[u] # NoPath
    <3>1. PathOf[u] \in Paths
      BY <2>3, <1>1
    <3>2. \A p \in Paths : byPath'[p] = IF p = PathOf[u] THEN d ELSE byPath[p]
      BY <2>3, <3>1, <1>1 DEF FileByPath, TypeOK
    <3>3. ASSUME NEW p \in Paths
          PROVE  AbsOwner'[p] = IF p = PathOf[u] THEN u ELSE AbsOwner[p]
      <4>1. AbsOwner'[p] = IF byPath'[p] = NoDoc THEN NoURI ELSE heap'[byPath'[p]].uri
        BY DEF AbsOwner
      <4>2. CASE p = PathOf[u]
        <5>1. byPath'[p] = d /\ d # NoDoc
          BY <4>2, <3>2, <1>1
        <5>2. heap'[d].uri = heap[d].uri
          BY <1>1, <1>2
        <5> QED BY <4>1, <4>2, <5>1, <5>2
      <4>3. CASE p # PathOf[u]
        BY <4>3, <2>1, <3>2, <1>2 DEF AbsOwner
      <4> QED BY <4>2, <4>3
    <3>4. AbsOwner' = [p \in Paths |-> AbsOwner'[p]] /\ AbsOwner = [p \in Paths |-> AbsOwner[p]]
      BY DEF AbsOwner
    <3> QED BY <2>3, <3>1, <3>3, <3>4
  <2> QED BY <2>2, <2>3
<1>5. ~Abstract!Outdated(u, heap[d].version)
  BY <1>1 DEF Abstract!Outdated, Outdated, AbsEntry
<1>6. Abstract!Put(u, heap[d].version, heap[d].content)
  BY <1>3, <1>4, <1>5 DEF Abstract!Put
<1> QED BY <1>1, <1>6

(* Deleting a stored document is an abstract Delete; comparing pointers and    *)
(* comparing URIs come to the same.                                            *)
LEMMA RemoveAbstract ==
    ASSUME IInv, NEW w \in Workers, Remove(w)
    PROVE  UNCHANGED Abstract!vars \/ \E u \in URIs : Abstract!Delete(u)
<1> USE NilAssumption, PathAssumption DEF IInv
<1> DEFINE u == target[w]
           d == docs[u]
<1>1. /\ u \in URIs
      /\ heap' = IF d = NoDoc THEN heap ELSE [heap EXCEPT ![d] = Close(@)]
      /\ docs' = [docs EXCEPT ![u] = NoDoc]
      /\ byPath' = ForgetPath(u)
  BY DEF Remove, TypeOK, CallsOK
<1>2. CASE d = NoDoc
  <2>1. docs' = docs /\ byPath' = byPath /\ heap' = heap
    BY <1>1, <1>2 DEF ForgetPath, TypeOK
  <2> QED BY <2>1, SameMap
<1>3. CASE d # NoDoc
  <2>1. d \in DocIds /\ heap[d].uri = u
    BY <1>1, <1>3 DEF TypeOK, MapsAgree
  <2>2. \A x \in DocIds : /\ heap'[x].uri = heap[x].uri
                           /\ heap'[x].version = heap[x].version
                           /\ heap'[x].content = heap[x].content
    BY <1>1 DEF TypeOK, Document, Close
  <2>3. AbsEntry' = [AbsEntry EXCEPT ![u] = Absent]
    <3>1. \A x \in URIs : docs'[x] = IF x = u THEN NoDoc ELSE docs[x]
      BY <1>1 DEF TypeOK
    <3>2. ASSUME NEW x \in URIs
          PROVE  AbsEntry'[x] = IF x = u THEN Absent ELSE AbsEntry[x]
      <4>1. docs[x] \in DocIds \cup {NoDoc}
        BY DEF TypeOK
      <4> QED BY <4>1, <3>1, <2>2 DEF AbsEntry
    <3>3. AbsEntry' = [x \in URIs |-> AbsEntry'[x]] /\ AbsEntry = [x \in URIs |-> AbsEntry[x]]
      BY DEF AbsEntry
    <3> QED BY <1>1, <3>2, <3>3
  <2>4. \A p \in Paths : byPath[p] \in DocIds \cup {NoDoc}
    BY DEF TypeOK
  <2>5. PathOf[u] \in Paths =>
            (byPath[PathOf[u]] = d <=> byPath[PathOf[u]] # NoDoc /\ heap[byPath[PathOf[u]]].uri = u)
    BY <1>3, <2>1 DEF MapsAgree
  <2>6. AbsEntry[u] # Absent
    BY <1>1, <1>3, AbsentAssumption DEF AbsEntry, TypeOK, Document
  <2>7. AbsOwner' = IF PathOf[u] # NoPath /\ AbsOwner[PathOf[u]] = u
                    THEN [AbsOwner EXCEPT ![PathOf[u]] = NoURI]
                    ELSE AbsOwner
    <3>1. PathOf[u] # NoPath => PathOf[u] \in Paths
      BY <1>1
    <3>2. PathOf[u] # NoPath => (AbsOwner[PathOf[u]] = u <=> byPath[PathOf[u]] = d)
      BY <3>1, <2>4, <2>5, <1>1, AbsentAssumption DEF AbsOwner
    <3>3. CASE PathOf[u] # NoPath /\ byPath[PathOf[u]] = d
      <4>1. \A p \in Paths : byPath'[p] = IF p = PathOf[u] THEN NoDoc ELSE byPath[p]
        BY <3>1, <3>3, <1>1, <1>3 DEF ForgetPath, TypeOK
      <4> QED BY <4>1, <3>1, <3>2, <3>3, <2>2, <2>4 DEF AbsOwner
    <3>4. CASE ~(PathOf[u] # NoPath /\ byPath[PathOf[u]] = d)
      <4>1. byPath' = byPath
        BY <3>4, <1>1 DEF ForgetPath
      <4> QED BY <4>1, <3>2, <3>4, <2>2, <2>4 DEF AbsOwner
    <3> QED BY <3>3, <3>4
  <2>8. Abstract!Delete(u)
    BY <2>3, <2>6, <2>7 DEF Abstract!Delete
  <2> QED BY <1>1, <2>8
<1> QED BY <1>2, <1>3

(* Every step of the index is a step of the abstract map or leaves it alone.   *)
LEMMA NextAbstract == IInv /\ [Next]_vars => [Abstract!Next]_(Abstract!vars)
<1> SUFFICES ASSUME IInv, [Next]_vars PROVE Abstract!Next \/ UNCHANGED Abstract!vars
  OBVIOUS
<1>1. CASE UNCHANGED vars
  BY <1>1, SameMap DEF vars
<1>2. CASE Next
  <2>1. PICK w \in Workers : Call(w) \/ Lock(w) \/ Finish(w) \/ RLock(w) \/ Use(w) \/ RUnlock(w)
    BY <1>2 DEF Next
  <2>2. ASSUME NEW u \in URIs, NEW v \in Versions, NEW c \in Contents, Analyze(w, u, v, c)
        PROVE  UNCHANGED Abstract!vars
    <3>1. PICK d \in DocIds \ Reachable :
            heap' = [heap EXCEPT ![d] = [uri |-> u, version |-> v, content |-> c,
                                         tree |-> IF u \in TreeURIs THEN "live" ELSE "none"]]
      BY <2>2 DEF Analyze
    <3>2. \A x \in URIs : docs[x] # NoDoc => heap'[docs[x]] = heap[docs[x]]
      BY <3>1, FreshAddress DEF IInv, TypeOK
    <3> QED BY <2>2, <3>2, SameMap DEF Analyze
  <2>3. ASSUME DropOutdated(w) PROVE UNCHANGED Abstract!vars
    <3>1. \A x \in URIs : docs[x] # NoDoc => heap'[docs[x]] = heap[docs[x]]
      BY <2>3 DEF DropOutdated, IInv, TypeOK, CallsOK, PendingOwned
    <3> QED BY <2>3, <3>1, SameMap DEF DropOutdated
  <2>4. CASE Store(w)
    BY <2>4, StoreAbstract DEF Abstract!Next
  <2>5. CASE Remove(w)
    BY <2>5, RemoveAbstract DEF Abstract!Next
  <2>6. CASE \/ \E u \in URIs : StartDelete(w, u)
             \/ StartRead(w) \/ Lock(w) \/ RLock(w) \/ Use(w) \/ RUnlock(w)
    <3>1. docs' = docs /\ byPath' = byPath /\ heap' = heap
      BY <2>6 DEF StartDelete, StartRead, Lock, RLock, Use, Get, GetByPath, Hold, RUnlock
    <3> QED BY <3>1, SameMap
  <2> QED BY <2>1, <2>2, <2>3, <2>4, <2>5, <2>6 DEF Call, Finish
<1> QED BY <1>1, <1>2

(* The index with its locks, its parsing outside of them and its pointers      *)
(* implements the abstract map, for any number of workers and documents.       *)
THEOREM Implements == Spec => ImplementsIndexMap
<1>1. Init => Abstract!Init
  BY InitAbstract
<1> QED BY <1>1, InductiveInvariant, NextAbstract, PTL DEF Spec, ImplementsIndexMap, Abstract!Spec

-------------------------------------------------------------------------------
(* Neither an abstract Put nor a Delete can hide a file that has one URI: a    *)
(* step on another document does not touch its path.                           *)
LEMMA FoundByPathStep ==
    ASSUME FoundByPath, [Abstract!Next]_(Abstract!vars)
    PROVE  FoundByPath'
<1> USE PathAssumption, AbsentAssumption DEF FoundByPath, Abstract!FoundByPath
<1>0. AbsEntry = [y \in URIs |-> AbsEntry[y]] /\ AbsOwner = [p \in Paths |-> AbsOwner[p]]
  BY DEF AbsEntry, AbsOwner
<1>1. CASE UNCHANGED Abstract!vars
  BY <1>1 DEF Abstract!vars
<1>2. ASSUME NEW u \in URIs, NEW v \in Versions, NEW c \in Contents, Abstract!Put(u, v, c)
      PROVE  FoundByPath'
  <2>1. CASE UNCHANGED Abstract!vars
    BY <2>1 DEF Abstract!vars
  <2>2. CASE /\ AbsEntry' = [AbsEntry EXCEPT ![u] = [version |-> v, content |-> c]]
             /\ AbsOwner' = IF PathOf[u] = NoPath THEN AbsOwner
                                                  ELSE [AbsOwner EXCEPT ![PathOf[u]] = u]
    <3>1. [version |-> v, content |-> c] # Absent
      BY DEF Document
    <3>2. ASSUME NEW x \in URIs, PathOf[x] # NoPath, \A y \in URIs \ {x} : PathOf[y] # PathOf[x]
          PROVE  AbsEntry'[x] # Absent <=> AbsOwner'[PathOf[x]] = x
      <4>1. PathOf[x] \in Paths
        BY <3>2
      <4>2. CASE x = u
        BY <1>0, <4>1, <4>2, <2>2, <3>1, <3>2
      <4>3. CASE x # u
        <5>1. AbsEntry'[x] = AbsEntry[x] /\ AbsOwner'[PathOf[x]] = AbsOwner[PathOf[x]]
          BY <1>0, <4>1, <4>3, <2>2, <3>2
        <5> QED BY <5>1, <3>2
      <4> QED BY <4>2, <4>3
    <3> QED BY <3>2
  <2> QED BY <1>2, <2>1, <2>2 DEF Abstract!Put
<1>3. ASSUME NEW u \in URIs, Abstract!Delete(u)
      PROVE  FoundByPath'
  <2>1. ASSUME NEW x \in URIs, PathOf[x] # NoPath, \A y \in URIs \ {x} : PathOf[y] # PathOf[x]
        PROVE  AbsEntry'[x] # Absent <=> AbsOwner'[PathOf[x]] = x
    <3>1. PathOf[x] \in Paths
      BY <2>1
    <3>2. CASE x = u
      <4>1. AbsOwner[PathOf[u]] = u
        BY <1>3, <2>1, <3>2 DEF Abstract!Delete
      <4> QED BY <1>0, <1>3, <2>1, <3>1, <3>2, <4>1 DEF Abstract!Delete
    <3>3. CASE x # u
      <4>1. AbsEntry'[x] = AbsEntry[x] /\ AbsOwner'[PathOf[x]] = AbsOwner[PathOf[x]]
        BY <1>0, <1>3, <2>1, <3>1, <3>3 DEF Abstract!Delete
      <4> QED BY <4>1, <2>1
    <3> QED BY <3>2, <3>3
  <2> QED BY <2>1
<1> QED BY <1>1, <1>2, <1>3 DEF Abstract!Next

(* A file that a single URI names is found by its path exactly when it is      *)
(* stored, for every workspace: module sets and store tests never lose a       *)
(* document that the index has.                                                *)
THEOREM AlwaysFoundByPath == Spec => []FoundByPath
<1>1. Init => FoundByPath
  BY PathAssumption, AbsentAssumption
  DEF Init, FoundByPath, Abstract!FoundByPath, AbsEntry, AbsOwner
<1>2. IInv /\ FoundByPath /\ [Next]_vars => FoundByPath'
  BY NextAbstract, FoundByPathStep
<1> QED BY <1>1, <1>2, InductiveInvariant, PTL DEF Spec
===============================================================================
