---------------------------- MODULE LspServerProofs ----------------------------
(* Proofs about LspServer, for every workspace, every number of versions,      *)
(* edits and rounds.                                                           *)
EXTENDS LspServer, DiagnosticsProofs

(* Every text is where its file name says it fits, an index path is answered   *)
(* by a stored document of that file, and a handler knows what it works for.   *)
IndexFits ==
    /\ Ix!TypeOK /\ Ix!OwnerStored
    /\ \A u \in URIs : entry[u] # Absent => entry[u].content \in TextsOf[PathOf[u]]

HandlersFit ==
    \A c \in Conns :
        /\ file[c] # NothingRead => file[c].text \in TextsOf[file[c].path] \cup {NoFile}
        /\ pc[c] = "store" => file[c].text # NoFile
        /\ pc[c] = "close" => file[c].path = PathOf[req[c]]
        /\ round[c] > 0 => req[c] # NoURI

TypeInv == TypeOK /\ IndexFits /\ HandlersFit

-------------------------------------------------------------------------------
(* One client, and no file with a second URI beside the server's own.          *)
OneClient == \A c, d \in Conns : c = d
OneURIPerFile == \A u \in URIs : FileURI[PathOf[u]] = u

(* What is open is stored, in the version the client gave it last; what is not *)
(* is stored as read from disk, once its closing has been handled.             *)
OpenIsStored ==
    \A c \in Conns, u \in URIs :
        buffer[c][u] # Closed =>
            entry[u] # Absent /\ entry[u] = [version |-> buffer[c][u].version, content |-> buffer[c][u].text]

ClosedIsFromDisk ==
    \A c \in Conns, u \in URIs :
        (buffer[c][u] = Closed /\ entry[u] # Absent /\ ~(pc[c] = "close" /\ req[c] = u))
            => entry[u].version = 0

StoredIsFound == \A u \in URIs : owner[PathOf[u]] = IF entry[u] # Absent THEN u ELSE NoURI

(* Only files that are not open are loaded, or read back.                      *)
OpenIsNotLoaded ==
    \A c \in Conns :
        /\ pc[c] = "new" => \A u \in URIs : buffer[c][u] = Closed
        /\ pc[c] = "close" => buffer[c][req[c]] = Closed
        /\ pc[c] \in {"load", "store"} => \A p \in todo[c] : buffer[c][FileURI[p]] = Closed
        /\ pc[c] = "store" => buffer[c][FileURI[file[c].path]] = Closed

SyncInv == OpenIsStored /\ ClosedIsFromDisk /\ StoredIsFound /\ OpenIsNotLoaded

-------------------------------------------------------------------------------
(* A round that has loaded nothing yet has before it whatever is missing, and  *)
(* rounds are counted from a document that is open.                            *)
NothingIsForgotten ==
    \A c \in Conns :
        (pc[c] = "load" /\ round[c] > 0 /\ ~progress[c] /\ edits = 0)
            => \A p \in Unresolved(View, disk) : p \in todo[c] \/ disk[p] = NoFile

RoundsFollowASync ==
    \A c \in Conns :
        /\ pc[c] \in {"new", "idle", "close"} => round[c] = 0
        /\ pc[c] = "ensure" => buffer[c][req[c]] # Closed

ReferencesInv == ReferencesLoaded /\ NothingIsForgotten /\ RoundsFollowASync

-------------------------------------------------------------------------------
(* What is not published is not displayed; what was computed last is what a    *)
(* computation would find, and so is what is displayed of it.                  *)
OnlyPublishedIsShown == \A c \in Conns, u \in URIs : u \notin published => shown[c][u] = {}

ResultsAreCurrent ==
    \A c \in Conns :
        (pc[c] = "notify" /\ settled[c] # NoURI)
            => settled[c] = req[c] /\ results[c] = Results(View, disk, req[c])

ShownIsCurrent ==
    \A c \in Conns, w \in URIs :
        (pc[c] # "notify" /\ settled[c] = w /\ entry[w] # Absent) => \A u \in Covered(w) : IsFresh(c, u)

FreshInv == OnlyPublishedIsShown /\ ResultsAreCurrent /\ ShownIsCurrent

-------------------------------------------------------------------------------
(* Type correctness.                                                           *)

(* What the server may do to the index: nothing, a store of a text that fits,  *)
(* or a deletion.                                                              *)
IndexStep ==
    \/ UNCHANGED index
    \/ \E u \in URIs, version \in 0..MaxVersion : \E text \in TextsOf[PathOf[u]] : Ix!Put(u, version, text)
    \/ \E u \in URIs : Ix!Delete(u)

(* Storing a text that fits and deleting keep the index well-formed.           *)
LEMMA IndexStepFits == IndexFits /\ IndexStep => IndexFits'
<1> SUFFICES ASSUME IndexFits, IndexStep PROVE IndexFits'
  OBVIOUS
<1> USE PathAssumption, FilesAssumption, AbsentAssumption
<1>1. CASE UNCHANGED index
  BY <1>1 DEF index, IndexFits, Ix!TypeOK, Ix!OwnerStored
<1>2. ASSUME NEW u \in URIs, NEW version \in 0..MaxVersion, NEW text \in TextsOf[PathOf[u]],
             Ix!Put(u, version, text)
      PROVE  IndexFits'
  <2>1. PathOf[u] \in Paths /\ text \in Texts
    BY DEF Texts
  <2>2. [version |-> version, content |-> text] \in Ix!Entry
    BY <2>1 DEF Ix!Entry
  <2>3. CASE UNCHANGED index
    BY <2>3, <1>1
  <2>4. CASE /\ entry' = [entry EXCEPT ![u] = [version |-> version, content |-> text]]
             /\ owner' = [owner EXCEPT ![PathOf[u]] = u]
    <3>1. Ix!TypeOK'
      BY <2>1, <2>2, <2>4 DEF IndexFits, Ix!TypeOK
    <3>2. Ix!OwnerStored'
      BY <2>1, <2>2, <2>4 DEF IndexFits, Ix!TypeOK, Ix!OwnerStored
    <3>3. ASSUME NEW w \in URIs, entry'[w] # Absent PROVE entry'[w].content \in TextsOf[PathOf[w]]
      <4>1. CASE w = u
        BY <2>4, <4>1 DEF IndexFits, Ix!TypeOK
      <4>2. CASE w # u
        BY <2>4, <3>3, <4>2 DEF IndexFits, Ix!TypeOK
      <4> QED BY <4>1, <4>2
    <3> QED BY <3>1, <3>2, <3>3 DEF IndexFits
  <2> QED BY <1>2, <2>1, <2>3, <2>4 DEF Ix!Put, Ix!vars, index
<1>3. ASSUME NEW u \in URIs, Ix!Delete(u) PROVE IndexFits'
  <2>1. /\ entry' = [entry EXCEPT ![u] = Absent]
        /\ owner' = IF owner[PathOf[u]] = u THEN [owner EXCEPT ![PathOf[u]] = NoURI] ELSE owner
    BY <1>3 DEF Ix!Delete
  <2>2. Ix!TypeOK'
    BY <2>1 DEF IndexFits, Ix!TypeOK
  <2>3. Ix!OwnerStored'
    <3> SUFFICES ASSUME NEW p \in Paths, owner'[p] # NoURI
                 PROVE  entry'[owner'[p]] # Absent /\ PathOf[owner'[p]] = p
      BY DEF Ix!OwnerStored
    <3>1. owner'[p] = owner[p] /\ owner[p] # u /\ owner[p] \in URIs
      BY <2>1 DEF IndexFits, Ix!TypeOK, Ix!OwnerStored
    <3> QED BY <2>1, <3>1 DEF IndexFits, Ix!TypeOK, Ix!OwnerStored
  <2>4. \A w \in URIs : entry'[w] # Absent => entry'[w].content \in TextsOf[PathOf[w]]
    BY <2>1 DEF IndexFits, Ix!TypeOK
  <2> QED BY <2>2, <2>3, <2>4 DEF IndexFits
<1> QED BY <1>1, <1>2, <1>3 DEF IndexStep

(* A well-formed index can be resolved.                                        *)
LEMMA ViewFits == IndexFits => ViewOK(View)
<1> SUFFICES ASSUME IndexFits PROVE ViewOK(View)
  OBVIOUS
<1>1. View.entry = entry /\ View.owner = owner
  BY DEF View
<1>2. ASSUME NEW u \in URIs, View.entry[u] # Absent
      PROVE  PathOf[u] \in Paths /\ Kind(u) = KindOf[PathOf[u]]
             /\ \E text \in TextsOf[PathOf[u]] : Text(View, u) = Parse[text]
  BY <1>1, <1>2, PathAssumption, FilesAssumption DEF IndexFits, Text, Kind
<1>3. View.owner \in [Paths -> URIs \cup {NoURI}]
      /\ \A p \in Paths : View.owner[p] # NoURI => PathOf[View.owner[p]] = p
  BY <1>1 DEF IndexFits, Ix!TypeOK, Ix!OwnerStored
<1>4. ASSUME NEW m \in DocsOfKind(View, "mod")
      PROVE  Listed(View, m) \in Seq({q \in Paths : KindOf[q] = "model"})
  <2>1. PathOf[m] \in Paths /\ KindOf[PathOf[m]] = "mod" /\ \E text \in TextsOf[PathOf[m]] : Text(View, m) = Parse[text]
    BY <1>2 DEF DocsOfKind, Docs
  <2>2. PICK text \in TextsOf[PathOf[m]] : Text(View, m) = Parse[text]
    BY <2>1
  <2>3. Parse[text].contents \in Seq({q \in Paths : KindOf[q] = "model"})
    BY <2>1, ParseAssumption
  <2> QED BY <2>2, <2>3 DEF Listed
<1>5. ASSUME NEW s \in DocsOfKind(View, "store") PROVE Text(View, s).model \in Paths \cup {NoPath}
  <2>1. PathOf[s] \in Paths /\ KindOf[PathOf[s]] = "store" /\ \E text \in TextsOf[PathOf[s]] : Text(View, s) = Parse[text]
    BY <1>2 DEF DocsOfKind, Docs
  <2> QED BY <2>1, ParseAssumption
<1> QED BY <1>3, <1>4, <1>5 DEF ViewOK

(* The first step reads no file and stores nothing.                            *)
LEMMA InitTypeInv == Init => TypeInv
<1> SUFFICES ASSUME Init PROVE TypeInv
  OBVIOUS
<1> USE PathAssumption, ServerAssumption, DiskAssumption
<1>1. IndexFits
  BY DEF Init, Ix!Init, IndexFits, Ix!TypeOK, Ix!OwnerStored
<1>2. TypeOK
  <2>1. NothingRead \in {NothingRead}
    OBVIOUS
  <2> QED BY <1>1, <2>1 DEF Init, TypeOK, IndexFits, Steps, NoResults
<1>3. HandlersFit
  BY DEF Init, HandlersFit
<1> QED BY <1>1, <1>2, <1>3 DEF TypeInv

(* A scan has files of the workspace before it.                               *)
LEMMA InitializeTypeInv == ASSUME TypeInv, NEW c \in Conns, Initialize(c) PROVE TypeInv'
<1> USE DEF TypeInv
<1>1. /\ pc[c] = "new"
      /\ \E files \in Roots : todo' = [todo EXCEPT ![c] = files]
      /\ round' = [round EXCEPT ![c] = 0] /\ pc' = [pc EXCEPT ![c] = "load"]
      /\ UNCHANGED <<disk, edits, index, published, buffer, shown, req, file, progress, results, settled>>
  BY DEF Initialize, Goto
<1>2. IndexFits'
  BY <1>1, IndexStepFits DEF IndexStep
<1>3. TypeOK'
  BY <1>1, <1>2, ServerAssumption, DiskAssumption DEF TypeOK, IndexFits, Steps
<1>4. HandlersFit'
  BY <1>1 DEF HandlersFit, TypeOK
<1> QED BY <1>2, <1>3, <1>4

(* A client sends texts that fit, in versions from 1.                         *)
LEMMA SyncTypeInv ==
    ASSUME TypeInv, NEW c \in Conns, NEW u \in URIs, NEW version \in 1..MaxVersion,
           NEW text \in TextsOf[PathOf[u]], pc[c] = "idle", Sync(c, u, version, text)
    PROVE  TypeInv'
<1> USE DEF TypeInv
<1>1. /\ Ix!Put(u, version, text) /\ settled' = [d \in Conns |-> NoURI]
      /\ buffer' = [buffer EXCEPT ![c][u] = [version |-> version, text |-> text]]
      /\ req' = [req EXCEPT ![c] = u] /\ round' = [round EXCEPT ![c] = 1] /\ pc' = [pc EXCEPT ![c] = "ensure"]
      /\ UNCHANGED <<disk, edits, published, shown, todo, file, progress, results>>
  BY DEF Sync, PutDocument, Unsettle, Goto
<1>2. IndexFits'
  BY <1>1, IndexStepFits DEF IndexStep
<1>3. PathOf[u] \in Paths /\ text \in Texts
  BY FilesAssumption DEF Texts
<1>4. TypeOK'
  <2>1. buffer' \in [Conns -> [URIs -> [version : 1..MaxVersion, text : Texts] \cup {Closed}]]
    BY <1>1, <1>3 DEF TypeOK
  <2>2. \A d \in Conns, w \in URIs : buffer'[d][w] # Closed => buffer'[d][w].text \in TextsOf[PathOf[w]]
    BY <1>1, <1>3 DEF TypeOK
  <2> QED BY <1>1, <1>2, <2>1, <2>2, ServerAssumption, PathAssumption DEF TypeOK, IndexFits, Steps
<1>5. HandlersFit'
  BY <1>1, PathAssumption DEF HandlersFit, TypeOK
<1> QED BY <1>2, <1>4, <1>5

(* What a client saves is what it had open.                                   *)
LEMMA DidSaveTypeInv == ASSUME TypeInv, NEW c \in Conns, NEW u \in URIs, DidSave(c, u) PROVE TypeInv'
<1> USE DEF TypeInv
<1>1. /\ pc[c] = "idle" /\ buffer[c][u] # Closed
      /\ disk' = [disk EXCEPT ![PathOf[u]] = buffer[c][u].text]
      /\ req' = [req EXCEPT ![c] = u] /\ settled' = [d \in Conns |-> NoURI] /\ pc' = [pc EXCEPT ![c] = "publish"]
      /\ UNCHANGED <<edits, index, published, buffer, shown, todo, file, round, progress, results>>
  BY DEF DidSave, Unsettle, Goto
<1>2. IndexFits'
  BY <1>1, IndexStepFits DEF IndexStep
<1>3. PathOf[u] \in Paths /\ buffer[c][u].text \in TextsOf[PathOf[u]] /\ buffer[c][u].text \in Texts
  BY <1>1, FilesAssumption DEF TypeOK, Texts
<1>4. TypeOK'
  <2>1. disk' \in [Paths -> Texts \cup {NoFile}] /\ \A p \in Paths : disk'[p] \in TextsOf[p] \cup {NoFile}
    BY <1>1, <1>3 DEF TypeOK
  <2> QED BY <1>1, <1>2, <2>1, PathAssumption DEF TypeOK, IndexFits, Steps
<1>5. HandlersFit'
  BY <1>1, PathAssumption DEF HandlersFit, TypeOK
<1> QED BY <1>2, <1>4, <1>5

(* What is read back is the text of the document's own file.                  *)
LEMMA DidCloseTypeInv == ASSUME TypeInv, NEW c \in Conns, NEW u \in URIs, DidClose(c, u) PROVE TypeInv'
<1> USE DEF TypeInv
<1> DEFINE read == [path |-> PathOf[u], text |-> disk[PathOf[u]]]
<1>1. /\ pc[c] = "idle" /\ buffer' = [buffer EXCEPT ![c][u] = Closed]
      /\ req' = [req EXCEPT ![c] = u] /\ file' = [file EXCEPT ![c] = read] /\ pc' = [pc EXCEPT ![c] = "close"]
      /\ UNCHANGED <<disk, edits, index, published, shown, todo, round, progress, results, settled>>
  BY DEF DidClose, Goto
<1>2. IndexFits'
  BY <1>1, IndexStepFits DEF IndexStep
<1>3. /\ PathOf[u] \in Paths /\ disk[PathOf[u]] \in TextsOf[PathOf[u]] \cup {NoFile}
      /\ read \in [path : Paths, text : Texts \cup {NoFile}] /\ read # NothingRead
  BY FilesAssumption, PathAssumption DEF TypeOK, NothingRead
<1>4. TypeOK'
  <2>1. buffer' \in [Conns -> [URIs -> [version : 1..MaxVersion, text : Texts] \cup {Closed}]]
    BY <1>1 DEF TypeOK
  <2>2. \A d \in Conns, w \in URIs : buffer'[d][w] # Closed => buffer'[d][w].text \in TextsOf[PathOf[w]]
    BY <1>1 DEF TypeOK
  <2> HIDE DEF read
  <2> QED BY <1>1, <1>2, <1>3, <2>1, <2>2, PathAssumption DEF TypeOK, IndexFits, Steps
<1>5. HandlersFit'
  BY <1>1, <1>3, PathAssumption DEF HandlersFit, TypeOK
<1> QED BY <1>2, <1>4, <1>5

(* What was read back for a document fits it.                                 *)
LEMMA CloseTypeInv == ASSUME TypeInv, NEW c \in Conns, Close(c) PROVE TypeInv'
<1> USE DEF TypeInv
<1>1. /\ pc[c] = "close"
      /\ IF file[c].text = NoFile THEN DeleteDocument(req[c]) /\ pc' = [pc EXCEPT ![c] = "idle"]
                                  ELSE PutDocument(req[c], 0, file[c].text) /\ pc' = [pc EXCEPT ![c] = "publish"]
      /\ file' = [file EXCEPT ![c] = NothingRead]
      /\ UNCHANGED <<disk, edits, published, buffer, shown, req, todo, round, progress, results>>
  BY DEF Close, Goto
<1>2. req[c] \in URIs /\ (file[c].text # NoFile => file[c].text \in TextsOf[PathOf[req[c]]])
  <2>1. file[c] # NothingRead /\ file[c].path = PathOf[req[c]] /\ req[c] \in URIs
    <3>1. file[c].path = PathOf[req[c]]
      BY <1>1 DEF HandlersFit
    <3>2. file[c] # NothingRead /\ req[c] \in URIs
      BY <1>1 DEF TypeOK
    <3> QED BY <3>1, <3>2
  <2>2. file[c].text \in TextsOf[file[c].path] \cup {NoFile}
    BY <2>1 DEF HandlersFit
  <2> QED BY <2>1, <2>2
<1>3. settled' = [d \in Conns |-> NoURI]
  BY <1>1 DEF PutDocument, DeleteDocument, Unsettle
<1>4. IndexFits'
  <2>1. CASE file[c].text = NoFile
    BY <1>1, <1>2, <2>1, IndexStepFits DEF DeleteDocument, IndexStep
  <2>2. CASE file[c].text # NoFile
    <3>1. 0 \in 0..MaxVersion
      BY ServerAssumption
    <3> QED BY <1>1, <1>2, <2>2, <3>1, IndexStepFits DEF PutDocument, IndexStep
  <2> QED BY <2>1, <2>2
<1>5. pc' = [pc EXCEPT ![c] = "idle"] \/ pc' = [pc EXCEPT ![c] = "publish"]
  BY <1>1
<1>6. TypeOK'
  BY <1>1, <1>2, <1>3, <1>4, <1>5, PathAssumption DEF TypeOK, IndexFits, Steps
<1>7. HandlersFit'
  BY <1>1, <1>5, PathAssumption DEF HandlersFit, TypeOK
<1> QED BY <1>4, <1>6, <1>7

(* EnsureReferences works for the document that was synced.                   *)
LEMMA EnsureTypeInv == ASSUME TypeInv, NEW c \in Conns, Ensure(c) PROVE TypeInv'
<1> USE DEF TypeInv
<1>1. /\ pc[c] = "ensure"
      /\ pc' = [pc EXCEPT ![c] = "publish"] \/ pc' = [pc EXCEPT ![c] = "sweep"]
      /\ UNCHANGED <<disk, edits, index, published, buffer, shown, handler, settled>>
  BY DEF Ensure, Goto
<1>2. IndexFits'
  BY <1>1, IndexStepFits DEF IndexStep
<1>3. pc' \in [Conns -> Steps] /\ \A d \in Conns : pc'[d] = pc[d] \/ (d = c /\ pc'[c] \in {"publish", "sweep"})
  BY <1>1 DEF TypeOK, Steps
<1>4. TypeOK'
  BY <1>1, <1>2, <1>3 DEF TypeOK, IndexFits, handler
<1>5. HandlersFit'
  BY <1>1, <1>3 DEF HandlersFit, handler
<1> QED BY <1>2, <1>4, <1>5

(* Only files can be missing.                                                  *)
LEMMA MissingArePaths == ASSUME TypeInv, NEW c PROVE Missing(c) \in SUBSET Paths
<1> DEFINE v == View
<1>1. ViewOK(v)
  BY ViewFits DEF TypeInv
<1> HIDE DEF v
<1>2. \A u \in Docs(v) : References(v, disk, u) \subseteq Paths
  BY <1>1, ReferencesArePaths
<1>3. Unresolved(v, disk) \subseteq Paths
  BY <1>2 DEF Unresolved, UnresolvedReferences
<1> QED BY <1>3 DEF Missing, v

(* A round has files before it.                                               *)
LEMMA SweepTypeInv == ASSUME TypeInv, NEW c \in Conns, Sweep(c) PROVE TypeInv'
<1> USE DEF TypeInv
<1>1. /\ pc[c] = "sweep"
      /\ todo' = [todo EXCEPT ![c] = Missing(c)] /\ progress' = [progress EXCEPT ![c] = FALSE]
      /\ pc' = [pc EXCEPT ![c] = "publish"] \/ pc' = [pc EXCEPT ![c] = "load"]
      /\ UNCHANGED <<disk, edits, index, published, buffer, shown, req, file, round, results, settled>>
  BY DEF Sweep, Goto
<1>2. IndexFits'
  BY <1>1, IndexStepFits DEF IndexStep
<1>3. Missing(c) \in SUBSET Paths
  BY MissingArePaths
<1>4. pc' \in [Conns -> Steps] /\ \A d \in Conns : pc'[d] = pc[d] \/ (d = c /\ pc'[c] \in {"publish", "load"})
  BY <1>1 DEF TypeOK, Steps
<1>5. TypeOK'
  BY <1>1, <1>2, <1>3, <1>4 DEF TypeOK, IndexFits
<1>6. HandlersFit'
  BY <1>1, <1>4 DEF HandlersFit
<1> QED BY <1>2, <1>5, <1>6

(* What is read is there, and is the text of its file.                        *)
LEMMA LoadTypeInv == ASSUME TypeInv, NEW c \in Conns, NEW p \in Paths, Load(c, p) PROVE TypeInv'
<1> USE DEF TypeInv
<1> DEFINE read == [path |-> p, text |-> disk[p]]
<1>1. /\ pc[c] = "load" /\ p \in todo[c]
      /\ todo' = [todo EXCEPT ![c] = @ \ {p}]
      /\ IF disk[p] = NoFile THEN UNCHANGED <<file, pc>>
         ELSE file' = [file EXCEPT ![c] = read] /\ pc' = [pc EXCEPT ![c] = "store"]
      /\ UNCHANGED <<disk, edits, index, published, buffer, shown, req, round, progress, results, settled>>
  BY DEF Load, NextFile, Goto
<1>2. IndexFits'
  BY <1>1, IndexStepFits DEF IndexStep
<1>3. read \in [path : Paths, text : Texts \cup {NoFile}] /\ read # NothingRead
      /\ read.path = p /\ read.text = disk[p] /\ disk[p] \in TextsOf[p] \cup {NoFile}
  BY PathAssumption DEF TypeOK, NothingRead
<1> HIDE DEF read
<1>4. TypeOK' /\ HandlersFit'
  <2>1. CASE disk[p] = NoFile
    BY <1>1, <1>2, <2>1 DEF TypeOK, HandlersFit, IndexFits
  <2>2. CASE disk[p] # NoFile
    <3>1. /\ file' = [file EXCEPT ![c] = read] /\ pc' = [pc EXCEPT ![c] = "store"]
          /\ pc[c] = "load" /\ todo' = [todo EXCEPT ![c] = @ \ {p}]
          /\ UNCHANGED <<disk, edits, index, published, buffer, shown, req, round, progress, results, settled>>
      BY <1>1, <2>2
    <3>2. TypeOK'
      BY <1>2, <1>3, <3>1 DEF TypeOK, IndexFits, Steps
    <3>3. HandlersFit'
      BY <1>1, <1>3, <2>2 DEF TypeOK, HandlersFit
    <3> QED BY <3>2, <3>3
  <2> QED BY <2>1, <2>2
<1> QED BY <1>2, <1>4

(* A text is stored under the document of the file it was read from.          *)
LEMMA StoreFileTypeInv == ASSUME TypeInv, NEW c \in Conns, StoreFile(c) PROVE TypeInv'
<1> USE DEF TypeInv
<1>1. /\ pc[c] = "store" /\ Ix!Put(FileURI[file[c].path], 0, file[c].text)
      /\ settled' = [d \in Conns |-> NoURI]
      /\ file' = [file EXCEPT ![c] = NothingRead] /\ progress' = [progress EXCEPT ![c] = TRUE]
      /\ pc' = [pc EXCEPT ![c] = "load"]
      /\ UNCHANGED <<disk, edits, published, buffer, shown, req, todo, round, results>>
  BY DEF StoreFile, PutDocument, Unsettle, Goto
<1>2. file[c].path \in Paths /\ file[c].text \in TextsOf[file[c].path]
  BY <1>1 DEF TypeOK, HandlersFit
<1>3. IndexFits'
  <2>1. FileURI[file[c].path] \in URIs /\ PathOf[FileURI[file[c].path]] = file[c].path /\ 0 \in 0..MaxVersion
    BY <1>2, FileURIAssumption, ServerAssumption
  <2> QED BY <1>1, <1>2, <2>1, IndexStepFits DEF IndexStep
<1>4. TypeOK' /\ HandlersFit'
  BY <1>1, <1>3, PathAssumption DEF TypeOK, HandlersFit, IndexFits, Steps
<1> QED BY <1>3, <1>4

(* Rounds are counted up to the last, for a document.                         *)
LEMMA LoadDoneTypeInv == ASSUME TypeInv, NEW c \in Conns, LoadDone(c) PROVE TypeInv'
<1> USE DEF TypeInv
<1>1. /\ pc[c] = "load"
      /\ \/ round[c] = 0 /\ pc' = [pc EXCEPT ![c] = "idle"] /\ UNCHANGED round
         \/ round[c] > 0 /\ pc' = [pc EXCEPT ![c] = "publish"] /\ UNCHANGED round
         \/ /\ round[c] > 0 /\ pc' = [pc EXCEPT ![c] = "sweep"]
            /\ round' = [round EXCEPT ![c] = IF @ < MaxRounds THEN @ + 1 ELSE @]
      /\ UNCHANGED <<disk, edits, index, published, buffer, shown, req, todo, file, progress, results, settled>>
  BY DEF LoadDone, Goto
<1>2. IndexFits'
  BY <1>1, IndexStepFits DEF IndexStep
<1>3. round' \in [Conns -> 0..MaxRounds] /\ \A d \in Conns : round'[d] > 0 => round[d] > 0
  <2>1. round \in [Conns -> 0..MaxRounds] /\ MaxRounds \in Nat
    BY ServerAssumption DEF TypeOK
  <2>2. CASE round[c] > 0 /\ round' = [round EXCEPT ![c] = IF @ < MaxRounds THEN @ + 1 ELSE @]
    <3>1. (IF round[c] < MaxRounds THEN round[c] + 1 ELSE round[c]) \in 0..MaxRounds
      BY <2>1
    <3> QED BY <2>1, <2>2, <3>1
  <2> QED BY <1>1, <2>1, <2>2
<1>4. pc' \in [Conns -> Steps]
      /\ \A d \in Conns :
                         /\ pc'[d] \in {"close", "store"} <=> pc[d] \in {"close", "store"}
                         /\ (req[d] = NoURI /\ round[d] = 0) => pc'[d] \in {"new", "idle", "load", "store"}
                         /\ pc'[d] \in {"close", "store"} => pc'[d] = pc[d]
  BY <1>1 DEF TypeOK, Steps
<1>5. \A d \in Conns : req[d] = NoURI => round[d] = 0
  BY DEF HandlersFit, TypeOK
<1>6. TypeOK'
  BY <1>1, <1>2, <1>3, <1>4, <1>5 DEF TypeOK, IndexFits
<1>7. HandlersFit'
  BY <1>1, <1>3, <1>4 DEF HandlersFit
<1> QED BY <1>2, <1>6, <1>7

(* Lists are computed for documents.                                          *)
LEMMA PublishTypeInv == ASSUME TypeInv, NEW c \in Conns, Publish(c) PROVE TypeInv'
<1> USE DEF TypeInv
<1> DEFINE sent == Results(View, disk, req[c])
<1>1. /\ pc[c] = "publish"
      /\ results' = [results EXCEPT ![c] = sent] /\ settled' = [settled EXCEPT ![c] = req[c]]
      /\ pc' = [pc EXCEPT ![c] = "notify"]
      /\ UNCHANGED <<disk, edits, index, published, buffer, shown, req, todo, file, round, progress>>
  BY DEF Publish, Goto
<1>2. IndexFits'
  BY <1>1, IndexStepFits DEF IndexStep
<1>3. req[c] \in URIs
  BY <1>1 DEF TypeOK
<1>4. DOMAIN sent \subseteq URIs
  <2>1. ViewOK(View)
    BY ViewFits
  <2> QED BY <1>3, <2>1, ResultsTouch
<1> HIDE DEF sent
<1>5. TypeOK' /\ HandlersFit'
  BY <1>1, <1>2, <1>3, <1>4 DEF TypeOK, HandlersFit, IndexFits, Steps
<1> QED BY <1>2, <1>5

(* Lists are displayed for documents.                                         *)
LEMMA NotifyTypeInv == ASSUME TypeInv, NEW c \in Conns, Notify(c) PROVE TypeInv'
<1> USE DEF TypeInv
<1> DEFINE list(u) == IF u \in Sent(c) THEN results[c][u] ELSE shown[c][u]
<1>1. /\ pc[c] = "notify"
      /\ shown' = [shown EXCEPT ![c] = [u \in URIs |-> list(u)]]
      /\ published' = (published \ Sent(c)) \cup {u \in Sent(c) : results[c][u] # {}}
      /\ results' = [results EXCEPT ![c] = NoResults] /\ req' = [req EXCEPT ![c] = NoURI]
      /\ round' = [round EXCEPT ![c] = 0] /\ progress' = [progress EXCEPT ![c] = FALSE]
      /\ pc' = [pc EXCEPT ![c] = "idle"]
      /\ UNCHANGED <<disk, edits, index, buffer, todo, file, settled>>
  BY DEF Notify, Goto
<1>2. IndexFits'
  BY <1>1, IndexStepFits DEF IndexStep
<1>3. Sent(c) \subseteq URIs /\ DOMAIN NoResults = {} /\ 0 \in 0..MaxRounds
  BY ServerAssumption DEF Sent, TypeOK, NoResults
<1> HIDE DEF list
<1>4. TypeOK'
  BY <1>1, <1>2, <1>3 DEF TypeOK, IndexFits, Steps
<1>5. HandlersFit'
  BY <1>1 DEF TypeOK, HandlersFit
<1> QED BY <1>2, <1>4, <1>5

(* Other programs write texts that fit, too.                                  *)
LEMMA DiskEditTypeInv ==
    ASSUME TypeInv, NEW p \in Paths, NEW text \in TextsOf[p] \cup {NoFile}, DiskEdit(p, text)
    PROVE  TypeInv'
<1> USE DEF TypeInv
<1>1. /\ edits < MaxDiskEdits /\ edits' = edits + 1 /\ disk' = [disk EXCEPT ![p] = text]
      /\ settled' = [d \in Conns |-> NoURI]
      /\ UNCHANGED <<index, published, buffer, shown, pc, handler>>
  BY DEF DiskEdit, Unsettle
<1>2. IndexFits'
  BY <1>1, IndexStepFits DEF IndexStep
<1>3. text \in Texts \cup {NoFile} /\ edits + 1 \in 0..MaxDiskEdits
  BY <1>1, ServerAssumption DEF Texts, TypeOK
<1>4. TypeOK'
  BY <1>1, <1>2, <1>3 DEF TypeOK, IndexFits, handler
<1>5. HandlersFit'
  BY <1>1 DEF HandlersFit, handler
<1> QED BY <1>2, <1>4, <1>5

(* Every step preserves the types.                                            *)
LEMMA NextTypeInv == TypeInv /\ [Next]_vars => TypeInv'
<1> SUFFICES ASSUME TypeInv, [Next]_vars PROVE TypeInv'
  OBVIOUS
<1>1. CASE UNCHANGED vars
  BY <1>1 DEF vars, index, handler, TypeInv, TypeOK, Ix!TypeOK, IndexFits, Ix!OwnerStored, HandlersFit
<1>2. ASSUME NEW c \in Conns, Message(c) PROVE TypeInv'
  <2>1. CASE Initialize(c)
    BY <2>1, InitializeTypeInv
  <2>2. ASSUME NEW u \in URIs, DidSave(c, u) \/ DidClose(c, u) PROVE TypeInv'
    BY <2>2, DidSaveTypeInv, DidCloseTypeInv
  <2>3. ASSUME NEW u \in URIs, NEW text \in TextsOf[PathOf[u]], DidOpen(c, u, text) PROVE TypeInv'
    <3>1. 1 \in 1..MaxVersion
      BY ServerAssumption
    <3> QED BY <2>3, <3>1, SyncTypeInv DEF DidOpen
  <2>4. ASSUME NEW u \in URIs, NEW text \in TextsOf[PathOf[u]], DidChange(c, u, text) PROVE TypeInv'
    <3>1. buffer[c][u].version + 1 \in 1..MaxVersion
      BY <2>4, ServerAssumption DEF DidChange, TypeInv, TypeOK
    <3> QED BY <2>4, <3>1, SyncTypeInv DEF DidChange
  <2> QED BY <1>2, <2>1, <2>2, <2>3, <2>4 DEF Message
<1>3. ASSUME NEW c \in Conns, Step(c) PROVE TypeInv'
  BY <1>3, CloseTypeInv, EnsureTypeInv, SweepTypeInv, LoadTypeInv, StoreFileTypeInv, LoadDoneTypeInv,
     PublishTypeInv, NotifyTypeInv DEF Step
<1>4. ASSUME NEW p \in Paths, NEW text \in TextsOf[p] \cup {NoFile}, DiskEdit(p, text) PROVE TypeInv'
  BY <1>4, DiskEditTypeInv
<1> QED BY <1>1, <1>2, <1>3, <1>4 DEF Next

(* Whatever any number of clients and other programs do, every variable has    *)
(* its type: nothing but a text that fits is stored under a document, every    *)
(* handler that works for a document has one, and lists are for documents.     *)
THEOREM TypeCorrect == Spec => []TypeOK
<1>1. Spec => []TypeInv
  BY InitTypeInv, NextTypeInv, PTL DEF Spec
<1>2. TypeInv => TypeOK
  BY DEF TypeInv
<1> QED BY <1>1, <1>2, PTL

-------------------------------------------------------------------------------
(* One client: what is open wins.                                              *)

(* Nothing is open or stored at first.                                        *)
LEMMA InitSyncInv == Init => SyncInv
  BY FilesAssumption DEF Init, Ix!Init, SyncInv, OpenIsStored, ClosedIsFromDisk, StoredIsFound, OpenIsNotLoaded

(* Storing and deleting leave the index and its paths in agreement.            *)
LEMMA IndexStepFound ==
    ASSUME OneURIPerFile, TypeInv, StoredIsFound, IndexStep
    PROVE  StoredIsFound'
<1> USE PathAssumption, FilesAssumption
<1>1. /\ entry \in [URIs -> Ix!Entry \cup {Absent}] /\ owner \in [Paths -> URIs \cup {NoURI}]
      /\ \A u \in URIs : PathOf[u] \in Paths
      /\ \A u, w \in URIs : PathOf[u] = PathOf[w] => u = w
  BY DEF TypeInv, IndexFits, Ix!TypeOK, OneURIPerFile
<1>2. CASE UNCHANGED index
  BY <1>2 DEF index, StoredIsFound
<1>3. ASSUME NEW u \in URIs, NEW version \in 0..MaxVersion, NEW text \in TextsOf[PathOf[u]],
             Ix!Put(u, version, text)
      PROVE  StoredIsFound'
  <2>1. CASE UNCHANGED index
    BY <1>2, <2>1
  <2>2. CASE /\ entry' = [entry EXCEPT ![u] = [version |-> version, content |-> text]]
             /\ owner' = [owner EXCEPT ![PathOf[u]] = u]
    <3>1. [version |-> version, content |-> text] \in Ix!Entry
      BY <1>1 DEF Ix!Entry, Texts
    <3> QED BY <1>1, <2>2, <3>1, AbsentAssumption DEF StoredIsFound
  <2> QED BY <1>1, <1>3, <2>1, <2>2 DEF Ix!Put, Ix!vars, index
<1>4. ASSUME NEW u \in URIs, Ix!Delete(u) PROVE StoredIsFound'
  BY <1>1, <1>4 DEF Ix!Delete, StoredIsFound
<1> QED BY <1>2, <1>3, <1>4 DEF IndexStep

(* A client names its workspace before it opens anything.                     *)
LEMMA InitializeSyncInv == ASSUME OneClient, TypeInv, SyncInv, NEW c \in Conns, Initialize(c) PROVE SyncInv'
<1>1. /\ pc[c] = "new"
      /\ \E files \in Roots : todo' = [todo EXCEPT ![c] = files]
      /\ pc' = [pc EXCEPT ![c] = "load"]
      /\ UNCHANGED <<entry, owner, buffer, req, file>>
  BY DEF Initialize, Goto, index
<1>2. OpenIsStored' /\ StoredIsFound'
  BY <1>1 DEF SyncInv, OpenIsStored, StoredIsFound
<1>3. pc' = [d \in Conns |-> "load"]
  BY <1>1 DEF OneClient, TypeInv, TypeOK
<1>4. ClosedIsFromDisk'
  BY <1>1, <1>3 DEF OneClient, SyncInv, ClosedIsFromDisk
<1>5. OpenIsNotLoaded'
  <2>1. \A d \in Conns : \A u \in URIs : buffer'[d][u] = Closed
    BY <1>1 DEF OneClient, SyncInv, OpenIsNotLoaded
  <2>2. \A d \in Conns : \A p \in todo'[d] : FileURI[p] \in URIs
    BY <1>1, FileURIAssumption, DiskAssumption DEF OneClient, TypeInv, TypeOK
  <2> QED BY <1>3, <2>1, <2>2 DEF OpenIsNotLoaded
<1> QED BY <1>2, <1>4, <1>5 DEF SyncInv

(* A client that opens a document, or changes the one it has open, has the     *)
(* last word: what is stored is no newer.                                      *)
LEMMA SyncSyncInv ==
    ASSUME OneClient, OneURIPerFile, TypeInv, SyncInv, NEW c \in Conns, NEW u \in URIs,
           NEW version \in 1..MaxVersion, NEW text \in TextsOf[PathOf[u]], pc[c] = "idle",
           buffer[c][u] # Closed => version = buffer[c][u].version + 1,
           Sync(c, u, version, text)
    PROVE  SyncInv'
<1> DEFINE rec == [version |-> version, content |-> text]
<1>1. /\ Ix!Put(u, version, text)
      /\ buffer' = [buffer EXCEPT ![c][u] = [version |-> version, text |-> text]]
      /\ pc' = [pc EXCEPT ![c] = "ensure"]
      /\ UNCHANGED <<todo, file>>
  BY DEF Sync, PutDocument, Goto
<1>2. PathOf[u] \in Paths /\ PathOf[u] # NoPath /\ text \in Texts
  BY FilesAssumption, PathAssumption DEF Texts
<1>3. ~Ix!Outdated(u, version)
  <2>1. CASE buffer[c][u] = Closed
    BY <2>1 DEF Ix!Outdated, SyncInv, ClosedIsFromDisk
  <2>2. CASE buffer[c][u] # Closed
    <3>1. buffer[c][u].version \in 1..MaxVersion /\ entry[u].version = buffer[c][u].version
      <4>1. entry[u] = [version |-> buffer[c][u].version, content |-> buffer[c][u].text]
        BY <2>2 DEF SyncInv, OpenIsStored
      <4>2. buffer[c][u].version \in 1..MaxVersion
        BY <2>2 DEF TypeInv, TypeOK
      <4> QED BY <4>1, <4>2
    <3> QED BY <2>2, <3>1, ServerAssumption DEF Ix!Outdated
  <2> QED BY <2>1, <2>2
<1>4. entry' = [entry EXCEPT ![u] = rec]
  BY <1>1, <1>3 DEF Ix!Put
<1>5. rec # Absent /\ entry'[u] = rec /\ \A w \in URIs \ {u} : entry'[w] = entry[w]
  <2>1. rec \in Ix!Entry
    BY <1>2, ServerAssumption DEF Ix!Entry
  <2> QED BY <1>4, <2>1, AbsentAssumption DEF TypeInv, IndexFits, Ix!TypeOK
<1>6. pc' = [d \in Conns |-> "ensure"]
  BY <1>1 DEF OneClient, TypeInv, TypeOK
<1>7. \A d \in Conns : /\ d = c /\ buffer'[d][u] = [version |-> version, text |-> text]
                       /\ \A w \in URIs \ {u} : buffer'[d][w] = buffer[d][w]
  BY <1>1 DEF OneClient, TypeInv, TypeOK
<1>8. buffer'[c][u] # Closed
  BY <1>2, <1>7, AbsentAssumption
<1>9. OpenIsStored'
  BY <1>5, <1>7 DEF SyncInv, OpenIsStored
<1>10. ClosedIsFromDisk'
  BY <1>5, <1>7, <1>8 DEF SyncInv, ClosedIsFromDisk
<1>11. StoredIsFound'
  <2>1. version \in 0..MaxVersion
    BY ServerAssumption
  <2> QED BY <1>1, <2>1, IndexStepFound DEF IndexStep, SyncInv
<1>12. OpenIsNotLoaded'
  BY <1>6 DEF OpenIsNotLoaded
<1> QED BY <1>9, <1>10, <1>11, <1>12 DEF SyncInv

(* Saving stores nothing in the index.                                        *)
LEMMA DidSaveSyncInv == ASSUME SyncInv, NEW c \in Conns, NEW u \in URIs, DidSave(c, u), TypeInv PROVE SyncInv'
<1>1. /\ pc[c] = "idle" /\ req' = [req EXCEPT ![c] = u] /\ pc' = [pc EXCEPT ![c] = "publish"]
      /\ UNCHANGED <<entry, owner, buffer, todo, file>>
  BY DEF DidSave, Goto, index
<1>2. OpenIsStored' /\ StoredIsFound'
  BY <1>1 DEF SyncInv, OpenIsStored, StoredIsFound
<1>3. ClosedIsFromDisk'
  BY <1>1 DEF SyncInv, ClosedIsFromDisk, TypeInv, TypeOK
<1>4. OpenIsNotLoaded'
  BY <1>1 DEF SyncInv, OpenIsNotLoaded, TypeInv, TypeOK
<1> QED BY <1>2, <1>3, <1>4 DEF SyncInv

(* A document just closed is still stored as the client had it.               *)
LEMMA DidCloseSyncInv ==
    ASSUME OneClient, TypeInv, SyncInv, NEW c \in Conns, NEW u \in URIs, DidClose(c, u)
    PROVE  SyncInv'
<1>1. /\ pc[c] = "idle" /\ buffer' = [buffer EXCEPT ![c][u] = Closed]
      /\ req' = [req EXCEPT ![c] = u] /\ pc' = [pc EXCEPT ![c] = "close"]
      /\ UNCHANGED <<entry, owner, todo>>
  BY DEF DidClose, Goto, index
<1>2. StoredIsFound'
  BY <1>1 DEF SyncInv, StoredIsFound
<1>3. \A d \in Conns : /\ d = c /\ pc'[d] = "close" /\ req'[d] = u /\ buffer'[d][u] = Closed
                       /\ \A w \in URIs \ {u} : buffer'[d][w] = buffer[d][w]
  BY <1>1 DEF OneClient, TypeInv, TypeOK
<1>4. OpenIsStored'
  BY <1>1, <1>3 DEF SyncInv, OpenIsStored
<1>5. ClosedIsFromDisk'
  BY <1>1, <1>3 DEF SyncInv, ClosedIsFromDisk
<1>6. OpenIsNotLoaded'
  BY <1>3 DEF OpenIsNotLoaded
<1> QED BY <1>2, <1>4, <1>5, <1>6 DEF SyncInv

(* Its closing, once handled, leaves what is on disk or nothing.              *)
LEMMA CloseSyncInv ==
    ASSUME OneClient, OneURIPerFile, TypeInv, SyncInv, NEW c \in Conns, Close(c)
    PROVE  SyncInv'
<1> DEFINE u == req[c]
           rec == [version |-> 0, content |-> file[c].text]
<1>1. /\ pc[c] = "close"
      /\ IF file[c].text = NoFile THEN DeleteDocument(u) /\ pc' = [pc EXCEPT ![c] = "idle"]
                                  ELSE PutDocument(u, 0, file[c].text) /\ pc' = [pc EXCEPT ![c] = "publish"]
      /\ UNCHANGED <<buffer, req, todo>>
  BY DEF Close, Goto
<1>2. u \in URIs /\ buffer[c][u] = Closed /\ (file[c].text # NoFile => file[c].text \in TextsOf[PathOf[u]])
  <2>1. file[c].path = PathOf[u] /\ buffer[c][u] = Closed
    BY <1>1 DEF TypeInv, HandlersFit, SyncInv, OpenIsNotLoaded
  <2>2. file[c] # NothingRead /\ u \in URIs
    BY <1>1 DEF TypeInv, TypeOK
  <2>3. file[c].text \in TextsOf[file[c].path] \cup {NoFile}
    BY <2>2 DEF TypeInv, HandlersFit
  <2> QED BY <2>1, <2>2, <2>3
<1>3. entry \in [URIs -> Ix!Entry \cup {Absent}] /\ PathOf[u] \in Paths /\ 0 \in 0..MaxVersion
  BY <1>2, FilesAssumption, ServerAssumption DEF TypeInv, IndexFits, Ix!TypeOK
<1> HIDE DEF u
<1>4. IndexStep /\ (entry'[u] = Absent \/ entry'[u].version = 0) /\ \A w \in URIs \ {u} : entry'[w] = entry[w]
  <2>1. CASE file[c].text = NoFile
    BY <1>1, <1>2, <1>3, <2>1 DEF DeleteDocument, Ix!Delete, IndexStep, index
  <2>2. CASE file[c].text # NoFile
    <3>1. Ix!Put(u, 0, file[c].text) /\ IndexStep
      BY <1>1, <1>2, <1>3, <2>2 DEF PutDocument, IndexStep
    <3>2. entry' = [entry EXCEPT ![u] = rec]
      BY <3>1 DEF Ix!Put, Ix!Outdated
    <3> QED BY <1>2, <1>3, <3>1, <3>2
  <2> QED BY <2>1, <2>2
<1>5. pc' = [pc EXCEPT ![c] = "idle"] \/ pc' = [pc EXCEPT ![c] = "publish"]
  BY <1>1
<1>6. \A d \in Conns : d = c /\ pc'[d] \in {"idle", "publish"}
  BY <1>5 DEF OneClient, TypeInv, TypeOK
<1>7. StoredIsFound'
  BY <1>4, IndexStepFound DEF SyncInv
<1>8. OpenIsStored'
  BY <1>1, <1>2, <1>4, <1>6 DEF SyncInv, OpenIsStored
<1>9. ClosedIsFromDisk'
  BY <1>1, <1>2, <1>4, <1>6 DEF SyncInv, ClosedIsFromDisk, u
<1>10. OpenIsNotLoaded'
  BY <1>6 DEF OpenIsNotLoaded
<1> QED BY <1>7, <1>8, <1>9, <1>10 DEF SyncInv

(* A step that neither stores nor opens anything has to keep apart only what   *)
(* is open from what is to be loaded.                                          *)
LEMMA QuietSyncInv ==
    ASSUME SyncInv, UNCHANGED <<entry, owner, buffer>>, OpenIsNotLoaded',
           \A d \in Conns : pc[d] = "close" => pc'[d] = "close" /\ req'[d] = req[d]
    PROVE  SyncInv'
<1>1. OpenIsStored' /\ StoredIsFound'
  BY DEF SyncInv, OpenIsStored, StoredIsFound
<1>2. ClosedIsFromDisk'
  BY DEF SyncInv, ClosedIsFromDisk
<1> QED BY <1>1, <1>2 DEF SyncInv

(* Looking whether the document is stored changes nothing.                    *)
LEMMA EnsureSyncInv == ASSUME TypeInv, SyncInv, NEW c \in Conns, Ensure(c) PROVE SyncInv'
<1>1. /\ pc[c] = "ensure" /\ UNCHANGED <<entry, owner, buffer, req, todo, file>>
      /\ pc' = [pc EXCEPT ![c] = "publish"] \/ pc' = [pc EXCEPT ![c] = "sweep"]
  BY DEF Ensure, Goto, index, handler
<1>2. \A d \in Conns : pc'[d] = pc[d] \/ (d = c /\ pc'[d] \in {"publish", "sweep"})
  BY <1>1 DEF TypeInv, TypeOK
<1>3. OpenIsNotLoaded'
  BY <1>1, <1>2 DEF SyncInv, OpenIsNotLoaded
<1> QED BY <1>1, <1>2, <1>3, QuietSyncInv

(* What is missing is not stored, and so it is not open.                       *)
LEMMA MissingIsClosed ==
    ASSUME OneURIPerFile, TypeInv, SyncInv, NEW c \in Conns, NEW d, NEW p \in Missing(d)
    PROVE  buffer[c][FileURI[p]] = Closed
<1>1. p \in Paths /\ owner[p] = NoURI
  <2>1. p \in Paths
    BY MissingArePaths
  <2> QED BY <2>1 DEF Missing, Unresolved, UnresolvedReferences, View
<1>2. FileURI[p] \in URIs /\ PathOf[FileURI[p]] = p
  BY <1>1, FileURIAssumption
<1>3. entry[FileURI[p]] = Absent
  BY <1>1, <1>2, PathAssumption DEF SyncInv, StoredIsFound
<1> QED BY <1>2, <1>3 DEF SyncInv, OpenIsStored

(* A sweep is after files that are not open.                                  *)
LEMMA SweepSyncInv == ASSUME OneClient, OneURIPerFile, TypeInv, SyncInv, NEW c \in Conns, Sweep(c) PROVE SyncInv'
<1>1. /\ pc[c] = "sweep" /\ UNCHANGED <<entry, owner, buffer, req, file>>
      /\ todo' = [todo EXCEPT ![c] = Missing(c)]
      /\ pc' = [pc EXCEPT ![c] = "publish"] \/ pc' = [pc EXCEPT ![c] = "load"]
  BY DEF Sweep, Goto, index
<1>2. \A d \in Conns : d = c /\ pc'[d] \in {"publish", "load"} /\ todo'[d] = Missing(c)
  BY <1>1 DEF OneClient, TypeInv, TypeOK
<1>3. OpenIsNotLoaded'
  BY <1>1, <1>2, MissingIsClosed DEF OpenIsNotLoaded
<1> QED BY <1>1, <1>2, <1>3, QuietSyncInv

(* A file that is read was one of these.                                      *)
LEMMA LoadSyncInv == ASSUME TypeInv, SyncInv, NEW c \in Conns, NEW p \in Paths, Load(c, p) PROVE SyncInv'
<1> DEFINE read == [path |-> p, text |-> disk[p]]
<1>1. /\ pc[c] = "load" /\ p \in todo[c] /\ UNCHANGED <<entry, owner, buffer, req>>
      /\ todo' = [todo EXCEPT ![c] = @ \ {p}]
      /\ IF disk[p] = NoFile THEN file' = file /\ pc' = pc
         ELSE file' = [file EXCEPT ![c] = read] /\ pc' = [pc EXCEPT ![c] = "store"]
  BY DEF Load, NextFile, Goto, index
<1>2. read.path = p
  OBVIOUS
<1> HIDE DEF read
<1>3. /\ \A d \in Conns : todo'[d] \subseteq todo[d]
      /\ \A d \in Conns : (pc'[d] = pc[d] /\ file'[d] = file[d]) \/ (d = c /\ pc'[d] = "store" /\ file'[d] = read)
  <2>1. CASE disk[p] = NoFile
    BY <1>1, <2>1 DEF TypeInv, TypeOK
  <2>2. CASE disk[p] # NoFile
    BY <1>1, <2>2 DEF TypeInv, TypeOK
  <2> QED BY <2>1, <2>2
<1>4. OpenIsNotLoaded'
  BY <1>1, <1>2, <1>3 DEF SyncInv, OpenIsNotLoaded
<1>5. \A d \in Conns : pc[d] = "close" => pc'[d] = "close" /\ req'[d] = req[d]
  BY <1>1, <1>3
<1> QED BY <1>1, <1>4, <1>5, QuietSyncInv

(* So that what is read replaces nothing that is open.                        *)
LEMMA StoreFileSyncInv ==
    ASSUME OneClient, OneURIPerFile, TypeInv, SyncInv, NEW c \in Conns, StoreFile(c)
    PROVE  SyncInv'
<1> DEFINE u == FileURI[file[c].path]
           rec == [version |-> 0, content |-> file[c].text]
<1>1. /\ pc[c] = "store" /\ Ix!Put(u, 0, file[c].text) /\ pc' = [pc EXCEPT ![c] = "load"]
      /\ UNCHANGED <<buffer, req, todo>>
  BY DEF StoreFile, PutDocument, Goto
<1>2. file[c].path \in Paths /\ file[c].text \in TextsOf[file[c].path] /\ buffer[c][u] = Closed
  <2>1. file[c].path \in Paths
    BY <1>1 DEF TypeInv, TypeOK
  <2>2. file[c].text \in TextsOf[file[c].path]
    BY <1>1 DEF TypeInv, TypeOK, HandlersFit
  <2> QED BY <1>1, <2>1, <2>2 DEF SyncInv, OpenIsNotLoaded
<1>3. u \in URIs /\ PathOf[u] = file[c].path /\ 0 \in 0..MaxVersion
      /\ entry \in [URIs -> Ix!Entry \cup {Absent}]
  BY <1>2, FileURIAssumption, ServerAssumption DEF TypeInv, IndexFits, Ix!TypeOK
<1> HIDE DEF u
<1>4. entry' = [entry EXCEPT ![u] = rec]
  BY <1>1 DEF Ix!Put, Ix!Outdated
<1>5. entry'[u].version = 0 /\ \A w \in URIs \ {u} : entry'[w] = entry[w]
  BY <1>3, <1>4
<1>6. \A d \in Conns : d = c /\ pc'[d] = "load"
  BY <1>1 DEF OneClient, TypeInv, TypeOK
<1>7. StoredIsFound'
  BY <1>1, <1>2, <1>3, IndexStepFound DEF SyncInv, IndexStep
<1>8. OpenIsStored'
  BY <1>1, <1>2, <1>5, <1>6 DEF SyncInv, OpenIsStored
<1>9. ClosedIsFromDisk'
  BY <1>1, <1>2, <1>5, <1>6 DEF SyncInv, ClosedIsFromDisk
<1>10. OpenIsNotLoaded'
  BY <1>1, <1>6 DEF SyncInv, OpenIsNotLoaded
<1> QED BY <1>7, <1>8, <1>9, <1>10 DEF SyncInv

(* The end of a round or a scan stores nothing.                               *)
LEMMA LoadDoneSyncInv == ASSUME TypeInv, SyncInv, NEW c \in Conns, LoadDone(c) PROVE SyncInv'
<1>1. /\ pc[c] = "load" /\ UNCHANGED <<entry, owner, buffer, req, todo, file>>
      /\ \E step \in {"idle", "publish", "sweep"} : pc' = [pc EXCEPT ![c] = step]
  BY DEF LoadDone, Goto, index
<1>2. \A d \in Conns : pc'[d] = pc[d] \/ (d = c /\ pc'[d] \in {"idle", "publish", "sweep"})
  BY <1>1 DEF TypeInv, TypeOK
<1>3. OpenIsNotLoaded'
  BY <1>1, <1>2 DEF SyncInv, OpenIsNotLoaded
<1> QED BY <1>1, <1>2, <1>3, QuietSyncInv

(* Nor does publishing.                                                       *)
LEMMA PublishSyncInv == ASSUME TypeInv, SyncInv, NEW c \in Conns, Publish(c) \/ Notify(c) PROVE SyncInv'
<1>1. /\ pc[c] \in {"publish", "notify"} /\ UNCHANGED <<entry, owner, buffer, todo, file>>
      /\ pc' = [pc EXCEPT ![c] = "notify"] \/ pc' = [pc EXCEPT ![c] = "idle"]
      /\ req' = req \/ req' = [req EXCEPT ![c] = NoURI]
  BY DEF Publish, Notify, Goto, index
<1>2. \A d \in Conns : (pc'[d] = pc[d] /\ req'[d] = req[d]) \/ (d = c /\ pc'[d] \in {"notify", "idle"})
  BY <1>1 DEF TypeInv, TypeOK
<1>3. OpenIsNotLoaded'
  BY <1>1, <1>2 DEF SyncInv, OpenIsNotLoaded
<1> QED BY <1>1, <1>2, <1>3, QuietSyncInv

(* Every step preserves what is open.                                         *)
LEMMA NextSyncInv == ASSUME OneClient, OneURIPerFile, TypeInv, SyncInv, [Next]_vars PROVE SyncInv'
<1>1. CASE UNCHANGED <<index, buffer, pc, handler>>
  BY <1>1, QuietSyncInv DEF index, handler, SyncInv, OpenIsNotLoaded
<1>2. ASSUME NEW c \in Conns, Message(c) PROVE SyncInv'
  <2>1. CASE Initialize(c)
    BY <2>1, InitializeSyncInv
  <2>2. ASSUME NEW u \in URIs, DidSave(c, u) \/ DidClose(c, u) PROVE SyncInv'
    BY <2>2, DidSaveSyncInv, DidCloseSyncInv
  <2>3. ASSUME NEW u \in URIs, NEW text \in TextsOf[PathOf[u]], DidOpen(c, u, text) PROVE SyncInv'
    <3>1. 1 \in 1..MaxVersion
      BY ServerAssumption
    <3> QED BY <2>3, <3>1, SyncSyncInv DEF DidOpen
  <2>4. ASSUME NEW u \in URIs, NEW text \in TextsOf[PathOf[u]], DidChange(c, u, text) PROVE SyncInv'
    <3>1. buffer[c][u].version + 1 \in 1..MaxVersion
      BY <2>4, ServerAssumption DEF DidChange, TypeInv, TypeOK
    <3> QED BY <2>4, <3>1, SyncSyncInv DEF DidChange
  <2> QED BY <1>2, <2>1, <2>2, <2>3, <2>4 DEF Message
<1>3. ASSUME NEW c \in Conns, Step(c) PROVE SyncInv'
  BY <1>3, CloseSyncInv, EnsureSyncInv, SweepSyncInv, LoadSyncInv, StoreFileSyncInv, LoadDoneSyncInv,
     PublishSyncInv DEF Step
<1>4. ASSUME NEW p \in Paths, NEW text \in TextsOf[p] \cup {NoFile}, DiskEdit(p, text) PROVE SyncInv'
  BY <1>1, <1>4 DEF DiskEdit
<1> QED BY <1>1, <1>2, <1>3, <1>4 DEF Next, vars

(* With one client, which names files as the server does, what is open is what *)
(* the index holds, however scans, completions of references, closing, and     *)
(* other programs interleave.                                                  *)
THEOREM OpenAlwaysWins == ASSUME OneClient, OneURIPerFile PROVE Spec => []BufferWins
<1>1. TypeInv /\ SyncInv /\ [Next]_vars => (TypeInv /\ SyncInv)'
  BY NextTypeInv, NextSyncInv
<1>2. Init => TypeInv /\ SyncInv
  BY InitTypeInv, InitSyncInv
<1>3. SyncInv => BufferWins
  <2>1. \A c \in Conns, u \in URIs : [version |-> buffer[c][u].version, content |-> buffer[c][u].text].content = buffer[c][u].text
    OBVIOUS
  <2> QED BY <2>1 DEF SyncInv, OpenIsStored, BufferWins
<1> QED BY <1>1, <1>2, <1>3, PTL DEF Spec

(* A text read from disk is stored where the client has nothing open, and so   *)
(* where the last text was read from disk as well.                             *)
LEMMA OnlyClosingLosesText ==
    ASSUME OneClient, OneURIPerFile, TypeInv, SyncInv, [Next]_vars, NEW u \in URIs, LosesText(u)
    PROVE  \E c \in Conns : pc[c] = "close" /\ req[c] = u
<1>1. /\ entry[u] # Absent /\ entry[u].version > 0 /\ entry'[u] # Absent
      /\ ~(entry'[u].version > 0) /\ entry'[u] # entry[u]
  BY DEF LosesText, Synced
<1>2. ASSUME NEW w \in URIs, NEW version \in 1..MaxVersion, NEW text, Ix!Put(w, version, text) PROVE FALSE
  <2>1. entry' = entry \/ entry' = [entry EXCEPT ![w] = [version |-> version, content |-> text]]
    BY <1>2 DEF Ix!Put, Ix!vars
  <2>2. entry \in [URIs -> Ix!Entry \cup {Absent}] /\ version > 0
    BY ServerAssumption DEF TypeInv, IndexFits, Ix!TypeOK
  <2> QED BY <1>1, <2>1, <2>2
<1>3. ASSUME NEW c \in Conns, Message(c) PROVE FALSE
  <2>1. CASE Initialize(c)
    BY <1>1, <2>1 DEF Initialize, index
  <2>2. ASSUME NEW w \in URIs, DidSave(c, w) \/ DidClose(c, w) PROVE FALSE
    BY <1>1, <2>2 DEF DidSave, DidClose, index
  <2>3. ASSUME NEW w \in URIs, NEW text, DidOpen(c, w, text) PROVE FALSE
    <3>1. 1 \in 1..MaxVersion
      BY ServerAssumption
    <3> QED BY <1>2, <2>3, <3>1 DEF DidOpen, Sync, PutDocument
  <2>4. ASSUME NEW w \in URIs, NEW text, DidChange(c, w, text) PROVE FALSE
    <3>1. buffer[c][w].version + 1 \in 1..MaxVersion
      BY <2>4, ServerAssumption DEF DidChange, TypeInv, TypeOK
    <3> QED BY <1>2, <2>4, <3>1 DEF DidChange, Sync, PutDocument
  <2> QED BY <1>3, <2>1, <2>2, <2>3, <2>4 DEF Message
<1>4. ASSUME NEW c \in Conns, Close(c) PROVE pc[c] = "close" /\ req[c] = u
  <2>1. pc[c] = "close" /\ (DeleteDocument(req[c]) \/ PutDocument(req[c], 0, file[c].text))
    BY <1>4 DEF Close
  <2>2. \A w \in URIs : w # req[c] => entry'[w] = entry[w]
    <3>1. entry \in [URIs -> Ix!Entry \cup {Absent}]
      BY DEF TypeInv, IndexFits, Ix!TypeOK
    <3> QED BY <2>1, <3>1 DEF DeleteDocument, PutDocument, Ix!Delete, Ix!Put, Ix!vars, index
  <2> QED BY <1>1, <2>1, <2>2
<1>5. ASSUME NEW c \in Conns, StoreFile(c) PROVE FALSE
  <2> DEFINE w == FileURI[file[c].path]
  <2>1. pc[c] = "store" /\ Ix!Put(w, 0, file[c].text)
    BY <1>5 DEF StoreFile, PutDocument
  <2>2. file[c].path \in Paths /\ buffer[c][w] = Closed
    BY <2>1 DEF TypeInv, TypeOK, SyncInv, OpenIsNotLoaded
  <2>3. w \in URIs
    BY <2>2, FileURIAssumption
  <2> HIDE DEF w
  <2>4. u = w
    <3>1. entry \in [URIs -> Ix!Entry \cup {Absent}]
      BY DEF TypeInv, IndexFits, Ix!TypeOK
    <3> QED BY <1>1, <2>1, <3>1 DEF Ix!Put, Ix!vars
  <2>5. entry[u].version = 0
    BY <1>1, <2>1, <2>2, <2>3, <2>4 DEF SyncInv, ClosedIsFromDisk
  <2> QED BY <1>1, <2>5
<1>6. ASSUME NEW c \in Conns, Step(c), ~Close(c), ~StoreFile(c) PROVE FALSE
  BY <1>1, <1>6 DEF Step, Ensure, Sweep, Load, LoadDone, Publish, Notify, index
<1>7. ASSUME NEW p \in Paths, NEW text, DiskEdit(p, text) PROVE FALSE
  BY <1>1, <1>7 DEF DiskEdit, index
<1>8. ~UNCHANGED vars
  BY <1>1 DEF vars, index
<1> QED BY <1>3, <1>4, <1>5, <1>6, <1>7, <1>8 DEF Next

(* With one client, version 0 loses to whatever is synced: the difference to   *)
(* run two_clients is the second client.                                       *)
THEOREM SyncedAlwaysWins == ASSUME OneClient, OneURIPerFile PROVE Spec => SyncedWinsOverDisk
<1>1. TypeInv /\ SyncInv /\ [Next]_vars => (TypeInv /\ SyncInv)'
  BY NextTypeInv, NextSyncInv
<1>2. Init => TypeInv /\ SyncInv
  BY InitTypeInv, InitSyncInv
<1>3. TypeInv /\ SyncInv /\ [Next]_vars
        => [\A u \in URIs : LosesText(u) => \E c \in Conns : pc[c] = "close" /\ req[c] = u]_vars
  BY OnlyClosingLosesText
<1> QED BY <1>1, <1>2, <1>3, PTL DEF Spec, SyncedWinsOverDisk

-------------------------------------------------------------------------------
(* One client: references are followed to the end.                             *)

(* No document is published at first.                                         *)
LEMMA InitReferencesInv == Init => ReferencesInv
  BY DEF Init, ReferencesInv, ReferencesLoaded, NothingIsForgotten, RoundsFollowASync

(* Nothing is left to show where no round ends and none goes on.               *)
LEMMA ElsewhereReferencesInv ==
    ASSUME RoundsFollowASync',
           \A d \in Conns : pc'[d] \notin {"load", "publish"} \/ round'[d] = 0 \/ edits' # 0
    PROVE  ReferencesInv'
  BY DEF ReferencesInv, ReferencesLoaded, NothingIsForgotten

(* A message that is published at once was no sync; rounds begin with one.    *)
LEMMA MessageReferencesInv ==
    ASSUME OneClient, TypeInv, SyncInv', ReferencesInv, NEW c \in Conns, Message(c)
    PROVE  ReferencesInv'
<1> USE DEF OneClient
<1>1. CASE Initialize(c)
  <2>1. /\ pc' = [pc EXCEPT ![c] = "load"] /\ round' = [round EXCEPT ![c] = 0]
    BY <1>1 DEF Initialize, Goto
  <2>2. \A d \in Conns : pc'[d] = "load" /\ round'[d] = 0
    BY <2>1 DEF TypeInv, TypeOK
  <2> QED BY <2>2, ElsewhereReferencesInv DEF RoundsFollowASync
<1>2. ASSUME NEW u \in URIs, DidSave(c, u) \/ DidClose(c, u) PROVE ReferencesInv'
  <2>1. pc[c] = "idle" /\ round' = round /\ (pc' = [pc EXCEPT ![c] = "publish"] \/ pc' = [pc EXCEPT ![c] = "close"])
    BY <1>2 DEF DidSave, DidClose, Goto
  <2>2. \A d \in Conns : round'[d] = 0 /\ pc'[d] \in {"publish", "close"}
    BY <2>1 DEF TypeInv, TypeOK, ReferencesInv, RoundsFollowASync
  <2> QED BY <2>2, ElsewhereReferencesInv DEF RoundsFollowASync
<1>3. ASSUME NEW u \in URIs, NEW text \in TextsOf[PathOf[u]], DidOpen(c, u, text) \/ DidChange(c, u, text)
      PROVE  ReferencesInv'
  <2>1. \E version \in 1..MaxVersion : Sync(c, u, version, text)
    <3>1. buffer[c][u] # Closed => buffer[c][u].version \in 1..MaxVersion
      BY DEF TypeInv, TypeOK
    <3> QED BY <1>3, <3>1, ServerAssumption DEF DidOpen, DidChange
  <2>2. PICK version \in 1..MaxVersion : Sync(c, u, version, text)
    BY <2>1
  <2>3. /\ buffer' = [buffer EXCEPT ![c][u] = [version |-> version, text |-> text]]
        /\ req' = [req EXCEPT ![c] = u] /\ pc' = [pc EXCEPT ![c] = "ensure"]
    BY <2>2 DEF Sync, Goto
  <2>4. [version |-> version, text |-> text] # Closed
    BY AbsentAssumption, FilesAssumption DEF Texts
  <2>5. \A d \in Conns : pc'[d] = "ensure" /\ buffer'[d][req'[d]] # Closed
    BY <2>3, <2>4 DEF TypeInv, TypeOK
  <2> QED BY <2>5, ElsewhereReferencesInv DEF RoundsFollowASync
<1> QED BY <1>1, <1>2, <1>3 DEF Message

(* A sweep that finds nothing, or a round that could load nothing, has left    *)
(* nothing behind that exists.                                                 *)
LEMMA StepReferencesInv ==
    ASSUME OneClient, TypeInv, SyncInv, ReferencesInv, NEW c \in Conns, Step(c)
    PROVE  ReferencesInv'
<1> USE DEF OneClient
<1>1. CASE Close(c)
  <2>1. pc[c] = "close" /\ round' = round /\ (pc' = [pc EXCEPT ![c] = "publish"] \/ pc' = [pc EXCEPT ![c] = "idle"])
    BY <1>1 DEF Close, Goto
  <2>2. \A d \in Conns : round'[d] = 0 /\ pc'[d] \in {"publish", "idle"}
    BY <2>1 DEF TypeInv, TypeOK, ReferencesInv, RoundsFollowASync
  <2> QED BY <2>2, ElsewhereReferencesInv DEF RoundsFollowASync
<1>2. CASE Ensure(c)
  <2>1. pc[c] = "ensure" /\ pc' = [pc EXCEPT ![c] = IF entry[req[c]] = Absent THEN "publish" ELSE "sweep"]
    BY <1>2 DEF Ensure, Goto
  <2>2. entry[req[c]] # Absent
    <3>1. req[c] \in URIs /\ buffer[c][req[c]] # Closed
      BY <2>1 DEF TypeInv, TypeOK, ReferencesInv, RoundsFollowASync
    <3> QED BY <3>1 DEF SyncInv, OpenIsStored
  <2>3. \A d \in Conns : pc'[d] = "sweep"
    BY <2>1, <2>2 DEF TypeInv, TypeOK
  <2> QED BY <2>3, ElsewhereReferencesInv DEF RoundsFollowASync
<1>3. CASE Sweep(c)
  <2>1. /\ todo' = [todo EXCEPT ![c] = Missing(c)]
        /\ pc' = [pc EXCEPT ![c] = IF Missing(c) = {} THEN "publish" ELSE "load"]
        /\ View' = View /\ disk' = disk
    BY <1>3 DEF Sweep, Goto, index, View
  <2>2. \A d \in Conns : todo'[d] = Missing(c) /\ pc'[d] \in {"publish", "load"}
                       /\ (pc'[d] = "publish" => Missing(c) = {})
    BY <2>1 DEF TypeInv, TypeOK
  <2>3. Unresolved(View, disk)' = Missing(c)
    BY <2>1 DEF Missing
  <2> QED BY <2>2, <2>3 DEF ReferencesInv, ReferencesLoaded, NothingIsForgotten, RoundsFollowASync
<1>4. ASSUME NEW p \in Paths, Load(c, p) PROVE ReferencesInv'
  <2>1. /\ pc[c] = "load" /\ todo' = [todo EXCEPT ![c] = @ \ {p}]
        /\ pc' = IF disk[p] = NoFile THEN pc ELSE [pc EXCEPT ![c] = "store"]
        /\ View' = View /\ UNCHANGED <<disk, edits, round, progress, buffer, req>>
    BY <1>4 DEF Load, Goto, index, View
  <2>2. \A d \in Conns : /\ d = c /\ pc'[d] \in {"load", "store"} /\ todo'[d] = todo[d] \ {p}
                         /\ pc'[d] = "load" => disk[p] = NoFile
    BY <2>1 DEF TypeInv, TypeOK
  <2>3. Unresolved(View, disk)' = Unresolved(View, disk)
    BY <2>1
  <2>4. NothingIsForgotten'
    <3> SUFFICES ASSUME NEW d \in Conns, pc'[d] = "load", round'[d] > 0, ~progress'[d], edits' = 0,
                        NEW q \in Unresolved(View, disk)
                 PROVE  q \in todo'[d] \/ disk[q] = NoFile
      BY <2>1, <2>3 DEF NothingIsForgotten
    <3>1. q \in todo[d] \/ disk[q] = NoFile
      BY <2>1, <2>2 DEF ReferencesInv, NothingIsForgotten
    <3> QED BY <2>2, <3>1
  <2>5. ReferencesLoaded' /\ RoundsFollowASync'
    BY <2>2 DEF ReferencesLoaded, RoundsFollowASync
  <2> QED BY <2>4, <2>5 DEF ReferencesInv
<1>5. CASE StoreFile(c)
  <2>1. progress' = [progress EXCEPT ![c] = TRUE] /\ pc' = [pc EXCEPT ![c] = "load"]
    BY <1>5 DEF StoreFile, Goto
  <2>2. \A d \in Conns : pc'[d] = "load" /\ progress'[d]
    BY <2>1 DEF TypeInv, TypeOK
  <2> QED BY <2>2 DEF ReferencesInv, ReferencesLoaded, NothingIsForgotten, RoundsFollowASync
<1>6. CASE LoadDone(c)
  <2>1. /\ pc[c] = "load" /\ todo[c] = {}
        /\ \/ round[c] = 0 /\ pc' = [pc EXCEPT ![c] = "idle"] /\ round' = round
           \/ round[c] > 0 /\ ~SweepsAgain(c) /\ pc' = [pc EXCEPT ![c] = "publish"] /\ round' = round
           \/ pc' = [pc EXCEPT ![c] = "sweep"]
        /\ View' = View /\ UNCHANGED <<disk, edits>>
    BY <1>6 DEF LoadDone, Goto, index, View
  <2>2. CASE ~SweepsAgain(c) /\ round[c] > 0 /\ pc' = [pc EXCEPT ![c] = "publish"] /\ round' = round
    <3>1. \A d \in Conns : d = c /\ pc'[d] = "publish"
      BY <2>2 DEF TypeInv, TypeOK
    <3>2. Unresolved(View, disk)' = Unresolved(View, disk)
      BY <2>1
    <3>3. ASSUME round[c] \in 1..(MaxRounds - 1), edits = 0, NEW p \in Unresolved(View, disk)
          PROVE  disk[p] = NoFile
      <4>1. ~progress[c]
        BY <2>2, <3>3, ServerAssumption DEF SweepsAgain
      <4> QED BY <2>1, <2>2, <3>3, <4>1 DEF ReferencesInv, NothingIsForgotten
    <3>4. ReferencesLoaded'
      BY <2>1, <2>2, <3>1, <3>2, <3>3 DEF ReferencesLoaded
    <3> QED BY <3>1, <3>4 DEF ReferencesInv, NothingIsForgotten, RoundsFollowASync
  <2>3. CASE round[c] = 0 /\ pc' = [pc EXCEPT ![c] = "idle"] /\ round' = round
    <3>1. \A d \in Conns : pc'[d] = "idle" /\ round'[d] = 0
      BY <2>3 DEF TypeInv, TypeOK
    <3> QED BY <3>1, ElsewhereReferencesInv DEF RoundsFollowASync
  <2>4. CASE pc' = [pc EXCEPT ![c] = "sweep"]
    <3>1. \A d \in Conns : pc'[d] = "sweep"
      BY <2>4 DEF TypeInv, TypeOK
    <3> QED BY <3>1, ElsewhereReferencesInv DEF RoundsFollowASync
  <2> QED BY <2>1, <2>2, <2>3, <2>4
<1>7. CASE Publish(c)
  <2>1. \A d \in Conns : pc'[d] = "notify"
    BY <1>7 DEF Publish, Goto, TypeInv, TypeOK
  <2> QED BY <2>1, ElsewhereReferencesInv DEF RoundsFollowASync
<1>8. CASE Notify(c)
  <2>1. round' = [round EXCEPT ![c] = 0] /\ pc' = [pc EXCEPT ![c] = "idle"]
    BY <1>8 DEF Notify, Goto
  <2>2. \A d \in Conns : pc'[d] = "idle" /\ round'[d] = 0
    BY <2>1 DEF TypeInv, TypeOK
  <2> QED BY <2>2, ElsewhereReferencesInv DEF RoundsFollowASync
<1> QED BY <1>1, <1>2, <1>3, <1>4, <1>5, <1>6, <1>7, <1>8 DEF Step

(* Every step preserves what is known of missing files.                       *)
LEMMA NextReferencesInv ==
    ASSUME OneClient, OneURIPerFile, TypeInv, SyncInv, ReferencesInv, [Next]_vars
    PROVE  ReferencesInv'
<1>1. SyncInv'
  BY NextSyncInv
<1>2. ASSUME NEW p \in Paths, NEW text, DiskEdit(p, text) PROVE ReferencesInv'
  <2>1. edits' = edits + 1 /\ UNCHANGED <<pc, round, buffer, req>>
    BY <1>2 DEF DiskEdit, handler
  <2>2. edits' # 0
    BY <2>1, ServerAssumption DEF TypeInv, TypeOK
  <2>3. RoundsFollowASync'
    BY <2>1 DEF ReferencesInv, RoundsFollowASync
  <2> QED BY <2>2, <2>3, ElsewhereReferencesInv
<1>3. CASE UNCHANGED vars
  BY <1>3 DEF vars, index, handler, ReferencesInv, ReferencesLoaded, NothingIsForgotten, RoundsFollowASync, View
<1> QED BY <1>1, <1>2, <1>3, MessageReferencesInv, StepReferencesInv DEF Next

(* With one client, when a document that was opened or changed is published,   *)
(* nothing that exists is missing, for any workspace whose chains of           *)
(* references end within the rounds.                                           *)
THEOREM ReferencesAlwaysLoaded == ASSUME OneClient, OneURIPerFile PROVE Spec => []ReferencesLoaded
<1>1. TypeInv /\ SyncInv /\ ReferencesInv /\ [Next]_vars => (TypeInv /\ SyncInv /\ ReferencesInv)'
  BY NextTypeInv, NextSyncInv, NextReferencesInv
<1>2. Init => TypeInv /\ SyncInv /\ ReferencesInv
  BY InitTypeInv, InitSyncInv, InitReferencesInv
<1>3. ReferencesInv => ReferencesLoaded
  BY DEF ReferencesInv
<1> QED BY <1>1, <1>2, <1>3, PTL DEF Spec

-------------------------------------------------------------------------------
(* One client: what is displayed is what is wrong.                             *)

(* The modules of an fga.mod that are not claimed by another.                  *)
LEMMA ModulesOfMembers ==
    ASSUME ViewOK(View), NEW mod \in DocsOfKind(View, "mod"), NEW x \in ModulesOf(mod)
    PROVE  /\ x \in URIs /\ ModFor(View, PathOf[x]) = mod
           /\ x \in ToSet(LoadedModels(View, Listed(View, mod)))
<1> DEFINE v == View
<1>1. ModFor(v, PathOf[x]) = mod /\ x \in ToSet(LoadedModels(v, Listed(v, mod)))
  BY DEF ModulesOf, MembersOf
<1>2. ViewOK(v) /\ mod \in DocsOfKind(v, "mod")
  OBVIOUS
<1> HIDE DEF v
<1>3. Listed(v, mod) \in Seq(Paths)
  BY <1>2, LoadedAreModels DEF ViewOK
<1>4. x \in URIs
  BY <1>1, <1>2, <1>3, LoadedModelsMembers DEF ModelURIs
<1> QED BY <1>1, <1>4 DEF v

(* publish recomputes the current list of every document it has to cover.      *)
LEMMA CoveredListsAreCurrent ==
    ASSUME TypeInv, NEW u \in URIs, entry[u] # Absent, NEW x \in Covered(u)
    PROVE  /\ x \in URIs /\ x \in DOMAIN Results(View, disk, u)
           /\ Results(View, disk, u)[x] = Current(View, disk, x)
<1> DEFINE v == View
           mod == IF Kind(u) = "mod" THEN u ELSE ModFor(v, PathOf[u])
           Right == x \in URIs /\ x \in DOMAIN Results(v, disk, u) /\ Results(v, disk, u)[x] = Current(v, disk, x)
<1>1. ViewOK(v)
  BY ViewFits DEF TypeInv
<1>2. u \in Docs(v) /\ v.owner = owner
  BY DEF View, Docs
<1>3. \/ x = u
      \/ Kind(u) = "model" /\ mod # NoURI /\ x \in ModulesOf(mod)
      \/ /\ Kind(u) = "mod" /\ Listed(v, u) # <<>> /\ v.owner[Head(Listed(v, u))] \in ModulesOf(u)
         /\ x \in ModulesOf(u)
      \/ Kind(u) = "model" /\ x \in StoresFor(v, u)
  BY <1>2 DEF Covered
<1>4. \A m \in DocsOfKind(v, "mod") : \A y \in ModulesOf(m) :
        y \in URIs /\ ModFor(v, PathOf[y]) = m /\ y \in ToSet(LoadedModels(v, Listed(v, m)))
  BY <1>1, ModulesOfMembers
<1> SUFFICES Right
  OBVIOUS
<1> HIDE DEF v
<1>5. CASE x = u
  BY <1>1, <1>2, <1>5, OwnListIsCurrent
<1>6. CASE Kind(u) = "model" /\ mod # NoURI /\ x \in ModulesOf(mod)
  <2>1. mod = ModFor(v, PathOf[u]) /\ mod \in DocsOfKind(v, "mod")
    BY <1>6, ModForClaims
  <2>2. x \in URIs /\ ModFor(v, PathOf[x]) = mod /\ x \in ToSet(LoadedModels(v, Listed(v, mod)))
    BY <1>4, <1>6, <2>1
  <2> HIDE DEF mod
  <2> QED BY <1>1, <1>2, <1>6, <2>1, <2>2, SiblingListsAreCurrent
<1>7. CASE /\ Kind(u) = "mod" /\ Listed(v, u) # <<>> /\ v.owner[Head(Listed(v, u))] \in ModulesOf(u)
           /\ x \in ModulesOf(u)
  <2> DEFINE first == v.owner[Head(Listed(v, u))]
  <2>1. u \in DocsOfKind(v, "mod")
    BY <1>2, <1>7 DEF DocsOfKind
  <2>2. /\ x \in URIs /\ ModFor(v, PathOf[x]) = u /\ x \in ToSet(LoadedModels(v, Listed(v, u)))
        /\ first \in URIs /\ ModFor(v, PathOf[first]) = u
    BY <1>4, <1>7, <2>1
  <2> QED BY <1>1, <1>2, <1>7, <2>2, ModuleListsAreCurrent
<1>8. CASE Kind(u) = "model" /\ x \in StoresFor(v, u)
  <2>1. x \in URIs
    BY <1>8 DEF StoresFor, DocsOfKind, Docs
  <2> QED BY <1>1, <1>2, <1>8, <2>1, StoreListsAreCurrent
<1> QED BY <1>3, <1>5, <1>6, <1>7, <1>8

(* Nothing is displayed at first.                                             *)
LEMMA InitFreshInv == Init => FreshInv
  BY PathAssumption DEF Init, FreshInv, OnlyPublishedIsShown, ResultsAreCurrent, ShownIsCurrent

(* What has to be current depends on the index and the disk only.              *)
LEMMA CurrentStays ==
    ASSUME UNCHANGED <<index, disk>>, NEW w
    PROVE  Covered(w)' = Covered(w) /\ Current(View, disk, w)' = Current(View, disk, w)
<1>1. View' = View /\ owner' = owner /\ disk' = disk
  BY DEF index, View
<1>2. \A mod : ModulesOf(mod)' = ModulesOf(mod)
  BY <1>1 DEF ModulesOf, MembersOf
<1> QED BY <1>1, <1>2 DEF Covered

(* Once anything has moved, nothing is promised until the next publish.        *)
LEMMA UnsettledFreshInv ==
    ASSUME FreshInv, UNCHANGED <<shown, published>>, settled' = [d \in Conns |-> NoURI]
    PROVE  FreshInv'
  BY PathAssumption DEF FreshInv, OnlyPublishedIsShown, ResultsAreCurrent, ShownIsCurrent

(* And as long as nothing moves, what was current is.                          *)
LEMMA QuietFreshInv ==
    ASSUME FreshInv, UNCHANGED <<index, disk, shown, published, settled>>,
           \A d \in Conns : pc[d] # "notify" /\ pc'[d] # "notify"
    PROVE  FreshInv'
<1>1. OnlyPublishedIsShown' /\ ResultsAreCurrent'
  BY DEF FreshInv, OnlyPublishedIsShown, ResultsAreCurrent
<1>2. ShownIsCurrent'
  <2> SUFFICES ASSUME NEW c \in Conns, NEW w \in URIs, settled[c] = w, entry[w] # Absent, NEW u \in Covered(w)
               PROVE  IsFresh(c, u)'
    BY CurrentStays DEF ShownIsCurrent, index
  <2>1. IsFresh(c, u)
    BY DEF FreshInv, ShownIsCurrent
  <2> QED BY <2>1, CurrentStays DEF IsFresh
<1> QED BY <1>1, <1>2 DEF FreshInv

(* What is about to be sent is what was just computed.                        *)
LEMMA PublishFreshInv == ASSUME OneClient, TypeInv, FreshInv, NEW c \in Conns, Publish(c) PROVE FreshInv'
<1>1. /\ results' = [results EXCEPT ![c] = Results(View, disk, req[c])]
      /\ settled' = [settled EXCEPT ![c] = req[c]] /\ pc' = [pc EXCEPT ![c] = "notify"]
      /\ View' = View /\ UNCHANGED <<disk, req, shown, published>>
  BY DEF Publish, Goto, index, View
<1>2. \A d \in Conns : /\ d = c /\ pc'[d] = "notify" /\ settled'[d] = req[c]
                       /\ results'[d] = Results(View, disk, req[c])
  BY <1>1 DEF OneClient, TypeInv, TypeOK
<1>3. OnlyPublishedIsShown' /\ ShownIsCurrent'
  BY <1>1, <1>2 DEF FreshInv, OnlyPublishedIsShown, ShownIsCurrent
<1>4. ResultsAreCurrent'
  BY <1>1, <1>2 DEF ResultsAreCurrent
<1> QED BY <1>3, <1>4 DEF FreshInv

(* What is sent replaces what is displayed; what is not sent is empty, and so  *)
(* is what is displayed of it.                                                 *)
LEMMA NotifyFreshInv == ASSUME OneClient, TypeInv, FreshInv, NEW c \in Conns, Notify(c) PROVE FreshInv'
<1> DEFINE list(u) == IF u \in Sent(c) THEN results[c][u] ELSE shown[c][u]
<1>1. /\ pc[c] = "notify" /\ shown' = [shown EXCEPT ![c] = [u \in URIs |-> list(u)]]
      /\ published' = (published \ Sent(c)) \cup {u \in Sent(c) : results[c][u] # {}}
      /\ pc' = [pc EXCEPT ![c] = "idle"] /\ UNCHANGED <<disk, index, settled>>
  BY DEF Notify, Goto
<1> HIDE DEF list
<1>2. \A d \in Conns : d = c /\ pc'[d] = "idle" /\ shown'[d] = [u \in URIs |-> list(u)]
  BY <1>1 DEF OneClient, TypeInv, TypeOK
<1>3. OnlyPublishedIsShown'
  <2> SUFFICES ASSUME NEW u \in URIs, u \notin published' PROVE list(u) = {}
    BY <1>2 DEF OnlyPublishedIsShown
  <2>1. CASE u \in Sent(c)
    BY <1>1, <2>1 DEF list
  <2>2. CASE u \notin Sent(c)
    BY <1>1, <2>2 DEF list, FreshInv, OnlyPublishedIsShown
  <2> QED BY <2>1, <2>2
<1>4. ResultsAreCurrent'
  BY <1>2 DEF ResultsAreCurrent
<1>5. ShownIsCurrent'
  <2> SUFFICES ASSUME NEW w \in URIs, settled[c] = w, entry[w] # Absent, NEW u \in Covered(w)
               PROVE  IsFresh(c, u)'
    BY <1>1, <1>2, CurrentStays DEF ShownIsCurrent, index
  <2>1. results[c] = Results(View, disk, w)
    BY <1>1, PathAssumption DEF FreshInv, ResultsAreCurrent
  <2>2. u \in URIs /\ u \in DOMAIN results[c] /\ results[c][u] = Current(View, disk, u)
    BY <2>1, CoveredListsAreCurrent
  <2>3. list(u) = results[c][u]
    <3>1. CASE u \in Sent(c)
      BY <3>1 DEF list
    <3>2. CASE u \notin Sent(c)
      <4>1. results[c][u] = {} /\ u \notin published
        BY <2>2, <3>2 DEF Sent
      <4> QED BY <2>2, <3>2, <4>1 DEF list, FreshInv, OnlyPublishedIsShown
    <3> QED BY <3>1, <3>2
  <2>4. shown'[c][u] = Current(View, disk, u)
    BY <1>2, <2>2, <2>3
  <2>5. Current(View, disk, u)' = Current(View, disk, u)
    BY <1>1, CurrentStays
  <2> QED BY <2>4, <2>5 DEF IsFresh
<1> QED BY <1>3, <1>4, <1>5 DEF FreshInv

(* Every step preserves what is known of the lists on display.                *)
LEMMA NextFreshInv == ASSUME OneClient, TypeInv, FreshInv, [Next]_vars PROVE FreshInv'
<1>1. ASSUME NEW c \in Conns, Message(c) PROVE FreshInv'
  <2>1. ASSUME Initialize(c) \/ \E u \in URIs : DidClose(c, u) PROVE FreshInv'
    <3>1. /\ pc[c] # "notify" /\ (pc' = [pc EXCEPT ![c] = "load"] \/ pc' = [pc EXCEPT ![c] = "close"])
          /\ UNCHANGED <<index, disk, shown, published, settled>>
      BY <2>1 DEF Initialize, DidClose, Goto
    <3>2. \A d \in Conns : d = c /\ pc'[d] \in {"load", "close"}
      BY <3>1 DEF OneClient, TypeInv, TypeOK
    <3> QED BY <3>1, <3>2, QuietFreshInv
  <2>2. ASSUME NEW u \in URIs, NEW text, DidSave(c, u) \/ DidOpen(c, u, text) \/ DidChange(c, u, text)
        PROVE  FreshInv'
    BY <2>2, UnsettledFreshInv DEF DidSave, DidOpen, DidChange, Sync, PutDocument, Unsettle
  <2> QED BY <1>1, <2>1, <2>2 DEF Message
<1>2. ASSUME NEW c \in Conns, Close(c) \/ StoreFile(c) PROVE FreshInv'
  BY <1>2, UnsettledFreshInv DEF Close, StoreFile, PutDocument, DeleteDocument, Unsettle
<1>3. ASSUME NEW c \in Conns, Ensure(c) \/ Sweep(c) \/ LoadDone(c) \/ \E p \in Paths : Load(c, p)
      PROVE  FreshInv'
  <2>1. /\ pc[c] # "notify" /\ UNCHANGED <<index, disk, shown, published, settled>>
        /\ pc' = pc \/ \E step \in {"publish", "sweep", "load", "store", "idle"} : pc' = [pc EXCEPT ![c] = step]
    BY <1>3 DEF Ensure, Sweep, LoadDone, Load, Goto
  <2>2. \A d \in Conns : d = c /\ pc'[d] # "notify"
    BY <2>1 DEF OneClient, TypeInv, TypeOK
  <2> QED BY <2>1, <2>2, QuietFreshInv
<1>4. ASSUME NEW p \in Paths, NEW text, DiskEdit(p, text) PROVE FreshInv'
  BY <1>4, UnsettledFreshInv DEF DiskEdit, Unsettle
<1>5. CASE UNCHANGED vars
  <2>1. UNCHANGED <<index, disk, shown, published, settled, pc, req, results, View>>
    BY <1>5 DEF vars, handler, index, View
  <2>2. OnlyPublishedIsShown' /\ ResultsAreCurrent'
    BY <2>1 DEF FreshInv, OnlyPublishedIsShown, ResultsAreCurrent
  <2>3. ShownIsCurrent'
    BY <2>1, CurrentStays DEF FreshInv, ShownIsCurrent, IsFresh, index
  <2> QED BY <2>2, <2>3 DEF FreshInv
<1> QED BY <1>1, <1>2, <1>3, <1>4, <1>5, PublishFreshInv, NotifyFreshInv DEF Next, Step

(* With one client, after a message is handled and until something moves, the  *)
(* lists on display for the document, for the modules of its set and for the   *)
(* store tests written against it are those a computation from nothing finds:  *)
(* publish recomputes enough, and what it does not send was empty already.     *)
THEOREM CoveredAlwaysFresh == ASSUME OneClient PROVE Spec => []CoveredAreFresh
<1>1. TypeInv /\ FreshInv /\ [Next]_vars => (TypeInv /\ FreshInv)'
  BY NextTypeInv, NextFreshInv
<1>2. Init => TypeInv /\ FreshInv
  BY InitTypeInv, InitFreshInv
<1>3. TypeInv /\ FreshInv => CoveredAreFresh
  <2> SUFFICES ASSUME TypeInv, FreshInv, NEW c \in Conns, pc[c] = "idle", settled[c] # NoURI,
                      entry[settled[c]] # Absent, NEW u \in Covered(settled[c])
               PROVE  IsFresh(c, u)
    BY DEF CoveredAreFresh
  <2>1. settled[c] \in URIs
    BY DEF TypeInv, TypeOK
  <2> QED BY <2>1 DEF FreshInv, ShownIsCurrent
<1> QED BY <1>1, <1>2, <1>3, PTL DEF Spec
===============================================================================
