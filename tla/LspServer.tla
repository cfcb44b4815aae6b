------------------------------- MODULE LspServer -------------------------------
(* The language server (internal/server/server.go): one index and one set of   *)
(* published documents, shared by every connection.  A connection handles its  *)
(* messages one after the other (stdio has one connection; RunTCP one per      *)
(* client, each in a goroutine of its own).  A handler is not atomic: every    *)
(* store, every sweep of the index, every read of the disk and every batch of  *)
(* notifications is a step of its own, and other connections and the file      *)
(* system may move in between.                                                 *)
EXTENDS Diagnostics

CONSTANTS
    Conns,          \* connections
    Roots,          \* the workspaces a client may name: sets of files under its root
    TextsOf,        \* TextsOf[p]: the texts the file p can have
    Disks,          \* the disks the server may start on
    Closed,         \* a document the client has not opened
    MaxVersion,     \* bound: the last version a client gives an open document
    MaxDiskEdits,   \* bound: how often the disk changes behind the editor's back
    MaxRounds       \* the rounds of EnsureReferences (8 in the code)

ASSUME ServerAssumption == MaxVersion \in Nat \ {0} /\ MaxDiskEdits \in Nat /\ MaxRounds \in Nat \ {0}

(* Clients open files: for another URI didClose would read the path "".        *)
ASSUME FilesAssumption == \A u \in URIs : PathOf[u] \in Paths

VARIABLES
    disk,       \* disk[p]: the text on disk, or NoFile
    edits,      \* how often the disk has changed behind the editor's back
    entry,      \* Index.docs   } the abstract index, which Index implements
    owner,      \* Index.byPath }
    published,  \* Server.published: documents with diagnostics on display
    buffer,     \* buffer[c][u]: what client c has open, as far as the server heard
    shown,      \* shown[c][u]: the problems client c displays
    pc,         \* pc[c]: the handler step c's connection is at
    req,        \* req[c]: the document of the message being handled
    todo,       \* todo[c]: files still to load
    file,       \* file[c]: a file that was read and not stored yet
    round,      \* round[c]: EnsureReferences' round, 0 in a workspace scan
    progress,   \* progress[c]: the round has loaded something
    results,    \* results[c]: computed and not yet sent
    settled     \* settled[c]: the document published last, NoURI once anything moved

index == <<entry, owner>>
handler == <<req, todo, file, round, progress, results>>
vars == <<disk, edits, index, published, buffer, shown, pc, handler, settled>>

Texts == UNION {TextsOf[p] : p \in Paths}

Ix == INSTANCE IndexMap WITH Versions <- 0..MaxVersion, Contents <- Texts

(* A file has a text that fits its name, or it is not there.  What is stored,  *)
(* or open, is never mistaken for nothing.                                     *)
ASSUME DiskAssumption ==
    /\ NoFile \notin Texts
    /\ Disks \subseteq [Paths -> Texts \cup {NoFile}]
    /\ \A d \in Disks, p \in Paths : d[p] \in TextsOf[p] \cup {NoFile}
    /\ Roots \subseteq SUBSET Paths
ASSUME AbsentAssumption == Absent \notin Ix!Entry /\ Closed \notin [version : 1..MaxVersion, text : Texts]

(* An fga.mod lists .fga files (the parser rejects other entries), and a store *)
(* test names one model_file or none.                                          *)
ASSUME ParseAssumption ==
    \A p \in Paths : \A text \in TextsOf[p] :
        /\ KindOf[p] = "mod" => Parse[text].contents \in Seq({q \in Paths : KindOf[q] = "model"})
        /\ KindOf[p] = "store" => Parse[text].model \in Paths \cup {NoPath}

View == [entry |-> entry, owner |-> owner]

NothingRead == [path |-> NoPath, text |-> NoFile]
NoResults == [u \in {} |-> {}]

Init ==
    /\ disk \in Disks
    /\ edits = 0
    /\ Ix!Init
    /\ published = {}
    /\ buffer = [c \in Conns |-> [u \in URIs |-> Closed]]
    /\ shown = [c \in Conns |-> [u \in URIs |-> {}]]
    /\ pc = [c \in Conns |-> "new"]
    /\ req = [c \in Conns |-> NoURI]
    /\ todo = [c \in Conns |-> {}]
    /\ file = [c \in Conns |-> NothingRead]
    /\ round = [c \in Conns |-> 0]
    /\ progress = [c \in Conns |-> FALSE]
    /\ results = [c \in Conns |-> NoResults]
    /\ settled = [c \in Conns |-> NoURI]

Goto(c, step) == pc' = [pc EXCEPT ![c] = step]
Unsettle == settled' = [c \in Conns |-> NoURI]

-------------------------------------------------------------------------------
(* Index.Put and Index.Delete, by any connection.                              *)
PutDocument(u, version, text) == Ix!Put(u, version, text) /\ Unsettle

DeleteDocument(u) ==
    /\ IF entry[u] = Absent THEN UNCHANGED index ELSE Ix!Delete(u)
    /\ Unsettle

(* initialize: the files under the root are scanned into the index.            *)
Initialize(c) ==
    /\ pc[c] = "new"
    /\ \E files \in Roots : todo' = [todo EXCEPT ![c] = files]
    /\ round' = [round EXCEPT ![c] = 0]
    /\ Goto(c, "load")
    /\ UNCHANGED <<disk, edits, index, published, buffer, shown, req, file, progress, results, settled>>

(* didOpen, didChange: the text the client sends is stored, and then the index *)
(* is completed.                                                               *)
Sync(c, u, version, text) ==
    /\ PutDocument(u, version, text)
    /\ buffer' = [buffer EXCEPT ![c][u] = [version |-> version, text |-> text]]
    /\ req' = [req EXCEPT ![c] = u]
    /\ round' = [round EXCEPT ![c] = 1]
    /\ Goto(c, "ensure")
    /\ UNCHANGED <<disk, edits, published, shown, todo, file, progress, results>>

(* An editor opens a file with what is on disk, or starts a new one.           *)
DidOpen(c, u, text) ==
    /\ pc[c] = "idle"
    /\ buffer[c][u] = Closed
    /\ disk[PathOf[u]] \in {text, NoFile}
    /\ Sync(c, u, 1, text)

DidChange(c, u, text) ==
    /\ pc[c] = "idle"
    /\ buffer[c][u] # Closed
    /\ buffer[c][u].version < MaxVersion
    /\ buffer[c][u].text # text
    /\ Sync(c, u, buffer[c][u].version + 1, text)

(* The client writes the file and sends didSave, which only publishes.         *)
DidSave(c, u) ==
    /\ pc[c] = "idle"
    /\ buffer[c][u] # Closed
    /\ disk' = [disk EXCEPT ![PathOf[u]] = buffer[c][u].text]
    /\ req' = [req EXCEPT ![c] = u]
    /\ Unsettle
    /\ Goto(c, "publish")
    /\ UNCHANGED <<edits, index, published, buffer, shown, todo, file, round, progress, results>>

(* didClose: the file is read back from disk ...                               *)
DidClose(c, u) ==
    /\ pc[c] = "idle"
    /\ buffer[c][u] # Closed
    /\ buffer' = [buffer EXCEPT ![c][u] = Closed]
    /\ req' = [req EXCEPT ![c] = u]
    /\ file' = [file EXCEPT ![c] = [path |-> PathOf[u], text |-> disk[PathOf[u]]]]
    /\ Goto(c, "close")
    /\ UNCHANGED <<disk, edits, index, published, shown, todo, round, progress, results, settled>>

(* ... and stored again as read from disk, with its diagnostics published; or, *)
(* if it is gone, dropped without publishing anything.                         *)
Close(c) ==
    /\ pc[c] = "close"
    /\ IF file[c].text = NoFile
       THEN DeleteDocument(req[c]) /\ Goto(c, "idle")
       ELSE PutDocument(req[c], 0, file[c].text) /\ Goto(c, "publish")
    /\ file' = [file EXCEPT ![c] = NothingRead]
    /\ UNCHANGED <<disk, edits, published, buffer, shown, req, todo, round, progress, results>>

-------------------------------------------------------------------------------
(* EnsureReferences: nothing to do for a document that is not indexed.         *)
Ensure(c) ==
    /\ pc[c] = "ensure"
    /\ Goto(c, IF entry[req[c]] = Absent THEN "publish" ELSE "sweep")
    /\ UNCHANGED <<disk, edits, index, published, buffer, shown, handler, settled>>

(* Faulty variants of Missing: the references of the document alone, and every *)
(* reference, indexed or not.                                                  *)
MissingOfRequest(c) == UnresolvedReferences(View, disk, req[c])
EveryReference(c) == UNION {References(View, disk, u) : u \in Docs(View)}

(* The sweep looks at every document, which is what makes it transitive.       *)
Missing(c) == Unresolved(View, disk)

Sweep(c) ==
    /\ pc[c] = "sweep"
    /\ todo' = [todo EXCEPT ![c] = Missing(c)]
    /\ progress' = [progress EXCEPT ![c] = FALSE]
    /\ Goto(c, IF Missing(c) = {} THEN "publish" ELSE "load")
    /\ UNCHANGED <<disk, edits, index, published, buffer, shown, req, file, round, results, settled>>

(* A scan walks the files in path order; a sweep has no order.                 *)
NextFile(c, p) ==
    /\ p \in todo[c]
    /\ round[c] = 0 => FileURI[p] = Earliest(todo[c])

(* Faulty variant of Load: the error of os.ReadFile is ignored.                *)
LoadIgnoringErrors(c, p) ==
    /\ pc[c] = "load"
    /\ NextFile(c, p)
    /\ todo' = [todo EXCEPT ![c] = @ \ {p}]
    /\ file' = [file EXCEPT ![c] = [path |-> p, text |-> disk[p]]]
    /\ Goto(c, "store")
    /\ UNCHANGED <<disk, edits, index, published, buffer, shown, req, round, progress, results, settled>>

(* os.ReadFile; a file that cannot be read is skipped.                         *)
Load(c, p) ==
    /\ pc[c] = "load"
    /\ NextFile(c, p)
    /\ todo' = [todo EXCEPT ![c] = @ \ {p}]
    /\ IF disk[p] = NoFile
       THEN UNCHANGED <<file, pc>>
       ELSE file' = [file EXCEPT ![c] = [path |-> p, text |-> disk[p]]] /\ Goto(c, "store")
    /\ UNCHANGED <<disk, edits, index, published, buffer, shown, req, round, progress, results, settled>>

(* Put under the URI the server derives from the path, as version 0.           *)
StoreFile(c) ==
    /\ pc[c] = "store"
    /\ PutDocument(FileURI[file[c].path], 0, file[c].text)
    /\ file' = [file EXCEPT ![c] = NothingRead]
    /\ progress' = [progress EXCEPT ![c] = TRUE]
    /\ Goto(c, "load")
    /\ UNCHANGED <<disk, edits, published, buffer, shown, req, todo, round, results>>

(* Faulty variant of SweepsAgain: only a sweep that finds nothing ends it.     *)
SweepUntilNothingIsMissing(c) == TRUE

(* Another round follows one that loaded something, up to the last.            *)
SweepsAgain(c) == progress[c] /\ round[c] < MaxRounds

LoadDone(c) ==
    /\ pc[c] = "load"
    /\ todo[c] = {}
    /\ \/ round[c] = 0 /\ Goto(c, "idle") /\ UNCHANGED round
       \/ round[c] > 0 /\ ~SweepsAgain(c) /\ Goto(c, "publish") /\ UNCHANGED round
       \/ /\ round[c] > 0 /\ SweepsAgain(c)
          /\ Goto(c, "sweep")
          /\ round' = [round EXCEPT ![c] = IF @ < MaxRounds THEN @ + 1 ELSE @]
    /\ UNCHANGED <<disk, edits, index, published, buffer, shown, req, todo, file, progress, results, settled>>

-------------------------------------------------------------------------------
(* publish, under the read lock: what is wrong with the document and with what *)
(* depends on it.                                                              *)
Publish(c) ==
    /\ pc[c] = "publish"
    /\ results' = [results EXCEPT ![c] = Results(View, disk, req[c])]
    /\ settled' = [settled EXCEPT ![c] = req[c]]
    /\ Goto(c, "notify")
    /\ UNCHANGED <<disk, edits, index, published, buffer, shown, req, todo, file, round, progress>>

(* An empty list is only sent for a document with diagnostics on display.      *)
Sent(c) == {u \in DOMAIN results[c] : results[c][u] # {} \/ u \in published}

(* publish, after the lock: one notification per document.                     *)
Notify(c) ==
    /\ pc[c] = "notify"
    /\ shown' = [shown EXCEPT ![c] = [u \in URIs |-> IF u \in Sent(c) THEN results[c][u] ELSE @[u]]]
    /\ published' = (published \ Sent(c)) \cup {u \in Sent(c) : results[c][u] # {}}
    /\ results' = [results EXCEPT ![c] = NoResults]
    /\ req' = [req EXCEPT ![c] = NoURI]
    /\ round' = [round EXCEPT ![c] = 0]
    /\ progress' = [progress EXCEPT ![c] = FALSE]
    /\ Goto(c, "idle")
    /\ UNCHANGED <<disk, edits, index, buffer, todo, file, settled>>

(* Some other program writes or removes a file: git, a formatter, a shell.     *)
DiskEdit(p, text) ==
    /\ edits < MaxDiskEdits
    /\ edits' = edits + 1
    /\ disk[p] # text
    /\ disk' = [disk EXCEPT ![p] = text]
    /\ Unsettle
    /\ UNCHANGED <<index, published, buffer, shown, pc, handler>>

Message(c) ==
    \/ Initialize(c)
    \/ \E u \in URIs : DidSave(c, u) \/ DidClose(c, u)
    \/ \E u \in URIs : \E text \in TextsOf[PathOf[u]] : DidOpen(c, u, text) \/ DidChange(c, u, text)

Step(c) ==
    \/ Close(c) \/ Ensure(c) \/ Sweep(c) \/ StoreFile(c) \/ LoadDone(c) \/ Publish(c) \/ Notify(c)
    \/ \E p \in Paths : Load(c, p)

Next ==
    \/ \E c \in Conns : Message(c) \/ Step(c)
    \/ \E p \in Paths : \E text \in TextsOf[p] \cup {NoFile} : DiskEdit(p, text)

Spec == Init /\ [][Next]_vars

(* A goroutine that has work goes on with it; clients send when they like.     *)
FairSpec == Spec /\ \A c \in Conns : WF_vars(Step(c))

-------------------------------------------------------------------------------
Steps == {"new", "idle", "close", "ensure", "sweep", "load", "store", "publish", "notify"}

TypeOK ==
    /\ Ix!TypeOK
    /\ disk \in [Paths -> Texts \cup {NoFile}] /\ \A p \in Paths : disk[p] \in TextsOf[p] \cup {NoFile}
    /\ edits \in 0..MaxDiskEdits
    /\ published \subseteq URIs
    /\ pc \in [Conns -> Steps]
    /\ req \in [Conns -> URIs \cup {NoURI}] /\ settled \in [Conns -> URIs \cup {NoURI}]
    /\ todo \in [Conns -> SUBSET Paths]
    /\ file \in [Conns -> [path : Paths, text : Texts \cup {NoFile}] \cup {NothingRead}]
    /\ round \in [Conns -> 0..MaxRounds]
    /\ progress \in [Conns -> BOOLEAN]
    /\ buffer \in [Conns -> [URIs -> [version : 1..MaxVersion, text : Texts] \cup {Closed}]]
    /\ DOMAIN shown = Conns /\ DOMAIN results = Conns
    /\ \A c \in Conns :
        /\ DOMAIN shown[c] = URIs /\ DOMAIN results[c] \subseteq URIs
        /\ pc[c] \in {"close", "store"} <=> file[c] # NothingRead
        /\ req[c] = NoURI => pc[c] \in {"new", "idle", "load", "store"}
        /\ \A u \in URIs : buffer[c][u] # Closed => buffer[c][u].text \in TextsOf[PathOf[u]]

(* What a client has open is what the index holds: no scan, no completion of   *)
(* references and no late read of the disk replaces a synced text, and a       *)
(* document opened again starts over at version 1.                             *)
BufferWins ==
    \A c \in Conns, u \in URIs :
        buffer[c][u] # Closed => entry[u] # Absent /\ entry[u].content = buffer[c][u].text

(* Completeness: when a document that was opened or changed is published, no   *)
(* indexed document refers to a file that exists and is not indexed.  It needs *)
(* the disk to hold still and no chain of references longer than MaxRounds.    *)
ReferencesLoaded ==
    \A c \in Conns :
        (pc[c] = "publish" /\ round[c] \in 1..(MaxRounds - 1) /\ edits = 0)
            => \A p \in Unresolved(View, disk) : disk[p] = NoFile

(* The documents publish promises to recompute with u.                         *)
MembersOf(mod) == ToSet(LoadedModels(View, Listed(View, mod)))
ModulesOf(mod) == {u \in MembersOf(mod) : ModFor(View, PathOf[u]) = mod}

Covered(u) ==
    LET mod == IF Kind(u) = "mod" THEN u ELSE ModFor(View, PathOf[u]) IN
    {u}
    \cup (IF Kind(u) = "model" /\ mod # NoURI THEN ModulesOf(mod) ELSE {})
    \cup (IF Kind(u) = "mod" /\ Listed(View, u) # <<>> /\ owner[Head(Listed(View, u))] \in ModulesOf(u)
          THEN ModulesOf(u) ELSE {})
    \cup (IF Kind(u) = "model" THEN StoresFor(View, u) ELSE {})

IsFresh(c, u) == shown[c][u] = Current(View, disk, u)

(* After a message is handled, what the client displays for the document, for  *)
(* the modules of its set and for the store tests written against it is        *)
(* exactly what is wrong with them now: new problems are there, and problems   *)
(* that an edit of a sibling solved are gone.                                  *)
CoveredAreFresh ==
    \A c \in Conns :
        (pc[c] = "idle" /\ settled[c] # NoURI /\ entry[settled[c]] # Absent)
            => \A u \in Covered(settled[c]) : IsFresh(c, u)

(* Every message is handled to the end, whatever happens to the files that     *)
(* EnsureReferences chases.                                                    *)
EveryMessageIsHandled == \A c \in Conns : pc[c] \notin {"new", "idle"} ~> pc[c] = "idle"

-------------------------------------------------------------------------------
(* What the comments and documents promise and the code does not do.           *)

(* "publish recomputes diagnostics for a document and everything sharing its   *)
(* model" (server.go:185): after an fga.mod is handled, the store tests whose  *)
(* model_file it is display what is wrong with them now.                       *)
StoresFollowTheModFile ==
    \A c \in Conns : LET u == settled[c] IN
        (pc[c] = "idle" /\ u # NoURI /\ entry[u] # Absent /\ Kind(u) = "mod")
            => \A s \in DocsOfKind(View, "store") : Text(View, s).model = PathOf[u] => IsFresh(c, s)


(* "Version 0 means loaded from disk, which anything synced wins over"         *)
(* (docs/resolution.md:41): except when its own document is closed, no synced  *)
(* text is replaced by a different one read from disk.                         *)
Synced(u) == entry[u] # Absent /\ entry[u].version > 0
LosesText(u) == Synced(u) /\ ~Synced(u)' /\ entry'[u] # Absent /\ entry'[u].content # entry[u].content
SyncedWinsOverDisk ==
    [][\A u \in URIs : LosesText(u) => \E c \in Conns : pc[c] = "close" /\ req[c] = u]_vars
===============================================================================
