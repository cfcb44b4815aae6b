----------------------------- MODULE McpWorkspace -----------------------------
(* The agent API (internal/agent): a workspace scanned once when it is opened, *)
(* and tool calls that answer from its index.  fga_check and fga_overview scan *)
(* again first; the other tools answer from whatever is indexed.  Calls run    *)
(* concurrently, nothing orders their scans, every file is stored as version   *)
(* 0, and files are written, created and removed in the meantime.              *)
EXTENDS Diagnostics

CONSTANTS
    Calls,      \* the tool calls that can be in progress at once
    Names,      \* type names an agent asks about
    Narrowings, \* files an agent narrows a check to
    TextsOf,    \* TextsOf[p]: the texts the file p can have
    Disks,      \* the disks the workspace may be opened on
    Nothing,    \* no answer yet, no name asked, or no file to narrow a check to
    MaxEdits    \* bound: how often the disk changes

ASSUME CallsAssumption == Calls # {} /\ MaxEdits \in Nat

VARIABLES
    disk,       \* disk[p]: the text on disk, or NoFile
    edits,      \* how often the disk has changed
    entry,      \* Index.docs   } of Workspace.index
    owner,      \* Index.byPath }
    pc,         \* pc[c]: "idle", "scan", "store" or "answer"
    tool,       \* tool[c]: the tool called last
    about,      \* about[c]: its argument: a file, a name or Nothing
    todo,       \* todo[c]: the files the scan has still to read
    file,       \* file[c]: a file that was read and not stored yet
    undisturbed,\* undisturbed[c]: the disk is as it was when this call began, and
                \* no scan of another call was reading an older disk then
    changed     \* the files written or removed since a scan last ended undisturbed

index == <<entry, owner>>
call == <<tool, about, todo, file>>
vars == <<disk, edits, index, pc, call, undisturbed, changed>>

Texts == UNION {TextsOf[p] : p \in Paths}

Ix == INSTANCE IndexMap WITH Versions <- {0}, Contents <- Texts

(* A file has a text that parses to something, or it is not there; what the    *)
(* index stores is never mistaken for nothing stored.                          *)
ASSUME DiskAssumption ==
    /\ NoFile \notin Texts
    /\ Disks \subseteq {d \in [Paths -> Texts \cup {NoFile}] : \A p \in Paths : d[p] \in TextsOf[p] \cup {NoFile}}
ASSUME AbsentAssumption == Absent \notin Ix!Entry

(* An fga.mod lists .fga files (the parser rejects other entries), and a store *)
(* test names one model_file or none.                                          *)
ASSUME ParseAssumption ==
    \A p \in Paths : \A text \in TextsOf[p] :
        /\ KindOf[p] = "mod" => Parse[text].contents \in Seq({q \in Paths : KindOf[q] = "model"})
        /\ KindOf[p] = "store" => Parse[text].model \in Paths \cup {NoPath}

View == [entry |-> entry, owner |-> owner]

OnDisk(d) == {p \in Paths : d[p] # NoFile}

(* What Scan makes of an empty index.                                          *)
ScanOf(d) ==
    [entry |-> [u \in URIs |-> IF PathOf[u] \in OnDisk(d) /\ FileURI[PathOf[u]] = u
                               THEN [version |-> 0, content |-> d[PathOf[u]]]
                               ELSE Absent],
     owner |-> [p \in Paths |-> IF p \in OnDisk(d) THEN FileURI[p] ELSE NoURI]]

NothingRead == [path |-> NoPath, text |-> NoFile]

-------------------------------------------------------------------------------
(* CheckWorkspace: the problems of every document, or of those in one file,    *)
(* with everything their computations touch.                                   *)
Checked(v, only) ==
    {u \in Docs(v) : Kind(u) # "unknown" /\ (only # Nothing => PathOf[u] = only)}
Reported(r) == UNION {{x} \X r[x] : x \in DOMAIN r}

(* Faulty variant of CheckWorkspace: what is narrowed is the index, not the    *)
(* documents to check.                                                         *)
CheckWorkspaceAlone(v, d, only) ==
    LET kept(u) == only = Nothing \/ PathOf[u] = only
        narrow == [entry |-> [u \in URIs |-> IF kept(u) THEN v.entry[u] ELSE Absent],
                   owner |-> [p \in Paths |-> IF only \in {p, Nothing} THEN v.owner[p] ELSE NoURI]]
    IN  UNION {Reported(Compute(narrow, d, u)) : u \in Checked(v, only)}

CheckWorkspace(v, d, only) == UNION {Reported(Compute(v, d, u)) : u \in Checked(v, only)}

(* Overview: the models with what they declare, and how many store tests and   *)
(* fga.mod files there are, unless there is no model.                          *)
Overview(v) ==
    LET models == DocsOfKind(v, "model")
        count(kind) == IF models = {} THEN 0 ELSE Len(ByPath(DocsOfKind(v, kind)))
    IN  [models |-> {<<PathOf[u], Text(v, u).types, Text(v, u).extends>> : u \in models},
         stores |-> count("store"), mods |-> count("mod")]

(* Workspace.scope: the scope of the first model.                              *)
AgentScope(v) == IF ModelDocs(v) = <<>> THEN <<>> ELSE ScopeFor(v, ModelDocs(v)[1])

(* Describe, and FindDefinition of a type: where it is declared or extended.   *)
Describe(v, name) ==
    {PathOf[u] : u \in {u \in ToSet(AgentScope(v)) : name \in Text(v, u).types \cup Text(v, u).extends}}

Reloads == {"fga_check", "fga_overview"}
Respond(t, v, d, x) ==
    CASE t = "fga_check"    -> CheckWorkspace(v, d, x)
      [] t = "fga_overview" -> Overview(v)
      [] t = "fga_describe" -> Describe(v, x)

-------------------------------------------------------------------------------
(* Open: the index holds what was on disk.                                     *)
Init ==
    /\ disk \in Disks
    /\ edits = 0
    /\ entry = ScanOf(disk).entry
    /\ owner = ScanOf(disk).owner
    /\ pc = [c \in Calls |-> "idle"]
    /\ tool = [c \in Calls |-> Nothing]
    /\ about = [c \in Calls |-> Nothing]
    /\ todo = [c \in Calls |-> {}]
    /\ file = [c \in Calls |-> NothingRead]
    /\ undisturbed = [c \in Calls |-> TRUE]
    /\ changed = {}

Goto(c, step) == pc' = [pc EXCEPT ![c] = step]
Scanning(c) == pc[c] \in {"scan", "store"}

Arguments(t) ==
    CASE t = "fga_check"    -> Narrowings \cup {Nothing}
      [] t = "fga_overview" -> {Nothing}
      [] t = "fga_describe" -> Names

(* A tool is called: Reload lists the directory first, or there is no reload.  *)
Call(c, t, x) ==
    /\ pc[c] = "idle"
    /\ tool' = [tool EXCEPT ![c] = t]
    /\ about' = [about EXCEPT ![c] = x]
    /\ todo' = [todo EXCEPT ![c] = IF t \in Reloads THEN OnDisk(disk) ELSE {}]
    /\ Goto(c, IF t \in Reloads THEN "scan" ELSE "answer")
    /\ undisturbed' = [undisturbed EXCEPT ![c] =
                            \A d \in Calls : Scanning(d) => undisturbed[d]]
    /\ UNCHANGED <<disk, edits, index, file, changed>>

(* WalkDir goes through the files in the order of their paths.                 *)
NextFile(c, p) == p \in todo[c] /\ FileURI[p] = Earliest(todo[c])

(* Faulty variant of ReadFile: a file that has gone is tried again.            *)
ReadFileRetrying(c, p) ==
    /\ pc[c] = "scan"
    /\ NextFile(c, p)
    /\ IF disk[p] = NoFile
       THEN UNCHANGED <<todo, file, pc>>
       ELSE /\ todo' = [todo EXCEPT ![c] = @ \ {p}]
            /\ file' = [file EXCEPT ![c] = [path |-> p, text |-> disk[p]]]
            /\ Goto(c, "store")
    /\ UNCHANGED <<disk, edits, index, tool, about, undisturbed, changed>>

(* Scan: os.ReadFile; a file that cannot be read is skipped ...                *)
ReadFile(c, p) ==
    /\ pc[c] = "scan"
    /\ NextFile(c, p)
    /\ todo' = [todo EXCEPT ![c] = @ \ {p}]
    /\ IF disk[p] = NoFile
       THEN UNCHANGED <<file, pc>>
       ELSE /\ file' = [file EXCEPT ![c] = [path |-> p, text |-> disk[p]]]
            /\ Goto(c, "store")
    /\ UNCHANGED <<disk, edits, index, tool, about, undisturbed, changed>>

(* Faulty variant of StoreFile: a document already indexed is left alone.      *)
StoreFileOnce(c) ==
    /\ pc[c] = "store"
    /\ IF owner[file[c].path] = NoURI
       THEN Ix!Put(FileURI[file[c].path], 0, file[c].text)
       ELSE UNCHANGED index
    /\ file' = [file EXCEPT ![c] = NothingRead]
    /\ Goto(c, "scan")
    /\ UNCHANGED <<disk, edits, tool, about, todo, undisturbed, changed>>

(* Faulty variant of StoreFile: the scan goes on with the file it has stored.  *)
StoreFileStale(c) ==
    /\ pc[c] = "store"
    /\ Ix!Put(FileURI[file[c].path], 0, file[c].text)
    /\ Goto(c, "scan")
    /\ UNCHANGED <<disk, edits, tool, about, todo, file, undisturbed, changed>>

(* ... and what was read is stored, whatever has been stored since.            *)
StoreFile(c) ==
    /\ pc[c] = "store"
    /\ Ix!Put(FileURI[file[c].path], 0, file[c].text)
    /\ file' = [file EXCEPT ![c] = NothingRead]
    /\ Goto(c, "scan")
    /\ UNCHANGED <<disk, edits, tool, about, todo, undisturbed, changed>>

ScanDone(c) ==
    /\ pc[c] = "scan"
    /\ todo[c] = {}
    /\ changed' = IF undisturbed[c] THEN {} ELSE changed
    /\ Goto(c, "answer")
    /\ UNCHANGED <<disk, edits, index, call, undisturbed>>

(* The answer is computed under the read lock, from the index of the moment;   *)
(* nothing of it is kept.                                                      *)
Response(c) == Respond(tool[c], View, disk, about[c])

Answer(c) ==
    /\ pc[c] = "answer"
    /\ tool' = [tool EXCEPT ![c] = Nothing]
    /\ about' = [about EXCEPT ![c] = Nothing]
    /\ undisturbed' = [undisturbed EXCEPT ![c] = TRUE]
    /\ Goto(c, "idle")
    /\ UNCHANGED <<disk, edits, index, todo, file, changed>>

(* Somebody writes, creates or removes a file.                                 *)
Edit(p, text) ==
    /\ edits < MaxEdits
    /\ disk[p] # text
    /\ edits' = edits + 1
    /\ disk' = [disk EXCEPT ![p] = text]
    /\ undisturbed' = [c \in Calls |-> pc[c] = "idle"]
    /\ changed' = changed \cup {p}
    /\ UNCHANGED <<index, pc, call>>

Step(c) == (\E p \in Paths : ReadFile(c, p)) \/ StoreFile(c) \/ ScanDone(c) \/ Answer(c)

Next ==
    \/ \E c \in Calls, t \in Reloads \cup {"fga_describe"} : \E x \in Arguments(t) : Call(c, t, x)
    \/ \E c \in Calls : Step(c)
    \/ \E p \in Paths : \E text \in TextsOf[p] \cup {NoFile} : Edit(p, text)

(* A call goes on by itself once made: each has a goroutine.                   *)
Spec == Init /\ [][Next]_vars /\ \A c \in Calls : WF_vars(Step(c))

-------------------------------------------------------------------------------
TypeOK ==
    /\ disk \in [Paths -> Texts \cup {NoFile}]
    /\ edits \in 0..MaxEdits
    /\ Ix!TypeOK
    /\ pc \in [Calls -> {"idle", "scan", "store", "answer"}]
    /\ tool \in [Calls -> Reloads \cup {"fga_describe", Nothing}]
    /\ about \in [Calls -> Narrowings \cup Names \cup {Nothing}]
    /\ todo \in [Calls -> SUBSET Paths]
    /\ file \in [Calls -> [path : Paths, text : Texts] \cup {NothingRead}]
    /\ \A c \in Calls : pc[c] = "store" <=> file[c] # NothingRead
    /\ undisturbed \in [Calls -> BOOLEAN]
    /\ changed \subseteq Paths

(* A file nobody has touched since a scan last ran undisturbed is answered     *)
(* from its current text by every tool: scans of concurrent calls, which store *)
(* in any order and compare no versions, do not put back an older text.        *)
IndexFollowsDisk ==
    \A p \in OnDisk(disk) \ changed :
        owner[p] # NoURI /\ entry[owner[p]].content = disk[p]

(* The files an edit removed and the index still has.                          *)
Ghosts == {u \in Docs(View) : disk[PathOf[u]] = NoFile}

(* What a server started now would answer.                                     *)
FreshResponse(c) == Respond(tool[c], ScanOf(disk), disk, about[c])

(* A long-running server answers fga_check and fga_overview as one started     *)
(* afresh would, if nothing changed during the call, no concurrent scan had    *)
(* read an older disk, and no indexed file was removed.                        *)
AnswersAsIfOpenedNow ==
    \A c \in Calls :
        (pc[c] = "answer" /\ tool[c] \in Reloads /\ undisturbed[c] /\ Ghosts = {})
            => Response(c) = FreshResponse(c)

(* The same without the last proviso: "The workspace is re-scanned on every    *)
(* fga_check and fga_overview, so edits made between calls are picked up       *)
(* without a restart" (docs/agent-api.md).  Removing a file is such an edit.   *)
EditsArePickedUp ==
    \A c \in Calls :
        (pc[c] = "answer" /\ tool[c] \in Reloads /\ undisturbed[c])
            => Response(c) = FreshResponse(c)

(* fga_check of one file says of that file what fga_check of the workspace     *)
(* says of it, although it computes from that document alone.  Not so of an    *)
(* fga.mod whose first entry is not indexed: its own check goes no further     *)
(* than the entries, while that of another module builds the set, and says of  *)
(* a member that is missing that it cannot be opened.                          *)
NarrowedCheckAgrees ==
    \A c \in Calls :
        LET of_file(problems) == {x \in problems : PathOf[x[1]] = about[c]}
            checksMembers(mod) == Listed(View, mod) # <<>> => owner[Head(Listed(View, mod))] # NoURI
        IN  (/\ pc[c] = "answer" /\ tool[c] = "fga_check" /\ about[c] # Nothing
             /\ \A mod \in DocsOfKind(View, "mod") : PathOf[mod] = about[c] => checksMembers(mod))
                => of_file(Response(c)) = of_file(CheckWorkspace(View, disk, Nothing))

(* Every tool call is answered, files removed under a scan notwithstanding.    *)
EveryCallIsAnswered == \A c \in Calls : pc[c] # "idle" ~> pc[c] = "idle"
===============================================================================
