-------------------------- MODULE McpWorkspaceProofs --------------------------
(* Proofs about McpWorkspace, for every set of files, texts and concurrent     *)
(* tool calls and any number of edits.  What makes the answers right is that   *)
(* a scan nobody disturbed shares the server only with scans nobody disturbed, *)
(* so that whatever they store, in any order, is what is on disk.              *)
EXTENDS McpWorkspace, DiagnosticsProofs

(* The text of a file is indexed as it is on disk.                             *)
UpToDate(p) == entry[FileURI[p]] # Absent /\ entry[FileURI[p]].content = disk[p]

(* Documents are indexed under the URIs the scanner derives from their paths,  *)
(* and found by their paths.                                                   *)
IndexedByFile ==
    /\ \A u \in URIs : entry[u] # Absent => PathOf[u] \in Paths /\ FileURI[PathOf[u]] = u
    /\ \A p \in Paths : owner[p] = IF entry[FileURI[p]] # Absent THEN FileURI[p] ELSE NoURI

(* Beside an undisturbed call that is not over, no scan was disturbed.         *)
UndisturbedTogether ==
    \A c, d \in Calls : pc[c] # "idle" /\ undisturbed[c] /\ Scanning(d) => undisturbed[d]

(* What was read and is not stored yet is still on disk, unless the disk       *)
(* changed during the scan and this very file was changed.                     *)
ReadsAreFresh ==
    \A c \in Calls :
        (pc[c] = "store" /\ (undisturbed[c] \/ file[c].path \notin changed))
            => file[c].text = disk[file[c].path]

(* An undisturbed scan has still to read a file, or to store it, or it is      *)
(* stored: by this scan or another.                                            *)
NothingIsSkipped ==
    \A c \in Calls :
        (Scanning(c) /\ undisturbed[c])
            => \A p \in OnDisk(disk) :
                p \in todo[c] \/ (pc[c] = "store" /\ file[c].path = p) \/ UpToDate(p)

UntouchedUpToDate == \A p \in OnDisk(disk) \ changed : UpToDate(p)

AnswersUpToDate ==
    \A c \in Calls :
        (pc[c] = "answer" /\ tool[c] \in Reloads /\ undisturbed[c])
            => \A p \in OnDisk(disk) : UpToDate(p)

IInv ==
    /\ TypeOK
    /\ IndexedByFile
    /\ UndisturbedTogether
    /\ ReadsAreFresh
    /\ NothingIsSkipped
    /\ UntouchedUpToDate
    /\ AnswersUpToDate

(* Storing a file from disk always replaces what is indexed under its URI, and *)
(* the document answers for the file.                                          *)
LEMMA PutFile ==
    ASSUME Ix!TypeOK, NEW p \in Paths, NEW text, Ix!Put(FileURI[p], 0, text)
    PROVE  /\ FileURI[p] \in URIs /\ PathOf[FileURI[p]] = p
           /\ entry' = [entry EXCEPT ![FileURI[p]] = [version |-> 0, content |-> text]]
           /\ owner' = [owner EXCEPT ![p] = FileURI[p]]
  BY PathAssumption, FileURIAssumption DEF Ix!Put, Ix!Outdated

(* Nothing is being read at first, and the index is what a scan makes of the   *)
(* disk.                                                                       *)
LEMMA InitIInv == Init => IInv
<1> SUFFICES ASSUME Init PROVE IInv
  OBVIOUS
<1> USE PathAssumption, FileURIAssumption, DiskAssumption, AbsentAssumption
<1>1. disk \in [Paths -> Texts \cup {NoFile}]
  BY DEF Init
<1>2. \A p \in OnDisk(disk) : /\ p \in Paths /\ disk[p] \in Texts
                              /\ [version |-> 0, content |-> disk[p]] \in Ix!Entry
  BY <1>1 DEF OnDisk, Ix!Entry
<1>3. entry = [u \in URIs |-> IF PathOf[u] \in OnDisk(disk) /\ FileURI[PathOf[u]] = u
                              THEN [version |-> 0, content |-> disk[PathOf[u]]]
                              ELSE Absent]
      /\ owner = [p \in Paths |-> IF p \in OnDisk(disk) THEN FileURI[p] ELSE NoURI]
  BY DEF Init, ScanOf
<1>4. Ix!TypeOK
  BY <1>2, <1>3 DEF Ix!TypeOK
<1>5. TypeOK
  BY <1>1, <1>4, CallsAssumption DEF Init, TypeOK
<1>6. ASSUME NEW p \in Paths
      PROVE  entry[FileURI[p]] = IF p \in OnDisk(disk) THEN [version |-> 0, content |-> disk[p]]
                                                       ELSE Absent
  <2>1. FileURI[p] \in URIs /\ PathOf[FileURI[p]] = p
    OBVIOUS
  <2> QED BY <1>3, <2>1
<1>7. /\ \A p \in OnDisk(disk) : UpToDate(p)
      /\ \A p \in Paths : entry[FileURI[p]] # Absent <=> p \in OnDisk(disk)
  <2>1. ASSUME NEW p \in OnDisk(disk)
        PROVE  entry[FileURI[p]] # Absent /\ entry[FileURI[p]].content = disk[p]
    <3>1. entry[FileURI[p]] = [version |-> 0, content |-> disk[p]]
      BY <1>2, <1>6
    <3>2. [version |-> 0, content |-> disk[p]] # Absent
      BY <1>2
    <3> QED BY <3>1, <3>2
  <2> QED BY <1>6, <2>1 DEF UpToDate
<1>8. IndexedByFile
  BY <1>2, <1>3, <1>7 DEF IndexedByFile
<1>9. UndisturbedTogether /\ ReadsAreFresh /\ NothingIsSkipped /\ UntouchedUpToDate /\ AnswersUpToDate
  BY <1>7 DEF Init, UndisturbedTogether, ReadsAreFresh, NothingIsSkipped, UntouchedUpToDate,
              AnswersUpToDate, Scanning
<1> QED BY <1>5, <1>8, <1>9 DEF IInv

(* A call that scans has every file on disk before it, and is undisturbed only *)
(* if the scans it joins are.                                                  *)
LEMMA CallIInv ==
    ASSUME IInv, NEW c \in Calls, NEW t \in Reloads \cup {"fga_describe"}, NEW x \in Arguments(t),
           Call(c, t, x)
    PROVE  IInv'
<1> USE DEF IInv
<1>1. /\ pc[c] = "idle"
      /\ tool' = [tool EXCEPT ![c] = t] /\ about' = [about EXCEPT ![c] = x]
      /\ todo' = [todo EXCEPT ![c] = IF t \in Reloads THEN OnDisk(disk) ELSE {}]
      /\ pc' = [pc EXCEPT ![c] = IF t \in Reloads THEN "scan" ELSE "answer"]
      /\ undisturbed' = [undisturbed EXCEPT ![c] = \A d \in Calls : Scanning(d) => undisturbed[d]]
      /\ UNCHANGED <<disk, edits, entry, owner, file, changed>>
  BY DEF Call, Goto, index
<1>2. TypeOK'
  <2>1. x \in Narrowings \cup Names \cup {Nothing}
    BY DEF Arguments, Reloads
  <2>2. OnDisk(disk) \in SUBSET Paths
    BY DEF OnDisk
  <2>3. Ix!TypeOK'
    BY <1>1 DEF TypeOK, Ix!TypeOK
  <2>4. /\ pc' \in [Calls -> {"idle", "scan", "store", "answer"}]
        /\ tool' \in [Calls -> Reloads \cup {"fga_describe", Nothing}]
        /\ about' \in [Calls -> Narrowings \cup Names \cup {Nothing}]
        /\ todo' \in [Calls -> SUBSET Paths]
        /\ undisturbed' \in [Calls -> BOOLEAN]
    BY <1>1, <2>1, <2>2 DEF TypeOK
  <2>5. \A d \in Calls : pc'[d] = "store" <=> file'[d] # NothingRead
    BY <1>1 DEF TypeOK
  <2> QED BY <1>1, <2>3, <2>4, <2>5 DEF TypeOK
<1>3. IndexedByFile' /\ UntouchedUpToDate'
  BY <1>1 DEF IndexedByFile, UntouchedUpToDate, UpToDate, OnDisk
<1>4. UndisturbedTogether'
  <2> SUFFICES ASSUME NEW d \in Calls, NEW e \in Calls,
                      pc'[d] # "idle", undisturbed'[d], Scanning(e)'
               PROVE  undisturbed'[e]
    BY DEF UndisturbedTogether
  <2>1. \A f \in Calls : Scanning(f) => undisturbed[f]
    BY <1>1 DEF UndisturbedTogether, TypeOK
  <2>2. undisturbed'[c]
    BY <1>1, <2>1 DEF TypeOK
  <2>3. e # c => Scanning(e) /\ undisturbed'[e] = undisturbed[e]
    BY <1>1 DEF Scanning, TypeOK
  <2> QED BY <2>1, <2>2, <2>3
<1>5. ReadsAreFresh'
  BY <1>1 DEF ReadsAreFresh, TypeOK
<1>6. NothingIsSkipped'
  BY <1>1 DEF NothingIsSkipped, Scanning, UpToDate, OnDisk, TypeOK
<1>7. AnswersUpToDate'
  BY <1>1 DEF AnswersUpToDate, UpToDate, OnDisk, TypeOK
<1> QED BY <1>2, <1>3, <1>4, <1>5, <1>6, <1>7

(* A file read is no longer to be read, and to be stored with the text it has. *)
LEMMA ReadFileIInv ==
    ASSUME IInv, NEW c \in Calls, NEW p \in Paths, ReadFile(c, p)
    PROVE  IInv'
<1> USE DEF IInv
<1>1. /\ pc[c] = "scan" /\ p \in todo[c]
      /\ todo' = [todo EXCEPT ![c] = @ \ {p}]
      /\ IF disk[p] = NoFile
         THEN file' = file /\ pc' = pc
         ELSE /\ file' = [file EXCEPT ![c] = [path |-> p, text |-> disk[p]]]
              /\ pc' = [pc EXCEPT ![c] = "store"]
      /\ UNCHANGED <<disk, edits, entry, owner, tool, about, undisturbed, changed>>
  BY DEF ReadFile, NextFile, Goto, index
<1>2. disk[p] # NoFile => [path |-> p, text |-> disk[p]] \in [path : Paths, text : Texts]
  BY DEF TypeOK
<1>3. [path |-> p, text |-> disk[p]] # NothingRead
  BY PathAssumption DEF NothingRead
<1>4. TypeOK'
  <2>1. Ix!TypeOK'
    BY <1>1 DEF TypeOK, Ix!TypeOK
  <2>2. todo' \in [Calls -> SUBSET Paths]
    BY <1>1 DEF TypeOK
  <2>3. /\ pc' \in [Calls -> {"idle", "scan", "store", "answer"}]
        /\ file' \in [Calls -> [path : Paths, text : Texts] \cup {NothingRead}]
    BY <1>1, <1>2 DEF TypeOK
  <2>4. \A d \in Calls : pc'[d] = "store" <=> file'[d] # NothingRead
    BY <1>1, <1>3 DEF TypeOK
  <2> QED BY <1>1, <2>1, <2>2, <2>3, <2>4 DEF TypeOK
<1>5. IndexedByFile' /\ UntouchedUpToDate'
  BY <1>1 DEF IndexedByFile, UntouchedUpToDate, UpToDate, OnDisk
<1>6. \A d \in Calls : Scanning(d)' <=> Scanning(d)
  BY <1>1 DEF Scanning, TypeOK
<1>7. \A d \in Calls : pc'[d] # "idle" <=> pc[d] # "idle"
  BY <1>1 DEF TypeOK
<1>8. UndisturbedTogether'
  BY <1>1, <1>6, <1>7 DEF UndisturbedTogether
<1>9. ReadsAreFresh'
  BY <1>1 DEF ReadsAreFresh, TypeOK
<1>10. NothingIsSkipped'
  <2> SUFFICES ASSUME NEW d \in Calls, Scanning(d), undisturbed[d], NEW q \in OnDisk(disk)
               PROVE  q \in todo'[d] \/ (pc'[d] = "store" /\ file'[d].path = q) \/ UpToDate(q)'
    BY <1>1, <1>6 DEF NothingIsSkipped, OnDisk
  <2>1. q \in todo[d] \/ (pc[d] = "store" /\ file[d].path = q) \/ UpToDate(q)
    BY DEF NothingIsSkipped
  <2>2. UpToDate(q) => UpToDate(q)'
    BY <1>1 DEF UpToDate
  <2>3. CASE d # c
    BY <1>1, <2>1, <2>2, <2>3 DEF TypeOK
  <2>4. CASE d = c
    BY <1>1, <2>1, <2>2, <2>4 DEF TypeOK, OnDisk
  <2> QED BY <2>3, <2>4
<1>11. AnswersUpToDate'
  BY <1>1 DEF AnswersUpToDate, UpToDate, OnDisk, TypeOK
<1> QED BY <1>4, <1>5, <1>8, <1>9, <1>10, <1>11

(* A store never makes a file out of date that was not going to be: if anybody *)
(* relies on the file, what is stored is the text on disk.                     *)
LEMMA StoreFileIInv ==
    ASSUME IInv, NEW c \in Calls, StoreFile(c)
    PROVE  IInv'
<1> USE DEF IInv
<1> DEFINE p == file[c].path
           text == file[c].text
<1>1. /\ pc[c] = "store" /\ pc' = [pc EXCEPT ![c] = "scan"]
      /\ file' = [file EXCEPT ![c] = NothingRead]
      /\ UNCHANGED <<disk, edits, tool, about, todo, undisturbed, changed>>
      /\ Ix!Put(FileURI[p], 0, text)
  BY DEF StoreFile, Goto
<1>2. p \in Paths /\ text \in Texts
  BY <1>1 DEF TypeOK
<1>3. /\ FileURI[p] \in URIs /\ PathOf[FileURI[p]] = p
      /\ entry' = [entry EXCEPT ![FileURI[p]] = [version |-> 0, content |-> text]]
      /\ owner' = [owner EXCEPT ![p] = FileURI[p]]
  BY <1>1, <1>2, PutFile DEF TypeOK
<1>4. [version |-> 0, content |-> text] \in Ix!Entry /\ [version |-> 0, content |-> text] # Absent
  BY <1>2, AbsentAssumption DEF Ix!Entry
<1>5. entry \in [URIs -> Ix!Entry \cup {Absent}] /\ owner \in [Paths -> URIs \cup {NoURI}]
  BY DEF TypeOK, Ix!TypeOK
<1>6. entry' \in [URIs -> Ix!Entry \cup {Absent}] /\ owner' \in [Paths -> URIs \cup {NoURI}]
  BY <1>3, <1>4, <1>5
<1>7. \A q \in Paths : /\ q # p => FileURI[q] # FileURI[p]
                       /\ entry'[FileURI[q]] = IF q = p THEN [version |-> 0, content |-> text]
                                                        ELSE entry[FileURI[q]]
  BY <1>2, <1>3, <1>5, FileURIAssumption
<1>8. \A q \in Paths : IF q = p THEN text = disk[p] => UpToDate(q)' ELSE UpToDate(q)' <=> UpToDate(q)
  BY <1>1, <1>2, <1>4, <1>7 DEF UpToDate
<1>9. undisturbed[c] \/ p \notin changed => text = disk[p]
  BY <1>1 DEF ReadsAreFresh
<1>10. TypeOK'
  <2>1. Ix!TypeOK'
    BY <1>6 DEF Ix!TypeOK, Ix!Entry
  <2>2. /\ pc' \in [Calls -> {"idle", "scan", "store", "answer"}]
        /\ file' \in [Calls -> [path : Paths, text : Texts] \cup {NothingRead}]
        /\ \A d \in Calls : pc'[d] = "store" <=> file'[d] # NothingRead
    BY <1>1 DEF TypeOK
  <2> QED BY <1>1, <2>1, <2>2 DEF TypeOK
<1>11. IndexedByFile'
  <2>1. ASSUME NEW u \in URIs, entry'[u] # Absent
        PROVE  PathOf[u] \in Paths /\ FileURI[PathOf[u]] = u
    BY <2>1, <1>2, <1>3, <1>5 DEF IndexedByFile
  <2>2. ASSUME NEW q \in Paths
        PROVE  owner'[q] = IF entry'[FileURI[q]] # Absent THEN FileURI[q] ELSE NoURI
    BY <1>2, <1>3, <1>4, <1>5, <1>7 DEF IndexedByFile
  <2> QED BY <2>1, <2>2 DEF IndexedByFile
<1>12. \A d \in Calls : /\ Scanning(d)' <=> Scanning(d)
                        /\ pc'[d] # "idle" <=> pc[d] # "idle"
  BY <1>1 DEF Scanning, TypeOK
<1>13. UndisturbedTogether'
  BY <1>1, <1>12 DEF UndisturbedTogether
<1>14. ReadsAreFresh'
  BY <1>1 DEF ReadsAreFresh, TypeOK
<1>15. \A d \in Calls : pc[d] # "idle" /\ undisturbed[d] => text = disk[p]
  BY <1>1, <1>9 DEF UndisturbedTogether, Scanning
<1>16. NothingIsSkipped'
  <2> SUFFICES ASSUME NEW d \in Calls, Scanning(d), undisturbed[d], NEW q \in OnDisk(disk)
               PROVE  q \in todo'[d] \/ (pc'[d] = "store" /\ file'[d].path = q) \/ UpToDate(q)'
    BY <1>1, <1>12 DEF NothingIsSkipped, OnDisk
  <2>1. q \in Paths /\ (q \in todo[d] \/ (pc[d] = "store" /\ file[d].path = q) \/ UpToDate(q))
    BY DEF NothingIsSkipped, OnDisk
  <2>2. CASE q = p
    BY <2>1, <2>2, <1>8, <1>15 DEF Scanning
  <2>3. CASE q # p
    BY <2>1, <2>3, <1>1, <1>8 DEF TypeOK
  <2> QED BY <2>2, <2>3
<1>17. UntouchedUpToDate'
  BY <1>1, <1>8, <1>9 DEF UntouchedUpToDate, OnDisk
<1>18. AnswersUpToDate'
  <2> SUFFICES ASSUME NEW d \in Calls, pc'[d] = "answer", tool[d] \in Reloads, undisturbed[d],
                      NEW q \in OnDisk(disk)
               PROVE  UpToDate(q)'
    BY <1>1 DEF AnswersUpToDate, OnDisk
  <2>1. pc[d] = "answer" /\ q \in Paths
    BY <1>1 DEF TypeOK, OnDisk
  <2>2. UpToDate(q) /\ text = disk[p]
    BY <2>1, <1>15 DEF AnswersUpToDate
  <2> QED BY <2>1, <2>2, <1>8
<1> QED BY <1>10, <1>11, <1>13, <1>14, <1>16, <1>17, <1>18

(* An undisturbed scan that is done has left every file up to date.            *)
LEMMA ScanDoneIInv ==
    ASSUME IInv, NEW c \in Calls, ScanDone(c)
    PROVE  IInv'
<1> USE DEF IInv
<1>1. /\ pc[c] = "scan" /\ todo[c] = {} /\ pc' = [pc EXCEPT ![c] = "answer"]
      /\ changed' = IF undisturbed[c] THEN {} ELSE changed
      /\ UNCHANGED <<disk, edits, entry, owner, tool, about, todo, file, undisturbed>>
  BY DEF ScanDone, Goto, index, call
<1>2. TypeOK'
  BY <1>1 DEF TypeOK, Ix!TypeOK
<1>3. undisturbed[c] => \A p \in OnDisk(disk) : UpToDate(p)
  BY <1>1 DEF NothingIsSkipped, Scanning
<1>4. IndexedByFile'
  BY <1>1 DEF IndexedByFile
<1>5. UndisturbedTogether'
  BY <1>1 DEF UndisturbedTogether, Scanning, TypeOK
<1>6. ReadsAreFresh'
  <2> SUFFICES ASSUME NEW d \in Calls, pc'[d] = "store", undisturbed[d] \/ file[d].path \notin changed'
               PROVE  file[d].text = disk[file[d].path]
    BY <1>1 DEF ReadsAreFresh
  <2>1. pc[d] = "store"
    BY <1>1 DEF TypeOK
  <2>2. undisturbed[c] => undisturbed[d]
    BY <2>1, <1>1 DEF UndisturbedTogether, Scanning
  <2> QED BY <2>1, <2>2, <1>1 DEF ReadsAreFresh
<1>7. NothingIsSkipped'
  BY <1>1 DEF NothingIsSkipped, Scanning, UpToDate, OnDisk, TypeOK
<1>8. UntouchedUpToDate'
  BY <1>1, <1>3 DEF UntouchedUpToDate, UpToDate, OnDisk
<1>9. AnswersUpToDate'
  BY <1>1, <1>3 DEF AnswersUpToDate, UpToDate, OnDisk, TypeOK
<1> QED BY <1>2, <1>4, <1>5, <1>6, <1>7, <1>8, <1>9

(* An answer changes nothing but the call that gets it.                       *)
LEMMA AnswerIInv ==
    ASSUME IInv, NEW c \in Calls, Answer(c)
    PROVE  IInv'
<1> USE DEF IInv
<1>1. /\ pc[c] = "answer" /\ pc' = [pc EXCEPT ![c] = "idle"]
      /\ tool' = [tool EXCEPT ![c] = Nothing] /\ about' = [about EXCEPT ![c] = Nothing]
      /\ undisturbed' = [undisturbed EXCEPT ![c] = TRUE]
      /\ UNCHANGED <<disk, edits, entry, owner, todo, file, changed>>
  BY DEF Answer, Goto, index
<1>2. TypeOK'
  BY <1>1 DEF TypeOK, Ix!TypeOK
<1>3. IndexedByFile' /\ UntouchedUpToDate'
  BY <1>1 DEF IndexedByFile, UntouchedUpToDate, UpToDate, OnDisk
<1>4. UndisturbedTogether' /\ ReadsAreFresh'
  BY <1>1 DEF UndisturbedTogether, ReadsAreFresh, Scanning, TypeOK
<1>5. NothingIsSkipped' /\ AnswersUpToDate'
  BY <1>1 DEF NothingIsSkipped, AnswersUpToDate, Scanning, UpToDate, OnDisk, TypeOK
<1> QED BY <1>2, <1>3, <1>4, <1>5

(* An edit disturbs every call in progress, and only the file it touches is    *)
(* out of date.                                                                *)
LEMMA EditIInv ==
    ASSUME IInv, NEW p \in Paths, NEW text \in TextsOf[p] \cup {NoFile}, Edit(p, text)
    PROVE  IInv'
<1> USE DEF IInv
<1>1. /\ edits < MaxEdits /\ edits' = edits + 1
      /\ disk' = [disk EXCEPT ![p] = text]
      /\ undisturbed' = [c \in Calls |-> pc[c] = "idle"]
      /\ changed' = changed \cup {p}
      /\ UNCHANGED <<entry, owner, pc, tool, about, todo, file>>
  BY DEF Edit, index, call
<1>2. TypeOK'
  <2>1. text \in Texts \cup {NoFile}
    BY DEF Texts
  <2>2. Ix!TypeOK'
    BY <1>1 DEF TypeOK, Ix!TypeOK
  <2>3. disk' \in [Paths -> Texts \cup {NoFile}] /\ changed' \subseteq Paths
    BY <1>1, <2>1 DEF TypeOK
  <2>4. edits' \in 0..MaxEdits
    BY <1>1, CallsAssumption DEF TypeOK
  <2>5. undisturbed' \in [Calls -> BOOLEAN]
    BY <1>1
  <2> QED BY <1>1, <2>2, <2>3, <2>4, <2>5 DEF TypeOK
<1>3. IndexedByFile'
  BY <1>1 DEF IndexedByFile
<1>4. \A q \in Paths : q \notin changed' => q # p /\ q \notin changed /\ disk'[q] = disk[q]
  BY <1>1 DEF TypeOK
<1>5. UntouchedUpToDate'
  BY <1>1, <1>4 DEF UntouchedUpToDate, UpToDate, OnDisk
<1>6. \A c \in Calls : pc[c] # "idle" => ~undisturbed'[c]
  BY <1>1
<1>7. UndisturbedTogether' /\ NothingIsSkipped' /\ AnswersUpToDate'
  BY <1>1, <1>6 DEF UndisturbedTogether, NothingIsSkipped, AnswersUpToDate, Scanning
<1>8. ReadsAreFresh'
  <2> SUFFICES ASSUME NEW c \in Calls, pc[c] = "store", file[c].path \notin changed'
               PROVE  file[c].text = disk'[file[c].path]
    BY <1>1, <1>6 DEF ReadsAreFresh
  <2>1. file[c].path \in Paths
    BY DEF TypeOK
  <2> QED BY <2>1, <1>4 DEF ReadsAreFresh
<1> QED BY <1>2, <1>3, <1>5, <1>7, <1>8

(* Every step preserves the invariant.                                        *)
LEMMA NextIInv == IInv /\ [Next]_vars => IInv'
<1> SUFFICES ASSUME IInv, [Next]_vars PROVE IInv'
  OBVIOUS
<1>1. CASE UNCHANGED vars
  BY <1>1 DEF vars, index, call, IInv, TypeOK, Ix!TypeOK, IndexedByFile, UndisturbedTogether,
              ReadsAreFresh, NothingIsSkipped, UntouchedUpToDate, AnswersUpToDate,
              Scanning, UpToDate, OnDisk
<1>2. ASSUME NEW c \in Calls, NEW t \in Reloads \cup {"fga_describe"}, NEW x \in Arguments(t), Call(c, t, x)
      PROVE  IInv'
  BY <1>2, CallIInv
<1>3. ASSUME NEW c \in Calls, Step(c) PROVE IInv'
  BY <1>3, ReadFileIInv, StoreFileIInv, ScanDoneIInv, AnswerIInv DEF Step
<1>4. ASSUME NEW p \in Paths, NEW text \in TextsOf[p] \cup {NoFile}, Edit(p, text) PROVE IInv'
  BY <1>4, EditIInv
<1> QED BY <1>1, <1>2, <1>3, <1>4 DEF Next

-------------------------------------------------------------------------------
(* The inductive invariant holds in every reachable state.                     *)
THEOREM InductiveInvariant == Spec => []IInv
  BY InitIInv, NextIInv, PTL DEF Spec

(* The variables of the agent's server keep their types, and a file is at hand *)
(* exactly between its read and its store.                                     *)
THEOREM TypeCorrect == Spec => []TypeOK
  BY InductiveInvariant, PTL DEF IInv

(* A file that was not written since a scan last ended undisturbed is indexed  *)
(* with its current text, for any number of calls that scan at the same time   *)
(* and store versionless texts in any order.                                   *)
THEOREM IndexAlwaysFollowsDisk == Spec => []IndexFollowsDisk
<1>1. IInv => IndexFollowsDisk
  BY PathAssumption, FileURIAssumption
  DEF IInv, IndexedByFile, UntouchedUpToDate, UpToDate, IndexFollowsDisk, OnDisk
<1> QED BY <1>1, InductiveInvariant, PTL

(* With every file up to date and no ghost, the index is what a scan makes of  *)
(* the disk.                                                                   *)
LEMMA ViewIsScan ==
    ASSUME IInv, \A p \in OnDisk(disk) : UpToDate(p), Ghosts = {}
    PROVE  View = ScanOf(disk)
<1> USE PathAssumption, FileURIAssumption
<1>1. entry \in [URIs -> Ix!Entry \cup {Absent}] /\ owner \in [Paths -> URIs \cup {NoURI}]
  BY DEF IInv, TypeOK, Ix!TypeOK
<1>2. ASSUME NEW u \in URIs
      PROVE  entry[u] = IF PathOf[u] \in OnDisk(disk) /\ FileURI[PathOf[u]] = u
                        THEN [version |-> 0, content |-> disk[PathOf[u]]]
                        ELSE Absent
  <2>1. CASE entry[u] = Absent
    <3>1. ~(PathOf[u] \in OnDisk(disk) /\ FileURI[PathOf[u]] = u)
      BY <2>1 DEF UpToDate
    <3> QED BY <2>1, <3>1
  <2>2. CASE entry[u] # Absent
    <3>1. PathOf[u] \in Paths /\ FileURI[PathOf[u]] = u
      BY <2>2 DEF IInv, IndexedByFile
    <3>2. PathOf[u] \in OnDisk(disk)
      BY <2>2, <3>1 DEF Ghosts, Docs, View, OnDisk
    <3>3. entry[u].content = disk[PathOf[u]]
      BY <3>1, <3>2 DEF UpToDate
    <3>4. entry[u] \in [version : {0}, content : Texts]
      BY <1>1, <2>2 DEF Ix!Entry
    <3>5. entry[u] = [version |-> 0, content |-> disk[PathOf[u]]]
      BY <3>3, <3>4
    <3> QED BY <3>1, <3>2, <3>5
  <2> QED BY <2>1, <2>2
<1>3. ASSUME NEW p \in Paths
      PROVE  owner[p] = IF p \in OnDisk(disk) THEN FileURI[p] ELSE NoURI
  <2>1. entry[FileURI[p]] # Absent <=> p \in OnDisk(disk)
    <3>1. FileURI[p] \in URIs /\ PathOf[FileURI[p]] = p
      OBVIOUS
    <3>2. p \in OnDisk(disk) => entry[FileURI[p]] # Absent
      BY DEF UpToDate
    <3> QED BY <3>1, <3>2 DEF Ghosts, Docs, View, OnDisk
  <2> QED BY <2>1 DEF IInv, IndexedByFile
<1>4. entry = ScanOf(disk).entry
  BY <1>1, <1>2 DEF ScanOf
<1>5. owner = ScanOf(disk).owner
  BY <1>1, <1>3 DEF ScanOf
<1> QED BY <1>4, <1>5 DEF View, ScanOf

(* fga_check and fga_overview answer as a server started at that moment would, *)
(* whatever the texts say, if nothing changed during the call, the scans it    *)
(* ran beside were undisturbed and no indexed file is gone.                    *)
THEOREM AlwaysAnswersAsIfOpenedNow == Spec => []AnswersAsIfOpenedNow
<1>1. IInv => AnswersAsIfOpenedNow
  <2> SUFFICES ASSUME IInv, NEW c \in Calls, pc[c] = "answer", tool[c] \in Reloads, undisturbed[c],
                      Ghosts = {}
               PROVE  Response(c) = FreshResponse(c)
    BY DEF AnswersAsIfOpenedNow
  <2>1. \A p \in OnDisk(disk) : UpToDate(p)
    BY DEF IInv, AnswersUpToDate
  <2> QED BY <2>1, ViewIsScan DEF Response, FreshResponse
<1> QED BY <1>1, InductiveInvariant, PTL

-------------------------------------------------------------------------------
(* A text read from a file, or indexed for it, is one that file can have.      *)
TextsFit ==
    /\ \A p \in Paths : disk[p] \in TextsOf[p] \cup {NoFile}
    /\ \A c \in Calls : pc[c] = "store" => file[c].text \in TextsOf[file[c].path]
    /\ \A u \in URIs : entry[u] # Absent => entry[u].content \in TextsOf[PathOf[u]]

(* Files and documents keep to the texts of their paths.                       *)
LEMMA TextsAlwaysFit == Spec => []TextsFit
<1> USE PathAssumption, FileURIAssumption
<1>1. Init => TextsFit
  <2> SUFFICES ASSUME Init PROVE TextsFit
    OBVIOUS
  <2>1. \A p \in Paths : disk[p] \in TextsOf[p] \cup {NoFile}
    BY DiskAssumption DEF Init
  <2>2. ASSUME NEW u \in URIs, entry[u] # Absent PROVE entry[u].content \in TextsOf[PathOf[u]]
    BY <2>1, <2>2 DEF Init, ScanOf, OnDisk
  <2> QED BY <2>1, <2>2 DEF Init, TextsFit
<1>2. IInv /\ TextsFit /\ [Next]_vars => TextsFit'
  <2> SUFFICES ASSUME IInv, TextsFit, [Next]_vars PROVE TextsFit'
    OBVIOUS
  <2> USE DEF TextsFit
  <2>1. TypeOK /\ Ix!TypeOK
    BY DEF IInv, TypeOK
  <2>2. CASE UNCHANGED vars
    BY <2>2 DEF vars, index, call
  <2>3. ASSUME NEW c \in Calls, NEW t \in Reloads \cup {"fga_describe"}, NEW x \in Arguments(t), Call(c, t, x)
        PROVE  TextsFit'
    <3>1. UNCHANGED <<disk, entry, file>> /\ \A d \in Calls : pc'[d] = "store" => pc[d] = "store"
      BY <2>1, <2>3 DEF Call, Goto, TypeOK, index
    <3> QED BY <3>1
  <2>4. ASSUME NEW c \in Calls, NEW p \in Paths, ReadFile(c, p) PROVE TextsFit'
    BY <2>1, <2>4 DEF ReadFile, NextFile, Goto, TypeOK, index
  <2>5. ASSUME NEW c \in Calls, StoreFile(c) PROVE TextsFit'
    <3>1. /\ pc[c] = "store" /\ file[c].path \in Paths /\ UNCHANGED disk
          /\ \A d \in Calls : pc'[d] = "store" => pc[d] = "store" /\ file'[d] = file[d]
      BY <2>1, <2>5 DEF StoreFile, Goto, TypeOK
    <3>2. /\ PathOf[FileURI[file[c].path]] = file[c].path
          /\ entry' = [entry EXCEPT ![FileURI[file[c].path]] = [version |-> 0, content |-> file[c].text]]
      BY <2>1, <2>5, <3>1, PutFile DEF StoreFile
    <3>3. \A u \in URIs : entry'[u] = IF u = FileURI[file[c].path] THEN [version |-> 0, content |-> file[c].text]
                                                                 ELSE entry[u]
      BY <2>1, <3>2 DEF Ix!TypeOK
    <3> QED BY <3>1, <3>2, <3>3
  <2>6. ASSUME NEW c \in Calls, ScanDone(c) \/ Answer(c) PROVE TextsFit'
    <3>1. UNCHANGED <<disk, entry, file>> /\ \A d \in Calls : pc'[d] = "store" => pc[d] = "store"
      BY <2>1, <2>6 DEF ScanDone, Answer, Goto, TypeOK, index, call
    <3> QED BY <3>1
  <2>7. ASSUME NEW p \in Paths, NEW text \in TextsOf[p] \cup {NoFile}, Edit(p, text) PROVE TextsFit'
    BY <2>1, <2>7 DEF Edit, TypeOK, index, call
  <2> QED BY <2>2, <2>3, <2>4, <2>5, <2>6, <2>7 DEF Next, Step
<1> QED BY <1>1, <1>2, InductiveInvariant, PTL DEF Spec

(* So what is indexed can be resolved, and whoever answers for a file is       *)
(* stored.                                                                     *)
LEMMA ViewFits ==
    ASSUME IInv, TextsFit
    PROVE  ViewOK(View) /\ OwnersStored(View)
<1> USE PathAssumption, FileURIAssumption
<1>1. owner \in [Paths -> URIs \cup {NoURI}] /\ View.owner = owner /\ View.entry = entry
  BY DEF IInv, TypeOK, Ix!TypeOK, View
<1>2. \A p \in Paths : owner[p] # NoURI => owner[p] = FileURI[p] /\ entry[owner[p]] # Absent
  BY DEF IInv, IndexedByFile
<1>3. ASSUME NEW u \in Docs(View), Kind(u) # "unknown"
      PROVE  /\ PathOf[u] \in Paths /\ Kind(u) = KindOf[PathOf[u]]
             /\ entry[u].content \in TextsOf[PathOf[u]] /\ Text(View, u) = Parse[entry[u].content]
  BY <1>1, <1>3, KindsAreOfFiles DEF TextsFit, Docs, Text
<1>4. \A m \in DocsOfKind(View, "mod") : Listed(View, m) \in Seq({q \in Paths : KindOf[q] = "model"})
  BY <1>3, ParseAssumption DEF Listed, DocsOfKind
<1>5. \A s \in DocsOfKind(View, "store") : Text(View, s).model \in Paths \cup {NoPath}
  <2> SUFFICES ASSUME NEW s \in DocsOfKind(View, "store") PROVE Text(View, s).model \in Paths \cup {NoPath}
    OBVIOUS
  <2>1. s \in Docs(View) /\ Kind(s) = "store"
    BY DEF DocsOfKind
  <2>2. KindOf[PathOf[s]] = "store" /\ PathOf[s] \in Paths /\ entry[s].content \in TextsOf[PathOf[s]]
    BY <1>3, <2>1
  <2>3. Parse[entry[s].content].model \in Paths \cup {NoPath}
    BY <2>2, ParseAssumption
  <2> QED BY <1>3, <2>1, <2>3
<1> QED BY <1>1, <1>2, <1>4, <1>5 DEF ViewOK, OwnersStored, Docs

(* fga_check of one file reports of that file what fga_check of the workspace  *)
(* reports of it, whatever the files say, if no file is listed by two fga.mod  *)
(* files and the first entry of the fga.mod, if it is one, is indexed.  If a   *)
(* file is, checking a module may use another set for it than the module has   *)
(* itself.                                                                     *)
THEOREM NarrowedChecksAlwaysAgree == Spec => [](OneModPerFile(View) => NarrowedCheckAgrees)
<1>1. IInv /\ TextsFit => (OneModPerFile(View) => NarrowedCheckAgrees)
  <2> SUFFICES ASSUME IInv, TextsFit, OneModPerFile(View), NEW c \in Calls,
                      tool[c] = "fga_check", about[c] # Nothing,
                      \A u \in DocsOfKind(View, "mod") : PathOf[u] = about[c] => FirstIndexed(View, u)
               PROVE  LET of_file(problems) == {x \in problems : PathOf[x[1]] = about[c]}
                      IN  of_file(Response(c)) = of_file(CheckWorkspace(View, disk, Nothing))
    BY DEF NarrowedCheckAgrees, FirstIndexed, View
  <2> DEFINE of_file(problems) == {x \in problems : PathOf[x[1]] = about[c]}
             narrow == CheckWorkspace(View, disk, about[c])
             whole == CheckWorkspace(View, disk, Nothing)
  <2>1. Response(c) = narrow
    BY DEF Response, Respond
  <2>2. narrow \subseteq whole
    BY DEF CheckWorkspace, Checked
  <2>3. ASSUME NEW y \in whole, PathOf[y[1]] = about[c] PROVE y \in narrow
    <3>1. PICK w \in Checked(View, Nothing) : y \in Reported(Compute(View, disk, w))
      BY DEF CheckWorkspace
    <3>2. w \in Docs(View) /\ Kind(w) # "unknown"
      BY <3>1 DEF Checked
    <3>3. PICK x \in DOMAIN Compute(View, disk, w) : y \in {x} \X Compute(View, disk, w)[x]
      BY <3>1 DEF Reported
    <3>4. y = <<x, y[2]>> /\ y[1] = x /\ y[2] \in Compute(View, disk, w)[x]
      BY <3>3
    <3>5. x \in Docs(View) /\ Kind(x) # "unknown" /\ y[2] \in Current(View, disk, x)
      <4>1. FirstIndexed(View, x)
        BY <2>3, <3>4 DEF FirstIndexed
      <4> QED BY <3>2, <3>4, <4>1, ViewFits, ProblemsAreOwn
    <3>6. x \in Checked(View, about[c])
      BY <2>3, <3>4, <3>5 DEF Checked
    <3>7. x \in DOMAIN Compute(View, disk, x)
      BY <3>5, ViewFits, ComputeTouches
    <3>8. y \in Reported(Compute(View, disk, x))
      BY <3>4, <3>5, <3>7 DEF Reported, Current
    <3> QED BY <3>6, <3>8 DEF CheckWorkspace
  <2>4. of_file(Response(c)) = of_file(whole)
    <3> HIDE DEF narrow, whole
    <3> QED BY <2>1, <2>2, <2>3
  <2> QED BY <2>4
<1> QED BY <1>1, InductiveInvariant, TextsAlwaysFit, PTL
===============================================================================
