------------------------ MODULE AtomicImageFile_proof ------------------------
(****************************************************************************)
(* Proofs about AtomicImageFile, for images of any number of pieces and any *)
(* number of saves, when at most one process saves to a path: whoever reads *)
(* path finds a whole image, a save reported Ok survives a power failure,   *)
(* and a failed one leaves the last good image.  For two processes the      *)
(* first of them does not hold.                                             *)
(****************************************************************************)
EXTENDS AtomicImageFile, TLAPS

\* The processes that save to this path are at most one.
Alone == \A p, q \in Processes : p = q

--------------------------------------------------------------------------------
(* The inductive invariant.  What a power failure can bring to light is any *)
(* directory in directories with any pieces in onDisk, so it speaks of all  *)
(* of those, and not of what is visible now.                                *)

\* The disk holds the image v, and nothing else, at inode i.
Holds(i, v) == \A k \in Piece : onDisk[i][k] = {v}
Whole(i) == \E v \in Version : Holds(i, v)

\* Every directory that may be found names at path a whole image, or nothing, and
\* the temporary file in use is at path in none of them.
DirectoriesOK ==
    \A d \in directories :
        /\ d.path # NoFile => Whole(d.path)
        /\ d.temporary # NoFile => d.path # d.temporary
        /\ directory.temporary # NoFile => d.path # directory.temporary
        /\ d.path <= saves /\ d.temporary <= saves

\* How far each save has come.
SaveOK(p) ==
    /\ pc[p] # "idle" => snapshot[p] = saves /\ saves \in Version
    /\ pc[p] = "open" => /\ written[p] = 0
                         /\ \A d \in directories : d.path < saves /\ d.temporary < saves
    /\ pc[p] \in {"write", "sync", "rename"} =>
         descriptor[p] # NoFile /\ descriptor[p] = directory.temporary
    /\ pc[p] = "write" => /\ written[p] < Chunks
                          /\ \A k \in 1..written[p] : data[descriptor[p]][k] = snapshot[p]
    /\ pc[p] = "sync" => \A k \in Piece : data[descriptor[p]][k] = snapshot[p]
    /\ pc[p] = "rename" => Holds(descriptor[p], snapshot[p])
    /\ pc[p] = "syncDirectory" => directory.path # NoFile /\ Holds(directory.path, snapshot[p])
    /\ pc[p] \in {"open", "write", "sync", "rename"} => Visible = before[p]
    /\ pc[p] \in {"open", "write", "sync", "rename", "syncDirectory"} => status[p] = "none"
    /\ status[p] \in {"OpenFailed", "WriteFailed"} => Visible = before[p]

\* What was reported Ok is in every directory that may be found.
SavedOK ==
    /\ saved <= saves
    /\ saved # 0 => \A d \in directories :
         /\ d.path # NoFile
         /\ \E v \in Version : v >= saved /\ Holds(d.path, v)

Inv == TypeOK /\ DirectoriesOK /\ (\A p \in Processes : SaveOK(p)) /\ SavedOK

--------------------------------------------------------------------------------
(* Facts about states and the two ways they change *)

LEMMA Bounds ==
  /\ Chunks \in Nat /\ Chunks > 0 /\ MaxSaves \in Nat
  /\ Version \subseteq Nat /\ NoFile \notin Version /\ Inode = Version
  /\ \A n \in Nat : n \in Version <=> 0 < n /\ n <= MaxSaves
BY SavesAssumption DEF Version, NoFile, Inode

LEMMA DirectoryIsRecorded ==
  ASSUME Inv
  PROVE  /\ directory \in directories /\ directories \subseteq Directory
         /\ \A d \in directories : /\ d.path \in Inode \cup {NoFile}
                                   /\ d.temporary \in Inode \cup {NoFile}
                                   /\ d.path \in Nat /\ d.temporary \in Nat
<1>1. directory \in directories /\ directories \subseteq Directory
  BY DEF Inv, TypeOK
<1>2. \A d \in directories : d.path \in Inode \cup {NoFile} /\ d.temporary \in Inode \cup {NoFile}
  BY <1>1 DEF Directory
<1>3. Inode \cup {NoFile} \subseteq Nat
  BY Bounds DEF NoFile
<1> QED  BY <1>1, <1>2, <1>3

\* Pieces written to the temporary file change nothing else: the image at path is
\* whole as it was.
LEMMA PutEffect ==
  ASSUME Inv, NEW i \in Inode, NEW ks, NEW v \in Version \cup {Hole}, Put(i, ks, v)
  PROVE  /\ data' \in [Inode -> [Piece -> Version \cup {Hole}]]
         /\ onDisk' \in [Inode -> [Piece -> SUBSET (Version \cup {Hole})]]
         /\ \A j \in Inode : \A k \in Piece : data'[j][k] \in onDisk'[j][k]
         /\ \A j \in Inode \ {i} : data'[j] = data[j] /\ onDisk'[j] = onDisk[j]
         /\ \A k \in Piece : data'[i][k] = IF k \in ks THEN v ELSE data[i][k]
<1>1. /\ data \in [Inode -> [Piece -> Version \cup {Hole}]]
      /\ onDisk \in [Inode -> [Piece -> SUBSET (Version \cup {Hole})]]
      /\ \A j \in Inode : \A k \in Piece : data[j][k] \in onDisk[j][k]
  BY DEF Inv, TypeOK
<1> DEFINE row == [k \in Piece |-> IF k \in ks THEN v ELSE data[i][k]]
           cells == [k \in Piece |-> IF k \in ks THEN onDisk[i][k] \cup {v} ELSE onDisk[i][k]]
<1>2. data' = [data EXCEPT ![i] = row] /\ onDisk' = [onDisk EXCEPT ![i] = cells]
  BY DEF Put
<1>3. row \in [Piece -> Version \cup {Hole}] /\ cells \in [Piece -> SUBSET (Version \cup {Hole})]
  BY <1>1
<1>4. \A k \in Piece : row[k] \in cells[k] /\ row[k] = IF k \in ks THEN v ELSE data[i][k]
  BY <1>1
<1> HIDE DEF row, cells
<1>5. data'[i] = row /\ onDisk'[i] = cells
      /\ \A j \in Inode \ {i} : data'[j] = data[j] /\ onDisk'[j] = onDisk[j]
  BY <1>1, <1>2
<1>6. /\ data' \in [Inode -> [Piece -> Version \cup {Hole}]]
      /\ onDisk' \in [Inode -> [Piece -> SUBSET (Version \cup {Hole})]]
  BY <1>1, <1>2, <1>3
<1> QED  BY <1>1, <1>4, <1>5, <1>6

\* A step that changes no file keeps what the disk holds and what is visible.
LEMMA DiskUnchanged ==
  ASSUME Inv, UNCHANGED <<data, onDisk>>
  PROVE  /\ \A i, v : Holds(i, v)' <=> Holds(i, v)
         /\ \A i : Whole(i)' <=> Whole(i)
BY DEF Holds, Whole

LEMMA InitEstablishesInv ==
  ASSUME Init
  PROVE  Inv
<1> USE Bounds
<1>1. directory = [path |-> NoFile, temporary |-> NoFile] /\ directories = {directory}
      /\ saves = 0 /\ saved = 0
  BY DEF Init
<1>2. TypeOK
  BY DEF Init, TypeOK, Directory, Blank, Places, Status, Hole
<1>3. DirectoriesOK
  BY <1>1 DEF DirectoriesOK, NoFile
<1>4. \A p \in Processes : SaveOK(p)
  BY DEF Init, SaveOK
<1>5. SavedOK
  BY <1>1 DEF SavedOK
<1> QED  BY <1>2, <1>3, <1>4, <1>5 DEF Inv

--------------------------------------------------------------------------------
(* Every step keeps the invariant.                                          *)

LEMMA BeginKeepsInv ==
  ASSUME Alone, Inv, NEW p \in Processes, Begin(p)
  PROVE  Inv'
<1> USE Bounds
<1>1. /\ pc[p] = "idle" /\ saves < MaxSaves /\ saves' = saves + 1
      /\ snapshot' = [snapshot EXCEPT ![p] = saves + 1]
      /\ before' = [before EXCEPT ![p] = Visible]
      /\ written' = [written EXCEPT ![p] = 0]
      /\ status' = [status EXCEPT ![p] = "none"]
      /\ pc' = [pc EXCEPT ![p] = "open"]
      /\ UNCHANGED <<data, onDisk, directory, directories, descriptor, saved>>
  BY DEF Begin, Report, Goto, disk
<1>2. \A q \in Processes : q = p
  BY DEF Alone
<1>3. saves \in Nat /\ saves' \in Version /\ saves' \in 0..MaxSaves
  BY <1>1 DEF Inv, TypeOK
<1>4. Visible \in [Piece -> Version \cup {Hole}] /\ Visible' = Visible
  BY <1>1 DEF Inv, TypeOK, Visible, Blank, Directory
<1>5. TypeOK'
  BY <1>1, <1>3, <1>4 DEF Inv, TypeOK, Places, Status
<1>6. DirectoriesOK'
  <2>1. \A d \in directories : d.path <= saves' /\ d.temporary <= saves'
    BY <1>1, <1>3, DirectoryIsRecorded DEF Inv, DirectoriesOK
  <2> QED  BY <1>1, <2>1, DiskUnchanged DEF Inv, DirectoriesOK
<1>7. SaveOK(p)'
  <2>1. \A d \in directories : d.path < saves' /\ d.temporary < saves'
    BY <1>1, <1>3, DirectoryIsRecorded DEF Inv, DirectoriesOK
  <2>2. /\ pc'[p] = "open" /\ status'[p] = "none" /\ written'[p] = 0 /\ snapshot'[p] = saves' /\ before'[p] = Visible
    BY <1>1 DEF Inv, TypeOK
  <2> QED  BY <1>1, <1>3, <1>4, <2>1, <2>2 DEF SaveOK
<1>8. SavedOK'
  BY <1>1, <1>3, DiskUnchanged DEF Inv, SavedOK, TypeOK
<1> QED  BY <1>2, <1>5, <1>6, <1>7, <1>8 DEF Inv

LEMMA CreateTemporaryKeepsInv ==
  ASSUME Alone, Inv, NEW p \in Processes, CreateTemporary(p)
  PROVE  Inv'
<1> USE Bounds
<1> DEFINE n == [directory EXCEPT !.temporary = snapshot[p]]
<1>1. /\ pc[p] = "open" /\ directory.temporary = NoFile
      /\ directory' = n /\ directories' = directories \cup {n}
      /\ descriptor' = [descriptor EXCEPT ![p] = snapshot[p]]
      /\ pc' = [pc EXCEPT ![p] = "write"]
      /\ UNCHANGED <<data, onDisk, saves, snapshot, written, status, before, saved>>
  BY DEF CreateTemporary, SetDirectory, Goto
<1>2. \A q \in Processes : q = p
  BY DEF Alone
<1>3. SaveOK(p) /\ TypeOK /\ DirectoriesOK /\ SavedOK
  BY DEF Inv
<1>4. /\ snapshot[p] = saves /\ saves \in Version /\ saves \in Nat /\ status[p] = "none"
      /\ \A d \in directories : d.path < saves /\ d.temporary < saves
  BY <1>1, <1>3 DEF SaveOK
<1>5. /\ n \in Directory /\ n.path = directory.path /\ n.temporary = saves /\ n.path < saves
      /\ directory \in directories
  BY <1>3, <1>4 DEF TypeOK, Directory
<1>6. Visible' = Visible
  BY <1>1, <1>5 DEF Visible
<1>7. TypeOK'
  BY <1>1, <1>3, <1>4, <1>5 DEF TypeOK, Places
<1>8. DirectoriesOK'
  <2> SUFFICES ASSUME NEW d \in directories'
               PROVE  /\ d.path # NoFile => Whole(d.path)'
                      /\ d.temporary # NoFile => d.path # d.temporary
                      /\ directory'.temporary # NoFile => d.path # directory'.temporary
                      /\ d.path <= saves' /\ d.temporary <= saves'
    BY DEF DirectoriesOK
  <2>1. CASE d \in directories
    BY <1>1, <1>3, <1>4, <1>5, <2>1, DirectoryIsRecorded, DiskUnchanged DEF DirectoriesOK
  <2>2. CASE d = n
    BY <1>1, <1>3, <1>4, <1>5, <2>2, DirectoryIsRecorded, DiskUnchanged DEF DirectoriesOK
  <2> QED  BY <1>1, <2>1, <2>2
<1>9. SaveOK(p)'
  <2>1. pc'[p] = "write" /\ status'[p] = "none" /\ descriptor'[p] = saves
    BY <1>1, <1>3, <1>4 DEF TypeOK
  <2>2. written[p] = 0
    BY <1>1, <1>3 DEF SaveOK
  <2> QED  BY <1>1, <1>3, <1>4, <1>5, <1>6, <2>1, <2>2 DEF SaveOK
<1>10. SavedOK'
  BY <1>1, <1>3, <1>5, DiskUnchanged DEF SavedOK
<1> QED  BY <1>2, <1>7, <1>8, <1>9, <1>10 DEF Inv

\* The steps that write pieces of the temporary file leave every image that may be
\* at path as it is.
LEMMA PutKeepsPaths ==
  ASSUME Inv, directory.temporary # NoFile, NEW ks,
         NEW v \in Version \cup {Hole}, Put(directory.temporary, ks, v),
         UNCHANGED <<directory, directories, saves, saved>>
  PROVE  DirectoriesOK' /\ SavedOK' /\ Visible' = Visible
<1> DEFINE t == directory.temporary
<1>1. t \in Inode /\ directory \in directories
  BY DirectoryIsRecorded
<1>2. \A d \in directories : d.path # NoFile => d.path \in Inode \ {t}
  BY DirectoryIsRecorded DEF Inv, DirectoriesOK
<1>3. \A j \in Inode \ {t} : data'[j] = data[j] /\ onDisk'[j] = onDisk[j]
  BY <1>1, PutEffect
<1>4. \A d \in directories : d.path # NoFile => \A w : Holds(d.path, w)' <=> Holds(d.path, w)
  BY <1>2, <1>3 DEF Holds
<1>5. DirectoriesOK'
  BY <1>4 DEF Inv, DirectoriesOK, Whole
<1>6. SavedOK'
  BY <1>4 DEF Inv, SavedOK
<1>7. Visible' = Visible
  BY <1>1, <1>2, <1>3 DEF Visible
<1> QED  BY <1>5, <1>6, <1>7

LEMMA TruncateTemporaryKeepsInv ==
  ASSUME Alone, Inv, NEW p \in Processes, TruncateTemporary(p)
  PROVE  Inv'
<1> USE Bounds
<1> DEFINE t == directory.temporary
<1>1. /\ pc[p] = "open" /\ t # NoFile /\ Put(t, Piece, Hole)
      /\ descriptor' = [descriptor EXCEPT ![p] = t]
      /\ pc' = [pc EXCEPT ![p] = "write"]
      /\ UNCHANGED <<directory, directories, saves, snapshot, written, status, before, saved>>
  BY DEF TruncateTemporary, Goto
<1>2. \A q \in Processes : q = p
  BY DEF Alone
<1>3. SaveOK(p) /\ TypeOK
  BY DEF Inv
<1>4. t \in Inode
  BY <1>1, DirectoryIsRecorded
<1>5. DirectoriesOK' /\ SavedOK' /\ Visible' = Visible
  BY <1>1, PutKeepsPaths
<1>6. /\ data' \in [Inode -> [Piece -> Version \cup {Hole}]]
      /\ onDisk' \in [Inode -> [Piece -> SUBSET (Version \cup {Hole})]]
      /\ \A j \in Inode : \A k \in Piece : data'[j][k] \in onDisk'[j][k]
  BY <1>1, <1>4, PutEffect
<1>7. TypeOK'
  BY <1>1, <1>3, <1>4, <1>6 DEF TypeOK, Places
<1>8. SaveOK(p)'
  <2>1. pc'[p] = "write" /\ descriptor'[p] = t /\ written[p] = 0
    BY <1>1, <1>3 DEF TypeOK, SaveOK
  <2> QED  BY <1>1, <1>3, <1>5, <2>1 DEF SaveOK
<1> QED  BY <1>2, <1>5, <1>7, <1>8 DEF Inv

LEMMA WriteKeepsInv ==
  ASSUME Alone, Inv, NEW p \in Processes, Write(p)
  PROVE  Inv'
<1> USE Bounds
<1> DEFINE t == directory.temporary
<1>1. /\ pc[p] = "write" /\ Put(descriptor[p], {written[p] + 1}, snapshot[p])
      /\ written' = [written EXCEPT ![p] = written[p] + 1]
      /\ pc' = [pc EXCEPT ![p] = IF written[p] + 1 = Chunks THEN "sync" ELSE "write"]
      /\ UNCHANGED <<directory, directories, saves, snapshot, descriptor, status, before, saved>>
  BY DEF Write, Goto
<1>2. \A q \in Processes : q = p
  BY DEF Alone
<1>3. SaveOK(p) /\ TypeOK
  BY DEF Inv
<1>4. /\ t # NoFile /\ descriptor[p] = t /\ snapshot[p] \in Version /\ snapshot[p] = saves
      /\ written[p] \in Nat /\ written[p] < Chunks /\ status[p] = "none" /\ Visible = before[p]
      /\ \A k \in 1..written[p] : data[t][k] = snapshot[p]
  BY <1>1, <1>3 DEF SaveOK, TypeOK
<1>5. t \in Inode /\ {written[p] + 1} \in SUBSET Piece
  BY <1>4, DirectoryIsRecorded DEF Piece
<1>6. DirectoriesOK' /\ SavedOK' /\ Visible' = Visible
  BY <1>1, <1>4, <1>5, PutKeepsPaths
<1>7. /\ data' \in [Inode -> [Piece -> Version \cup {Hole}]]
      /\ onDisk' \in [Inode -> [Piece -> SUBSET (Version \cup {Hole})]]
      /\ \A j \in Inode : \A k \in Piece : data'[j][k] \in onDisk'[j][k]
      /\ \A k \in Piece : data'[t][k] = IF k \in {written[p] + 1} THEN snapshot[p] ELSE data[t][k]
  <2>1. PICK i, ks, v : i = t /\ ks = {written[p] + 1} /\ v = snapshot[p]
    OBVIOUS
  <2>2. i \in Inode /\ v \in Version \cup {Hole} /\ Put(i, ks, v)
    BY <1>1, <1>4, <1>5, <2>1 DEF Put
  <2>3. /\ data' \in [Inode -> [Piece -> Version \cup {Hole}]]
        /\ onDisk' \in [Inode -> [Piece -> SUBSET (Version \cup {Hole})]]
        /\ \A j \in Inode : \A k \in Piece : data'[j][k] \in onDisk'[j][k]
        /\ \A k \in Piece : data'[i][k] = IF k \in ks THEN v ELSE data[i][k]
    BY <2>2, PutEffect
  <2> QED  BY <2>1, <2>3
<1>8. TypeOK'
  BY <1>1, <1>3, <1>4, <1>7 DEF TypeOK, Places
<1>9. \A k \in 1..(written[p] + 1) : data'[t][k] = snapshot[p]
  BY <1>4, <1>7 DEF Piece
<1>10. SaveOK(p)'
  <2>1. written'[p] = written[p] + 1
        /\ pc'[p] = IF written[p] + 1 = Chunks THEN "sync" ELSE "write"
    BY <1>1, <1>3 DEF TypeOK
  <2> QED  BY <1>1, <1>3, <1>4, <1>6, <1>9, <2>1 DEF SaveOK, Piece
<1> QED  BY <1>2, <1>6, <1>8, <1>10 DEF Inv

LEMMA SyncKeepsInv ==
  ASSUME Alone, Inv, NEW p \in Processes, Sync(p)
  PROVE  Inv'
<1> USE Bounds
<1>1. /\ pc[p] = "sync" /\ pc' = [pc EXCEPT ![p] = "rename"]
      /\ onDisk' = [onDisk EXCEPT ![descriptor[p]] =
           [k \in Piece |-> {data[descriptor[p]][k]}]]
      /\ UNCHANGED <<data, directory, directories, saves, snapshot, descriptor, written,
                     status, before, saved>>
  BY DEF Sync, Goto
<1>2. \A q \in Processes : q = p
  BY DEF Alone
<1>3. SaveOK(p) /\ TypeOK
  BY DEF Inv
<1>4. PICK t \in Inode : t = descriptor[p] /\ t = directory.temporary
  BY <1>1, <1>3, DirectoryIsRecorded DEF SaveOK
<1>5. /\ t # NoFile /\ snapshot[p] \in Version /\ status[p] = "none" /\ Visible = before[p]
      /\ snapshot[p] = saves /\ \A k \in Piece : data[t][k] = snapshot[p]
  BY <1>1, <1>3, <1>4 DEF SaveOK
<1> DEFINE cells == [k \in Piece |-> {data[t][k]}]
<1>6. /\ cells \in [Piece -> SUBSET (Version \cup {Hole})]
      /\ \A k \in Piece : data[t][k] \in cells[k] /\ cells[k] = {snapshot[p]}
  BY <1>3, <1>5 DEF TypeOK
<1>7. onDisk' = [onDisk EXCEPT ![t] = cells]
  BY <1>1, <1>4
<1> HIDE DEF cells
<1>8. /\ onDisk' \in [Inode -> [Piece -> SUBSET (Version \cup {Hole})]]
      /\ onDisk'[t] = cells /\ \A j \in Inode \ {t} : onDisk'[j] = onDisk[j]
  BY <1>3, <1>6, <1>7 DEF TypeOK
<1>9. \A j \in Inode : \A k \in Piece : data'[j][k] \in onDisk'[j][k]
  BY <1>1, <1>3, <1>6, <1>8 DEF TypeOK
<1>10. TypeOK'
  BY <1>1, <1>3, <1>8, <1>9 DEF TypeOK, Places
<1>11. \A d \in directories : d.path # NoFile => d.path \in Inode \ {t}
  BY <1>4, <1>5, DirectoryIsRecorded DEF Inv, DirectoriesOK
<1>12. \A d \in directories : d.path # NoFile => \A w : Holds(d.path, w)' <=> Holds(d.path, w)
  BY <1>1, <1>8, <1>11 DEF Holds
<1>13. DirectoriesOK'
  BY <1>1, <1>12 DEF Inv, DirectoriesOK, Whole
<1>14. SavedOK'
  BY <1>1, <1>12 DEF Inv, SavedOK
<1>15. SaveOK(p)'
  <2>1. pc'[p] = "rename"
    BY <1>1, <1>3 DEF TypeOK
  <2>2. Holds(t, snapshot[p])'
    BY <1>1, <1>6, <1>8 DEF Holds
  <2>3. Visible' = Visible
    BY <1>1 DEF Visible
  <2> QED  BY <1>1, <1>3, <1>4, <1>5, <2>1, <2>2, <2>3 DEF SaveOK
<1> QED  BY <1>2, <1>10, <1>13, <1>14, <1>15 DEF Inv

\* The failures: a status and where the save goes on from, and nothing else.
LEMMA FailureKeepsInv ==
  ASSUME Alone, Inv, NEW p \in Processes,
         OpenFails(p) \/ WriteFails(p) \/ RenameFails(p) \/ SyncDirectoryFails(p)
  PROVE  Inv'
<1> USE Bounds
<1>1. /\ UNCHANGED <<data, onDisk, directory, directories, saves, snapshot, descriptor,
                     written, before, saved>>
      /\ \E s \in {"OpenFailed", "WriteFailed", "ReplaceFailed"}, place \in {"idle", "remove"} :
           /\ status' = [status EXCEPT ![p] = s] /\ pc' = [pc EXCEPT ![p] = place]
           /\ s # "ReplaceFailed" => pc[p] \in {"open", "write", "sync", "rename"}
      /\ pc[p] # "idle"
  BY DEF OpenFails, WriteFails, RenameFails, SyncDirectoryFails, Report, Goto, disk
<1>2. PICK s \in {"OpenFailed", "WriteFailed", "ReplaceFailed"}, place \in {"idle", "remove"} :
           /\ status' = [status EXCEPT ![p] = s] /\ pc' = [pc EXCEPT ![p] = place]
           /\ s # "ReplaceFailed" => pc[p] \in {"open", "write", "sync", "rename"}
  BY <1>1
<1>3. \A q \in Processes : q = p
  BY DEF Alone
<1>4. SaveOK(p) /\ TypeOK /\ Visible' = Visible
  BY <1>1 DEF Inv, Visible
<1>5. pc'[p] = place /\ status'[p] = s
  BY <1>2, <1>4 DEF TypeOK
<1>6. TypeOK'
  BY <1>1, <1>2, <1>4 DEF TypeOK, Places, Status
<1>7. DirectoriesOK' /\ SavedOK'
  BY <1>1, DiskUnchanged DEF Inv, DirectoriesOK, SavedOK
<1>8. SaveOK(p)'
  <2>1. snapshot[p] = saves /\ saves \in Version
    BY <1>1, <1>4 DEF SaveOK
  <2>2. s # "ReplaceFailed" => Visible = before[p]
    BY <1>2, <1>4 DEF SaveOK
  <2> QED  BY <1>1, <1>2, <1>4, <1>5, <2>1, <2>2 DEF SaveOK
<1> QED  BY <1>3, <1>6, <1>7, <1>8 DEF Inv

LEMMA RenameKeepsInv ==
  ASSUME Alone, Inv, NEW p \in Processes, Rename(p)
  PROVE  Inv'
<1> USE Bounds
<1> DEFINE n == [path |-> directory.temporary, temporary |-> NoFile]
<1>1. /\ pc[p] = "rename" /\ directory.temporary # NoFile
      /\ directory' = n /\ directories' = directories \cup {n}
      /\ pc' = [pc EXCEPT ![p] = "syncDirectory"]
      /\ UNCHANGED <<data, onDisk, saves, snapshot, descriptor, written, status, before, saved>>
  BY DEF Rename, SetDirectory, Goto
<1>2. \A q \in Processes : q = p
  BY DEF Alone
<1>3. SaveOK(p) /\ TypeOK /\ DirectoriesOK /\ SavedOK
  BY DEF Inv
<1>4. /\ snapshot[p] = saves /\ saves \in Version /\ saves \in Nat /\ status[p] = "none"
      /\ descriptor[p] = directory.temporary /\ Holds(directory.temporary, saves)
  BY <1>1, <1>3 DEF SaveOK
<1>5. /\ n \in Directory /\ n.path = directory.temporary /\ n.temporary = NoFile
      /\ n.path # NoFile /\ n.path <= saves /\ n.temporary <= saves
  BY <1>1, <1>3, <1>4, DirectoryIsRecorded DEF Directory, DirectoriesOK, NoFile
<1>6. TypeOK'
  BY <1>1, <1>3, <1>5 DEF TypeOK, Places
<1>7. DirectoriesOK'
  <2>1. Whole(n.path)
    BY <1>4, <1>5 DEF Whole
  <2> SUFFICES ASSUME NEW d \in directories'
               PROVE  /\ d.path # NoFile => Whole(d.path)'
                      /\ d.temporary # NoFile => d.path # d.temporary
                      /\ d.path <= saves' /\ d.temporary <= saves'
    BY <1>1, <1>5 DEF DirectoriesOK
  <2>2. CASE d \in directories
    BY <1>1, <1>3, <2>2, DiskUnchanged DEF DirectoriesOK
  <2>3. CASE d = n
    BY <1>1, <1>5, <2>1, <2>3, DiskUnchanged
  <2> QED  BY <1>1, <2>2, <2>3
<1>8. SaveOK(p)'
  <2>1. pc'[p] = "syncDirectory" /\ status'[p] = "none"
    BY <1>1, <1>3, <1>4 DEF TypeOK
  <2> QED  BY <1>1, <1>3, <1>4, <1>5, <2>1, DiskUnchanged DEF SaveOK
<1>9. SavedOK'
  <2>1. saved \in Nat /\ saves >= saved
    BY <1>3, <1>4 DEF TypeOK, SavedOK
  <2> QED  BY <1>1, <1>3, <1>4, <1>5, <2>1, DiskUnchanged DEF SavedOK
<1> QED  BY <1>2, <1>6, <1>7, <1>8, <1>9 DEF Inv

LEMMA RemoveTemporaryKeepsInv ==
  ASSUME Alone, Inv, NEW p \in Processes, RemoveTemporary(p)
  PROVE  Inv'
<1> USE Bounds
<1> DEFINE n == [directory EXCEPT !.temporary = NoFile]
<1>1. /\ pc[p] = "remove" /\ directory' = n /\ directories' = directories \cup {n}
      /\ pc' = [pc EXCEPT ![p] = "idle"]
      /\ UNCHANGED <<data, onDisk, saves, snapshot, descriptor, written, status, before, saved>>
  BY DEF RemoveTemporary, SetDirectory, Goto
<1>2. \A q \in Processes : q = p
  BY DEF Alone
<1>3. SaveOK(p) /\ TypeOK /\ DirectoriesOK /\ SavedOK
  BY DEF Inv
<1>4. /\ n \in Directory /\ n.path = directory.path /\ n.temporary = NoFile
      /\ directory \in directories
  BY <1>3 DEF TypeOK, Directory
<1>5. saves \in Nat
  BY <1>3 DEF TypeOK
<1>6. TypeOK'
  BY <1>1, <1>3, <1>4 DEF TypeOK, Places
<1>7. DirectoriesOK'
  <2> SUFFICES ASSUME NEW d \in directories'
               PROVE  /\ d.path # NoFile => Whole(d.path)'
                      /\ d.temporary # NoFile => d.path # d.temporary
                      /\ d.path <= saves' /\ d.temporary <= saves'
    BY <1>1, <1>4 DEF DirectoriesOK
  <2>1. CASE d \in directories
    BY <1>1, <1>3, <2>1, DiskUnchanged DEF DirectoriesOK
  <2>2. CASE d = n
    BY <1>1, <1>3, <1>4, <1>5, <2>2, DiskUnchanged DEF DirectoriesOK, NoFile
  <2> QED  BY <1>1, <2>1, <2>2
<1>8. SaveOK(p)'
  <2>1. pc'[p] = "idle" /\ Visible' = Visible
    BY <1>1, <1>3, <1>4 DEF TypeOK, Visible
  <2> QED  BY <1>1, <1>3, <2>1 DEF SaveOK
<1>9. SavedOK'
  BY <1>1, <1>3, <1>4, DiskUnchanged DEF SavedOK
<1> QED  BY <1>2, <1>6, <1>7, <1>8, <1>9 DEF Inv

LEMMA SyncDirectoryKeepsInv ==
  ASSUME Alone, Inv, NEW p \in Processes, SyncDirectory(p)
  PROVE  Inv'
<1> USE Bounds
<1>1. /\ pc[p] = "syncDirectory" /\ directories' = {directory}
      /\ status' = [status EXCEPT ![p] = "Ok"] /\ saved' = snapshot[p]
      /\ pc' = [pc EXCEPT ![p] = "idle"]
      /\ UNCHANGED <<data, onDisk, directory, saves, snapshot, descriptor, written, before>>
  BY DEF SyncDirectory, Report, Goto
<1>2. \A q \in Processes : q = p
  BY DEF Alone
<1>3. SaveOK(p) /\ TypeOK /\ DirectoriesOK
  BY DEF Inv
<1>4. /\ snapshot[p] = saves /\ saves \in Version /\ saves \in Nat
      /\ directory.path # NoFile /\ Holds(directory.path, saves)
  BY <1>1, <1>3 DEF SaveOK
<1>5. TypeOK'
  BY <1>1, <1>3, <1>4 DEF TypeOK, Places, Status
<1>6. DirectoriesOK'
  BY <1>1, <1>3, DirectoryIsRecorded, DiskUnchanged DEF DirectoriesOK
<1>7. SaveOK(p)'
  <2>1. pc'[p] = "idle" /\ status'[p] = "Ok"
    BY <1>1, <1>3 DEF TypeOK
  <2> QED  BY <1>1, <1>3, <2>1 DEF SaveOK
<1>8. SavedOK'
  BY <1>1, <1>4, DiskUnchanged DEF SavedOK
<1> QED  BY <1>2, <1>5, <1>6, <1>7, <1>8 DEF Inv

\* What the disk holds afterwards is one of the things it might hold before.
LEMMA PowerFailureKeepsInv ==
  ASSUME Alone, Inv, PowerFailure
  PROVE  Inv'
<1> USE Bounds
<1>1. TypeOK /\ DirectoriesOK /\ SavedOK /\ \A p \in Processes : SaveOK(p)
  BY DEF Inv
<1>2. PICK d \in directories : directory' = d /\ directories' = {d}
  BY DEF PowerFailure
<1>3. PICK contents \in [Inode -> [Piece -> Version \cup {Hole}]] :
         /\ \A i \in Inode : \A k \in Piece : contents[i][k] \in onDisk[i][k]
         /\ data' = contents
         /\ onDisk' = [i \in Inode |-> [k \in Piece |-> {contents[i][k]}]]
  BY DEF PowerFailure
<1>4. /\ pc' = [p \in Processes |-> "idle"] /\ status' = [p \in Processes |-> "none"]
      /\ UNCHANGED <<saves, snapshot, descriptor, written, before, saved>>
  BY DEF PowerFailure
<1>5. d \in Directory /\ (d.path \in Inode \/ d.path = NoFile)
  BY <1>2, DirectoryIsRecorded
<1>6. \A i \in Inode : \A k \in Piece : onDisk'[i][k] = {contents[i][k]}
  BY <1>3
<1>7. onDisk' \in [Inode -> [Piece -> SUBSET (Version \cup {Hole})]]
  <2>1. \A i \in Inode : [k \in Piece |-> {contents[i][k]}] \in [Piece -> SUBSET (Version \cup {Hole})]
    BY <1>3
  <2> QED  BY <1>3, <2>1
<1>8. TypeOK'
  <2>1. \A i \in Inode : \A k \in Piece : data'[i][k] \in onDisk'[i][k]
    BY <1>3, <1>6
  <2> QED  BY <1>1, <1>2, <1>3, <1>4, <1>5, <1>7, <2>1 DEF TypeOK, Places, Status
<1>9. ASSUME NEW v \in Version, d.path # NoFile, Holds(d.path, v)
      PROVE  Holds(d.path, v)'
  BY <1>3, <1>5, <1>6, <1>9 DEF Holds
<1>10. DirectoriesOK'
  <2>1. d.path # NoFile => Whole(d.path)'
    BY <1>1, <1>2, <1>9 DEF DirectoriesOK, Whole
  <2> QED  BY <1>1, <1>2, <1>4, <2>1 DEF DirectoriesOK
<1>11. SavedOK'
  BY <1>1, <1>2, <1>4, <1>9 DEF SavedOK
<1>12. \A p \in Processes : SaveOK(p)'
  BY <1>4 DEF SaveOK
<1> QED  BY <1>8, <1>10, <1>11, <1>12 DEF Inv

LEMMA StutterKeepsInv ==
  ASSUME Inv, UNCHANGED vars
  PROVE  Inv'
<1>1. UNCHANGED <<data, onDisk, directory, directories, saves, pc, snapshot, descriptor,
                  written, status, before, saved>>
  BY DEF vars, disk
<1>2. TypeOK'
  BY <1>1 DEF Inv, TypeOK
<1>3. DirectoriesOK' /\ SavedOK'
  BY <1>1, DiskUnchanged DEF Inv, DirectoriesOK, SavedOK
<1>4. ASSUME NEW p \in Processes  PROVE SaveOK(p)'
  BY <1>1, DiskUnchanged DEF Inv, SaveOK, Visible
<1> QED  BY <1>2, <1>3, <1>4 DEF Inv

LEMMA NextKeepsInv ==
  ASSUME Alone, Inv, [Next]_vars
  PROVE  Inv'
<1>1. ASSUME NEW p \in Processes, Begin(p) \/ Step(p)
      PROVE  Inv'
  BY <1>1, BeginKeepsInv, CreateTemporaryKeepsInv, TruncateTemporaryKeepsInv, WriteKeepsInv,
     SyncKeepsInv, FailureKeepsInv, RenameKeepsInv, RemoveTemporaryKeepsInv,
     SyncDirectoryKeepsInv
  DEF Step
<1> QED  BY <1>1, PowerFailureKeepsInv, StutterKeepsInv DEF Next

\* One process that saves keeps Inv for ever.
THEOREM Invariance == ASSUME Alone PROVE Spec => []Inv
<1>1. Init => Inv
  BY InitEstablishesInv
<1>2. Inv /\ [Next]_vars => Inv'
  BY NextKeepsInv
<1> QED  BY <1>1, <1>2, PTL DEF Spec

--------------------------------------------------------------------------------
(* What the invariant says to the reader of path *)

\* What is visible is what the disk holds, where it can hold one thing only.
LEMMA HoldsIsVisible ==
  ASSUME Inv, directory.path # NoFile, NEW v \in Version, Holds(directory.path, v)
  PROVE  Visible = Image(v)
<1>1. directory.path \in Inode
  BY DirectoryIsRecorded
<1>2. data[directory.path] \in [Piece -> Version \cup {Hole}]
      /\ \A k \in Piece : data[directory.path][k] \in onDisk[directory.path][k]
  BY <1>1 DEF Inv, TypeOK
<1>3. \A k \in Piece : data[directory.path][k] = v
  BY <1>2 DEF Holds
<1> QED  BY <1>2, <1>3 DEF Visible, Image

\* Every variable keeps its type.
THEOREM TypeCorrect == ASSUME Alone PROVE Spec => []TypeOK
<1>1. Inv => TypeOK
  BY DEF Inv
<1> QED  BY <1>1, Invariance, PTL

\* Whoever reads path finds no file or the whole image of one save, wherever the
\* power failed.
THEOREM WholeImage == ASSUME Alone PROVE Spec => []ImageIsWhole
<1>1. Inv => ImageIsWhole
  <2> SUFFICES ASSUME Inv, directory.path # NoFile
               PROVE  \E v \in Version : Visible = Image(v)
    BY DEF ImageIsWhole
  <2>1. PICK v \in Version : Holds(directory.path, v)
    BY DirectoryIsRecorded DEF Inv, DirectoriesOK, Whole
  <2> QED  BY <2>1, HoldsIsVisible
<1> QED  BY <1>1, Invariance, PTL

\* An image whose save was reported Ok is at path until that of a later save is.
THEOREM SavedImageIsDurable == ASSUME Alone PROVE Spec => []SavedIsDurable
<1>1. Inv => SavedIsDurable
  <2> SUFFICES ASSUME Inv, saved # 0
               PROVE  \E v \in Version : v >= saved /\ Visible = Image(v)
    BY DEF SavedIsDurable
  <2>1. directory.path # NoFile /\ \E v \in Version : v >= saved /\ Holds(directory.path, v)
    BY DirectoryIsRecorded DEF Inv, SavedOK
  <2> QED  BY <2>1, HoldsIsVisible
<1> QED  BY <1>1, Invariance, PTL

\* A save that reports OpenFailed or WriteFailed has left the image that was there.
THEOREM FailedSaveKeepsLastGood == ASSUME Alone PROVE Spec => []FailureKeepsLastGood
<1>1. Inv => FailureKeepsLastGood
  BY DEF Inv, SaveOK, FailureKeepsLastGood
<1> QED  BY <1>1, Invariance, PTL
================================================================================
