--------------------------- MODULE AtomicImageFile ---------------------------
(****************************************************************************)
(* writeImageFileAtomically of Chapter 17: a parameter image replaces the   *)
(* file at path by way of a temporary file next to it, and a power failure  *)
(* may come between any two system calls.                                   *)
(*                                                                          *)
(* The file system keeps what the disk may hold beside what the programs    *)
(* see: every value a chunk has had since its file was last synchronised,   *)
(* and every state the directory has had since it was.  After a power       *)
(* failure each chunk, and the directory, has one of those.                 *)
(*                                                                          *)
(* An image is the number of the save that writes it, in Chunks pieces: one *)
(* for each write() that writeAll needs.                                    *)
(****************************************************************************)
EXTENDS Naturals, FiniteSets

CONSTANTS Processes,   \* device processes that save to the same path
          Chunks,      \* pieces an image is written in
          MaxSaves,    \* bound: saves in all
          Faults       \* system calls may fail

ASSUME SavesAssumption == Chunks \in Nat \ {0} /\ MaxSaves \in Nat /\ Faults \in BOOLEAN

NoFile == 0
Hole == 0                     \* a piece that has not been written
Version == 1..MaxSaves
Inode == 1..MaxSaves          \* each is named after the save that created it
Piece == 1..Chunks
Directory == [path : Inode \cup {NoFile}, temporary : Inode \cup {NoFile}]

Places == {"idle", "open", "write", "sync", "rename", "syncDirectory", "remove"}
Status == {"none", "Ok", "OpenFailed", "WriteFailed", "ReplaceFailed"}

VARIABLES
    data,          \* data[i]: the contents of inode i as the programs see it
    onDisk,        \* onDisk[i][k]: what the disk may hold of piece k of inode i
    directory,     \* the names as the programs see them
    directories,   \* what the disk may hold of the directory
    saves,         \* saves begun so far
    pc, snapshot, descriptor, written, status,   \* the save each process makes
    before,        \* history: the image that was at path when p began its save
    saved          \* history: the last save that was reported Ok

disk == <<data, onDisk, directory, directories>>
vars == <<disk, saves, pc, snapshot, descriptor, written, status, before, saved>>

TypeOK ==
    /\ data \in [Inode -> [Piece -> Version \cup {Hole}]]
    /\ onDisk \in [Inode -> [Piece -> SUBSET (Version \cup {Hole})]]
    /\ directory \in Directory
    /\ directories \subseteq Directory
    /\ directory \in directories
    /\ \A i \in Inode : \A k \in Piece : data[i][k] \in onDisk[i][k]
    /\ saves \in 0..MaxSaves
    /\ pc \in [Processes -> Places]
    /\ snapshot \in [Processes -> Version \cup {0}]
    /\ descriptor \in [Processes -> Inode \cup {NoFile}]
    /\ written \in [Processes -> 0..Chunks]
    /\ status \in [Processes -> Status]
    /\ before \in [Processes -> [Piece -> Version \cup {Hole}]]
    /\ saved \in Version \cup {0}

Blank == [k \in Piece |-> Hole]
Image(v) == [k \in Piece |-> v]

\* what a reader of path finds; Blank also when there is no file
Visible == IF directory.path = NoFile THEN Blank ELSE data[directory.path]

Init ==
    /\ data = [i \in Inode |-> Blank]
    /\ onDisk = [i \in Inode |-> [k \in Piece |-> {Hole}]]
    /\ directory = [path |-> NoFile, temporary |-> NoFile]
    /\ directories = {directory}
    /\ saves = 0
    /\ pc = [p \in Processes |-> "idle"]
    /\ snapshot = [p \in Processes |-> 0]
    /\ descriptor = [p \in Processes |-> NoFile]
    /\ written = [p \in Processes |-> 0]
    /\ status = [p \in Processes |-> "none"]
    /\ before = [p \in Processes |-> Blank]
    /\ saved = 0

--------------------------------------------------------------------------------
Goto(p, place) == pc' = [pc EXCEPT ![p] = place]
Report(p, s) == status' = [status EXCEPT ![p] = s]

SetDirectory(d) ==
    /\ directory' = d
    /\ directories' = directories \cup {d}

\* write the pieces ks of inode i; the disk may or may not see it
Put(i, ks, v) ==
    /\ data' = [data EXCEPT ![i] = [k \in Piece |-> IF k \in ks THEN v ELSE @[k]]]
    /\ onDisk' = [onDisk EXCEPT ![i] =
         [k \in Piece |-> IF k \in ks THEN @[k] \cup {v} ELSE @[k]]]

Begin(p) ==
    /\ pc[p] = "idle" /\ saves < MaxSaves
    /\ saves' = saves + 1
    /\ snapshot' = [snapshot EXCEPT ![p] = saves + 1]
    /\ before' = [before EXCEPT ![p] = Visible]
    /\ written' = [written EXCEPT ![p] = 0]
    /\ Report(p, "none")
    /\ Goto(p, "open")
    /\ UNCHANGED <<disk, descriptor, saved>>

\* Mutant: the image is written to its own place.
CreateTemporary_InPlace(p) ==
    /\ pc[p] = "open" /\ directory.temporary = NoFile
    /\ SetDirectory([path |-> snapshot[p], temporary |-> snapshot[p]])
    /\ descriptor' = [descriptor EXCEPT ![p] = snapshot[p]]
    /\ Goto(p, "write")
    /\ UNCHANGED <<data, onDisk, saves, snapshot, written, status, before, saved>>

\* O_CREAT: the temporary file is new ...
CreateTemporary(p) ==
    /\ pc[p] = "open" /\ directory.temporary = NoFile
    /\ SetDirectory([directory EXCEPT !.temporary = snapshot[p]])
    /\ descriptor' = [descriptor EXCEPT ![p] = snapshot[p]]
    /\ Goto(p, "write")
    /\ UNCHANGED <<data, onDisk, saves, snapshot, written, status, before, saved>>

\* ... O_TRUNC: or it is left over, or another process is using it
TruncateTemporary(p) ==
    /\ pc[p] = "open" /\ directory.temporary # NoFile
    /\ Put(directory.temporary, Piece, Hole)
    /\ descriptor' = [descriptor EXCEPT ![p] = directory.temporary]
    /\ Goto(p, "write")
    /\ UNCHANGED <<directory, directories, saves, snapshot, written, status, before, saved>>

OpenFails(p) ==
    /\ Faults /\ pc[p] = "open"
    /\ Report(p, "OpenFailed")
    /\ Goto(p, "idle")
    /\ UNCHANGED <<disk, saves, snapshot, descriptor, written, before, saved>>

Write(p) ==
    /\ pc[p] = "write"
    /\ Put(descriptor[p], {written[p] + 1}, snapshot[p])
    /\ written' = [written EXCEPT ![p] = @ + 1]
    /\ Goto(p, IF written[p] + 1 = Chunks THEN "sync" ELSE "write")
    /\ UNCHANGED <<directory, directories, saves, snapshot, descriptor, status, before, saved>>

\* Mutant: the file is renamed without fsync.
Sync_Skipped(p) ==
    /\ pc[p] = "sync"
    /\ Goto(p, "rename")
    /\ UNCHANGED <<disk, saves, snapshot, descriptor, written, status, before, saved>>

\* fsync and close
Sync(p) ==
    /\ pc[p] = "sync"
    /\ onDisk' = [onDisk EXCEPT ![descriptor[p]] =
         [k \in Piece |-> {data[descriptor[p]][k]}]]
    /\ Goto(p, "rename")
    /\ UNCHANGED <<data, directory, directories, saves, snapshot, descriptor, written,
                   status, before, saved>>

\* write, fsync or close fails, or the failure before the rename is simulated
WriteFails(p) ==
    /\ Faults /\ pc[p] \in {"write", "sync", "rename"}
    /\ Report(p, "WriteFailed")
    /\ Goto(p, "remove")
    /\ UNCHANGED <<disk, saves, snapshot, descriptor, written, before, saved>>

Rename(p) ==
    /\ pc[p] = "rename" /\ directory.temporary # NoFile
    /\ SetDirectory([path |-> directory.temporary, temporary |-> NoFile])
    /\ Goto(p, "syncDirectory")
    /\ UNCHANGED <<data, onDisk, saves, snapshot, descriptor, written, status, before, saved>>

\* also because another process has taken the temporary file away
RenameFails(p) ==
    /\ pc[p] = "rename" /\ (Faults \/ directory.temporary = NoFile)
    /\ Report(p, "ReplaceFailed")
    /\ Goto(p, "remove")
    /\ UNCHANGED <<disk, saves, snapshot, descriptor, written, before, saved>>

RemoveTemporary(p) ==
    /\ pc[p] = "remove"
    /\ SetDirectory([directory EXCEPT !.temporary = NoFile])
    /\ Goto(p, "idle")
    /\ UNCHANGED <<data, onDisk, saves, snapshot, descriptor, written, status, before, saved>>

\* Mutant: the directory is not synchronised.
SyncDirectory_Skipped(p) ==
    /\ pc[p] = "syncDirectory"
    /\ Report(p, "Ok")
    /\ saved' = snapshot[p]
    /\ Goto(p, "idle")
    /\ UNCHANGED <<disk, saves, snapshot, descriptor, written, before>>

SyncDirectory(p) ==
    /\ pc[p] = "syncDirectory"
    /\ directories' = {directory}
    /\ Report(p, "Ok")
    /\ saved' = snapshot[p]
    /\ Goto(p, "idle")
    /\ UNCHANGED <<data, onDisk, directory, saves, snapshot, descriptor, written, before>>

\* the rename has been done, and is reported as a failure all the same
SyncDirectoryFails(p) ==
    /\ Faults /\ pc[p] = "syncDirectory"
    /\ Report(p, "ReplaceFailed")
    /\ Goto(p, "idle")
    /\ UNCHANGED <<disk, saves, snapshot, descriptor, written, before, saved>>

Step(p) ==
    \/ CreateTemporary(p) \/ TruncateTemporary(p) \/ OpenFails(p)
    \/ Write(p) \/ Sync(p) \/ WriteFails(p) \/ Rename(p) \/ RenameFails(p)
    \/ RemoveTemporary(p) \/ SyncDirectory(p) \/ SyncDirectoryFails(p)

\* Every process is gone, and the disk holds one of the things it may hold.
PowerFailure ==
    /\ \E d \in directories : directory' = d /\ directories' = {d}
    /\ \E contents \in [Inode -> [Piece -> Version \cup {Hole}]] :
         /\ \A i \in Inode : \A k \in Piece : contents[i][k] \in onDisk[i][k]
         /\ data' = contents
         /\ onDisk' = [i \in Inode |-> [k \in Piece |-> {contents[i][k]}]]
    /\ pc' = [p \in Processes |-> "idle"]
    /\ status' = [p \in Processes |-> "none"]
    /\ UNCHANGED <<saves, snapshot, descriptor, written, before, saved>>

Next == (\E p \in Processes : Begin(p) \/ Step(p)) \/ PowerFailure

Spec == Init /\ [][Next]_vars

--------------------------------------------------------------------------------
(* Properties. *)

\* Whoever reads path, after a power failure too, finds no file or the whole
\* image of one save: never a part of one, and never parts of two ("Atomically
\* persist the image", usage of ch17_weather_device).
ImageIsWhole == directory.path # NoFile => \E v \in Version : Visible = Image(v)

\* An image whose save was reported Ok is not lost, not even by a power failure:
\* it stays at path until the image of a later save replaces it.
SavedIsDurable == saved # 0 => \E v \in Version : v >= saved /\ Visible = Image(v)

\* A save that reports OpenFailed or WriteFailed leaves the image that was there
\* when it began (README "last-known-good preservation").
FailureKeepsLastGood ==
    \A p \in Processes :
      status[p] \in {"OpenFailed", "WriteFailed"} => Visible = before[p]
================================================================================
