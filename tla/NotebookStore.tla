---------------------------- MODULE NotebookStore ---------------------------
(***************************************************************************)
(* The part of a notebook directory that a sync run changes: notes/,       *)
(* artifacts/ and the cursor under .fieldnotes/state/sync                   *)
(* (crates/fieldnotes-store/src).                                          *)
(*                                                                         *)
(* Every file is staged, fsynced and renamed into place, so a name always  *)
(* has whole contents.  What can be lost is the name: a rename or an       *)
(* unlink is visible at once and durable when the directory is             *)
(* synchronized.  `disk` is what the process sees, `durable` what a power  *)
(* loss is sure to leave.                                                  *)
(***************************************************************************)
EXTENDS Upstream

CONSTANT MaxNoteIds     \* bound on Note IDs in use at a time

ASSUME StoreAssumption == MaxNoteIds \in Nat

VARIABLES disk, durable

Notes ==
  [ key : Keys, id : 1 .. MaxNoteIds, time : Times, version : 1 .. MaxVersion,
    artifacts : SUBSET Artifacts ]

Directories ==
  [ notes : SUBSET Notes, artifacts : SUBSET Artifacts, cursor : SUBSET (0 .. MaxVersion) ]

EmptyNotebook == [notes |-> {}, artifacts |-> {}, cursor |-> {}]

StoreInit == disk = EmptyNotebook /\ durable = EmptyNotebook

StoreTypeOK == disk \in Directories /\ durable \in Directories

\* A Note's filename is computed from its event time and its ID.
Filename(note) == <<note.time, note.id>>

Named(notes, filename) == {n \in notes : Filename(n) = filename}

-----------------------------------------------------------------------------
(* The source-key index *)

NotesOf(notes, key) == {n \in notes : n.key = key}

\* Filenames sort by event time, then by ID.
SortsAfter(m, n) == m.time > n.time \/ (m.time = n.time /\ m.id > n.id)

\* One pass over notes/ in filename order: when several Notes claim a key, the
\* last one stays in the index.
Index(notes) ==
  [k \in Keys |->
    {n \in NotesOf(notes, k) : \A m \in NotesOf(notes, k) : ~ SortsAfter(m, n)}]

\* An ID no Note uses.
FreshIds == (1 .. MaxNoteIds) \ {n.id : n \in disk.notes \cup durable.notes}
NewId == Min(FreshIds)

-----------------------------------------------------------------------------
(* Changes of a directory and its synchronization *)

RenameNote(note) ==
  disk' = [disk EXCEPT !.notes = (@ \ Named(@, Filename(note))) \cup {note}]

UnlinkNote(filename) == disk' = [disk EXCEPT !.notes = @ \ Named(@, filename)]

\* Mutant of SyncNotes and SyncArtifacts: the directory is not synchronized.
SyncNothing == UNCHANGED durable

SyncNotes == durable' = [durable EXCEPT !.notes = disk.notes]

\* Original bytes already stored are reused, whoever stored them.
Stored(artifact) == artifact \in disk.artifacts

RenameArtifact(artifact) == disk' = [disk EXCEPT !.artifacts = @ \cup {artifact}]

SyncArtifacts == durable' = [durable EXCEPT !.artifacts = disk.artifacts]

RenameCursor(position) == disk' = [disk EXCEPT !.cursor = {position}]

SyncCursor == durable' = [durable EXCEPT !.cursor = disk.cursor]

\* `fields remove` forgets the cursor and keeps every Note and artifact.
RemoveSyncState ==
  /\ disk' = [disk EXCEPT !.cursor = {}]
  /\ UNCHANGED durable

-----------------------------------------------------------------------------
(* Power loss *)

\* Of the names that differ, each one independently survives or not.
NotesAfterLoss ==
  LET names == {Filename(n) : n \in disk.notes \cup durable.notes} IN
  { {n \in disk.notes : Filename(n) \in kept} \cup {n \in durable.notes : Filename(n) \notin kept}
      : kept \in SUBSET names }

ArtifactsAfterLoss ==
  {a \in SUBSET (disk.artifacts \cup durable.artifacts) :
     disk.artifacts \cap durable.artifacts \subseteq a}

LosePower ==
  /\ \E notes \in NotesAfterLoss, artifacts \in ArtifactsAfterLoss,
        position \in {disk.cursor, durable.cursor} :
       disk' = [notes |-> notes, artifacts |-> artifacts, cursor |-> position]
  /\ durable' = disk'
=============================================================================
