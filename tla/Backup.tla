-------------------------------- MODULE Backup --------------------------------
(***************************************************************************)
(* The full backup of an SQLite installation (internal/backup/backup.go)   *)
(* while the server works on.                                              *)
(*                                                                         *)
(* The backup copies the database in one step (VACUUM INTO) and then the   *)
(* files, folder by folder.  An item is a row with its file: an asset, a   *)
(* preview image or a favicon.  Its writer makes a temporary file in the   *)
(* folder, gives it its name and then commits the row; who deletes it      *)
(* commits that and then removes the file.  Favicons are never removed.    *)
(* Items have files of their own: Snapshots has those that share a name.   *)
(***************************************************************************)
EXTENDS Naturals, Sequences, FiniteSets, Functions

CONSTANTS
  Item,
  FolderOf,    \* one of Folders, for each item
  Present      \* items that are complete at first

Folders == <<"assets", "favicons", "previews">>

BackupAssumption == FolderOf \in [Item -> Range(Folders)] /\ Present \subseteq Item

VARIABLES
  stage,     \* of each item
  backup,    \* the local variables of Full, and then what it published
  deleted    \* history: items deleted between the copy of the database and the end
vars == <<stage, backup, deleted>>

\* Names in a folder: <<item, TRUE>> for an item's file, <<item, FALSE>> for the
\* temporary file that becomes it.
Files ==
  {<<i, FALSE>> : i \in {j \in Item : stage[j] = "temporary"}}
    \cup {<<i, TRUE>> : i \in {j \in Item : stage[j] \in {"named", "complete", "deleted"}}}
Rows == {i \in Item : stage[i] = "complete"}

Idle == [pc |-> "idle", rows |-> {}, folders |-> <<>>, entries |-> {}, archive |-> {}]

Init ==
  /\ stage = [i \in Item |-> IF i \in Present THEN "complete" ELSE "none"]
  /\ backup = Idle
  /\ deleted = {}

Stage == {"none", "temporary", "named", "complete", "deleted"}
Local ==
  [pc : {"idle", "walking", "adding", "published"}, rows : SUBSET Item,
   folders : Seq(Range(Folders)), entries : SUBSET (Item \X BOOLEAN),
   archive : SUBSET (Item \X BOOLEAN)]

\* The stages, what the backup has in hand, and the history.
TypeOK == stage \in [Item -> Stage] /\ backup \in Local /\ deleted \subseteq Item

-----------------------------------------------------------------------------
(* Full. *)

TakeDatabase ==
  /\ backup.pc \in {"idle", "published"}
  /\ backup' = [Idle EXCEPT !.pc = "walking", !.rows = Rows, !.folders = Folders]
  /\ deleted' = {}
  /\ UNCHANGED stage

\* WalkDir reads the entries of a folder at once.
ListFolder ==
  /\ backup.pc = "walking" /\ backup.folders # <<>>
  /\ backup' = [backup EXCEPT !.pc = "adding", !.folders = Tail(@),
                  !.entries = {f \in Files : FolderOf[f[1]] = Head(backup.folders)}]
  /\ UNCHANGED <<stage, deleted>>

\* addFile.  A file that is not there any more fails the backup.
AddFile ==
  /\ backup.pc = "adding"
  /\ \E f \in backup.entries :
       backup' = IF f \in Files
                 THEN [backup EXCEPT !.entries = @ \ {f}, !.archive = @ \cup {f}] ELSE Idle
  /\ UNCHANGED <<stage, deleted>>

FolderDone ==
  /\ backup.pc = "adding" /\ backup.entries = {}
  /\ backup' = [backup EXCEPT !.pc = "walking"]
  /\ UNCHANGED <<stage, deleted>>

\* The archive is written to a temporary file, which is renamed at the end.
Publishes(rows) ==
  /\ backup.pc = "walking" /\ backup.folders = <<>>
  /\ backup' = [backup EXCEPT !.pc = "published", !.rows = rows]
  /\ UNCHANGED <<stage, deleted>>
\* Mutant: the database is copied after the files.
PublishLatest == Publishes(Rows)
Publish == Publishes(backup.rows)

\* An error or the end of the process.
Abort ==
  /\ backup.pc \in {"walking", "adding"}
  /\ backup' = Idle
  /\ UNCHANGED <<stage, deleted>>

-----------------------------------------------------------------------------
(* The server. *)

Moves(i, from, to) ==
  stage[i] = from /\ stage' = [stage EXCEPT ![i] = to] /\ UNCHANGED backup

CreateTemp(i) == Moves(i, "none", "temporary") /\ UNCHANGED deleted
NameFile(i) == Moves(i, "temporary", "named") /\ UNCHANGED deleted
CommitRow(i) == Moves(i, "named", "complete") /\ UNCHANGED deleted
\* A writer that fails removes what it has made.
CleanUp(i) == (\/ Moves(i, "temporary", "none") \/ Moves(i, "named", "none")) /\ UNCHANGED deleted
DeleteRow(i) ==
  /\ Moves(i, "complete", "deleted")
  /\ deleted' = IF backup.pc \in {"walking", "adding"} THEN deleted \cup {i} ELSE deleted
RemoveFile(i) ==
  FolderOf[i] # "favicons" /\ Moves(i, "deleted", "none") /\ UNCHANGED deleted

Next ==
  \/ TakeDatabase \/ ListFolder \/ AddFile \/ FolderDone \/ Publish \/ Abort
  \/ \E i \in Item : \/ CreateTemp(i) \/ NameFile(i) \/ CommitRow(i) \/ CleanUp(i)
                     \/ DeleteRow(i) \/ RemoveFile(i)

Spec == Init /\ [][Next]_vars

-----------------------------------------------------------------------------
\* A published backup can be restored: every file that a row of its database
\* names is in it, although the files are copied while the server writes and
\* removes others, except a file whose row was deleted while the backup was
\* made (backup.go Full; docs/backups.md, "files are added to the ZIP after the
\* database snapshot").
BackupIsWhole ==
  backup.pc = "published" =>
    \A i \in backup.rows : <<i, TRUE>> \in backup.archive \/ i \in deleted
===============================================================================
