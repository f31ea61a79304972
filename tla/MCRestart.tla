----------------------------- MODULE MCRestart -----------------------------
(***************************************************************************)
(* BackupStore with a history variable, to ask what a crash may cost: a    *)
(* backup is saved once a completed write of the index holds its record,   *)
(* and stays so while it is published, over crashes and restarts too.      *)
(***************************************************************************)
EXTENDS MCBackupStore

VARIABLE saved  \* the names of the saved backups

MCVars == <<vars, saved>>

KeepsRunning == status = "up" /\ status' = "up"

\* Published before and after, by the same upload
StillPublished(f) == IsValidFile(f) /\ hash'[f] = hash[f]

WrittenNow == {f \in File : storePc = "writing" /\ StoreDone /\ root[f] = hash[f]}

MCInit == Init /\ saved = {}

MCNext ==
  /\ Next
  /\ saved' = IF KeepsRunning
              THEN {f \in saved \cup WrittenNow : StillPublished(f)}
              ELSE saved

MCSpec == MCInit /\ [][MCNext]_MCVars

\* The attributes of every backup are kept in a file of their own
\* (src/data_manager.hpp:34), which is there for the next run to load: a saved
\* backup that nobody deleted is still a backup after a crash and a restart.
\* The storage thread empties the file before it writes it again.
SavedBackupsSurvive ==
  status = "up" /\ ioFailed = {} => \A f \in saved : IsValidFile(f)
=============================================================================
