--------------------------- MODULE MCBackupStore ---------------------------
(* A small instance of BackupStore for TLC. *)
EXTENDS BackupStore, TLC

CONSTANT b  \* the one byte contents are made of

MCByte == {b}
MCChunk == {<<b>>}
=============================================================================
