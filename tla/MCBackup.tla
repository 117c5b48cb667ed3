------------------------------- MODULE MCBackup -------------------------------
(***************************************************************************)
(* Backup for TLC: two backups at a time, rotation keeps two archives.     *)
(***************************************************************************)
EXTENDS Backup, TLC

Names == 1..5
BothKinds == BOOLEAN
Alike == Permutations(Tasks) \cup Permutations(Audits)
================================================================================
