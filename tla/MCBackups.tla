------------------------------ MODULE MCBackups ------------------------------
(* Backups with cron expressions as model values: daily is one that both      *)
(* parsers of the cron library accept, five one of five fields.               *)
EXTENDS Backups
=============================================================================
