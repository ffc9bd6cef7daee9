---------------------------- MODULE MCSupervisor ----------------------------
(* Two processes and two items, one of them a backup job.                     *)
EXTENDS Supervisor

CONSTANTS p1, p2, item, backup

MCProcess == {p1, p2}
MCItem == {item, backup}
MCBackup == {backup}

=============================================================================
