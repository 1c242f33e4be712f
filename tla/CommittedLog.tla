----------------------------- MODULE CommittedLog -----------------------------
(* What synchronous replication promises its clients, whichever node leads: *)
(* there is one log, a commit that was acknowledged is in it, and it stays  *)
(* there through every change of the leader.                                *)
EXTENDS Sequences, SequencesExt

VARIABLES
  log,        \* what the current primary has written
  committed   \* the part of it acknowledged to clients

Init == log = <<>> /\ committed = <<>>

(* The primary writes a record. *)
Write ==
  /\ Len(log') = Len(log) + 1 /\ IsPrefix(log, log')
  /\ UNCHANGED committed

(* More of the log is acknowledged. *)
Commit ==
  /\ IsPrefix(committed, committed') /\ IsPrefix(committed', log)
  /\ UNCHANGED log

(* Another node takes over.  What was not acknowledged may be lost, or come *)
(* back when it was lost before.                                            *)
Elect ==
  /\ IsPrefix(committed, log')
  /\ UNCHANGED committed

Spec == Init /\ [][Write \/ Commit \/ Elect]_<<log, committed>>
===============================================================================
