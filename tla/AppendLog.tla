------------------------------ MODULE AppendLog ------------------------------
(***************************************************************************)
(* What the audit log promises those who hand it records: as long as       *)
(* nobody else touches the table, it only ever grows, by one record at a   *)
(* time, at its end.  It does not promise to take a record.                *)
(***************************************************************************)
EXTENDS Sequences

CONSTANT Events

VARIABLES
  log,      \* the records, oldest first
  touched   \* somebody other than a store has written to the table

Init == log = << >> /\ touched = FALSE

Take(e) == ~touched /\ log' = Append(log, e) /\ UNCHANGED touched

Touch == touched' = TRUE

Next == (\E e \in Events : Take(e)) \/ Touch

Spec == Init /\ [][Next]_<<log, touched>>
=============================================================================
