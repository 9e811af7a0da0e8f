---------------------------- MODULE MCPersonnel ----------------------------
(* Values of the constants for the runs of Personnel.                      *)
EXTENDS Personnel

CONSTANTS byLaw, super, worker

EqualLaw == [e \in Emails |-> byLaw]
NoLeave  == [e \in Emails |-> 0]

\* No row.
Nobody == [role |-> None, company |-> None, local |-> FALSE, active |-> FALSE]

\* The administrator of all companies; nobody else has logged in yet.
NewTable == [e \in Emails |->
  IF e = super THEN [role |-> "ADMIN", company |-> None, local |-> TRUE, active |-> TRUE]
               ELSE Nobody]

\* One worker is there, with the days of the law; others come with the synchronisation.
OldTable == [e \in Emails |->
  IF e = worker THEN [role |-> "EZPASS", company |-> "EZPASS", local |-> FALSE, active |-> TRUE]
                ELSE Nobody]
OldLeave == [e \in Emails |-> IF e = worker THEN byLaw ELSE 0]
=============================================================================
