---------------------------- MODULE LeaveNotice ----------------------------
(***************************************************************************)
(* What the outbox promises the personnel system, without how: a notice of *)
(* granted leave is given, possibly several times, until it is closed as   *)
(* sent or given up; it is not closed as sent before it was given, and     *)
(* never given after it was closed.                                        *)
(***************************************************************************)
EXTENDS Naturals

CONSTANTS Messages

VARIABLES notice, given

Init == /\ notice = [m \in Messages |-> "none"]
        /\ given = [m \in Messages |-> 0]

Enqueue(m) == /\ notice[m] = "none"
              /\ notice' = [notice EXCEPT ![m] = "open"]
              /\ UNCHANGED given

Give(m) == /\ notice[m] = "open"
           /\ given' = [given EXCEPT ![m] = @ + 1]
           /\ UNCHANGED notice

Close(m) == /\ notice[m] = "open" /\ given[m] > 0
            /\ notice' = [notice EXCEPT ![m] = "sent"]
            /\ UNCHANGED given

GiveUp(m) == /\ notice[m] = "open"
             /\ notice' = [notice EXCEPT ![m] = "dead"]
             /\ UNCHANGED given

Next == \E m \in Messages : Enqueue(m) \/ Give(m) \/ Close(m) \/ GiveUp(m)

Spec == Init /\ [][Next]_<<notice, given>>
=============================================================================
