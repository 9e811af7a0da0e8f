---------------------------- MODULE MCLeavePool ----------------------------
(* Values of the constants for the runs of LeavePool.                      *)
EXTENDS LeavePool

AtOnce  == [every |-> 0, from |-> 0, quantity |-> 1]
Daily   == [every |-> 1, from |-> 0, quantity |-> 2]
Monthly == [every |-> 2, from |-> 1, quantity |-> 2]

AnyPolicy   == {AtOnce, Daily, Monthly}
OnlyAtOnce  == {AtOnce}
=============================================================================
