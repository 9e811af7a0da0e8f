--------------------------- MODULE MCAuctionHouse ---------------------------
(* Values of the constants for the runs of AuctionHouse.                   *)
EXTENDS AuctionHouse

CONSTANTS u1, u2, c1, c2, purse1, purse2, tenant1, tenant2

Balances == [u \in Users |-> IF u = u1 THEN purse1 ELSE purse2]
Tenants  == [u \in Users |-> IF u = u1 THEN tenant1 ELSE tenant2]
=============================================================================
