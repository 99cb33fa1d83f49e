---------------------------- MODULE MCOrderEngine ----------------------------
(* Instantiates OrderEngine for TLC: two users, two concurrent requests,   *)
(* prices 1 and 2.                                                         *)
EXTENDS OrderEngine

MCUsers == {"u1", "u2"}
MCPrices == {1, 2}
MCQtys == {1, 2}
MCProcs == {"p1", "p2"}
(* One request goroutine: requests one after another. *)
MCOneProc == {"p1"}

(* u1 only buys and u2 only sells: no self-match, whose self-transfer is *)
(* Ledger's UpdateTo.                                                     *)
MCRoles == [u \in MCUsers |-> IF u = "u1" THEN {"BUY"} ELSE {"SELL"}]
==============================================================================
