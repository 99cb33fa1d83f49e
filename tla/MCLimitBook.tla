---------------------------- MODULE MCLimitBook ----------------------------
(***************************************************************************)
(* Model-checking instance of LimitBook: one user (self-match is allowed,  *)
(* so the user never changes a matching decision), two price levels, and   *)
(* quantities 1 and 2 so that partial fills and multi-order walks happen.  *)
(***************************************************************************)
EXTENDS LimitBook

MCUsers  == {"u1"}
MCPrices == {1, 2}
MCQtys   == {1, 2}
=============================================================================
