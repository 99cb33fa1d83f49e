------------------------------ MODULE MCLedger ------------------------------
(* Instantiates Ledger for TLC: two users with a USD account each, two     *)
(* concurrent callers and amount 1.                                        *)
EXTENDS Ledger

MCUsers == {"u1", "u2"}
MCCurrencies == {"USD"}
MCAmount == {1}
MCWorkers == {"w1", "w2"}

(* TransferFunds between any two accounts, a self-trade included. *)
MCAllPairs == MCUsers \X MCUsers
(* TransferFunds between two different users only. *)
MCDistinctPairs == {p \in MCUsers \X MCUsers : p[1] # p[2]}
=============================================================================
