----------------------------- MODULE AbstractBook -----------------------------
(***************************************************************************)
(* What the order book of one symbol promises its caller, with no levels, *)
(* heap or queues: an order is placed in one atomic step that trades it   *)
(* against resting orders of the other side and then possibly rests it.   *)
(*                                                                         *)
(*  - every trade of the step has the new order as taker and a resting    *)
(*    order of the other side as maker, at the maker's price, within the  *)
(*    taker's limit;                                                       *)
(*  - no order trades more than its quantity, and the filled amounts are  *)
(*    the sums of the trades;                                              *)
(*  - only an order with a price and a remainder rests, and a maker stops *)
(*    resting when it is filled.  An order with a price is a LIMIT order   *)
(*    or a MARKET order whose request carried one: the book keeps no      *)
(*    promise that a MARKET order never rests.                             *)
(*                                                                         *)
(* Price-time priority is not part of this promise (LimitBook's           *)
(* AskPriority checks the ask side); neither is that a crossing remainder *)
(* must trade, nor that a LIMIT remainder must rest (a panic in the       *)
(* handler drops it).  The step's trades are read from trades', so the    *)
(* specification is meant to be checked as a property of an              *)
(* implementation that determines them.                                    *)
(***************************************************************************)
EXTENDS Naturals, Sequences, SequencesExt

CONSTANTS Users, Prices, Qtys, MaxOrders, None

VARIABLES
    ords,    \* ords[id]: the placed orders (user, side, type, price, qty), in order
    filled,  \* filled[id]: the quantity order id has traded
    rest,    \* the ids of the orders resting in the book
    trades   \* every trade, in the order they were made

vars == <<ords, filled, rest, trades>>

Placed ==
    [user: Users, side: {"BUY", "SELL"}, type: {"LIMIT"}, price: Prices, qty: Qtys]
      \cup [user: Users, side: {"BUY", "SELL"}, type: {"MARKET"}, price: Prices \cup {None}, qty: Qtys]

\* A taker o may trade at price p.
Acceptable(o, p) ==
    \/ o.type = "MARKET"
    \/ o.side = "BUY"  /\ p <= o.price
    \/ o.side = "SELL" /\ p >= o.price

QtySum(fs) == FoldLeft(LAMBDA a, f : a + f.qty, 0, fs)

\* The quantity maker m trades in the trades fs.
Dealt(fs, m) == QtySum(SelectSeq(fs, LAMBDA f : f.maker = m))

Init ==
    /\ ords = <<>>
    /\ filled = <<>>
    /\ rest = {}
    /\ trades = <<>>

\* Order o is placed and trades the new trades fs.
Place(o) ==
    LET id == Len(ords) + 1
        fs == SubSeq(trades', Len(trades) + 1, Len(trades'))
    IN /\ id <= MaxOrders
       /\ ords' = Append(ords, o)
       /\ IsPrefix(trades, trades')
       /\ \A j \in 1..Len(fs) :
             /\ fs[j].taker = id
             /\ fs[j].maker \in rest
             /\ ords[fs[j].maker].side # o.side
             /\ fs[j].price = ords[fs[j].maker].price
             /\ Acceptable(o, fs[j].price)
             /\ fs[j].qty > 0
       /\ \A m \in rest : Dealt(fs, m) <= ords[m].qty - filled[m]
       /\ QtySum(fs) <= o.qty
       /\ filled' = [i \in 1..id |-> IF i = id THEN QtySum(fs) ELSE filled[i] + Dealt(fs, i)]
       /\ \E R \in SUBSET (IF o.price # None /\ QtySum(fs) < o.qty THEN {id} ELSE {}) :
             rest' = {m \in rest : filled'[m] < ords[m].qty} \cup R

Next == \E o \in Placed : Place(o)

Spec == Init /\ [][Next]_vars
=============================================================================
