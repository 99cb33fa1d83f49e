------------------------------ MODULE LimitBook ------------------------------
(***************************************************************************)
(* The in-memory order book of one symbol (internal/limitbook).            *)
(*                                                                         *)
(* A BookSide is a map from price to a PriceLevel whose Orders slice is a  *)
(* FIFO queue, plus a PriceHeap over the levels.  OrderBook.MatchOrder     *)
(* walks the opposite side under the book mutex.  The model keeps the      *)
(* exact control of the Go code: the heap is an array maintained by       *)
(* container/heap's sift-up with PriceHeap.Less, the heap is never popped, *)
(* and a level walk is a `range` over a slice whose backing array is       *)
(* shifted in place by the removal of filled orders.                       *)
(*                                                                         *)
(* The book's caller in this module is CreateOrder reduced to its use of   *)
(* the book: MatchOrder, then AddOrder of a remainder (orders.go 106,      *)
(* 145-147), with every trade assumed settled.  OrderEngine composes the   *)
(* book with the ledger and the real settlement.                           *)
(***************************************************************************)
EXTENDS Naturals, Sequences, FiniteSets, SequencesExt

CONSTANTS
    Users,      \* users placing orders (self-match is allowed)
    Prices,     \* limit prices, small positive naturals
    Qtys,       \* order quantities, small positive naturals
    MaxOrders,  \* bound on the number of orders submitted to the book
    None        \* the nil *decimal.Decimal price of a MARKET order

ASSUME /\ Prices \subseteq Nat \ {0}
       /\ Qtys \subseteq Nat \ {0}
       /\ MaxOrders \in Nat
       /\ None \notin Prices

Sides    == {"BUY", "SELL"}
Statuses == {"NEW", "PARTIALLY_FILLED", "FILLED", "CANCELED", "REJECTED"}
OrderIds == 1..MaxOrders    \* ids are issued in creation order

\* The side a taker of side s matches against: asks for a BUY, bids for a SELL.
\* Book sides are indexed by the side of the orders resting there.
Opposite(s) == IF s = "BUY" THEN "SELL" ELSE "BUY"

OrderTypes == {"LIMIT", "MARKET"}

\* The CreateOrderRequests validateOrderRequest accepts: a positive quantity,
\* and a positive price for a LIMIT order.  Nothing rejects a MARKET order
\* that carries a price, and CreateOrder copies it to the order.
Requests ==
    [user: Users, side: Sides, type: {"LIMIT"}, price: Prices, qty: Qtys]
      \cup [user: Users, side: Sides, type: {"MARKET"}, price: Prices \cup {None}, qty: Qtys]

\* limitbook.Order: Price is a *decimal.Decimal, nil for None.
OrderRecs ==
    [user: Users, side: Sides, type: OrderTypes, price: Prices \cup {None},
     qty: Qtys, filled: Nat, status: Statuses]

FillRecs == [taker: OrderIds, maker: OrderIds, price: Prices, qty: Nat \ {0}]

VARIABLES
    levels,   \* levels[s][p]: PriceLevel.Orders of side s at price p; DOMAIN levels[s] is BookSide.levels
    heap,     \* heap[s]: the PriceHeap array of side s (heap[s][1] is what GetBestLevel returns)
    orders,   \* orders[id]: the *Order object, shared by the book and the caller
    fills,    \* history: every fill MatchOrder made, in the order it made them
    booked,   \* history: the ids ever passed to AddOrder
    outcome   \* how the last CreateOrder use of the book ended

vars == <<levels, heap, orders, fills, booked, outcome>>

Outcomes == {"none", "returned", "slice_panic", "nil_panic", "spin"}

TypeOK ==
    /\ \A s \in Sides : /\ DOMAIN levels[s] \subseteq Prices
                        /\ \A p \in DOMAIN levels[s] : levels[s][p] \in Seq(OrderIds)
                        /\ heap[s] \in Seq(Prices)
    /\ DOMAIN orders \subseteq OrderIds /\ \A id \in DOMAIN orders : orders[id] \in OrderRecs
    /\ fills \in Seq(FillRecs)
    /\ booked \subseteq DOMAIN orders
    /\ outcome \in Outcomes

-----------------------------------------------------------------------------
(* PriceHeap (heap.go) under container/heap.Push.                           *)

\* PriceHeap.Less: the same comparison for bids and asks; isBid is ignored.
HeapLess(a, b) == a < b

\* container/heap's up(): swap with the parent while Less(child, parent).
RECURSIVE SiftUp(_, _)
SiftUp(h, j) ==
    IF j = 1 \/ ~HeapLess(h[j], h[j \div 2])
    THEN h
    ELSE SiftUp([h EXCEPT ![j] = h[j \div 2], ![j \div 2] = h[j]], j \div 2)

\* Mutant of HeapPush: a level appended without restoring the heap order.
HeapPushAppend(h, p) == Append(h, p)

\* heap.Push(bs.heap, level): PriceHeap.Push appends, then up() sifts.
HeapPush(h, p) == SiftUp(Append(h, p), Len(h) + 1)

-----------------------------------------------------------------------------
(* BookSide.AddOrder / OrderBook.AddOrder.                                  *)

\* Adds order id at price p to one side (lv, hp): appended to the level's
\* queue, the level created and pushed on the heap if absent.
SideAdd(lv, hp, id, p) ==
    IF p \in DOMAIN lv
    THEN [lv |-> [lv EXCEPT ![p] = Append(@, id)], hp |-> hp]
    ELSE [lv |-> lv @@ (p :> <<id>>), hp |-> HeapPush(hp, p)]

-----------------------------------------------------------------------------
(* OrderBook.MatchOrder.                                                    *)

Remaining(o) == o.qty - o.filled

\* Mutant of Exhausted: the `continue` over filled makers dropped.
ExhaustedNever(mr) == FALSE

\* askRemaining <= 0: a maker with nothing left is passed over (`continue`).
Exhausted(mr) == mr <= 0

\* Mutant of FillQty: the fill sized by the taker's remainder alone.
FillQtyTakerOnly(rem, mr) == rem

\* decimal.Min(remainingQty, askRemaining)
FillQty(rem, mr) == IF rem <= mr THEN rem ELSE mr

\* A LIMIT taker stops at a level priced beyond its limit; MARKET never stops.
PriceOK(t, p) ==
    \/ t.type # "LIMIT"
    \/ t.side = "BUY"  /\ ~(p > t.price)
    \/ t.side = "SELL" /\ ~(p < t.price)

\* Mutant of SpliceOut: the elements after i are not shifted down.
SpliceOutNoShift(arr, n, i) == arr

\* level.Orders = append(level.Orders[:i], level.Orders[i+1:]...) on a slice of
\* length n over backing array arr: the tail is copied down in place, and the
\* backing array keeps its length (slot n keeps its stale element).
SpliceOut(arr, n, i) == [k \in DOMAIN arr |-> IF i <= k /\ k < n THEN arr[k + 1] ELSE arr[k]]

\* One `for i, o := range level.Orders` pass over the level at price p of side
\* s.  The range reads the backing array arr, whose length is the length the
\* range started with, while n is the live length of level.Orders.  st is the
\* matching state: taker, ord (the *Order objects), lv (the level map),
\* fills, rem (remainingQty) and out ("run" or how matching ended).
RECURSIVE Walk(_, _, _, _, _, _)
Walk(st, s, p, arr, n, i) ==
    IF i > Len(arr) \/ st.rem <= 0
    THEN [st EXCEPT !.lv[s][p] = SubSeq(arr, 1, n)]
    ELSE LET m  == arr[i]
             mr == Remaining(st.ord[m])
         IN IF Exhausted(mr)
            THEN Walk(st, s, p, arr, n, i + 1)
            ELSE LET f   == FillQty(st.rem, mr)
                     st1 == [st EXCEPT !.ord[st.taker].filled = @ + f,
                                       !.ord[m].filled = @ + f,
                                       !.rem = @ - f,
                                       !.fills = Append(@, [taker |-> st.taker, maker |-> m,
                                                            price |-> p, qty |-> f])]
                 IN CASE st1.ord[m].filled # st1.ord[m].qty ->
                           Walk([st1 EXCEPT !.ord[m].status = "PARTIALLY_FILLED"], s, p, arr, n, i + 1)
                      [] i <= n ->
                           Walk([st1 EXCEPT !.ord[m].status = "FILLED"],
                                s, p, SpliceOut(arr, n, i), n - 1, i + 1)
                      \* level.Orders[i+1:] with i+1 > len: runtime panic
                      [] OTHER -> [st1 EXCEPT !.lv[s][p] = SubSeq(arr, 1, n), !.out = "slice_panic"]

\* Mutant of BestLevel: the last element of the heap array taken as the best.
BestLevelLast(h) == h[Len(h)]

\* BookSide.GetBestLevel: the level at the root of the heap.
BestLevel(h) == h[1]

\* uuid.Nil, the zero UUID: uuid.New never returns it, so no order has it.
NilId == 0

\* BookSide.RemoveOrder(orderID) on the level map lv: the level holding the
\* order loses it (the tail shifted down) and is deleted from the map once
\* empty, while the heap keeps it.  An id in no level changes nothing.
RemoveOrder(lv, oid) ==
    IF \E q \in DOMAIN lv : oid \in ToSet(lv[q])
    THEN LET p    == CHOOSE q \in DOMAIN lv : oid \in ToSet(lv[q])
             rest == RemoveFirst(lv[p], oid)
         IN IF rest = <<>> THEN [q \in DOMAIN lv \ {p} |-> lv[q]]
                           ELSE [lv EXCEPT ![p] = rest]
    ELSE lv

\* The outer `for remainingQty > 0` loop.  GetBestLevel is heap[1], which is
\* never popped: the RemoveOrder(uuid.Nil) after an emptied level removes
\* nothing.
\* A pass that fills nothing leaves the state unchanged, so the loop spins.
RECURSIVE Loop(_)
Loop(st) ==
    LET s == Opposite(st.ord[st.taker].side)
    IN IF st.rem <= 0 \/ st.hp[s] = <<>>
       THEN st
       ELSE LET p == BestLevel(st.hp[s])
            IN IF ~PriceOK(st.ord[st.taker], p)
               THEN st
               ELSE LET st2 == Walk(st, s, p, st.lv[s][p], Len(st.lv[s][p]), 1)
                        \* "Remove empty levels": RemoveOrder(uuid.Nil)
                        st3 == IF st2.lv[s][p] = <<>>
                               THEN [st2 EXCEPT !.lv[s] = RemoveOrder(@, NilId)]
                               ELSE st2
                    IN CASE st2.out # "run"   -> st2
                         [] st3.rem = st.rem -> [st3 EXCEPT !.out = "spin"]
                         [] OTHER            -> Loop(st3)

\* The taker's status after matching (orderbook.go 313-318).
TakerStatus(o) ==
    CASE o.filled = o.qty -> "FILLED"
      [] o.filled > 0     -> "PARTIALLY_FILLED"
      [] OTHER            -> o.status

\* MatchOrder(order) with the taker t already among the objects ord.
MatchOrder(t, ord, lv, hp) ==
    LET st == Loop([taker |-> t, ord |-> ord, lv |-> lv, hp |-> hp,
                    fills |-> <<>>, rem |-> Remaining(ord[t]), out |-> "run"])
    IN IF st.out = "run"
       THEN [st EXCEPT !.ord[t].status = TakerStatus(st.ord[t]), !.out = "returned"]
       ELSE st

-----------------------------------------------------------------------------
(* The caller: CreateOrder's use of the book, with every trade settled.    *)

NewOrder(r) == [user |-> r.user, side |-> r.side, type |-> r.type, price |-> r.price,
                qty |-> r.qty, filled |-> 0, status |-> "NEW"]

NextId == Cardinality(DOMAIN orders) + 1

Init ==
    /\ levels = [s \in Sides |-> <<>>]
    /\ heap = [s \in Sides |-> <<>>]
    /\ orders = <<>>
    /\ fills = <<>>
    /\ booked = {}
    /\ outcome = "none"

\* CreateOrder with request r: a new order matched, then its remainder added
\* when its status is NEW or PARTIALLY_FILLED.  AddOrder of a remainder
\* without a price (a MARKET order sent without one) dereferences the nil
\* Price (order.Price.String()) and panics before any change; a MARKET order
\* sent with a price rests at it.  A spinning MatchOrder holds the book
\* mutex forever.
Submit(r) ==
    /\ outcome # "spin"
    /\ NextId <= MaxOrders
    /\ LET id  == NextId
           m   == MatchOrder(id, orders @@ (id :> NewOrder(r)), levels, heap)
           o   == m.ord[id]
           add == m.out = "returned" /\ o.status \in {"NEW", "PARTIALLY_FILLED"}
           new == SideAdd(m.lv[r.side], heap[r.side], id, r.price)
       IN /\ orders' = m.ord
          /\ fills' = fills \o m.fills
          /\ CASE add /\ r.price # None ->
                    /\ levels' = [m.lv EXCEPT ![r.side] = new.lv]
                    /\ heap' = [heap EXCEPT ![r.side] = new.hp]
                    /\ booked' = booked \cup {id}
                    /\ outcome' = "returned"
               [] add ->
                    /\ levels' = m.lv
                    /\ outcome' = "nil_panic"
                    /\ UNCHANGED <<heap, booked>>
               [] OTHER ->
                    /\ levels' = m.lv
                    /\ outcome' = m.out
                    /\ UNCHANGED <<heap, booked>>

Next == \E r \in Requests : Submit(r)

Spec == Init /\ [][Next]_vars

-----------------------------------------------------------------------------
(* Properties.                                                              *)

InBook(s) == UNION {ToSet(levels[s][p]) : p \in DOMAIN levels[s]}

\* The level queues stay a faithful index of the resting orders despite the
\* in-place removal during `range`: an order appears at most once, only in
\* the level of its side and price, and an order ever added is in the book
\* exactly while it is not FILLED (a removal that panicked leaves it there).
BookIntegrity ==
    /\ \A s \in Sides : \A p \in DOMAIN levels[s] :
          /\ IsInjective(levels[s][p])
          /\ \A id \in ToSet(levels[s][p]) : orders[id].side = s /\ orders[id].price = p
    /\ \A id \in DOMAIN orders :
          id \in InBook(orders[id].side) <=> (id \in booked /\ orders[id].status # "FILLED")

\* The heap indexes every level exactly once and heap[1] is the lowest price
\* of the side: the reference meaning of a min-heap maintained by sift-up.
HeapConsistent ==
    \A s \in Sides :
        /\ IsInjective(heap[s])
        /\ ToSet(heap[s]) = DOMAIN levels[s]
        /\ heap[s] # <<>> => \A j \in DOMAIN heap[s] : heap[s][1] <= heap[s][j]

\* The fills one step added, and the orders resting on side s before it.
StepFills == SubSeq(fills', Len(fills) + 1, Len(fills'))

\* How much of order o is still open before the j-th fill of this step.
OpenBefore(o, j) ==
    Remaining(orders[o])
      - FoldSeq(LAMBDA f, acc : acc + (IF f.maker = o THEN f.qty ELSE 0), 0, SubSeq(StepFills, 1, j - 1))

\* The resting orders a step's j-th fill could have been matched against.
Candidates(s, j) == {o \in InBook(s) : OpenBefore(o, j) > 0}

\* Price priority (spec 8.7) for BUY takers: each fill of a step is against
\* a resting ask at the lowest price still open.  (For SELL takers the same
\* statement fails: the bid side is a min-heap too.)
AskPriority ==
    [][\A j \in 1..Len(StepFills) :
         LET f == StepFills[j]
         IN orders'[f.taker].side = "BUY" =>
              \A o \in Candidates("SELL", j) : f.price <= orders[o].price]_vars

\* The book seen through the abstract book: the orders' request fields, their
\* filled quantities, the booked orders with a remainder (those in a level,
\* BookIntegrity), and the fills as trades.
AB == INSTANCE AbstractBook WITH
          ords   <- [id \in DOMAIN orders |->
                       [user |-> orders[id].user, side |-> orders[id].side,
                        type |-> orders[id].type, price |-> orders[id].price,
                        qty |-> orders[id].qty]],
          filled <- [id \in DOMAIN orders |-> orders[id].filled],
          rest   <- {id \in booked : Remaining(orders[id]) > 0},
          trades <- fills

\* CreateOrder's use of MatchOrder and AddOrder keeps the book's promise: each
\* call trades the new order only against resting orders of the other side,
\* at their price and within its limit, never beyond any order's quantity,
\* and rests only a remainder with a price (AbstractBook).
RefinesAbstractBook == AB!Spec

\* MatchOrder never aborts with a slice-bounds panic after it has moved fills.
NoSlicePanic == outcome # "slice_panic"
=============================================================================
