---------------------------- MODULE OrderEngine ----------------------------
(***************************************************************************)
(* The order service of one symbol (BTC-USD): orders.Service.CreateOrder   *)
(* run by concurrent request goroutines, its settlement of trades through  *)
(* the ledger (processTrade), the orders table, and a restart that         *)
(* rebuilds the book from the table (loadOrdersIntoBooks).                 *)
(*                                                                         *)
(* The in-memory book is LimitBook's: its matching operators are used as   *)
(* they are.  Each ledger call (HoldFunds, TransferFunds) is one atomic    *)
(* step here; module Ledger shows what the interleaving of their database  *)
(* statements adds.  The process state survives a crash only in the       *)
(* database: rows (the orders table) and acct (the accounts table).        *)
(***************************************************************************)
EXTENDS Integers, Sequences, FiniteSets, SequencesExt, FiniteSetsExt

CONSTANTS
    Users, Prices, Qtys, MaxOrders, None,
    Procs,        \* request goroutines running CreateOrder concurrently
    Places,       \* Places[u]: the sides user u submits orders on
    InitUSD,      \* USD balance each user starts with (TopUpUser)
    InitBTC,      \* BTC balance each user starts with (seeded)
    MaxRestarts   \* bound on the number of server restarts

ASSUME /\ Places \in [Users -> SUBSET {"BUY", "SELL"}]
       /\ InitUSD \in Nat /\ InitBTC \in Nat
       /\ MaxRestarts \in Nat

VARIABLES
    levels, heap, bookOrd,   \* the book: levels, PriceHeap, *Order objects
    stuck,    \* a MatchOrder spins forever holding the book mutex
    rows,     \* the orders table: id -> order row
    acct,     \* the accounts table: <<user, currency>> -> balances
    pc,       \* where each request goroutine is in CreateOrder
    req,      \* its request
    oid,      \* the id of its order row
    trades,   \* the trades MatchOrder returned to it
    k,        \* the trade processTrade is working on
    settled,  \* totalFillQty: quantity of its trades processed without error
    started,  \* number of requests that have held funds
    restarts, \* number of restarts so far
    down,     \* the server panicked while loading the books at start-up
    paid,     \* history: quantity each order has traded in settled trades, over restarts
    tradeLog  \* history: number of committed transfers of each processed trade

vars == <<levels, heap, bookOrd, stuck, rows, acct, pc, req, oid, trades, k,
          settled, started, restarts, down, paid, tradeLog>>

LB == INSTANCE LimitBook WITH orders <- bookOrd, fills <- <<>>, booked <- {},
                              outcome <- "none"

\* models.Currency: USD and the base of BTC-USD (ETH is the base of the
\* other symbol, which this module leaves out).
Currencies == {"USD", "BTC"}
Accounts   == Users \X Currencies
Row        == [avail : Nat, hold : Nat]
Active     == {"NEW", "PARTIALLY_FILLED"}

\* Order requests the users send: validated LIMIT and MARKET orders.
Requests == {r \in LB!Requests : r.side \in Places[r.user]}

\* calculateRequiredAmount: a BUY holds price * qty USD (the quote's price
\* for a MARKET order), a SELL holds qty of the base currency.
Required(r, q) ==
    IF r.side = "BUY" THEN (IF r.type = "MARKET" THEN q ELSE r.price) * r.qty
    ELSE r.qty

\* holdFunds: the currency a request holds.
HoldCurrency(r) == IF r.side = "BUY" THEN "USD" ELSE "BTC"

\* Mutant of Insufficient: the balance check dropped.
InsufficientNever(balance, amt) == FALSE

\* The balance check of HoldFunds and TransferFunds.
Insufficient(balance, amt) == balance < amt

\* TransferFunds(from, to, amt, cur) when the check passes: both rows written
\* from the values read before, the "to" row last.
TransferFunds(a, l) ==
    LET f == <<l.from, l.cur>>
        t == <<l.to, l.cur>>
    IN [a EXCEPT ![f] = [a[f] EXCEPT !.avail = @ - l.amt],
                 ![t] = [a[t] EXCEPT !.avail = @ + l.amt]]

\* processTrade's two TransferFunds calls for trade tr, in the order made: a
\* BUY taker pays USD first and then receives the base currency; a SELL
\* taker delivers the base currency first and then receives USD.
Leg(tr, n) ==
    LET taker == bookOrd[tr.taker].user
        maker == bookOrd[tr.maker].user
        value == tr.price * tr.qty
        buy   == bookOrd[tr.taker].side = "BUY"
        T(c, f, t, m) == [cur |-> c, from |-> f, to |-> t, amt |-> m]
    IN CASE n = 1 /\ buy  -> T("USD", taker, maker, value)
         [] n = 2 /\ buy  -> T("BTC", maker, taker, tr.qty)
         [] n = 1 /\ ~buy -> T("BTC", taker, maker, tr.qty)
         [] n = 2 /\ ~buy -> T("USD", maker, taker, value)

\* The orders status after CreateOrder's update: from totalFillQty.
RowStatus(o, filled) ==
    CASE filled = o.qty -> "FILLED"
      [] filled > 0     -> "PARTIALLY_FILLED"
      [] OTHER          -> o.status

\* OrderBook.AddOrder of order id (price p, side s) to book bk.
AddToBook(bk, o, id) ==
    LET a == LB!SideAdd(bk.lv[o.side], bk.hp[o.side], id, o.price)
    IN [lv |-> [bk.lv EXCEPT ![o.side] = a.lv], hp |-> [bk.hp EXCEPT ![o.side] = a.hp]]

EmptyBook == [lv |-> [s \in LB!Sides |-> <<>>], hp |-> [s \in LB!Sides |-> <<>>]]

Idle(p) == pc[p] = "idle"

TypeOK ==
    /\ acct \in [Accounts -> Row]
    /\ DOMAIN rows \subseteq LB!OrderIds /\ \A id \in DOMAIN rows : rows[id] \in LB!OrderRecs
    /\ pc \in [Procs -> {"idle", "insert", "match", "settle", "leg2", "add", "stuck"}]
    /\ stuck \in BOOLEAN /\ down \in BOOLEAN
    /\ paid \in [LB!OrderIds -> Nat]
    /\ tradeLog \in Seq(0..2)

Init ==
    /\ levels = [s \in LB!Sides |-> <<>>]
    /\ heap = [s \in LB!Sides |-> <<>>]
    /\ bookOrd = <<>>
    /\ stuck = FALSE
    /\ rows = <<>>
    /\ acct = [a \in Accounts |-> [avail |-> IF a[2] = "USD" THEN InitUSD ELSE InitBTC, hold |-> 0]]
    /\ pc = [p \in Procs |-> "idle"]
    /\ req = [p \in Procs |-> None]
    /\ oid = [p \in Procs |-> 0]
    /\ trades = [p \in Procs |-> <<>>]
    /\ k = [p \in Procs |-> 1]
    /\ settled = [p \in Procs |-> 0]
    /\ started = 0
    /\ restarts = 0
    /\ down = FALSE
    /\ paid = [id \in LB!OrderIds |-> 0]
    /\ tradeLog = <<>>

(* GetQuote is called for MARKET orders only; any price may be quoted. *)
Quotes(r) == IF r.type = "MARKET" THEN Prices ELSE {None}

(* CreateOrder up to holdFunds: the request is valid, a MARKET order takes *)
(* the current quote q as its price for the hold, and HoldFunds moves the  *)
(* required amount from available to hold.  A request whose hold fails    *)
(* returns an error and changes nothing.                                   *)
Receive(p, r, q) ==
    LET a   == <<r.user, HoldCurrency(r)>>
        amt == Required(r, q)
    IN
    /\ Idle(p) /\ ~down
    /\ started < MaxOrders
    /\ ~Insufficient(acct[a].avail, amt)
    /\ acct' = [acct EXCEPT ![a] = [avail |-> @.avail - amt, hold |-> @.hold + amt]]
    /\ req' = [req EXCEPT ![p] = r]
    /\ pc' = [pc EXCEPT ![p] = "insert"]
    /\ started' = started + 1
    /\ UNCHANGED <<levels, heap, bookOrd, stuck, rows, oid, trades, k, settled,
                   restarts, down, paid, tradeLog>>

(* orderRepo.CreateOrder: the row is inserted with status NEW. *)
Insert(p) ==
    LET id == Cardinality(DOMAIN rows) + 1 IN
    /\ pc[p] = "insert"
    /\ rows' = rows @@ (id :> LB!NewOrder(req[p]))
    /\ oid' = [oid EXCEPT ![p] = id]
    /\ pc' = [pc EXCEPT ![p] = "match"]
    /\ UNCHANGED <<levels, heap, bookOrd, stuck, acct, req, trades, k, settled,
                   started, restarts, down, paid, tradeLog>>

(* orderBook.MatchOrder(convertToBookOrder(order)) under the book mutex.   *)
(* It returns the trades, or panics on a slice bound (the deferred unlock  *)
(* runs and net/http ends the request), or never returns and keeps the     *)
(* mutex, so that every later MatchOrder and AddOrder blocks.              *)
Match(p) ==
    LET id == oid[p]
        m  == LB!MatchOrder(id, bookOrd @@ (id :> rows[id]), levels, heap)
    IN
    /\ pc[p] = "match" /\ ~stuck
    /\ levels' = m.lv
    /\ bookOrd' = m.ord
    /\ \/ /\ m.out = "returned"
          /\ pc' = [pc EXCEPT ![p] = "settle"]
          /\ trades' = [trades EXCEPT ![p] = m.fills]
          /\ k' = [k EXCEPT ![p] = 1]
          /\ settled' = [settled EXCEPT ![p] = 0]
          /\ UNCHANGED stuck
       \/ /\ m.out = "spin"
          /\ pc' = [pc EXCEPT ![p] = "stuck"]
          /\ stuck' = TRUE
          /\ UNCHANGED <<trades, k, settled>>
       \/ /\ m.out = "slice_panic"
          /\ pc' = [pc EXCEPT ![p] = "idle"]
          /\ UNCHANGED <<stuck, trades, k, settled>>
    /\ UNCHANGED <<heap, rows, acct, req, oid, started, restarts, down, paid, tradeLog>>

(* processTrade, first TransferFunds.  When it fails processTrade returns  *)
(* the error and CreateOrder logs it and goes on with the next trade.      *)
Leg1(p) ==
    LET tr == trades[p][k[p]]
        l  == Leg(tr, 1)
    IN
    /\ pc[p] = "settle" /\ k[p] <= Len(trades[p])
    /\ \/ /\ Insufficient(acct[<<l.from, l.cur>>].avail, l.amt)
          /\ k' = [k EXCEPT ![p] = @ + 1]
          /\ tradeLog' = Append(tradeLog, 0)
          /\ UNCHANGED <<acct, pc>>
       \/ /\ ~Insufficient(acct[<<l.from, l.cur>>].avail, l.amt)
          /\ acct' = TransferFunds(acct, l)
          /\ pc' = [pc EXCEPT ![p] = "leg2"]
          /\ UNCHANGED <<k, tradeLog>>
    /\ UNCHANGED <<levels, heap, bookOrd, stuck, rows, req, oid, trades, settled,
                   started, restarts, down, paid>>

(* processTrade, second TransferFunds: its failure leaves the first one    *)
(* committed; its success counts the trade into totalFillQty.              *)
Leg2(p) ==
    LET tr == trades[p][k[p]]
        l  == Leg(tr, 2)
    IN
    /\ pc[p] = "leg2"
    /\ \/ /\ Insufficient(acct[<<l.from, l.cur>>].avail, l.amt)
          /\ tradeLog' = Append(tradeLog, 1)
          /\ UNCHANGED <<acct, settled, paid>>
       \/ /\ ~Insufficient(acct[<<l.from, l.cur>>].avail, l.amt)
          /\ acct' = TransferFunds(acct, l)
          /\ settled' = [settled EXCEPT ![p] = @ + tr.qty]
          /\ paid' = [paid EXCEPT ![tr.taker] = @ + tr.qty, ![tr.maker] = @ + tr.qty]
          /\ tradeLog' = Append(tradeLog, 2)
    /\ k' = [k EXCEPT ![p] = @ + 1]
    /\ pc' = [pc EXCEPT ![p] = "settle"]
    /\ UNCHANGED <<levels, heap, bookOrd, stuck, rows, req, oid, trades,
                   started, restarts, down>>

(* After the trades: order.FilledQty = totalFillQty, the status follows,   *)
(* and UpdateOrder writes both to the row in its own transaction.          *)
Update(p) ==
    LET id == oid[p] IN
    /\ pc[p] = "settle" /\ k[p] > Len(trades[p])
    /\ rows' = [rows EXCEPT ![id] = [@ EXCEPT !.filled = settled[p],
                                               !.status = RowStatus(rows[id], settled[p])]]
    /\ pc' = [pc EXCEPT ![p] = "add"]
    /\ UNCHANGED <<levels, heap, bookOrd, stuck, acct, req, oid, trades, k, settled,
                   started, restarts, down, paid, tradeLog>>

(* orderBook.AddOrder(bookOrder) when the row's status is NEW or           *)
(* PARTIALLY_FILLED; the nil Price of a MARKET order sent without one     *)
(* panics in BookSide.AddOrder (the request ends, nothing is added), and a *)
(* MARKET order sent with a price rests at it.                             *)
Add(p) ==
    LET id == oid[p]
        o  == rows[id]
        bk == AddToBook([lv |-> levels, hp |-> heap], o, id)
    IN
    /\ pc[p] = "add" /\ ~stuck
    /\ \/ /\ o.status \in Active /\ o.price # None
          /\ levels' = bk.lv
          /\ heap' = bk.hp
       \/ /\ o.status \in Active /\ o.price = None
          /\ UNCHANGED <<levels, heap>>
       \/ /\ o.status \notin Active
          /\ UNCHANGED <<levels, heap>>
    /\ pc' = [pc EXCEPT ![p] = "idle"]
    /\ UNCHANGED <<bookOrd, stuck, rows, acct, req, oid, trades, k, settled,
                   started, restarts, down, paid, tradeLog>>

(* A crash and restart at any point: the goroutines and the book are lost; *)
(* NewService rebuilds the book from the NEW and PARTIALLY_FILLED rows in  *)
(* created_at order.  An active row with no price (a MARKET order sent   *)
(* without one) panics in AddOrder and the server does not come up.       *)
Restart ==
    LET act  == {id \in DOMAIN rows : rows[id].status \in Active}
        bk   == FoldLeft(LAMBDA b, id : AddToBook(b, rows[id], id), EmptyBook,
                         SetToSortSeq(act, <))
    IN
    /\ restarts < MaxRestarts /\ ~down
    /\ \/ /\ \A id \in act : rows[id].price # None
          /\ levels' = bk.lv
          /\ heap' = bk.hp
          /\ UNCHANGED down
       \/ /\ \E id \in act : rows[id].price = None
          /\ levels' = EmptyBook.lv
          /\ heap' = EmptyBook.hp
          /\ down' = TRUE
    /\ bookOrd' = rows
    /\ stuck' = FALSE
    /\ pc' = [p \in Procs |-> "idle"]
    /\ req' = [p \in Procs |-> None]
    /\ oid' = [p \in Procs |-> 0]
    /\ trades' = [p \in Procs |-> <<>>]
    /\ k' = [p \in Procs |-> 1]
    /\ settled' = [p \in Procs |-> 0]
    /\ restarts' = restarts + 1
    /\ UNCHANGED <<rows, acct, started, paid, tradeLog>>

Next ==
    \/ \E p \in Procs :
          \/ \E r \in Requests : \E q \in Quotes(r) : Receive(p, r, q)
          \/ Insert(p) \/ Match(p) \/ Leg1(p) \/ Leg2(p) \/ Update(p) \/ Add(p)
    \/ Restart

Spec == Init /\ [][Next]_vars

-----------------------------------------------------------------------------
(* Properties.                                                              *)

\* processTrade settles a trade entirely or not at all: no trade ends with
\* one of its two transfers committed and the other not.
TradeAtomic == \A i \in DOMAIN tradeLog : tradeLog[i] # 1

\* No order is settled for more than its quantity, across restarts: the
\* trades of an order whose both TransferFunds committed never add up to
\* more than the quantity of its row.  A match that a restart cut off
\* before its settlement is not counted, so reloading its maker and
\* matching it again is recovery, not a second fill.
NoOverfill == \A id \in DOMAIN rows : paid[id] <= rows[id].qty
====
