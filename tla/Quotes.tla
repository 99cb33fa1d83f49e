------------------------------- MODULE Quotes -------------------------------
(***************************************************************************)
(* The quotes service of one symbol (internal/quotes) and its websocket    *)
(* clients (websocketQuotesHandler in main.go).                            *)
(*                                                                         *)
(* The subscribers of a symbol are a Go slice: a header (backing array,   *)
(* len, cap) over an array shared by every copy of the header.  Subscribe *)
(* appends in place while there is room and copies to a doubled array     *)
(* otherwise; Unsubscribe shifts the tail down in place and closes the     *)
(* channel.  updateQuote, run by the subscribeToQuotes goroutine, copies   *)
(* the header under RLock, releases it, and then reads the array element  *)
(* by element while sending, so each send is a step of its own.           *)
(*                                                                         *)
(* Quotes are numbered in publication order.  A handler learns that its   *)
(* peer is gone only when a write fails, so it unsubscribes only after     *)
(* reading a quote.  The handler subscribes one channel per symbol; the    *)
(* slices of different symbols share nothing, so one symbol is modelled.  *)
(***************************************************************************)
EXTENDS Naturals, Sequences, SequencesExt

CONSTANTS
    Clients,      \* websocket handler goroutines
    ChanCap,      \* make(chan *models.Quote, 10): the buffer of a channel
    MaxQuotes,    \* bound on the quotes received from Redis
    MaxConnects,  \* bound on the connections each client opens
    None

ASSUME ChanCap \in Nat \ {0} /\ MaxQuotes \in Nat /\ MaxConnects \in Nat

\* A channel is identified by the client and the connection that made it.
Chans == Clients \X (1..MaxConnects)
QuoteIds == 1..MaxQuotes

VARIABLES
    mem,      \* mem[a]: backing array a of the subscriber slice (length = its cap)
    sl,       \* s.subscribers[symbol]: the slice header [arr, len]
    latest,   \* s.quotes[symbol]: the last quote stored, or None
    buf,      \* buf[ch]: quotes in the channel's buffer
    closed,   \* closed[ch]: close(ch) has run
    fpc,      \* the feed goroutine: "recv", or "send" in updateQuote's loop
    snap,     \* the header updateQuote copied
    fi,       \* the index of its range loop
    hpc,      \* hpc[c]: where handler c is
    conn,     \* conn[c]: connections client c has opened
    crashed,  \* an unrecovered panic ended the process
    got       \* history: got[ch], every quote sent into ch, in order

vars == <<mem, sl, latest, buf, closed, fpc, snap, fi, hpc, conn, crashed, got>>

Headers == [arr : Nat, len : Nat]

TypeOK ==
    /\ mem \in Seq(Seq(Chans \cup {None}))
    /\ sl \in Headers /\ snap \in Headers
    /\ latest \in QuoteIds \cup {None}
    /\ buf \in [Chans -> BoundedSeq(QuoteIds, ChanCap)] /\ closed \in [Chans -> BOOLEAN]
    /\ fpc \in {"recv", "send"} /\ fi \in Nat
    /\ hpc \in [Clients -> {"off", "sub", "loop", "unsub"}]
    /\ conn \in [Clients -> 0..MaxConnects]
    /\ crashed \in BOOLEAN
    /\ got \in [Chans -> Seq(QuoteIds)]

\* The channels a header shows: the first len elements of its array.
Elems(h) == IF h.arr = 0 THEN <<>> ELSE SubSeq(mem[h.arr], 1, h.len)

\* The channel of client c's current connection.
Chan(c) == <<c, conn[c]>>

Init ==
    /\ mem = <<>>
    /\ sl = [arr |-> 0, len |-> 0]
    /\ latest = None
    /\ buf = [ch \in Chans |-> <<>>]
    /\ closed = [ch \in Chans |-> FALSE]
    /\ fpc = "recv" /\ snap = [arr |-> 0, len |-> 0] /\ fi = 0
    /\ hpc = [c \in Clients |-> "off"]
    /\ conn = [c \in Clients |-> 0]
    /\ crashed = FALSE
    /\ got = [ch \in Chans |-> <<>>]

-----------------------------------------------------------------------------
(* Handlers.                                                                *)

\* A client connects and the handler upgrades the connection.
Connect(c) ==
    /\ ~crashed /\ hpc[c] = "off" /\ conn[c] < MaxConnects
    /\ hpc' = [hpc EXCEPT ![c] = "sub"]
    /\ conn' = [conn EXCEPT ![c] = @ + 1]
    /\ UNCHANGED <<mem, sl, latest, buf, closed, fpc, snap, fi, crashed, got>>

\* Service.Subscribe under subMutex: make(chan, 10) and append it.  With
\* room in the array the element is written in place, otherwise a new array
\* of twice the capacity (1 for an empty slice) receives a copy.
Subscribe(c) ==
    LET room == sl.arr # 0 /\ sl.len < Len(mem[sl.arr])
        new  == Elems(sl) \o <<Chan(c)>>
                  \o [k \in 1..(IF sl.len = 0 THEN 0 ELSE sl.len - 1) |-> None]
    IN /\ ~crashed /\ hpc[c] = "sub"
       /\ IF room
          THEN /\ mem' = [mem EXCEPT ![sl.arr][sl.len + 1] = Chan(c)]
               /\ sl' = [sl EXCEPT !.len = @ + 1]
          ELSE /\ mem' = Append(mem, new)
               /\ sl' = [arr |-> Len(mem) + 1, len |-> sl.len + 1]
       /\ hpc' = [hpc EXCEPT ![c] = "loop"]
       /\ UNCHANGED <<latest, buf, closed, fpc, snap, fi, conn, crashed, got>>

\* The handler's select receives a quote and writes it to the peer: the
\* write succeeds, or fails because the peer is gone and the handler returns.
Read(c) ==
    /\ ~crashed /\ hpc[c] = "loop" /\ buf[Chan(c)] # <<>>
    /\ buf' = [buf EXCEPT ![Chan(c)] = Tail(@)]
    /\ hpc' \in {hpc, [hpc EXCEPT ![c] = "unsub"]}
    /\ UNCHANGED <<mem, sl, latest, closed, fpc, snap, fi, conn, crashed, got>>

\* The first index of ch among the elements, 0 if absent.
IndexIn(s, ch) == IF ch \in ToSet(s) THEN Min({i \in DOMAIN s : s[i] = ch}) ELSE 0

\* Mutant of Unsubscribe: the slice shortened by one without the shift.
UnsubscribeNoShift(c) ==
    /\ ~crashed /\ hpc[c] = "unsub"
    /\ IndexIn(Elems(sl), Chan(c)) # 0
    /\ sl' = [sl EXCEPT !.len = @ - 1]
    /\ closed' = [closed EXCEPT ![Chan(c)] = TRUE]
    /\ hpc' = [hpc EXCEPT ![c] = "off"]
    /\ UNCHANGED <<mem, latest, buf, fpc, snap, fi, conn, crashed, got>>

\* The deferred Service.Unsubscribe under subMutex: the first occurrence is
\* removed by append(subscribers[:i], subscribers[i+1:]...), which shifts
\* the tail down inside the shared array, and the channel is closed.
Unsubscribe(c) ==
    LET i == IndexIn(Elems(sl), Chan(c))
        a == sl.arr
    IN /\ ~crashed /\ hpc[c] = "unsub"
       /\ IF i = 0
          THEN UNCHANGED <<mem, sl, closed>>
          ELSE /\ mem' = [mem EXCEPT ![a] = [k \in DOMAIN @ |->
                              IF i <= k /\ k < sl.len THEN @[k + 1] ELSE @[k]]]
               /\ sl' = [sl EXCEPT !.len = @ - 1]
               /\ closed' = [closed EXCEPT ![Chan(c)] = TRUE]
       /\ hpc' = [hpc EXCEPT ![c] = "off"]
       /\ UNCHANGED <<latest, buf, fpc, snap, fi, conn, crashed, got>>

-----------------------------------------------------------------------------
(* The subscribeToQuotes goroutine.                                         *)

\* A quote message arrives; updateQuote stores it under mutex, then copies
\* the subscriber header under subMutex.RLock.
Receive ==
    LET q == IF latest = None THEN 1 ELSE latest + 1
    IN /\ ~crashed /\ fpc = "recv" /\ q \in QuoteIds
       /\ latest' = q
       /\ snap' = sl
       /\ fi' = 1
       /\ fpc' = "send"
       /\ UNCHANGED <<mem, sl, buf, closed, hpc, conn, crashed, got>>

\* Mutant of HasRoom: the buffer's last slot counted as free.
HasRoomOffByOne(ch) == Len(buf[ch]) <= ChanCap

\* `case ch <- quote` can proceed at once: the buffer has room.
HasRoom(ch) == Len(buf[ch]) < ChanCap

\* One iteration of `for _, ch := range subscribers`: the element is read
\* from the shared array now.  select { case ch <- quote: default: } sends
\* when the buffer has room and drops the quote otherwise; a send on a
\* closed channel panics even inside select, and nothing recovers it.
Send ==
    /\ ~crashed /\ fpc = "send"
    /\ IF fi > snap.len
       THEN /\ fpc' = "recv"
            /\ UNCHANGED <<buf, crashed, got, fi>>
       ELSE LET ch == mem[snap.arr][fi] IN
            /\ fi' = fi + 1
            /\ UNCHANGED fpc
            /\ CASE closed[ch] ->
                      /\ crashed' = TRUE
                      /\ UNCHANGED <<buf, got>>
                 [] HasRoom(ch) ->
                      /\ buf' = [buf EXCEPT ![ch] = Append(@, latest)]
                      /\ got' = [got EXCEPT ![ch] = Append(@, latest)]
                      /\ UNCHANGED crashed
                 [] OTHER -> UNCHANGED <<buf, crashed, got>>
    /\ UNCHANGED <<mem, sl, latest, closed, snap, hpc, conn>>

Next ==
    \/ \E c \in Clients : Connect(c) \/ Subscribe(c) \/ Read(c) \/ Unsubscribe(c)
    \/ Receive
    \/ Send

Spec == Init /\ [][Next]_vars

-----------------------------------------------------------------------------
(* Properties.                                                              *)

\* The channels of the handlers that have subscribed and not yet
\* unsubscribed.
Subscribed == {Chan(c) : c \in {d \in Clients : hpc[d] \in {"loop", "unsub"}}}

\* The live subscriber slice holds exactly the channels of subscribed
\* handlers, each once, whatever Subscribe's in-place writes and regrowth
\* and Unsubscribe's in-place shift did to the shared arrays.
SubscribersExact ==
    /\ ToSet(Elems(sl)) = Subscribed
    /\ IsInjective(Elems(sl))

\* updateQuote never sends on a channel Unsubscribe has closed: a send on a
\* closed channel panics in the feed goroutine and ends the process.
NoSendOnClosed == ~crashed
=============================================================================
