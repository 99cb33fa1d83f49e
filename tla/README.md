# TLA+ models of microCoin

microCoin is a paper-trading exchange backend in Go. It has an HTTP API
(`src/unnamed/part_000`, main.go) over PostgreSQL and Redis. This directory
models the parts of it whose correctness depends on ordering, concurrency and
failure, and checks them with TLC.

## The system

| Part | Source | State | Operations |
|---|---|---|---|
| Limit order book | `internal/limitbook/orderbook.go`, `heap.go` | per symbol: two `BookSide`s, each a map price → `PriceLevel` (FIFO slice of `*Order`) plus a `PriceHeap` of levels; the book mutex | `AddOrder`, `MatchOrder`, `BookSide.RemoveOrder` (only called, by `MatchOrder`, with `uuid.Nil`), `GetBest*` |
| Ledger service | `internal/ledger/service.go`, `ledger.go` | `accounts` rows (available, hold), `ledger_entries` | `TopUpUser`, `HoldFunds`, `ReleaseHold`, `TransferFunds`, `CreateJournal` |
| Account repository | `internal/database/account.go` | – | reads on `r.db` (own connection, committed data), `UpdateAccountBalance` in the caller's tx |
| Order service | `src/unnamed/part_007` (orders/service.go) | the books, the `orders` table | `CreateOrder` (validate, quote, hold, insert row, match, `processTrade` per trade, update row, add remainder), `loadOrdersIntoBooks` at start-up |
| Order repository | `internal/database/order.go` | `orders` table | insert, update, active orders by symbol |
| Idempotency | `src/unnamed/part_006`, handlers in `part_000` | `idempotency_keys` table | check the key, run the handler, store the response in a separate tx |
| Quotes | `internal/quotes/quotes.go`, `websocketQuotesHandler` in `part_000` | latest quote per symbol, a slice of subscriber channels per symbol | `Subscribe`, `Unsubscribe`, `subscribeToQuotes`/`updateQuote` fan-out, mock generator, `GetQuote` |
| Rate limiter | `internal/rate`, `internal/auth/middleware.go` | Redis hash `rate:<user>` (tokens, last_refill) with EXPIRE 60 s | `AuthMiddleware`, `RateLimitMiddleware`, `Limiter.Allow` (Lua script), `GetRemainingTokens` |
| Authentication | `internal/auth/auth.go`, `internal/database/user.go`, signup and login handlers in `part_000` | `users` rows (email, Argon2id hash); the JWTs handed out | `signupHandler` (`HashPassword`, `CreateUser`, `GenerateTokens`), `loginHandler` (`GetUserByEmail`, `VerifyPassword`, `GenerateTokens`), `ValidateToken` |
| Schema | `src/unnamed/part_002` | tables, FK, per-user accounts trigger | migrations |

The parts interact like this. An order request goes through auth, the rate
limiter and the idempotency check. `CreateOrder` then holds funds through the
ledger and saves the order row. It matches the order against the in-memory
book under the book mutex. Each trade is settled by two `TransferFunds` calls,
each its own database transaction. Finally `CreateOrder` updates the order row
and adds any remainder to the book. Every ledger call reads balances outside
its transaction and writes absolute values. PostgreSQL runs at READ COMMITTED.
The pool has 25 connections.

### Hard behaviours found while surveying

- **Matching.**
  - The bid heap is a min-heap.
  - An emptied level is never popped from the heap.
  - Removing an order inside `range` skips the next order or panics.
  - A MARKET remainder sent without a price has a nil price, and adding it panics.
  - A MARKET order sent with a price passes validation, and its remainder rests in the book (spec.md: never).
- **Ledger.**
  - Lost updates: the read happens outside the tx and the write is absolute.
  - A self-transfer overwrites the debit with the credit.
  - The top-up journal references `uuid.Nil`, which violates the FK.
  - A call holds two pooled connections at once, so the pool can deadlock.
  - Two opposite transfers take row locks in opposite orders and deadlock.
- **Settlement.**
  - Trade legs are separate transactions.
  - Trades draw from `available` although the funds sit in `hold`, and holds are never released.
  - Failed trades are skipped after the book was changed.
  - Maker rows are never updated, and a taker's row only after all its trades settled, so a restart reloads settled orders as NEW.
- **Idempotency.**
  - `CreateOrder` can fail after committing (the row INSERT or `UpdateOrder`); no record is stored, so a retry with the same key runs it again.
  - The key check is check-then-act.
  - The record is stored after the effect.
  - The fingerprint depends on Go map iteration order.
- **Quotes.**
  - `updateQuote` copies the subscriber slice under a read lock and sends after releasing it; `Unsubscribe` closes a channel in between, and a send on a closed channel panics.
  - `Unsubscribe` shifts the slice in place, inside the array the copy still reads.
- **Authentication.**
  - `ValidateToken` never checks whether a token was issued as an access or a refresh token, so a refresh token is a bearer token for its whole 7 days.
- **Rate limiter.**
  - `Allow` reads `time.Now()` before the script runs, so scripts see clock values out of order, and a stale clock on a recreated key credits refill for time before the key existed.

`PROJECT.json` lists each of these with its source line under `hazards`.

## Modules

### `LimitBook` (book + the book-facing part of CreateOrder)

State:
- `levels[s][p]` is `PriceLevel.Orders`. The model indexes sides by the side of the resting orders, so `"SELL"` holds the asks.
- `heap[s]` is the `PriceHeap` array, with `heap[s][1]` at the top.
- `orders` holds the shared `*Order` objects.
- Two history variables: `fills` and `booked`.
- `outcome` records how the last `CreateOrder` use of the book ended: returned, a slice-bounds panic, a nil-price panic, or spinning forever.

`Submit(r)` is one `CreateOrder`. It builds the new order (`NewOrder`) and runs
`MatchOrder`. If the order is still NEW or PARTIALLY_FILLED, it adds the
remainder (`SideAdd`). In this module every trade is assumed settled.

`MatchOrder` is computed by the RECURSIVE operators `Loop` and `Walk`:
- `Loop` is the outer `for remaining > 0` over `heap[1]`, for a BUY taker against the asks (`orderbook.go:191-249`) and a SELL taker against the bids (252-310). After each pass over a level that the pass emptied it calls `RemoveOrder(NilId)`, as the code calls `RemoveOrder(uuid.Nil)`. No order has that id, so the level stays in the map and on the heap.
- `Walk` is one `range` pass over the level's backing array, with the slice's live length beside it. Its lines in the map are the BUY branch (202-243); the SELL branch (264-304) is the same code with the sides swapped. `SpliceOut` is Go's in-place `append(s[:i], s[i+1:]...)`.
- `HeapPush` is container/heap's `Push`: `PriceHeap.Push` appends and `up()` sifts, with `HeapLess` = `PriceHeap.Less`.

### `AbstractBook` (what the book promises its caller)

`AbstractBook` has no levels, heap or queues. It keeps the placed orders
(`ords`), their filled quantities (`filled`), the resting ids (`rest`) and the
trades. One `Place(o)` step trades the new order against resting orders of the
other side, at the maker's price and within the taker's limit. No order trades
beyond its quantity, a filled maker stops resting, and only a remainder with a
price may rest. The step's trades are read from `trades'`, so the module is a
property to check, not a specification to run on its own.

`LimitBook` instantiates it as `AB`. The refinement mapping takes the
orders' request fields and `filled`, the booked orders with a remainder as
`rest` (those are the orders in a level, by `BookIntegrity`), and `fills` as
`trades`. `RefinesAbstractBook == AB!Spec` is a property of
`limitbook_safety`. Three things are deliberately left out of the promise:
- priority, which `AskPriority` states for the ask side and which the bid min-heap breaks;
- that a crossing remainder must trade (the bid heap breaks that too);
- that a LIMIT remainder must rest (a panic drops it);
- that a MARKET order never rests. spec.md says so, but `validateOrderRequest` accepts a MARKET order that carries a price, and its remainder rests at that price. `Requests` includes such orders. The promise is stated as the code keeps it: only an order with a price rests.

### `Ledger` (ledger service over the accounts table)

State:
- `acct`: the committed account rows.
- `posted`: the committed ledger sum per account.
- `systemRow`: whether an account row with id `uuid.Nil` exists.
- `lock`: the PostgreSQL row locks.
- `inUse`: connections checked out by open transactions.
- Per worker: `pc`, `call`, `snap` (rows read), `pend` (rows written by the open tx) and `result`.

Each call is split at its database statements:

| Action | Source statements |
|---|---|
| `Start` | the amount check and `db.Begin` |
| `Read` | the first account query on a second connection, plus the Hold/Release check |
| `ReadTo` | TransferFunds' second query and its check |
| `Write` | the one-row UPDATE and commit of TopUp/Hold/Release; for TopUp, the FK failure instead |
| `UpdateFrom` / `UpdateTo` | TransferFunds' journal, its two UPDATEs and its commit |
| `DeadlockAbort` | PostgreSQL aborting a transaction on a cycle of row-lock waits |

`CreateJournal` is two helpers used by `Write` and `UpdateTo`: `JournalOK`
(non-empty, balanced, and every entry's INSERT meets the `account_id`
foreign key) and `Posted` (the ledger after the INSERTs). `TopUpEntries` and
`TransferEntries` are the entries the two callers build; the top-up's
`uuid.Nil` entry is what fails the foreign key when `systemRow` is false.

A write of a one-row transaction and its commit are one step. Such a
transaction waits for a lock while holding none, so merging the two steps
hides no wait cycle.

### `OrderEngine` (order service: CreateOrder, processTrade, the orders table, restart)

This module composes the book with the ledger and the orders table. It uses
`LimitBook`'s `MatchOrder` and `SideAdd` unchanged, through `INSTANCE`.
Each `HoldFunds`/`TransferFunds` call is one atomic step: `Ledger` shows what
their statement-level interleaving adds. The model has one symbol (BTC-USD).

State:
- `levels`, `heap`, `bookOrd`: the book and its `*Order` objects.
- `stuck`: a MatchOrder spinning with the mutex held.
- `rows`: the `orders` table.
- `acct`: available and hold per user and currency.
- Per request goroutine: `pc`, `req`, `oid`, `trades`, `k` (the trade being processed) and `settled` (`totalFillQty`).
- `down`: the server failed to start.
- History variables: `paid` (per order, the quantity of its trades whose two legs both committed, across restarts) and `tradeLog` (committed legs per processed trade).

| Action | Source |
|---|---|
| `Receive` | CreateOrder 50-80: validate, MARKET quote, `calculateRequiredAmount`, `holdFunds` |
| `Insert` | `orderRepo.CreateOrder`: the row as NEW |
| `Match` | `MatchOrder(convertToBookOrder(order))`: returns, panics on a slice bound, or spins |
| `Leg1` / `Leg2` | `processTrade`'s two `TransferFunds`; a failure is logged and the loop continues |
| `Update` | `FilledQty = totalFillQty`, the status, `UpdateOrder` |
| `Add` | `AddOrder` of a NEW/PARTIALLY_FILLED order; one without a price (a MARKET order sent without one) panics on the nil price |
| `Restart` | a crash anywhere, then `loadOrdersIntoBooks` over the active rows in creation order |

The model's order ids follow insertion order. `created_at` is taken just
before the insert, so the two orders can differ only between concurrent
inserts. That affects FIFO order inside a reloaded level and no property here.

### `Idempotency` (the guard of `/fund/topup` and `/orders`)

State:
- `records`: the `idempotency_keys` rows (key → fingerprint). The model has one user.
- Per goroutine: `pc`, `rq` and `fp`.
- `sent` and `crashes`, which bound requests and crashes.
- The history variable `execs`: per key, the operations that committed a change.

| Action | Source |
|---|---|
| `Receive` | a request with a key and a body |
| `Check` | `GenerateFingerprint` with the header map visited in either order, then `CheckIdempotency`. A lookup error and a mismatch both get 409; a match is replayed; no record lets the operation run |
| `Exec` | `TopUpUser` or `CreateOrder` (the constant `Endpoint` says which handler a body is for). Success goes on to `Store`. An error gets 500 and no record: a `TopUpUser` error changes nothing (one transaction), a `CreateOrder` error may come after `HoldFunds`, the order row or trades committed |
| `Store` | `StoreIdempotency` in a new transaction. A UNIQUE violation or a query error gets 500 after the effect |
| `Crash` | the server process dies; the database survives |

`Fingerprint` is the hashed string itself. SHA-256 is taken as injective,
so two fingerprints differ exactly when their strings do. `DbErrors`
enables the guard's own query failures. `IdempotentHandler` in the same
package is never registered as a route, so it is not modelled.

### `Quotes` (subscriber fan-out of one symbol)

The subscriber slice is modelled as Go represents it, because the bug lives
in the representation:
- `mem`: the backing arrays ever allocated, each a sequence as long as its capacity;
- `sl`: the slice header in `s.subscribers[symbol]` (array, length);
- `latest`: `s.quotes[symbol]`, quotes numbered in publication order;
- `buf`, `closed`: each channel's buffer and whether it was closed;
- the feed goroutine's `fpc`, `snap` (the header it copied) and `fi` (its range index);
- per handler `hpc` and `conn`; `crashed` (an unrecovered panic); the history `got`.

| Action | Source |
|---|---|
| `Connect` | the websocket upgrade of `websocketQuotesHandler` |
| `Subscribe` | `Service.Subscribe`: `append` in place when there is room, else into a new array of doubled capacity |
| `Read` | the handler's `select` receiving a quote and `WriteJSON`, which may fail and end the handler |
| `Unsubscribe` | the deferred `Service.Unsubscribe`: `append(s[:i], s[i+1:]...)` shifting in place, then `close` |
| `Receive` | a Redis message: `updateQuote` stores it and copies the header under `RLock` |
| `Send` | one iteration of the range: read the element from the array now, then send, drop when full, or panic when closed |

The handler subscribes one channel for each of two symbols whose slices share
nothing, so one symbol is enough. Quote contents are abstracted to their
sequence number.

### `Auth` (signup, login and token validation)

State: `account`, the `users` row of one email (`None` before signup, then
its hash); `issued`, the tokens `GenerateTokens` has signed; `authReqs`; and
the history `proofs`, the times the account's password was presented. A
token is its claims: its kind, `iat` (IssuedAt = NotBefore) and `exp`. The
hash is the pair (password, salt), i.e. Argon2id taken as injective, and a
token is signed exactly when `GenerateTokens` made it; `Unsigned` stands for
a missing bearer header and for tokens signed with another key or algorithm.
The clock belongs to the composing module.

| Definition | Source |
|---|---|
| `Signup` | `signupHandler`: `HashPassword` under a random salt, `CreateUser` (fails on the UNIQUE email once the row exists), `GenerateTokens` |
| `Login` | `loginHandler`: `GetUserByEmail` and `VerifyPassword` (`Verified`), else 401; then `GenerateTokens` |
| `ValidateToken` | `ValidateToken`: HMAC signature, NotBefore and ExpiresAt; the token's kind is not looked at |

### `RateLimit` (auth and rate-limit middleware over the Redis token bucket)

`RateLimit` extends `Auth`: its `Authenticate` step is a signup or login at
the current time, and `Arrive` takes the Authorization header from the
tokens issued so far plus `Unsigned`.

State: the clock `t` in seconds; `bucket`, the Redis hash or `None` once
expired; `setAt`, when a script last wrote the key; per goroutine `pc`,
`path` and `now` (its `time.Now()`); `sent`; and the history `grants` (the
Redis time of each request let through). Tokens are counted in units of
1/`Refill` token, so one second refills `Capacity` units and every quantity
is an integer.

| Action | Source |
|---|---|
| `Arrive` | `AuthMiddleware` (skipped path; missing, malformed or invalid token → 401) then `RateLimitMiddleware` (skipped path; no user → 401), reading `time.Now()` on the way to `Allow` |
| `Allow` | the Lua script at Redis time `t` with the goroutine's `now`: refill (`Refilled`, `Current`), 429 or take a token (`Grantable`), store with `last_refill = now` and EXPIRE; an error or a timed-out command is 500 |
| `Remaining` | `GetRemainingTokens` (read-only) and the handler |
| `Tick`, `ExpireKey` | time passing and Redis deleting an expired key |

A command is given up by go-redis within its pool and read timeouts, so a
script runs at most `MaxStall` after its `time.Now()` or not at all.

## Runs

| Run | Expect | What it shows |
|---|---|---|
| `limitbook_safety` | pass | `BookIntegrity` (level queues index exactly the open booked orders despite in-place removal), `HeapConsistent` (the heap holds each level once, its top is the minimum), `AskPriority` (a BUY taker fills the lowest open ask first; the same statement for SELL takers fails, because the bid heap is a min-heap too), `RefinesAbstractBook` (every `CreateOrder` use of the book is a `Place` step of `AbstractBook`: fills at the maker's price within the taker's limit, both sides advancing equally, never beyond an order's quantity) |
| `limitbook_no_slice_panic` | violation | two full fills in one level slice past the end |
| `ledger_concurrent` | pass | `TypeOK` (balances are naturals: no overdraft) under any interleaving of two callers; `CallsComplete`: every call returns, including through lock-wait cycles, because PostgreSQL aborts one transaction of a cycle |
| `ledger_lost_update` | violation | `BalanceMatchesLedger` fails with two callers and no self-transfers: a lost update. No run allows a self-transfer; with one caller and self-pairs allowed, the same property fails in eight steps, because `UpdateTo` writes the credit over the debit |
| `orderengine_concurrent` | pass | `TypeOK` (no balance goes negative) through holds, one-sided trades, skipped trades, panics, a spinning match and a restart |
| `orderengine_trade_atomic` | violation | `TradeAtomic`: the base leg commits and the USD leg fails because the maker's USD is in hold |
| `orderengine_no_overfill` | violation | `NoOverfill` (no order settles trades beyond its quantity): a SELL taker's trade settles, the server restarts before `UpdateOrder`, the row is reloaded as NEW and a new BUY settles against it again. Letting restarts happen only at an idle server gives the maker case two steps later: a filled maker's row is never written and is reloaded the same way. A match cut off by a restart before it settled is not counted, since reloading its maker is recovery |
| `idempotency_guard` | pass | `TypeOK` (a fingerprint hashes the body and then the critical headers) and `RecordImpliesEffect` (a record is stored only for a key whose operation committed) with concurrent requests, a crash and failing queries |
| `idempotency_at_most_once` | violation | `AtMostOnce`: two concurrent requests with one key both run the operation |
| `quotes_subscribers` | pass | `TypeOK` (no channel buffer beyond its capacity) and `SubscribersExact` (the live slice holds exactly the subscribed channels, once each, through in-place appends, regrowth and in-place removal) |
| `quotes_send_on_closed` | violation | `NoSendOnClosed`: a handler unsubscribes after `updateQuote` copied the slice; the send on its closed channel panics and ends the process |
| `ratelimit_window` | pass | `TypeOK` (tokens stay within ±capacity; they go negative when a script's `now` is older than `last_refill`), `WindowBound` (in any window the grants stay within capacity plus refill over the window and one stall), through out-of-order scripts, expiry and Redis errors; and `AuthenticatedSession` (a request passes the middleware only within a refresh lifetime of a moment the right password was presented; with the access lifetime in its place it fails, because a refresh token is accepted as a bearer token) |

Some behaviours are modelled and reached by TLC but have no run of their
own. They are:
- the bid-side price priority;
- MatchOrder spinning on an emptied level;
- the top-up FK failure;
- a FIFO skip within a level;
- the nil-price panic of MARKET remainders sent without a price;
- holds that are never released;
- the crossed book after a crash between insert and match;
- the crossed book of two crossing orders matched before either is added;
- the pool deadlock with as many concurrent ledger calls as connections;
- an identical retry refused because the fingerprint follows map iteration order;
- duplicate and skipped quote deliveries from the in-place shift.

Most of them are reached by an ordinary test as well. `PROJECT.json` lists
each one as a hazard and says where the model reaches it.

Each property of a passing run has a mutant in `PROJECT.json`: a plausible
code bug, such as a dropped check or a leaked connection, that TLC shows
breaks it.

## Bounds

**LimitBook:** one user, prices {1, 2}, quantities {1, 2}, up to 4 orders
(128k states in 15 s; with MARKET orders that carry a price, 5 orders take
2.1M states and four minutes). Each bug needs at most three resting orders and one taker.
With two prices there is a best level and a worse level, and with two
quantities there are partial and full fills.

**Ledger:**
- Two users with a USD account each, and amount 1.
- Two concurrent workers.
- Four calls per behaviour: enough for two top-ups and two crossing transfers, the smallest lock-wait cycle.
- Pool of 3 in the passing run. That is the deployed situation of fewer concurrent calls than `SetMaxOpenConns`; with a pool of 2, as many callers as connections, every call blocks.

**OrderEngine:**
- A buyer (u1) and a seller (u2), so no trade is a self-trade. `spec.md` permits self-trades, and the code's `TransferFunds` to oneself creates money (`Ledger`'s `UpdateTo`); no run reaches it (see the self-transfer hazard in `PROJECT.json`).
- Prices {1, 2} and quantities {1, 2}.
- Two request goroutines and three orders in total.
- At most one restart.
- Balances of 2 USD and 2 BTC each in the passing and `TradeAtomic` runs: enough for two orders to be funded and for a third to be refused.
- `orderengine_no_overfill` has one request goroutine and balances of 4 USD and 3 BTC. Legs draw on available funds, not on the hold, so a second settled trade of the same order needs funds beyond those two holds. With smaller balances, the only re-match after a restart is of a match that never settled.

This gives 483k states in about 30 s. Every violation needs at most three orders
and one restart.

**Idempotency:**
- one key, two bodies (a top-up body and an order body) and both header sets;
- two goroutines and four requests;
- one crash.

This gives 9k distinct states. A concurrent duplicate needs two goroutines and two
requests. A retry after a crash needs one crash. A retry after a failed
`CreateOrder` that had committed a change needs one goroutine and two requests. A map-order mismatch needs
one request with both headers, plus its retry.

**Quotes:** two clients that connect twice each, channel buffers of 1 and
three quotes (91k states). The send on a closed channel needs two
subscribers (one walked past, one closed) and one quote; a buffer of 1 makes
both a send and a drop happen, and two connections per client make a
closed channel and a live one of the same client coexist.

**RateLimit:** two goroutines, a skipped and a limited path, a bucket of 2
tokens refilled over 4 s, EXPIRE after 4 s, a stall of at most 1 s, a clock
up to 5 s and six requests; one account, the right and a wrong password, two
signup or login requests, access tokens living 1 s and refresh tokens 3 s,
with symmetry over the goroutines (1.07M states in about a minute). main.go's bucket is 60
tokens a minute expiring after 60 s: the same ratio of expiry to refill
period. Six requests in six seconds exhaust the bucket, and the clock
outlasts an expiry, so a stale script can recreate the key. Within five
seconds a token can be issued, its access copy expire and its refresh copy
still be accepted, and a second login can issue a later pair.

## Fairness

`OrderEngine`, `Idempotency`, `Quotes` and `RateLimit` check only safety and have no fairness. The ledger specification is weakly fair on each worker's steps. A started
call's goroutine keeps running, and PostgreSQL executes a statement whenever
it is not blocked on a lock. New calls (`Start`) are client requests and get
no fairness. All models bound the number of requests, so the passing runs
set `CHECK_DEADLOCK FALSE`: once all requests are served the system idles.

## Not modelled (yet), and the plan

1. **Abstract exchange for the engine**: `OrderEngine` is not yet checked against an atomic matching-and-settlement spec. Its leg-by-leg settlement already violates `TradeAtomic`, so such a refinement could only hold for a corrected engine.

Left out:
- The mock quote generator and `publishQuote`: prices published to Redis, taken by `Quotes` as numbered messages; `GetQuote` only reads.
- `Limiter.Reset`: never called.
- The cryptography of JWT signing and Argon2id hashing: a token is its claims and signed iff issued, a hash is its (password, salt).
- `GetUserByID` and `UserExists`: never called. Several emails: accounts are independent, so `Auth` models one.
- The read-only ledger queries `GetLedgerEntriesByJournalID`, `GetLedgerEntriesByAccountID` and `ValidateJournalBalance` (`ledger.go:61-157`), and `GetOrderByID`: they change no state, and no handler calls the ledger queries.
- JSON formatting.
