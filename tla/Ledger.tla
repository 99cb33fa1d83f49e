------------------------------- MODULE Ledger -------------------------------
(***************************************************************************)
(* The ledger service of internal/ledger/service.go over the accounts and  *)
(* ledger_entries tables, called concurrently by request goroutines.       *)
(*                                                                         *)
(* Every call opens a transaction with db.Begin (one pooled connection),   *)
(* reads the account rows through the AccountRepository, which queries     *)
(* r.db and therefore a SECOND pooled connection outside the transaction,  *)
(* checks the balance it read, inserts the journal in the transaction and  *)
(* writes the new balances as absolute values computed from what it read.  *)
(*                                                                         *)
(* The database is PostgreSQL at READ COMMITTED: a read sees the committed *)
(* rows, an UPDATE takes the row lock until commit and waits on a row      *)
(* locked by another transaction, and a cycle of such waits is broken by   *)
(* aborting one of its transactions (error 40P01).  database/sql blocks    *)
(* a query or Begin until a pooled connection is free (SetMaxOpenConns).   *)
(*                                                                         *)
(* Amounts are small naturals standing for decimal.Decimal values; only    *)
(* their order and sums matter to the code.                                *)
(***************************************************************************)
EXTENDS Integers, FiniteSets, TLC, Relation, Sequences, SequencesExt

CONSTANTS
    Users,          \* users, each with one account row per currency
    Currencies,     \* currencies of the accounts
    USD,            \* the currency TopUpUser credits
    SystemAccount,  \* uuid.Nil, the "system equity" account of TopUpUser
    Amounts,        \* positive amounts callers pass
    TransferPairs,  \* (from user, to user) pairs TransferFunds is called with
    Workers,        \* goroutines calling the service concurrently
    PoolSize,       \* SetMaxOpenConns
    MaxCalls,       \* bound on the number of calls of a behaviour
    SystemRowInit,  \* whether an accounts row with id uuid.Nil exists
    None

ASSUME /\ USD \in Currencies
       /\ Amounts \subseteq Nat \ {0}
       /\ TransferPairs \subseteq Users \X Users
       /\ PoolSize \in Nat \ {0}
       /\ MaxCalls \in Nat
       /\ SystemRowInit \subseteq BOOLEAN /\ SystemRowInit # {}

Accounts == Users \X Currencies

(* A call: TopUpUser(user, amt), HoldFunds/ReleaseHold(user, cur, amt) act *)
(* on the one account "from" (= "to"); TransferFunds(from, to, amt, cur).  *)
Calls ==
       {[kind |-> "topup", from |-> <<u, USD>>, to |-> <<u, USD>>, amt |-> m] :
           u \in Users, m \in Amounts}
  \cup {[kind |-> k, from |-> <<u, c>>, to |-> <<u, c>>, amt |-> m] :
           k \in {"hold", "release"}, u \in Users, c \in Currencies, m \in Amounts}
  \cup {[kind |-> "transfer", from |-> <<p[1], c>>, to |-> <<p[2], c>>, amt |-> m] :
           p \in TransferPairs, c \in Currencies, m \in Amounts}

Row == [avail : Int, hold : Int]
ZeroRow == [avail |-> 0, hold |-> 0]

Results == {"none", "ok", "insufficient", "fk_error", "deadlock"}

VARIABLES
    acct,       \* committed accounts rows: balance_available, balance_hold
    posted,     \* committed sum of ledger_entries.amount per account id
    systemRow,  \* the accounts row with id uuid.Nil exists
    lock,       \* row lock holder of each account row, or None
    pc,         \* where each worker is in its call
    call,       \* the call each worker is executing (or executed last)
    snap,       \* account rows the worker read: [from |-> row, to |-> row]
    pend,       \* row images written by the worker's open transaction
    inUse,      \* pooled connections checked out by open transactions
    result,     \* what the worker's last call returned
    calls       \* number of calls started

vars == <<acct, posted, systemRow, lock, pc, call, snap, pend, inUse, result, calls>>

(* Balances are naturals: besides the shape of the state, TypeOK states    *)
(* that no committed balance, available or held, is ever negative; the     *)
(* checks of HoldFunds, ReleaseHold and TransferFunds on the rows they     *)
(* read must protect every write whatever the other transactions do.      *)
TypeOK ==
    /\ acct \in [Accounts -> [avail : Nat, hold : Nat]]
    /\ posted \in [Accounts \cup {SystemAccount} -> Int]
    /\ systemRow \in BOOLEAN
    /\ lock \in [Accounts -> Workers \cup {None}]
    /\ pc \in [Workers -> {"idle", "read", "read_to", "write", "update_from", "update_to"}]
    /\ call \in [Workers -> Calls \cup {None}]
    /\ snap \in [Workers -> [from : Row, to : Row]]
    /\ \A w \in Workers : pend[w] \in [DOMAIN pend[w] -> Row] /\ DOMAIN pend[w] \subseteq Accounts
    /\ inUse \in 0..PoolSize
    /\ result \in [Workers -> Results]
    /\ calls \in 0..MaxCalls

(* Connections of the pool not held by an open transaction. *)
FreeConns == PoolSize - inUse

(* Mutant: a balance check that never rejects. *)
InsufficientNever(balance, amt) == FALSE

(* The balance check of HoldFunds, ReleaseHold and TransferFunds. *)
Insufficient(balance, amt) == balance < amt

(* Mutant: an error return that does not roll back, so the transaction's  *)
(* connection stays checked out of the pool.                               *)
EndCallLeak(w, r) ==
    /\ pc' = [pc EXCEPT ![w] = "idle"]
    /\ inUse' = IF r = "ok" THEN inUse - 1 ELSE inUse
    /\ lock' = [a \in Accounts |-> IF lock[a] = w THEN None ELSE lock[a]]
    /\ pend' = [pend EXCEPT ![w] = <<>>]
    /\ snap' = [snap EXCEPT ![w] = [from |-> ZeroRow, to |-> ZeroRow]]
    /\ result' = [result EXCEPT ![w] = r]

(* Return from the call: the deferred tx.Rollback (or tx.Commit) returns   *)
(* the transaction's connection to the pool and drops its row locks.       *)
EndCall(w, r) ==
    /\ pc' = [pc EXCEPT ![w] = "idle"]
    /\ inUse' = inUse - 1
    /\ lock' = [a \in Accounts |-> IF lock[a] = w THEN None ELSE lock[a]]
    /\ pend' = [pend EXCEPT ![w] = <<>>]
    /\ snap' = [snap EXCEPT ![w] = [from |-> ZeroRow, to |-> ZeroRow]]
    /\ result' = [result EXCEPT ![w] = r]

Init ==
    /\ acct = [a \in Accounts |-> ZeroRow]
    /\ posted = [a \in Accounts \cup {SystemAccount} |-> 0]
    /\ systemRow \in SystemRowInit
    /\ lock = [a \in Accounts |-> None]
    /\ pc = [w \in Workers |-> "idle"]
    /\ call = [w \in Workers |-> None]
    /\ snap = [w \in Workers |-> [from |-> ZeroRow, to |-> ZeroRow]]
    /\ pend = [w \in Workers |-> <<>>]
    /\ inUse = 0
    /\ result = [w \in Workers |-> "none"]
    /\ calls = 0

(* A worker enters a call: the amount check passes (amounts are positive)  *)
(* and db.Begin takes a connection of the pool.                            *)
Start(w, c) ==
    /\ pc[w] = "idle"
    /\ calls < MaxCalls
    /\ FreeConns >= 1
    /\ pc' = [pc EXCEPT ![w] = "read"]
    /\ call' = [call EXCEPT ![w] = c]
    /\ inUse' = inUse + 1
    /\ result' = [result EXCEPT ![w] = "none"]
    /\ calls' = calls + 1
    /\ UNCHANGED <<acct, posted, systemRow, lock, snap, pend>>

(* The first account read, GetAccountByUserIDAndCurrency or                *)
(* GetAccountByID(from), on a second connection outside the transaction;   *)
(* HoldFunds and ReleaseHold then check the balance they read.             *)
Read(w) ==
    LET c == call[w]
        row == acct[c.from]
    IN
    /\ pc[w] = "read"
    /\ FreeConns >= 1
    /\ \/ /\ \/ c.kind = "hold" /\ Insufficient(row.avail, c.amt)
             \/ c.kind = "release" /\ Insufficient(row.hold, c.amt)
          /\ EndCall(w, "insufficient")
       \/ /\ ~(c.kind = "hold" /\ Insufficient(row.avail, c.amt))
          /\ ~(c.kind = "release" /\ Insufficient(row.hold, c.amt))
          /\ pc' = [pc EXCEPT ![w] = IF c.kind = "transfer" THEN "read_to" ELSE "write"]
          /\ snap' = [snap EXCEPT ![w].from = row]
          /\ UNCHANGED <<inUse, lock, pend, result>>
    /\ UNCHANGED <<acct, posted, systemRow, call, calls>>

(* TransferFunds reads the "to" account on its own query and checks the    *)
(* available balance of the "from" row it read before.                     *)
ReadTo(w) ==
    LET c == call[w] IN
    /\ pc[w] = "read_to"
    /\ FreeConns >= 1
    /\ \/ /\ Insufficient(snap[w].from.avail, c.amt)
          /\ EndCall(w, "insufficient")
       \/ /\ ~Insufficient(snap[w].from.avail, c.amt)
          /\ pc' = [pc EXCEPT ![w] = "update_from"]
          /\ snap' = [snap EXCEPT ![w].to = acct[c.to]]
          /\ UNCHANGED <<inUse, lock, pend, result>>
    /\ UNCHANGED <<acct, posted, systemRow, call, calls>>

(* The journal entries, [acct, amt], TopUpUser builds: a credit to the    *)
(* user's account and a debit to the uuid.Nil system account.              *)
TopUpEntries(c) ==
    <<[acct |-> c.from, amt |-> c.amt], [acct |-> SystemAccount, amt |-> -c.amt]>>

(* The journal entries TransferFunds builds: a debit and a credit.        *)
TransferEntries(c) ==
    <<[acct |-> c.from, amt |-> -c.amt], [acct |-> c.to, amt |-> c.amt]>>

(* CreateJournal succeeds: the journal is not empty, its amounts sum to    *)
(* zero, and every entry's INSERT meets the account_id foreign key (the   *)
(* system account has a row only if systemRow).                            *)
JournalOK(es) ==
    /\ es # <<>>
    /\ FoldLeft(LAMBDA sum, e : sum + e.amt, 0, es) = 0
    /\ \A i \in DOMAIN es : es[i].acct # SystemAccount \/ systemRow

(* The ledger once CreateJournal's INSERTs commit: each entry adds its     *)
(* amount to its account.                                                  *)
Posted(es) == FoldLeft(LAMBDA p, e : [p EXCEPT ![e.acct] = @ + e.amt], posted, es)

(* The one-row write of TopUpUser, HoldFunds and ReleaseHold: TopUpUser's  *)
(* journal insert fails on the foreign key of the uuid.Nil entry when no   *)
(* such account row exists; otherwise UPDATE takes the row lock (waiting   *)
(* while another transaction holds it) and the transaction commits the    *)
(* balances computed from the snapshot and the journal.                    *)
Write(w) ==
    LET c == call[w]
        s == snap[w].from
        a == c.from
    IN
    /\ pc[w] = "write"
    /\ \/ /\ c.kind = "topup" /\ ~JournalOK(TopUpEntries(c))
          /\ EndCall(w, "fk_error")
          /\ UNCHANGED <<acct, posted>>
       \/ /\ c.kind = "topup" => JournalOK(TopUpEntries(c))
          /\ lock[a] = None
          /\ acct' = [acct EXCEPT ![a] =
                        CASE c.kind = "topup"   -> [s EXCEPT !.avail = s.avail + c.amt]
                          [] c.kind = "hold"    -> [avail |-> s.avail - c.amt, hold |-> s.hold + c.amt]
                          [] c.kind = "release" -> [avail |-> s.avail + c.amt, hold |-> s.hold - c.amt]]
          /\ posted' = IF c.kind = "topup" THEN Posted(TopUpEntries(c)) ELSE posted
          /\ EndCall(w, "ok")
    /\ UNCHANGED <<systemRow, call, calls>>

(* TransferFunds inserts its journal and updates the "from" row to the     *)
(* snapshot's available balance minus the amount, taking its row lock.     *)
UpdateFrom(w) ==
    LET c == call[w] IN
    /\ pc[w] = "update_from"
    /\ lock[c.from] \in {None, w}
    /\ lock' = [lock EXCEPT ![c.from] = w]
    /\ pend' = [pend EXCEPT ![w] =
                  c.from :> [snap[w].from EXCEPT !.avail = @ - c.amt]]
    /\ pc' = [pc EXCEPT ![w] = "update_to"]
    /\ UNCHANGED <<acct, posted, systemRow, call, snap, inUse, result, calls>>

(* TransferFunds updates the "to" row to the snapshot's available balance  *)
(* plus the amount, then commits both rows and the journal.  When "from"   *)
(* and "to" are the same row the second UPDATE overwrites the first.       *)
UpdateTo(w) ==
    LET c == call[w]
        rows == (c.to :> [snap[w].to EXCEPT !.avail = @ + c.amt]) @@ pend[w]
    IN
    /\ pc[w] = "update_to"
    /\ lock[c.to] \in {None, w}
    /\ acct' = [a \in Accounts |-> IF a \in DOMAIN rows THEN rows[a] ELSE acct[a]]
    /\ posted' = Posted(TransferEntries(c))
    /\ EndCall(w, "ok")
    /\ UNCHANGED <<systemRow, call, calls>>

(* Worker w waits for a row lock held by worker v. *)
WaitsFor(w, v) ==
    /\ w # v
    /\ \/ pc[w] \in {"write", "update_from"} /\ lock[call[w].from] = v
       \/ pc[w] = "update_to" /\ lock[call[w].to] = v

(* w is on a cycle of lock waits. *)
Deadlocked(w) ==
    TransitiveClosure([p \in Workers \X Workers |-> WaitsFor(p[1], p[2])], Workers)[w, w]

(* PostgreSQL's deadlock detector aborts a transaction on a wait cycle and *)
(* the UPDATE returns an error, so TransferFunds returns it.               *)
DeadlockAbort(w) ==
    /\ Deadlocked(w)
    /\ EndCall(w, "deadlock")
    /\ UNCHANGED <<acct, posted, systemRow, call, calls>>

Step(w) ==
    \/ Read(w) \/ ReadTo(w) \/ Write(w) \/ UpdateFrom(w) \/ UpdateTo(w)
    \/ DeadlockAbort(w)

Next ==
    \E w \in Workers :
        \/ \E c \in Calls : Start(w, c)
        \/ Step(w)

(* Requests arrive when clients send them; a started call is run by its    *)
(* goroutine and by the database whenever it is not blocked.               *)
Spec == Init /\ [][Next]_vars /\ \A w \in Workers : WF_vars(Step(w))

-----------------------------------------------------------------------------
(* Every account's balance (available plus held) equals the sum of its     *)
(* ledger entries: each balance change is journalled in the same          *)
(* transaction (double-entry ledger invariant of the design).              *)
BalanceMatchesLedger ==
    \A a \in Accounts : acct[a].avail + acct[a].hold = posted[a]

(* Every call a worker starts eventually returns. *)
CallsComplete ==
    \A w \in Workers : pc[w] # "idle" ~> pc[w] = "idle"
=============================================================================
