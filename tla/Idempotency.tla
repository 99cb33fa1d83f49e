---------------------------- MODULE Idempotency ----------------------------
(***************************************************************************)
(* The idempotency guard of the fund-moving endpoints (topupHandler and    *)
(* createOrderHandler in main.go, idempotency.Service): per request, the   *)
(* fingerprint of body and critical headers, the lookup of the (user, key) *)
(* record, the business operation, and the INSERT of the record in its own *)
(* transaction afterwards.  Requests are served by concurrent goroutines;  *)
(* the server may crash and restart, the database survives.                *)
(*                                                                         *)
(* The business operation (TopUpUser, CreateOrder) is one step; modules   *)
(* Ledger and OrderEngine model what happens inside it.  One user: records *)
(* are keyed by key.                                                       *)
(***************************************************************************)
EXTENDS Naturals, FiniteSets, SequencesExt

CONSTANTS
    Keys,        \* Idempotency-Key header values
    Bodies,      \* request bodies
    Procs,       \* goroutines serving requests concurrently
    MaxRequests, \* bound on the number of requests clients send
    MaxCrashes,  \* bound on the number of server crashes
    DbErrors,    \* whether a query of the guard itself may fail
    Endpoint,    \* Endpoint[b]: "topup" or "order", the handler a body is for
    None

ASSUME /\ DbErrors \in BOOLEAN /\ MaxRequests \in Nat /\ MaxCrashes \in Nat
       /\ Endpoint \in [Bodies -> {"topup", "order"}]

(* The auth middleware rejects a request without Authorization; a client  *)
(* may or may not send Content-Type.  These are GenerateFingerprint's     *)
(* critical headers.                                                      *)
HeaderSets == {{"Authorization"}, {"Authorization", "Content-Type"}}

Requests == [key : Keys, body : Bodies, hdrs : HeaderSets]

(* Mutant of Fingerprint: the headers left out of the hashed data.         *)
FingerprintBodyOnly(body, order) == <<body>>

(* GenerateFingerprint: the body followed by the critical headers in the  *)
(* order the range over the Go map visits them; SHA-256 of distinct       *)
(* strings is taken as distinct, so the fingerprint is the string itself. *)
Fingerprint(body, order) == <<body>> \o order

(* The data a fingerprint hashes: a body, then critical headers.           *)
Fingerprints ==
    {<<b>> \o s : b \in Bodies, s \in UNION {SetToSeqs(h) : h \in HeaderSets}}

VARIABLES
    records,  \* idempotency_keys: key -> stored fingerprint, or None
    pc,       \* where each goroutine is in the handler
    rq,       \* the request it serves
    fp,       \* the fingerprint it computed
    sent,     \* number of requests sent so far
    crashes,  \* number of crashes so far
    execs     \* history: per key, the operations that committed a change

vars == <<records, pc, rq, fp, sent, crashes, execs>>

TypeOK ==
    /\ records \in [Keys -> Fingerprints \cup {None}]
    /\ pc \in [Procs -> {"idle", "check", "exec", "store"}]
    /\ rq \in [Procs -> Requests \cup {None}]
    /\ fp \in [Procs -> Fingerprints \cup {None}]
    /\ execs \in [Keys -> Nat]

Init ==
    /\ records = [k \in Keys |-> None]
    /\ pc = [p \in Procs |-> "idle"]
    /\ rq = [p \in Procs |-> None]
    /\ fp = [p \in Procs |-> None]
    /\ sent = 0
    /\ crashes = 0
    /\ execs = [k \in Keys |-> 0]

Finish(p) ==
    /\ pc' = [pc EXCEPT ![p] = "idle"]
    /\ rq' = [rq EXCEPT ![p] = None]
    /\ fp' = [fp EXCEPT ![p] = None]

(* A client sends request r (a first attempt or a retry) and goroutine p  *)
(* takes it: the key header is present and the body is read.              *)
Receive(p, r) ==
    /\ pc[p] = "idle" /\ sent < MaxRequests
    /\ pc' = [pc EXCEPT ![p] = "check"]
    /\ rq' = [rq EXCEPT ![p] = r]
    /\ sent' = sent + 1
    /\ UNCHANGED <<records, fp, crashes, execs>>

(* GenerateFingerprint with the map visited in some order, then           *)
(* CheckIdempotency's SELECT on its own connection.  A query error and a  *)
(* fingerprint mismatch are both answered 409; a stored record with the   *)
(* same fingerprint is replayed; no record lets the operation run.        *)
Check(p) ==
    LET r == rq[p] IN
    /\ pc[p] = "check"
    /\ \E order \in SetToSeqs(r.hdrs) :
         LET f == Fingerprint(r.body, order) IN
         \/ /\ DbErrors
            /\ Finish(p)
         \/ /\ records[r.key] = None
            /\ pc' = [pc EXCEPT ![p] = "exec"]
            /\ fp' = [fp EXCEPT ![p] = f]
            /\ UNCHANGED rq
         \/ /\ records[r.key] \notin {None, f}
            /\ Finish(p)
         \/ /\ records[r.key] = f
            /\ Finish(p)
    /\ UNCHANGED <<records, sent, crashes, execs>>

(* Mutant of Exec: the error return after the operation dropped, so a    *)
(* failed operation goes on to store its record.                         *)
ExecNoReturn(p) ==
    LET k == rq[p].key IN
    /\ pc[p] = "exec"
    /\ \/ execs' = [execs EXCEPT ![k] = @ + 1]
       \/ UNCHANGED execs
    /\ pc' = [pc EXCEPT ![p] = "store"]
    /\ UNCHANGED <<records, rq, fp, sent, crashes>>

(* The business operation: it commits and goes on to store the record,   *)
(* or returns an error and the handler answers 500 with no record.         *)
(* TopUpUser is one transaction, so its error leaves no change.           *)
(* CreateOrder commits HoldFunds, the order row and each trade in          *)
(* transactions of their own, and can still fail after them (the INSERT   *)
(* of the row, UpdateOrder): its error may come after a committed change. *)
Exec(p) ==
    LET k == rq[p].key IN
    /\ pc[p] = "exec"
    /\ \/ /\ execs' = [execs EXCEPT ![k] = @ + 1]
          /\ pc' = [pc EXCEPT ![p] = "store"]
          /\ UNCHANGED <<rq, fp>>
       \/ /\ Finish(p)
          /\ UNCHANGED execs
       \/ /\ Endpoint[rq[p].body] = "order"
          /\ execs' = [execs EXCEPT ![k] = @ + 1]
          /\ Finish(p)
    /\ UNCHANGED <<records, sent, crashes>>

(* StoreIdempotency in a new transaction.  UNIQUE (user_id, idem_key)     *)
(* makes the INSERT fail if another request stored the key meanwhile, and *)
(* a database error fails it too; either way the answer is 500 after the  *)
(* effect has committed.                                                   *)
Store(p) ==
    LET k == rq[p].key IN
    /\ pc[p] = "store"
    /\ \/ /\ records[k] = None
          /\ records' = [records EXCEPT ![k] = fp[p]]
       \/ /\ records[k] # None \/ DbErrors
          /\ UNCHANGED records
    /\ Finish(p)
    /\ UNCHANGED <<sent, crashes, execs>>

(* The server process dies: every request in flight is lost, committed    *)
(* rows stay.                                                              *)
Crash ==
    /\ crashes < MaxCrashes
    /\ \E p \in Procs : pc[p] # "idle"
    /\ pc' = [p \in Procs |-> "idle"]
    /\ rq' = [p \in Procs |-> None]
    /\ fp' = [p \in Procs |-> None]
    /\ crashes' = crashes + 1
    /\ UNCHANGED <<records, sent, execs>>

Next ==
    \/ \E p \in Procs :
          \/ \E r \in Requests : Receive(p, r)
          \/ Check(p) \/ Exec(p) \/ Store(p)
    \/ Crash

Spec == Init /\ [][Next]_vars

-----------------------------------------------------------------------------
(* Properties.                                                              *)

\* A record is stored only for a key whose operation committed: a request
\* that failed leaves no record, so its retry runs the operation (the
\* handlers return before StoreIdempotency on every error).
RecordImpliesEffect ==
    \A k \in Keys : records[k] # None => execs[k] >= 1

\* The business operation of a key commits at most once, however often and
\* however concurrently the request is retried (spec: a repeated request
\* makes no additional state change).
AtMostOnce == \A k \in Keys : execs[k] <= 1
=============================================================================
