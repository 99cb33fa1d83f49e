------------------------------ MODULE RateLimit ------------------------------
(***************************************************************************)
(* The middleware chain in front of every route (main.go: router.Use of   *)
(* auth.AuthMiddleware, then rate.RateLimitMiddleware) and the Redis       *)
(* token bucket of rate.Limiter, for the requests of one user served by   *)
(* concurrent goroutines.                                                  *)
(*                                                                         *)
(* Allow reads time.Now() in the goroutine and then runs the Lua script,  *)
(* which Redis executes atomically; goroutines may reach Redis in another *)
(* order than they read the clock, so a script can see `now` older than  *)
(* the stored last_refill.  Time is counted in whole seconds and tokens   *)
(* in units of 1/Refill token, so that a second refills Capacity units    *)
(* (refill_per_sec = capacity / refill) and every quantity is an integer. *)
(* go-redis gives up on a command it could not send within its pool and  *)
(* read timeouts, so a script runs at most MaxStall after the reading, or *)
(* not at all.  The account, its tokens and ValidateToken are Auth's;    *)
(* signup and login requests are served between the limited requests.    *)
(***************************************************************************)
EXTENDS Integers, Sequences, FiniteSets, Auth

CONSTANTS
    Clients,      \* goroutines serving the user's requests
    Paths,        \* request paths
    Capacity,     \* NewLimiter's capacity (60 in main.go)
    Refill,       \* NewLimiter's refill period in seconds (time.Minute)
    Expire,       \* the script's EXPIRE key 60, in seconds
    MaxStall,     \* longest time from a goroutine's time.Now() to its script running
    MaxTime,      \* bound on the clock
    MaxRequests,  \* bound on the requests sent
    RedisErrors   \* whether a call to Redis may fail

ASSUME /\ Capacity \in Nat \ {0} /\ Refill \in Nat \ {0} /\ Expire \in Nat /\ MaxStall \in Nat
       /\ MaxTime \in Nat /\ MaxRequests \in Nat /\ RedisErrors \in BOOLEAN

\* shouldSkipAuth's and shouldSkipRateLimit's lists.
AuthSkipPaths == {"/auth/signup", "/auth/login", "/health", "/metrics"}
RateSkipPaths == {"/health", "/metrics", "/auth/signup", "/auth/login"}

\* A full bucket, in units.
Full == Capacity * Refill

VARIABLES
    t,        \* the clock, in seconds
    bucket,   \* the Redis hash rate:<user>: [tokens, last], or None
    setAt,    \* when the script last wrote the key (its EXPIRE counts from there)
    pc,       \* pc[c]: where goroutine c is
    path,     \* path[c]: the path of its request
    now,      \* now[c]: the time.Now() its Allow read
    sent,     \* requests sent so far
    grants    \* history: the Redis time of every Allow that let a request through

rlVars == <<t, bucket, setAt, pc, path, now, sent, grants>>
vars == <<rlVars, authVars>>

TypeOK ==
    /\ AuthTypeOK
    /\ t \in 0..MaxTime
    \* tokens go below 0 when a script's now is older than last_refill
    /\ bucket \in [tokens : -Full..Full, last : 0..MaxTime] \cup {None}
    /\ setAt \in 0..MaxTime
    /\ pc \in [Clients -> {"idle", "allow", "remaining"}]
    /\ path \in [Clients -> Paths \cup {None}]
    /\ now \in [Clients -> 0..MaxTime]
    /\ grants \in Seq(0..MaxTime)

Init ==
    /\ AuthInit
    /\ t = 0
    /\ bucket = None
    /\ setAt = 0
    /\ pc = [c \in Clients |-> "idle"]
    /\ path = [c \in Clients |-> None]
    /\ now = [c \in Clients |-> 0]
    /\ sent = 0
    /\ grants = <<>>

\* The request ends: an error response, or the handler ran.
Done(c) ==
    /\ pc' = [pc EXCEPT ![c] = "idle"]
    /\ path' = [path EXCEPT ![c] = None]

\* Whether a request for path p with Authorization header h gets through
\* AuthMiddleware (a path it skips, or "Bearer <token>" with a token
\* ValidateToken accepts now, putting the user id in the context) and
\* reaches Limiter.Allow in RateLimitMiddleware (a path it does not skip,
\* with a user id).
ToAllow(p, h) == p \notin AuthSkipPaths /\ ValidateToken(h, t) /\ p \notin RateSkipPaths

\* A request for path p with header h arrives.  Unless it reaches Allow it
\* ends in the middleware: 401 for a missing, malformed, forged or expired token,
\* 401 for a path only AuthMiddleware skips, or the handler of a skipped
\* path.  On the way to Allow the goroutine reads time.Now().
Arrive(c, p, h) ==
    /\ pc[c] = "idle" /\ sent < MaxRequests
    /\ sent' = sent + 1
    /\ \/ /\ ~ToAllow(p, h)
          /\ UNCHANGED <<pc, path, now>>
       \/ /\ ToAllow(p, h)
          /\ pc' = [pc EXCEPT ![c] = "allow"]
          /\ path' = [path EXCEPT ![c] = p]
          /\ now' = [now EXCEPT ![c] = t]
    /\ UNCHANGED <<t, bucket, setAt, grants, authVars>>

\* Mutant of Refilled: math.min(capacity, ...) dropped.
RefilledUncapped(b, n) == b.tokens + (n - b.last) * Capacity

\* The script's tokens after refilling up to now n:
\* math.min(capacity, tokens + elapsed * refill_per_sec).
Refilled(b, n) ==
    LET v == b.tokens + (n - b.last) * Capacity IN IF v < Full THEN v ELSE Full

\* The hash as HMGET reads it: a missing key is a full bucket refilled at now.
Current(n) == IF bucket = None THEN [tokens |-> Full, last |-> n] ELSE bucket

\* Mutant of Grantable: a fraction of a token is let through.
GrantableAnyTokens(v) == v > 0

\* The script's `new_tokens < 1` test, negated: one whole token is left.
Grantable(v) == v >= Refill

\* Limiter.Allow: the Lua script runs atomically at Redis time t with the
\* goroutine's now.  Fewer than one token: the refilled tokens are stored
\* and the answer is 429.  Otherwise one token is taken.  Either way
\* last_refill becomes now and the key expires 60 s later.  An Eval error,
\* or a command that timed out before it was sent, is answered 500.
Allow(c) ==
    LET v == Refilled(Current(now[c]), now[c]) IN
    /\ pc[c] = "allow"
    /\ \/ /\ RedisErrors \/ t - now[c] > MaxStall
          /\ Done(c)
          /\ UNCHANGED <<bucket, setAt, grants>>
       \/ /\ t - now[c] <= MaxStall /\ ~Grantable(v)
          /\ bucket' = [tokens |-> v, last |-> now[c]]
          /\ setAt' = t
          /\ Done(c)
          /\ UNCHANGED grants
       \/ /\ t - now[c] <= MaxStall /\ Grantable(v)
          /\ bucket' = [tokens |-> v - Refill, last |-> now[c]]
          /\ setAt' = t
          /\ grants' = Append(grants, t)
          /\ pc' = [pc EXCEPT ![c] = "remaining"]
          /\ UNCHANGED path
    /\ UNCHANGED <<t, now, sent, authVars>>

\* GetRemainingTokens: a read-only script with a fresh time.Now() sets the
\* X-RateLimit-Remaining header, or nothing on error; then the handler runs.
Remaining(c) ==
    /\ pc[c] = "remaining"
    /\ Done(c)
    /\ UNCHANGED <<t, bucket, setAt, now, sent, grants, authVars>>

\* A second passes.
Tick ==
    /\ t < MaxTime
    /\ t' = t + 1
    /\ UNCHANGED <<bucket, setAt, pc, path, now, sent, grants, authVars>>

\* Redis deletes the key once its EXPIRE has run out.
ExpireKey ==
    /\ bucket # None /\ t >= setAt + Expire
    /\ bucket' = None
    /\ UNCHANGED <<t, setAt, pc, path, now, sent, grants, authVars>>

\* A signup or login request, served at the current time.
Authenticate ==
    /\ \E p \in Passwords : Signup(p, t) \/ Login(p, t)
    /\ UNCHANGED rlVars

Next ==
    \/ \E c \in Clients :
          \/ \E p \in Paths, h \in Unsigned \cup issued : Arrive(c, p, h)
          \/ Allow(c) \/ Remaining(c)
    \/ Tick
    \/ ExpireKey
    \/ Authenticate

Spec == Init /\ [][Next]_vars

-----------------------------------------------------------------------------
(* Properties.                                                              *)

\* The number of grants at Redis times within [a, b].
GrantsIn(a, b) == Cardinality({i \in DOMAIN grants : a <= grants[i] /\ grants[i] <= b})

\* The token-bucket promise, within one stall: in any d seconds at most
\* Capacity + Capacity * (d + MaxStall) / Refill requests are let through,
\* although scripts run in another order than the clock was read
\* (elapsed < 0), and the key may expire and be recreated full by a script
\* whose now is older than its run.  Without the MaxStall slack the bound
\* fails: the script trusts the goroutine's clock, not Redis's.
WindowBound ==
    \A a, b \in 0..t : a <= b =>
        Refill * GrantsIn(a, b) <= Full + Capacity * (b - a + MaxStall)

\* AuthMiddleware lets a request through to the limiter only within
\* RefreshTokenDuration of a moment the account's password was presented
\* (its signup, or a login VerifyPassword accepted): tokens come only from
\* those moments, and ValidateToken enforces their expiry.  It is the
\* refresh token's lifetime, not the access token's: ValidateToken accepts
\* either kind as a bearer token.
AuthenticatedSession ==
    [][\A c \in Clients :
         pc[c] = "idle" /\ pc'[c] = "allow" =>
            \E s \in proofs : s <= t /\ t < s + RefreshTTL]_vars
=============================================================================
