-------------------------------- MODULE Auth --------------------------------
(***************************************************************************)
(* Authentication of one account (one email): signupHandler and            *)
(* loginHandler in main.go over UserRepository's users table, the Argon2id  *)
(* password hash, and the JWTs GenerateTokens signs and ValidateToken      *)
(* checks.                                                                 *)
(*                                                                         *)
(* A token is its claims: the kind of token it was issued as, IssuedAt =   *)
(* NotBefore, and ExpiresAt, on the composing specification's clock.  A   *)
(* token is signed with JWTSecret exactly when GenerateTokens made it, so  *)
(* the tokens issued here are the only ones ValidateToken's HMAC check     *)
(* accepts.  Argon2id is taken as injective in (password, salt).  The      *)
(* clock is not a variable of this module: each step is given the time it *)
(* happens at.                                                             *)
(***************************************************************************)
EXTENDS Naturals

CONSTANTS
    Passwords,        \* passwords a client may send to signup or login
    Salts,            \* values of generateRandomBytes(SaltLength)
    AccessTTL,        \* AccessTokenDuration, in clock units
    RefreshTTL,       \* RefreshTokenDuration, in clock units
    MaxAuthRequests,  \* bound on the signup and login requests
    None

ASSUME AccessTTL \in Nat /\ RefreshTTL \in Nat /\ MaxAuthRequests \in Nat

VARIABLES
    account,   \* the users row of the email: [hash], or None before signup
    issued,    \* the tokens GenerateTokens has signed
    authReqs,  \* signup and login requests served so far
    proofs     \* history: the times the account's password was presented

authVars == <<account, issued, authReqs, proofs>>

\* What a client may put in the Authorization header besides an issued
\* token: no "Bearer <token>" at all, or a token not signed by GenerateTokens
\* (another key, or another algorithm such as none or RS256), whatever
\* claims it carries.
Unsigned == {[kind |-> k, iat |-> 0, exp |-> 0] : k \in {"no_bearer", "forged"}}

\* HashPassword: Argon2id of the password under a random salt, encoded with
\* the parameters and the salt.
HashPassword(p, s) == [pw |-> p, salt |-> s]

\* VerifyPassword: decodeHash recovers the salt and parameters, the password
\* is hashed again and compared in constant time.
VerifyPassword(p, h) == HashPassword(p, h.salt) = h

\* GenerateTokens at time at: an access and a refresh token with the same
\* claims but for their expiry.
GenerateTokens(at) ==
    {[kind |-> "access",  iat |-> at, exp |-> at + AccessTTL],
     [kind |-> "refresh", iat |-> at, exp |-> at + RefreshTTL]}

AuthTypeOK ==
    /\ account \in [hash : [pw : Passwords, salt : Salts]] \cup {None}
    /\ issued \subseteq [kind : {"access", "refresh"}, iat : Nat, exp : Nat]
    /\ authReqs \in 0..MaxAuthRequests
    /\ proofs \subseteq Nat

AuthInit ==
    /\ account = None
    /\ issued = {}
    /\ authReqs = 0
    /\ proofs = {}

\* Mutant of ValidateToken: the registered claims not validated.
ValidateTokenNoExpiry(h, now) == h \in issued /\ h.iat <= now

\* ValidateToken at time now: ParseWithClaims accepts an HMAC token signed
\* with JWTSecret whose NotBefore has passed and whose ExpiresAt has not.
\* Nothing looks at which kind of token it was issued as.
ValidateToken(h, now) == h \in issued /\ h.iat <= now /\ now < h.exp

\* Mutant of Verified: loginHandler's `|| !valid` dropped.
VerifiedAnyPassword(p) == account # None

\* loginHandler's checks: GetUserByEmail finds the row and VerifyPassword
\* accepts the password.
Verified(p) == account # None /\ VerifyPassword(p, account.hash)

\* UserRepository.CreateUser: INSERT INTO users of the email and the hash,
\* which the UNIQUE email refuses once the row exists.
CreateUser(h) == account = None /\ account' = [hash |-> h]

\* signupHandler at time at: HashPassword under a fresh salt, then
\* CreateUser; its error is answered 500, otherwise the tokens of
\* GenerateTokens are returned.
Signup(p, at) ==
    /\ authReqs < MaxAuthRequests
    /\ authReqs' = authReqs + 1
    /\ \/ /\ account # None
          /\ UNCHANGED <<account, issued, proofs>>
       \/ /\ \E s \in Salts : CreateUser(HashPassword(p, s))
          /\ issued' = issued \cup GenerateTokens(at)
          /\ proofs' = proofs \cup {at}

\* loginHandler at time at: 401 "Invalid credentials" for an unknown email
\* or a wrong password, otherwise the tokens of GenerateTokens.
Login(p, at) ==
    /\ authReqs < MaxAuthRequests
    /\ authReqs' = authReqs + 1
    /\ \/ /\ ~Verified(p)
          /\ UNCHANGED <<account, issued, proofs>>
       \/ /\ Verified(p)
          /\ issued' = issued \cup GenerateTokens(at)
          /\ proofs' = IF p = account.hash.pw THEN proofs \cup {at} ELSE proofs
          /\ UNCHANGED account
=============================================================================
