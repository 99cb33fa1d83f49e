---------------------------- MODULE MCRateLimit ----------------------------
(***************************************************************************)
(* Model-checking instance of RateLimit: two goroutines of one user, a    *)
(* skipped and a limited path, and a bucket of two tokens refilled over   *)
(* four seconds, with the key expiring four seconds after the last script *)
(* and a script running at most one second after its time.Now().        *)
(* main.go's bucket is 60 tokens a minute expiring after 60 s: the same   *)
(* ratio of expiry to refill period, scaled down; a stall of a quarter of *)
(* the period stands for go-redis's seconds-long timeouts against a      *)
(* minute.  Authentication: one account, two passwords (the right one   *)
(* and a wrong one), one salt, two signup or login requests, access tokens *)
(* living one second and refresh tokens three, on a clock of five seconds: *)
(* enough for a token to be issued, used, and outlive or outlast the other.*)
(***************************************************************************)
EXTENDS RateLimit, TLC

MCPaths   == {"/health", "/api/orders"}
MCPasswords == {"pw1", "pw2"}
MCSalts   == {"s1"}

\* The goroutines are interchangeable: no step depends on which one runs.
MCSymmetry == Permutations(Clients)
=============================================================================
