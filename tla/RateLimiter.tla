---------------------------- MODULE RateLimiter ----------------------------
(***************************************************************************)
(* The token bucket of src/ratelimit.rs. The middleware derives a key from *)
(* the request and asks check(key), which works on the bucket of the key   *)
(* under the lock of its DashMap entry. `now` is read before the entry is  *)
(* locked, so it may lag behind the `now` of a request that got the lock   *)
(* earlier.                                                                *)
(*                                                                         *)
(* Time is discrete. The division in f64 is exact here.                    *)
(***************************************************************************)
EXTENDS Integers

CONSTANTS
    Keys,           \* what requests are keyed by: ip:port of the client
    MaxRequests,    \* max_requests as configured
    WindowSecs,     \* window_secs as configured, in ticks
    Lag             \* how long a request may wait for the entry

ASSUME LimiterAssumption ==
    /\ MaxRequests \in Nat
    /\ WindowSecs \in Nat
    /\ Lag \in Nat

VARIABLES
    seen,       \* the keys that have a bucket
    tokens,     \* tokens[k]: the tokens of the bucket
    since,      \* since[k]: ticks since last_refill
    credit      \* history: an ideal bucket per key, see Conforms

vars == <<seen, tokens, since, credit>>

\* new(..) replaces zero by one.
Capacity == IF MaxRequests = 0 THEN 1 ELSE MaxRequests
Window   == IF WindowSecs = 0 THEN 1 ELSE WindowSecs

\* After this long a bucket is refilled completely, whatever the lag.
LongAgo == Window + Lag

\* The ideal bucket counts in units of 1/Window of a token. It holds one token
\* more than the capacity, and what comes in while a request waits.
Unit == Window
Burst == (Capacity + 1) * Unit + Lag * Capacity

LeastOf(m, n) == IF m <= n THEN m ELSE n

Init ==
    /\ seen = {}
    /\ tokens = [k \in Keys |-> Capacity]
    /\ since = [k \in Keys |-> 0]
    /\ credit = [k \in Keys |-> Burst]

-----------------------------------------------------------------------------
(* check *)

\* elapsed / window * max_requests, as u64.
Refill(elapsed) == (elapsed * Capacity) \div Window

\* now.duration_since(last_refill) saturates at zero.
ElapsedAt(k, lag) == IF k \in seen /\ since[k] > lag THEN since[k] - lag ELSE 0

TokensAtUncapped(k, lag) ==   \* faulty variant: min(max_requests) forgotten
    tokens[k] + Refill(ElapsedAt(k, lag))

TokensAt(k, lag) == LeastOf(tokens[k] + Refill(ElapsedAt(k, lag)), Capacity)

CheckNeverResets(k, lag) ==   \* faulty variant: last_refill is not advanced
    LET t == TokensAt(k, lag) IN
    /\ seen' = seen \cup {k}
    /\ since' = [since EXCEPT ![k] = IF k \in seen THEN @ ELSE lag]
    /\ tokens' = [tokens EXCEPT ![k] = IF t > 0 THEN t - 1 ELSE t]
    /\ credit' = [credit EXCEPT ![k] = IF t > 0 THEN @ - Unit ELSE @]

CheckAlwaysResets(k, lag) ==   \* faulty variant: last_refill = now without a refill
    LET t == TokensAt(k, lag) IN
    /\ seen' = seen \cup {k}
    /\ since' = [since EXCEPT ![k] = IF k \in seen /\ @ <= lag THEN @ ELSE lag]
    /\ tokens' = [tokens EXCEPT ![k] = IF t > 0 THEN t - 1 ELSE t]
    /\ credit' = [credit EXCEPT ![k] = IF t > 0 THEN @ - Unit ELSE @]

\* check(k) with a `now` that is lag ticks old. The bucket is created full;
\* last_refill moves only with a refill of at least one token; the request is
\* admitted if a token is left.
Check(k, lag) ==
    LET t == TokensAt(k, lag) IN
    /\ seen' = seen \cup {k}
    /\ since' = [since EXCEPT ![k] =
                    IF k \notin seen \/ Refill(ElapsedAt(k, lag)) > 0 THEN lag ELSE @]
    /\ tokens' = [tokens EXCEPT ![k] = IF t > 0 THEN t - 1 ELSE t]
    /\ credit' = [credit EXCEPT ![k] = IF t > 0 THEN @ - Unit ELSE @]

\* Time passes, and the ideal buckets fill at Capacity tokens per window.
Tick ==
    /\ since' = [k \in Keys |->
                    IF k \in seen /\ since[k] < LongAgo THEN since[k] + 1 ELSE since[k]]
    /\ credit' = [k \in Keys |-> LeastOf(credit[k] + Capacity, Burst)]
    /\ UNCHANGED <<seen, tokens>>

Next == Tick \/ \E k \in Keys, lag \in 0..Lag : Check(k, lag)

Spec == Init /\ [][Next]_vars

\* Clients may stop asking; time does not stop.
FairSpec == Spec /\ WF_vars(Tick)

-----------------------------------------------------------------------------
(* Properties *)

\* Types of the buckets.
TypeOK ==
    /\ seen \in SUBSET Keys
    /\ tokens \in [Keys -> 0..Capacity]
    /\ since \in [Keys -> 0..LongAgo]
    /\ credit \in [Keys -> Int]

\* The limit: every admission costs a token of an ideal bucket that fills at
\* max_requests per window and holds one token more (and what comes in during
\* the lag), and that bucket is never overdrawn. So however requests are
\* timed, no more than
\*     max_requests + 1 + (T + Lag) * max_requests / window_secs
\* of a key are admitted in any T ticks. The extra token is the fraction of a
\* token that a full bucket keeps in last_refill.
Conforms == \A k \in Keys : credit[k] >= 0

Available(k) == \E lag \in 0..Lag : TokensAt(k, lag) > 0

\* A client cannot lock itself out by asking too often: the time since the
\* last refill is not lost when a check comes too early for a whole token.
NeverStarved == \A k \in Keys : ~Available(k) ~> Available(k)
=============================================================================
