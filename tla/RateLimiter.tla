------------------------------ MODULE RateLimiter ------------------------------
(***************************************************************************)
(* The fixed-window rate limiter (internal/repo/cache/redis/               *)
(* rate_limiter.go) in front of the /auth endpoints and the public-key     *)
(* look-up (RateLimitMiddleware of internal/controller/restapi).           *)
(*                                                                         *)
(* A key is a prefix with an IP address (realIP) or a user id (userIDKey). *)
(* Redis holds a counter and the time it has left under each key.  The     *)
(* clock is the time left of each entry: a tick takes one unit from all of *)
(* them, so that no time bound is needed.  Every count above Limit is      *)
(* answered alike, and is kept as Limit + 1.                               *)
(***************************************************************************)
EXTENDS Naturals, Functions

CONSTANTS
    Keys,     \* the addresses or users that are counted
    Limit,    \* limit: 10 for /auth, 20 for the public key
    Window,   \* window, one minute in both
    MaxErrors \* bounds the errors of Redis: an outage ends

ASSUME LimitAssumption == Limit \in Nat \ {0} /\ Window \in Nat \ {0}
ASSUME ErrorsAssumption == MaxErrors \in Nat

VARIABLES
    count,    \* the counter, 0 when the key does not exist
    ttl,      \* the time until Redis drops the key
    answer,   \* what the last request for the key was told
    errors,   \* the errors of Redis so far
    passed,   \* history: the requests let through 0, 1, ... Window-1 ticks ago
    counted   \* history: the runs of the script, in the same way

vars == <<count, ttl, answer, errors, passed, counted>>

Ages == 0..(Window - 1)
Recent(h, k) == SumFunctionOnSet(h[k], Ages)

Init ==
    /\ count = [k \in Keys |-> 0]
    /\ ttl = [k \in Keys |-> 0]
    /\ answer = [k \in Keys |-> "none"]
    /\ errors = 0
    /\ passed = [k \in Keys |-> [a \in Ages |-> 0]]
    /\ counted = [k \in Keys |-> [a \in Ages |-> 0]]

-----------------------------------------------------------------------------
\* Allow

Capped(n, max) == IF n < max THEN n ELSE max

\* Faulty variant: every call sets the time to live.
RenewingScript(k) ==
    /\ count' = [count EXCEPT ![k] = Capped(@ + 1, Limit + 1)]
    /\ ttl' = [ttl EXCEPT ![k] = Window]
    /\ counted' = [counted EXCEPT ![k][0] = Capped(@ + 1, Limit)]

\* incrExpireScript, which Redis runs as one step.
IncrExpireScript(k) ==
    /\ count' = [count EXCEPT ![k] = Capped(@ + 1, Limit + 1)]
    /\ ttl' = [ttl EXCEPT ![k] = IF count[k] = 0 THEN Window ELSE @]
    /\ counted' = [counted EXCEPT ![k][0] = Capped(@ + 1, Limit)]

\* Faulty variant: the limit itself is refused.
AllowedBelow(k) == count'[k] < Limit

Allowed(k) == count'[k] <= Limit

\* RateLimitMiddleware: 429, or the request goes to its handler.
RateLimited(k) ==
    /\ IncrExpireScript(k)
    /\ IF Allowed(k)
       THEN /\ answer' = [answer EXCEPT ![k] = "passed"]
            /\ passed' = [passed EXCEPT ![k][0] = @ + 1]
       ELSE /\ answer' = [answer EXCEPT ![k] = "refused"]
            /\ UNCHANGED passed
    /\ UNCHANGED errors

\* Faulty variant: the limiter opens when Redis does not answer.
RedisErrorPasses(k) ==
    /\ errors < MaxErrors
    /\ errors' = errors + 1
    /\ IncrExpireScript(k) \/ UNCHANGED <<count, ttl, counted>>
    /\ answer' = [answer EXCEPT ![k] = "passed"]
    /\ passed' = [passed EXCEPT ![k][0] = @ + 1]

\* The script ran and its reply was lost, or it did not run.  The client library
\* tries again, which is another call, or the request is answered with 503.
RedisError(k) ==
    /\ errors < MaxErrors
    /\ errors' = errors + 1
    /\ IncrExpireScript(k) \/ UNCHANGED <<count, ttl, counted>>
    /\ answer' = [answer EXCEPT ![k] = "error"]
    /\ UNCHANGED passed

-----------------------------------------------------------------------------
Older(h) == [k \in Keys |-> [a \in Ages |-> IF a = 0 THEN 0 ELSE h[k][a - 1]]]

\* A unit of time passes; Redis drops the keys that have no time left.
Tick ==
    /\ ttl' = [k \in Keys |-> IF ttl[k] > 0 THEN ttl[k] - 1 ELSE 0]
    /\ count' = [k \in Keys |-> IF ttl[k] = 1 THEN 0 ELSE count[k]]
    /\ passed' = Older(passed)
    /\ counted' = Older(counted)
    /\ UNCHANGED <<answer, errors>>

Next ==
    \/ \E k \in Keys : RateLimited(k) \/ RedisError(k)
    \/ Tick

Spec == Init /\ [][Next]_vars

\* Time passes, and a client that was refused tries again.
Fairness ==
    /\ WF_vars(Tick)
    /\ \A k \in Keys : WF_vars(RateLimited(k))

FairSpec == Spec /\ Fairness

-----------------------------------------------------------------------------
\* Properties

\* Every variable has its type.
TypeOK ==
    /\ count \in [Keys -> 0..(Limit + 1)]
    /\ ttl \in [Keys -> 0..Window]
    /\ answer \in [Keys -> {"none", "passed", "refused", "error"}]
    /\ errors \in 0..MaxErrors
    /\ passed \in [Keys -> [Ages -> Nat]]
    /\ counted \in [Keys -> [Ages -> Nat]]

\* The window is fixed, not sliding, so requests around its end may pass at
\* nearly twice the rate, but not more: in any span of one window, however the
\* errors of Redis fall, fewer than 2 * Limit requests get through, because the
\* request that opened a window is out of the span when the next one opens.
BelowTwiceLimit == \A k \in Keys : Recent(passed, k) < 2 * Limit

\* Nobody is refused who was not counted Limit times within the last window
\* (once per request, or more often when replies of Redis were lost), whether
\* it is the first refusal of a window or the answer to one more attempt.
RefusedWhenBusy ==
    [][\A k \in Keys :
         RateLimited(k) /\ answer'[k] = "refused" => Recent(counted, k) >= Limit]_vars

\* A refused client gets through again, even if it never stops trying: its
\* attempts are counted but do not prolong the window.
LockoutEnds == \A k \in Keys : answer[k] = "refused" ~> answer[k] = "passed"
=============================================================================
