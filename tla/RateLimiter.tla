----------------------------- MODULE RateLimiter -----------------------------
(***************************************************************************)
(* The limiter in front of the agents' routes: a map from the text of the  *)
(* x-forwarded-for header to a window and the requests counted in it.  A   *)
(* window opens with the first request it counts and a later request       *)
(* replaces it, once it is older than Window.                              *)
(*                                                                         *)
(* The map is behind a mutex and is_allowed never awaits, so that one call *)
(* is one step.  Nothing calls start_cleanup_task: no entry is ever        *)
(* removed.  The module has no specification of its own; Delivery puts it  *)
(* in front of the agents' sockets.                                        *)
(***************************************************************************)
EXTENDS Naturals, Sequences

CONSTANTS
    Sources,     \* values of the header, "unknown" for a request without it
    MaxRequests, \* config.rate_limit_per_minute
    Window,      \* 60 seconds, in ticks
    MaxTime      \* bound: ticks

ASSUME RateLimiterAssumption ==
    /\ MaxRequests \in Nat \ {0}
    /\ {Window, MaxTime} \subseteq Nat

VARIABLES
    now,      \* the clock; wall clock and Instant are taken to advance alike
    limiter,  \* the map
    passed    \* history: when the requests of a source were let through

edge == <<now, limiter, passed>>

EdgeInit ==
    /\ now = 0
    /\ limiter = << >>
    /\ passed = [s \in Sources |-> << >>]

Tick == now < MaxTime /\ now' = now + 1

\* Mutant: a reset that keeps the count.
CurrentKeepsCount(s) ==
    IF s \notin DOMAIN limiter
    THEN [count |-> 0, since |-> now]
    ELSE IF now - limiter[s].since > Window
         THEN [limiter[s] EXCEPT !.since = now]
         ELSE limiter[s]

\* The entry a request of s is counted in.
Current(s) ==
    IF s \in DOMAIN limiter /\ now - limiter[s].since <= Window
    THEN limiter[s]
    ELSE [count |-> 0, since |-> now]

Store(s, entry) ==
    limiter' = [x \in DOMAIN limiter \cup {s} |-> IF x = s THEN entry ELSE limiter[x]]

\* is_allowed, answering true and false.
Allow(s) ==
    /\ Current(s).count < MaxRequests
    /\ Store(s, [Current(s) EXCEPT !.count = @ + 1])
    /\ passed' = [passed EXCEPT ![s] = Append(@, now)]

Refuse(s) ==
    /\ Current(s).count >= MaxRequests
    /\ Store(s, Current(s))
    /\ UNCHANGED passed

-----------------------------------------------------------------------------
EdgeTypeOK ==
    /\ now \in Nat
    /\ DOMAIN limiter \subseteq Sources
    /\ \A s \in DOMAIN limiter : limiter[s] \in [count : 0 .. MaxRequests, since : 0 .. now]
    /\ passed \in [Sources -> Seq(0 .. now)]

\* Of more than n requests let through in a row, the last comes more than
\* Window after the first.
Spaced(n) ==
    \A s \in Sources : \A i \in DOMAIN passed[s] :
        i + n \in DOMAIN passed[s] => passed[s][i + n] - passed[s][i] > Window

\* Two windows meet at a boundary, so that a source gets at most twice its
\* limit within any stretch of Window, however its requests are timed
\* (RateLimiter::is_allowed replaces a window, it does not slide it).
BurstBounded == Spaced(2 * MaxRequests)
=============================================================================
