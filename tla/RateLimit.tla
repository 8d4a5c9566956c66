------------------------------ MODULE RateLimit ------------------------------
(***************************************************************************)
(* The per-user budgets of the web server, kept in Redis: a fixed-window   *)
(* counter (INCR, then EXPIRE on the first hit) and a sliding window (one  *)
(* MULTI over a sorted set of time stamps).  Time is a clock of ticks.     *)
(* Keys of different users and policies are independent, so there is one   *)
(* counter, under FixedNext, and one sorted set, under SlidingNext.        *)
(*                                                                         *)
(* A call that Redis does not answer is let through and leaves no trace    *)
(* ("fail open"): it is no step here.  What is a step is the failure that  *)
(* comes between the two commands of the counter.                          *)
(***************************************************************************)
EXTENDS Naturals, FiniteSets, Functions

CONSTANTS
  Callers,      \* server actions that may be in a check at once
  Limit,        \* policy.limit
  Window,       \* policy.windowSeconds, in ticks
  MaxClock,     \* bound: ticks
  MaxHits,      \* bound: hits on one key, members of one score
  RedisFaults   \* bound: EXPIREs lost to a Redis error or a dead web process

ASSUME BudgetAssumption == Limit \in Nat \ {0} /\ Window \in Nat \ {0}
ASSUME ClockAssumption == MaxClock \in Nat /\ MaxHits \in Nat /\ RedisFaults \in Nat

VARIABLES
  clock,
  count,     \* the value of the counter; 0: the key does not exist
  diesAt,    \* the tick at which the counter's key expires; 0: it has no TTL
  opening,   \* callers between their INCR, which answered 1, and their EXPIRE
  lost,      \* EXPIREs lost so far
  passed,    \* passed[t]: calls the counter let through at tick t
  asked,     \* asked[c]: the time c read before its MULTI; Away: c is not in a call
  stamps,    \* stamps[t]: members of the sorted set that are scored t
  slid       \* slid[t]: calls scored t the sliding window let through, late ones left out

counterVars == <<count, diesAt, opening, lost, passed>>
slidingVars == <<asked, stamps, slid>>
rateVars == <<clock, counterVars, slidingVars>>

Ticks == 0 .. MaxClock
Away == MaxClock + 1

RateTypeOK ==
  /\ clock \in Ticks
  /\ count \in 0 .. MaxHits /\ lost \in 0 .. RedisFaults
  /\ diesAt \in 0 .. MaxClock + Window
  /\ opening \in SUBSET Callers
  /\ stamps \in [Ticks -> 0 .. MaxHits]
  /\ passed \in [Ticks -> 0 .. MaxHits] /\ slid \in [Ticks -> 0 .. MaxHits]
  /\ asked \in [Callers -> Ticks \cup {Away}]

RateInit ==
  /\ clock = 0 /\ count = 0 /\ diesAt = 0 /\ lost = 0
  /\ opening = {}
  /\ passed = [t \in Ticks |-> 0] /\ slid = [t \in Ticks |-> 0]
  /\ asked = [c \in Callers |-> Away]
  /\ stamps = [t \in Ticks |-> 0]

\* The ticks of the window that ends with t.
WindowOf(t) == {s \in Ticks : s <= t /\ t < s + Window}

InWindow(f, t) == FoldFunctionOnSet(+, 0, f, WindowOf(t))

-----------------------------------------------------------------------------
(* rateLimit.                                                              *)

\* A key that has reached its TTL is gone.
TickCounter ==
  /\ clock < MaxClock
  /\ clock' = clock + 1
  /\ IF diesAt = clock + 1 THEN count' = 0 /\ diesAt' = 0
     ELSE UNCHANGED <<count, diesAt>>
  /\ UNCHANGED <<opening, lost, passed, slidingVars>>

LetThrough(f, ok) == [f EXCEPT ![clock] = IF ok THEN @ + 1 ELSE @]

\* A defect: the hit that reaches the limit is not yet the last.
IncrPastLimit(c) ==
  /\ count < MaxHits
  /\ c \notin opening
  /\ count' = count + 1
  /\ passed' = LetThrough(passed, count <= Limit)
  /\ opening' = IF count = 0 THEN opening \cup {c} ELSE opening
  /\ UNCHANGED <<clock, diesAt, lost, slidingVars>>

Incr(c) ==
  /\ count < MaxHits
  /\ c \notin opening
  /\ count' = count + 1
  /\ passed' = LetThrough(passed, count + 1 <= Limit)
  /\ opening' = IF count = 0 THEN opening \cup {c} ELSE opening
  /\ UNCHANGED <<clock, diesAt, lost, slidingVars>>

\* A defect: the TTL is only set on a key that is about to be used up.
ExpireIfNearLimit(c) ==
  /\ c \in opening
  /\ opening' = opening \ {c}
  /\ diesAt' = IF count >= Limit THEN clock + Window ELSE diesAt
  /\ UNCHANGED <<clock, count, lost, passed, slidingVars>>

\* EXPIRE on a key that is gone does nothing.
ExpireKey(c) ==
  /\ c \in opening
  /\ opening' = opening \ {c}
  /\ diesAt' = IF count > 0 THEN clock + Window ELSE diesAt
  /\ UNCHANGED <<clock, count, lost, passed, slidingVars>>

\* The EXPIRE fails, and the call is let through, or the process is gone.
LoseExpire(c) ==
  /\ c \in opening
  /\ lost < RedisFaults
  /\ opening' = opening \ {c}
  /\ lost' = lost + 1
  /\ UNCHANGED <<clock, count, diesAt, passed, slidingVars>>

FixedNext ==
  \/ TickCounter
  \/ \E c \in Callers : Incr(c) \/ ExpireKey(c) \/ LoseExpire(c)

-----------------------------------------------------------------------------
(* slidingWindowRateLimit.  The key's own expiry, Window after the last    *)
(* call, only takes members that the next call would evict.                *)

TickSliding ==
  /\ clock < MaxClock
  /\ clock' = clock + 1
  /\ UNCHANGED <<counterVars, slidingVars>>

\* Date.now(), before the request goes out.
ReadNow(c) ==
  /\ asked[c] = Away
  /\ asked' = [asked EXCEPT ![c] = clock]
  /\ UNCHANGED <<clock, counterVars, stamps, slid>>

\* A defect: the oldest tick of the window is evicted too.
RecordedEarly(now) ==
  [t \in Ticks |-> (IF t + Window <= now + 1 THEN 0 ELSE stamps[t]) + (IF t = now THEN 1 ELSE 0)]

\* zremrangebyscore up to windowStart, then zadd.
Recorded(now) ==
  [t \in Ticks |-> (IF t + Window <= now THEN 0 ELSE stamps[t]) + (IF t = now THEN 1 ELSE 0)]

\* For the property alone: calls with a later time have been there before.
Overtaken(now) == \E t \in Ticks : t > now /\ stamps[t] > 0

\* The MULTI: evict, record, count.  A refused call is recorded all the same.
Slide(c) ==
  /\ asked[c] # Away
  /\ stamps[asked[c]] < MaxHits
  /\ stamps' = Recorded(asked[c])
  /\ slid' = [slid EXCEPT ![asked[c]] =
                IF FoldFunction(+, 0, stamps') <= Limit /\ ~Overtaken(asked[c])
                THEN @ + 1 ELSE @]
  /\ asked' = [asked EXCEPT ![c] = Away]
  /\ UNCHANGED <<clock, counterVars>>

SlidingNext == TickSliding \/ \E c \in Callers : ReadNow(c) \/ Slide(c)

FixedSpec == RateInit /\ [][FixedNext]_rateVars
SlidingSpec == RateInit /\ [][SlidingNext]_rateVars

-----------------------------------------------------------------------------

\* rate-limit.ts:120: a fixed window may be doubled across its boundary, and
\* that is the most it may let through in any span of the window's length,
\* whatever callers and the key's expiry interleave, and late EXPIREs too.
FixedWindowBudget == \A t \in Ticks : InWindow(passed, t) <= 2 * Limit

\* rate-limit.ts:118: the sliding window lets no more than the limit through in
\* any span of its length, counting the calls that reach Redis in the order of
\* their time stamps.  (One that is overtaken by a later one may find members
\* of its own window evicted.)
SlidingWindowBudget == \A t \in Ticks : InWindow(slid, t) <= Limit

\* rate-limit.ts:11: keys expire on their own, there is no cleanup job: a key
\* has a TTL, or a caller is about to set it, unless the EXPIRE of one was lost:
\* such a key stays, and refuses for good once it is at the limit.
KeysExpireOnTheirOwn == count > 0 => diesAt > clock \/ opening # {} \/ lost > 0

\* The budgets of both kinds of window.
BudgetsHold == FixedWindowBudget /\ SlidingWindowBudget /\ KeysExpireOnTheirOwn

=============================================================================
