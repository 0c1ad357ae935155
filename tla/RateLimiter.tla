---------------------------- MODULE RateLimiter ----------------------------
(***************************************************************************)
(* The token bucket in front of the message handler (rateLimiter.ts, used  *)
(* at server.ts:279): a bucket per socket holds MaxTokens at most, gains   *)
(* RefillPer tokens a tick and gives one to each message.  Time comes from *)
(* the wall clock, which may be set back.                                  *)
(* (A definition named X_... is X with a bug put in, for the mutation      *)
(* runs; no other definition uses it.)                                     *)
(***************************************************************************)
EXTENDS Integers, Sequences

CONSTANTS
    LimitedKey,      \* socket ids
    MaxTokens,
    RefillPer,
    MaxClock,        \* bound: ticks of true time
    MaxSetBack,      \* bound: times the wall clock is set back, by one tick
    MaxAsked         \* bound: messages of one socket in one tick

ASSUME LimiterAssumption ==
    /\ MaxTokens \in Nat \ {0} /\ RefillPer \in Nat \ {0} /\ LimitedKey # {}
    /\ MaxClock \in Nat /\ MaxSetBack \in Nat /\ MaxAsked \in Nat

VARIABLES
    bucket,          \* buckets: what a key has, or Absent
    trueTime,
    setBacks,        \* how far the wall clock is behind
    asked,           \* calls of each key in this tick
    allowed          \* for each key the true times it was let through at

limiterVars == <<bucket, trueTime, setBacks, asked, allowed>>

AbsentBucket == [tokens |-> MaxTokens, lastRefill |-> -1]
DateNow == trueTime - setBacks
Lesser(a, b) == IF a < b THEN a ELSE b

LimiterInit ==
    /\ bucket = [k \in LimitedKey |-> AbsentBucket]
    /\ trueTime = 0 /\ setBacks = 0
    /\ asked = [k \in LimitedKey |-> 0]
    /\ allowed = [k \in LimitedKey |-> << >>]

Refilled(k) ==
    IF bucket[k].lastRefill = -1 THEN MaxTokens
    ELSE Lesser(MaxTokens, bucket[k].tokens + RefillPer * (DateNow - bucket[k].lastRefill))

\* allow: the time of the refill moves on whether or not a token is left.
Allow_keepsTime(k) ==
    LET passes == Refilled(k) >= 1
    IN  /\ asked[k] < MaxAsked /\ asked' = [asked EXCEPT ![k] = @ + 1]
        /\ bucket' = [bucket EXCEPT ![k] = [tokens |-> IF passes THEN Refilled(k) - 1 ELSE Refilled(k),
                                            lastRefill |-> IF @.lastRefill = -1 THEN DateNow ELSE @.lastRefill]]
        /\ allowed' = [allowed EXCEPT ![k] = IF passes THEN Append(@, trueTime) ELSE @]
        /\ UNCHANGED <<trueTime, setBacks>>
Allow(k) ==
    LET passes == Refilled(k) >= 1
    IN  /\ asked[k] < MaxAsked /\ asked' = [asked EXCEPT ![k] = @ + 1]
        /\ bucket' = [bucket EXCEPT ![k] = [tokens |-> IF passes THEN Refilled(k) - 1 ELSE Refilled(k),
                                            lastRefill |-> DateNow]]
        /\ allowed' = [allowed EXCEPT ![k] = IF passes THEN Append(@, trueTime) ELSE @]
        /\ UNCHANGED <<trueTime, setBacks>>

ClockTicks ==
    /\ trueTime < MaxClock /\ trueTime' = trueTime + 1
    /\ asked' = [k \in LimitedKey |-> 0]
    /\ UNCHANGED <<bucket, setBacks, allowed>>

ClockIsSetBack ==
    /\ setBacks < MaxSetBack /\ setBacks < trueTime
    /\ setBacks' = setBacks + 1
    /\ UNCHANGED <<bucket, trueTime, asked, allowed>>

LimiterNext == ClockTicks \/ ClockIsSetBack \/ \E k \in LimitedKey : Allow(k)

LimiterSpec == LimiterInit /\ [][LimiterNext]_limiterVars

-----------------------------------------------------------------------------
(* Properties.                                                             *)

\* Buckets never hold more than they may; set-back clocks may leave a debt.
LimiterTypeOK ==
    /\ trueTime \in 0 .. MaxClock /\ setBacks \in 0 .. MaxSetBack
    /\ asked \in [LimitedKey -> 0 .. MaxAsked]
    /\ \A k \in LimitedKey :
          /\ bucket[k].tokens \in -(RefillPer * MaxSetBack) .. MaxTokens
          /\ bucket[k].lastRefill \in -1 .. MaxClock

\* In no stretch of time does a socket get more through than a full bucket and
\* what refills meanwhile, whatever the clock and the refused calls do.
RateIsBounded ==
    \A k \in LimitedKey : \A i, j \in 1 .. Len(allowed[k]) :
        i <= j => j - i + 1 <= MaxTokens + RefillPer * (allowed[k][j] - allowed[k][i])

\* A socket whose messages were few is let through: a tick after the last call a
\* message passes, unless the clock was set back.
PatienceIsServed ==
    \A k \in LimitedKey : setBacks = 0 /\ bucket[k].lastRefill < trueTime => Refilled(k) >= 1

\* Nobody gets more than the rate, and nobody who waited gets less.
RateIsFair == RateIsBounded /\ PatienceIsServed
=============================================================================
