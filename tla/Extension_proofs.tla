-------------------------- MODULE Extension_proofs --------------------------
(***************************************************************************)
(* Theorems about Extension: about three of its parts, LocalSignaling for  *)
(* any number of children, RateLimiter for any bucket, rate and number of  *)
(* sockets and OTEngine for any texts, changes and library that does its   *)
(* part, and, with what is proved of the others, about all ten side by     *)
(* side.                                                                   *)
(***************************************************************************)
EXTENDS Extension, Exchange_proofs, FileTree_proofs, FileSync_proofs, ClientSession_proofs,
        WellFoundedInduction, TLAPS

-----------------------------------------------------------------------------
(* LocalSignaling.                                                         *)

\* While no start was hasty, a child that runs has no stopped one beside it.
NoneLingers ==
    ~nodeHasty => \A c, d \in Child : ~(nodeState[c] = "running" /\ nodeState[d] = "killed")

LocalInv == LocalTypeOK /\ NoOrphan /\ NoneLingers

LEMMA ChildIsNumber == \A c \in Child : c \in Nat /\ c # 0
  BY SpawnedAssumption DEF Child

LEMMA LocalInvHolds == LocalInit => LocalInv
  BY DEF LocalInit, LocalInv, LocalTypeOK, NoOrphan, NoneLingers

LEMMA LocalInvStays == LocalInv /\ [LocalNext]_nodeVars => LocalInv'
  <1> SUFFICES ASSUME LocalInv, [LocalNext]_nodeVars PROVE LocalInv'
    OBVIOUS
  <1> USE DEF LocalInv, LocalTypeOK, NoOrphan, NoneLingers, Living
  <1>1. CASE StartNode
    <2>1. PICK c \in Child :
              /\ nodeProcess = 0 /\ nodeState[c] = "unused" /\ nodeProcess' = c
              /\ nodeState' = [nodeState EXCEPT ![c] = "running"]
              /\ nodeHasty' = (nodeHasty \/ "killed" \in {nodeState[d] : d \in Child})
      BY <1>1 DEF StartNode, IsRunning
    <2>2. LocalTypeOK'
      BY <2>1, ChildIsNumber
    <2>3. NoOrphan'
      \* Nothing ran before: what runs is known, and nothing was.
      BY <2>1, ChildIsNumber
    <2>4. NoneLingers'
      BY <2>1
    <2> QED BY <2>2, <2>3, <2>4
  <1>2. CASE StopNode
    \* What ran is what was known, so that nothing runs beside the stopped child.
    <2>1. nodeProcess \in Child /\ nodeState[nodeProcess] = "running"
      BY <1>2, ChildIsNumber DEF StopNode
    <2> QED BY <1>2, <2>1, ChildIsNumber DEF StopNode
  <1>3. ASSUME NEW c \in Child, NodeExits(c) PROVE LocalInv'
    \* While no start was hasty, the child that ends is the one that runs, if any.
    BY <1>3, ChildIsNumber DEF NodeExits
  <1>4. CASE UNCHANGED nodeVars
    BY <1>4 DEF nodeVars
  <1> QED BY <1>1, <1>2, <1>3, <1>4 DEF LocalNext

\* The child that the extension knows runs, and it was not told to stop
\* (localSignaling.ts: start, stop and the exit listener).
THEOREM KnownChildIsAlive == LocalSpec => []LocalTypeOK
  <1>1. LocalSpec => []LocalInv
    BY LocalInvHolds, LocalInvStays, PTL DEF LocalSpec
  <1> QED BY <1>1, PTL DEF LocalInv

\* However often it starts, stops and fails, a node that runs is one that can be
\* stopped, as long as no start comes between a stop and the exit it causes.
THEOREM NoNodeIsOrphaned == LocalSpec => []NoOrphan
  <1>1. LocalSpec => []LocalInv
    BY LocalInvHolds, LocalInvStays, PTL DEF LocalSpec
  <1> QED BY <1>1, PTL DEF LocalInv

-----------------------------------------------------------------------------
(* RateLimiter.                                                            *)

\* What refills in n ticks.
Refills(n) == RefillPer * n

\* What a key has now, without the limit of the bucket.
Worth(k) == bucket[k].tokens + (Refills(DateNow) - Refills(bucket[k].lastRefill))

\* What was let through since message i, of the bucket and the refills since.
Account(k, i) == Len(allowed[k]) - i + 1 + Refills(allowed[k][i])

LimiterVarsOK ==
    /\ trueTime \in Nat /\ setBacks \in Nat /\ setBacks <= trueTime
    /\ bucket \in [LimitedKey -> [tokens : Int, lastRefill : Int]]
    /\ allowed \in [LimitedKey -> Seq(Nat)]

\* A key without a bucket has asked nothing; no refill is yet to come.
BucketsOK ==
    \A k \in LimitedKey :
        /\ bucket[k].lastRefill = -1 \/ bucket[k].lastRefill \in 0 .. trueTime
        /\ bucket[k].lastRefill = -1 => allowed[k] = << >>

\* What was let through since any message, and what may be now, are within the
\* rate.
WithinRate ==
    \A k \in LimitedKey : \A i \in 1 .. Len(allowed[k]) :
        Account(k, i) + Worth(k) <= MaxTokens + Refills(trueTime)

\* A clock that was never set back leaves no debt.
NoDebt == setBacks = 0 => \A k \in LimitedKey : bucket[k].tokens >= 0

LimiterInv == LimiterVarsOK /\ BucketsOK /\ WithinRate /\ NoDebt /\ RateIsBounded

-----------------------------------------------------------------------------
(* Arithmetic of the rate.                                                 *)

LEMMA RefillsType ==
    ASSUME NEW a \in Int
    PROVE  /\ Refills(a) \in Int
           /\ a \in Nat => Refills(a) \in Nat
           /\ a >= 1 => Refills(a) >= 1
  BY LimiterAssumption DEF Refills

LEMMA RefillsSplit ==
    ASSUME NEW a \in Int, NEW b \in Int
    PROVE  /\ Refills(a + b) = Refills(a) + Refills(b)
           /\ Refills(a - b) = Refills(a) - Refills(b)
  BY LimiterAssumption DEF Refills

LEMMA KeyType ==
    ASSUME LimiterVarsOK, NEW k \in LimitedKey
    PROVE  /\ trueTime \in Nat /\ Refills(trueTime) \in Nat
           /\ DateNow \in 0 .. trueTime /\ DateNow \in Int /\ Refills(DateNow) \in Int
           /\ bucket[k].tokens \in Int /\ bucket[k].lastRefill \in Int
           /\ Refills(bucket[k].lastRefill) \in Int
           /\ Worth(k) \in Int
           /\ MaxTokens \in Nat /\ MaxTokens >= 1
  <1>1. /\ DateNow \in 0 .. trueTime /\ DateNow \in Int /\ trueTime \in Nat
        /\ bucket[k].tokens \in Int /\ bucket[k].lastRefill \in Int
    BY DEF LimiterVarsOK, DateNow
  <1>2. /\ Refills(trueTime) \in Nat /\ Refills(DateNow) \in Int
        /\ Refills(bucket[k].lastRefill) \in Int
    BY <1>1, RefillsType
  <1>3. MaxTokens \in Nat /\ MaxTokens >= 1
    BY LimiterAssumption
  <1> QED BY <1>1, <1>2, <1>3 DEF Worth

LEMMA AccountType ==
    ASSUME LimiterVarsOK, NEW k \in LimitedKey, NEW i \in 1 .. Len(allowed[k])
    PROVE  /\ Len(allowed[k]) \in Nat /\ i \in Nat
           /\ allowed[k][i] \in Nat /\ Refills(allowed[k][i]) \in Nat
           /\ Account(k, i) \in Int
  <1>1. Len(allowed[k]) \in Nat /\ i \in Nat /\ allowed[k][i] \in Nat
    BY DEF LimiterVarsOK
  <1>2. allowed[k][i] \in Int
    BY <1>1
  <1>3. Refills(allowed[k][i]) \in Nat
    BY <1>1, <1>2, RefillsType
  <1> QED BY <1>1, <1>3 DEF Account

\* A refill never gives more than the bucket holds, nor than the key is worth.
LEMMA RefillIsLimited ==
    ASSUME LimiterVarsOK, NEW k \in LimitedKey
    PROVE  /\ Refilled(k) \in Int
           /\ Refilled(k) <= MaxTokens
           /\ bucket[k].lastRefill # -1 => Refilled(k) <= Worth(k)
           /\ Refilled(k) = MaxTokens \/ (bucket[k].lastRefill # -1 /\ Refilled(k) = Worth(k))
  <1>1. Refills(DateNow - bucket[k].lastRefill) = Refills(DateNow) - Refills(bucket[k].lastRefill)
    BY KeyType, RefillsSplit
  <1>2. Refilled(k) = IF bucket[k].lastRefill = -1 THEN MaxTokens ELSE Lesser(MaxTokens, Worth(k))
    BY <1>1 DEF Refilled, Worth, Refills
  <1>3. MaxTokens \in Nat /\ Worth(k) \in Int
    BY KeyType
  <1> QED BY <1>2, <1>3 DEF Lesser

\* The rate between two times, in the terms of the invariant.
LEMMA BoundedMeans ==
    ASSUME NEW s \in Seq(Nat), NEW i \in 1 .. Len(s), NEW j \in 1 .. Len(s)
    PROVE  j - i + 1 <= MaxTokens + RefillPer * (s[j] - s[i])
             <=> j - i + 1 + Refills(s[i]) <= MaxTokens + Refills(s[j])
  <1>1. s[i] \in Int /\ s[j] \in Int /\ i \in Int /\ j \in Int
    OBVIOUS
  <1>2. RefillPer * (s[j] - s[i]) = Refills(s[j]) - Refills(s[i])
    <2>1. Refills(s[j] - s[i]) = Refills(s[j]) - Refills(s[i])
      BY <1>1, RefillsSplit
    <2> QED BY <2>1 DEF Refills
  <1>3. Refills(s[i]) \in Int /\ Refills(s[j]) \in Int
    BY <1>1, RefillsType
  <1>4. MaxTokens \in Int
    BY LimiterAssumption
  <1> QED BY <1>1, <1>2, <1>3, <1>4

-----------------------------------------------------------------------------
(* The invariant.                                                          *)

LEMMA LimiterInvHolds == LimiterInit => LimiterInv
  BY LimiterAssumption
     DEF LimiterInit, LimiterInv, LimiterVarsOK, BucketsOK, WithinRate, NoDebt, RateIsBounded, AbsentBucket

\* What a call does to its key's bucket and to what was let through.
LEMMA AllowGives ==
    ASSUME LimiterVarsOK, NEW k \in LimitedKey, Allow(k)
    PROVE  /\ UNCHANGED <<trueTime, setBacks>> /\ DateNow' = DateNow
           /\ \A l \in LimitedKey : l # k => bucket'[l] = bucket[l] /\ allowed'[l] = allowed[l]
           /\ bucket'[k].lastRefill = DateNow
           /\ bucket'[k].tokens \in Int /\ Worth(k)' = bucket'[k].tokens
           /\ \/ /\ Refilled(k) >= 1 /\ bucket'[k].tokens = Refilled(k) - 1
                 /\ allowed'[k] = Append(allowed[k], trueTime)
              \/ /\ Refilled(k) < 1 /\ bucket'[k].tokens = Refilled(k)
                 /\ allowed'[k] = allowed[k]
           /\ LimiterVarsOK'
  <1>1. Refilled(k) \in Int /\ DateNow \in Int
    BY RefillIsLimited, KeyType
  <1>2. UNCHANGED <<trueTime, setBacks>> /\ DateNow' = DateNow
    BY DEF Allow, DateNow
  <1>3. bucket' = [bucket EXCEPT ![k] = [tokens |-> IF Refilled(k) >= 1 THEN Refilled(k) - 1 ELSE Refilled(k),
                                         lastRefill |-> DateNow]]
    BY DEF Allow
  <1>4. allowed' = [allowed EXCEPT ![k] = IF Refilled(k) >= 1 THEN Append(@, trueTime) ELSE @]
    BY DEF Allow
  <1>5. /\ \A l \in LimitedKey : l # k => bucket'[l] = bucket[l] /\ allowed'[l] = allowed[l]
        /\ bucket'[k].lastRefill = DateNow
        /\ \/ /\ Refilled(k) >= 1 /\ bucket'[k].tokens = Refilled(k) - 1
              /\ allowed'[k] = Append(allowed[k], trueTime)
           \/ /\ Refilled(k) < 1 /\ bucket'[k].tokens = Refilled(k)
              /\ allowed'[k] = allowed[k]
    BY <1>1, <1>3, <1>4 DEF LimiterVarsOK
  <1>6. bucket' \in [LimitedKey -> [tokens : Int, lastRefill : Int]]
    BY <1>1, <1>3 DEF LimiterVarsOK
  <1>7. allowed' \in [LimitedKey -> Seq(Nat)]
    BY <1>1, <1>4 DEF LimiterVarsOK
  <1>8. bucket'[k].tokens \in Int
    BY <1>1, <1>5
  <1>9. Worth(k)' = bucket'[k].tokens
    <2>1. Worth(k)' = bucket'[k].tokens + (Refills(DateNow) - Refills(DateNow))
      BY <1>2, <1>5 DEF Worth, Refills
    <2>2. Refills(DateNow) \in Int
      BY KeyType
    <2> QED BY <1>8, <2>1, <2>2
  <1> QED BY <1>2, <1>5, <1>6, <1>7, <1>8, <1>9 DEF LimiterVarsOK

\* Nothing changes for the keys that did not ask.
LEMMA OthersKeepTheirs ==
    ASSUME LimiterVarsOK, NEW k \in LimitedKey, Allow(k), NEW l \in LimitedKey, l # k
    PROVE  /\ bucket'[l] = bucket[l] /\ allowed'[l] = allowed[l] /\ Worth(l)' = Worth(l)
           /\ \A i \in 1 .. Len(allowed[l]) : Account(l, i)' = Account(l, i)
  BY AllowGives DEF Worth, Account, Refills

\* What a message of k that is let through, or not, adds to its account.
LEMMA AllowKeepsRate ==
    ASSUME LimiterInv, NEW k \in LimitedKey, Allow(k), NEW i \in 1 .. Len(allowed'[k])
    PROVE  /\ Account(k, i)' + Worth(k)' <= MaxTokens + Refills(trueTime)
           /\ allowed'[k] # allowed[k] => Worth(k)' >= 0
  <1>1. LimiterVarsOK /\ BucketsOK /\ WithinRate
    BY DEF LimiterInv
  <1>2. /\ allowed[k] \in Seq(Nat) /\ Len(allowed[k]) \in Nat
        /\ trueTime \in Nat /\ Refills(trueTime) \in Int /\ MaxTokens \in Int
        /\ Refilled(k) \in Int /\ Refilled(k) <= MaxTokens
    BY <1>1, KeyType, RefillIsLimited DEF LimiterVarsOK
  <1>3. ASSUME NEW j \in 1 .. Len(allowed[k])
        PROVE  /\ Account(k, j) \in Int
               /\ Account(k, j) + Refilled(k) <= MaxTokens + Refills(trueTime)
    <2>1. bucket[k].lastRefill # -1
      BY <1>1, <1>2 DEF BucketsOK
    <2>2. Refilled(k) <= Worth(k) /\ Worth(k) \in Int
      BY <1>1, <2>1, RefillIsLimited, KeyType
    <2>3. Account(k, j) + Worth(k) <= MaxTokens + Refills(trueTime)
      BY <1>1 DEF WithinRate
    <2>4. Account(k, j) \in Int
      BY <1>1, AccountType
    <2> QED BY <1>2, <2>2, <2>3, <2>4
  <1>4. CASE allowed'[k] = allowed[k]
    <2>1. Worth(k)' = Refilled(k)
      BY <1>1, <1>2, <1>4, AllowGives
    <2>2. Account(k, i)' = Account(k, i) /\ i \in 1 .. Len(allowed[k])
      BY <1>4 DEF Account, Refills
    <2>3. Account(k, i) + Refilled(k) <= MaxTokens + Refills(trueTime)
      BY <1>3, <2>2
    <2> QED BY <1>4, <2>1, <2>2, <2>3
  <1>5. CASE allowed'[k] = Append(allowed[k], trueTime) /\ Refilled(k) >= 1
    <2>1. Worth(k)' = Refilled(k) - 1
      BY <1>1, <1>2, <1>5, AllowGives
    <2>2. Len(allowed'[k]) = Len(allowed[k]) + 1
      BY <1>2, <1>5
    <2>3. CASE i \in 1 .. Len(allowed[k])
      <3>1. allowed'[k][i] = allowed[k][i]
        BY <1>2, <1>5, <2>3
      <3>2. Account(k, i)' = Len(allowed[k]) + 1 - i + 1 + Refills(allowed[k][i])
        BY <2>2, <3>1 DEF Account, Refills
      <3>3. Refills(allowed[k][i]) \in Int /\ Account(k, i) + Refilled(k) <= MaxTokens + Refills(trueTime)
        BY <1>1, <1>3, <2>3, AccountType
      <3>4. Account(k, i) = Len(allowed[k]) - i + 1 + Refills(allowed[k][i])
        BY DEF Account
      <3>5. /\ Len(allowed[k]) \in Int /\ i \in Int /\ Refilled(k) \in Int /\ Refilled(k) >= 1
            /\ Refills(trueTime) \in Int /\ MaxTokens \in Int
        BY <1>2, <1>5, <2>3
      <3> QED BY <2>1, <3>2, <3>3, <3>4, <3>5
    <2>4. CASE i = Len(allowed[k]) + 1
      <3>1. Account(k, i)' = Len(allowed[k]) + 1 - i + 1 + Refills(trueTime)
        BY <1>2, <1>5, <2>2, <2>4 DEF Account, Refills
      <3> QED BY <1>2, <1>5, <2>1, <2>4, <3>1
    <2> QED BY <1>2, <2>2, <2>3, <2>4
  <1> QED BY <1>1, <1>4, <1>5, AllowGives

\* Its last message is the one that fills the account.
LEMMA AllowKeepsBound ==
    ASSUME LimiterInv, NEW k \in LimitedKey, Allow(k)
    PROVE  RateIsBounded'
  <1>1. LimiterVarsOK /\ RateIsBounded /\ LimiterVarsOK'
    BY AllowGives DEF LimiterInv
  <1>2. SUFFICES ASSUME NEW l \in LimitedKey, NEW i \in 1 .. Len(allowed'[l]), NEW j \in 1 .. Len(allowed'[l]), i <= j
                 PROVE  j - i + 1 + Refills(allowed'[l][i]) <= MaxTokens + Refills(allowed'[l][j])
    <2>1. \A l \in LimitedKey : allowed'[l] \in Seq(Nat)
      BY <1>1 DEF LimiterVarsOK
    <2> QED BY <2>1, BoundedMeans DEF RateIsBounded
  <1>3. CASE j \in 1 .. Len(allowed[l]) /\ i \in 1 .. Len(allowed[l])
            /\ allowed'[l][i] = allowed[l][i] /\ allowed'[l][j] = allowed[l][j]
    <2>1. allowed[l] \in Seq(Nat)
      BY <1>1 DEF LimiterVarsOK
    <2>2. j - i + 1 <= MaxTokens + RefillPer * (allowed[l][j] - allowed[l][i])
      BY <1>1, <1>2, <1>3 DEF RateIsBounded
    <2> QED BY <1>3, <2>1, <2>2, BoundedMeans
  <1>4. CASE l = k /\ allowed'[k] = Append(allowed[k], trueTime) /\ j = Len(allowed[k]) + 1
    <2>1. allowed'[k][j] = trueTime /\ Len(allowed'[k]) = j /\ Len(allowed[k]) \in Nat /\ allowed'[k] # allowed[k]
      BY <1>1, <1>4 DEF LimiterVarsOK
    <2>2. /\ Account(k, i)' + Worth(k)' <= MaxTokens + Refills(trueTime)
          /\ Worth(k)' >= 0
      BY <1>2, <1>4, <2>1, AllowKeepsRate
    <2>3. Account(k, i)' = j - i + 1 + Refills(allowed'[k][i])
      BY <2>1 DEF Account, Refills
    <2>4. Refills(allowed'[k][i]) \in Int /\ Worth(k)' \in Int /\ i \in Int /\ j \in Int
      <3>1. allowed'[k][i] \in Int
        BY <1>1, <1>2, <1>4 DEF LimiterVarsOK
      <3>2. Refills(allowed'[k][i]) \in Int
        BY <3>1, RefillsType
      <3>3. Worth(k)' \in Int
        BY <1>1, AllowGives
      <3> QED BY <1>2, <1>4, <2>1, <3>2, <3>3
    <2>5. Refills(trueTime) \in Int /\ MaxTokens \in Int
      BY <1>1, KeyType
    <2> QED BY <1>4, <2>1, <2>2, <2>3, <2>4, <2>5
  <1>5. allowed'[l] = allowed[l] \/ (l = k /\ allowed'[k] = Append(allowed[k], trueTime))
    BY <1>1, AllowGives
  <1>6. allowed[l] \in Seq(Nat)
    BY <1>1 DEF LimiterVarsOK
  <1>7. CASE allowed'[l] = allowed[l]
    BY <1>2, <1>3, <1>7
  <1>8. CASE l = k /\ allowed'[k] = Append(allowed[k], trueTime) /\ j # Len(allowed[k]) + 1
    BY <1>2, <1>3, <1>6, <1>8
  <1> QED BY <1>4, <1>5, <1>7, <1>8

LEMMA AllowKeepsNoDebt ==
    ASSUME LimiterInv, NEW k \in LimitedKey, Allow(k)
    PROVE  NoDebt'
  <1>1. LimiterVarsOK /\ BucketsOK /\ NoDebt
    BY DEF LimiterInv
  <1> SUFFICES ASSUME setBacks = 0, NEW l \in LimitedKey PROVE bucket'[l].tokens >= 0
    BY <1>1, AllowGives DEF NoDebt
  <1>2. CASE l # k
    BY <1>1, <1>2, AllowGives DEF NoDebt
  <1>3. CASE l = k
    <2>1. /\ Refilled(k) \in Int /\ bucket[k].tokens \in Int /\ bucket[k].tokens >= 0
          /\ DateNow = trueTime /\ MaxTokens >= 1 /\ MaxTokens \in Int
      BY <1>1, RefillIsLimited, KeyType DEF NoDebt, DateNow, LimiterVarsOK
    <2>2. ASSUME bucket[k].lastRefill # -1 PROVE Worth(k) >= 0
      <3>1. DateNow - bucket[k].lastRefill \in Nat
        BY <1>1, <2>1, <2>2 DEF BucketsOK, LimiterVarsOK
      <3>2. Refills(DateNow) - Refills(bucket[k].lastRefill) \in Nat
        <4>1. Refills(DateNow - bucket[k].lastRefill) = Refills(DateNow) - Refills(bucket[k].lastRefill)
          BY <1>1, KeyType, RefillsSplit
        <4> QED BY <3>1, <4>1, RefillsType
      <3> QED BY <2>1, <3>2 DEF Worth
    <2>3. Refilled(k) >= 0
      BY <1>1, <2>1, <2>2, RefillIsLimited
    <2> QED BY <1>1, <1>3, <2>1, <2>3, AllowGives
  <1> QED BY <1>2, <1>3

\* Time that passes, or is taken back, changes what all keys are worth by one
\* refill at most.
LEMMA TimeKeepsRate ==
    ASSUME LimiterVarsOK, WithinRate, bucket' = bucket, allowed' = allowed,
           NEW t \in {0, 1}, NEW d \in {-1, 0, 1}, d <= t, trueTime' = trueTime + t, DateNow' = DateNow + d
    PROVE  WithinRate'
  <1> SUFFICES ASSUME NEW k \in LimitedKey, NEW i \in 1 .. Len(allowed[k])
               PROVE  Account(k, i)' + Worth(k)' <= MaxTokens + Refills(trueTime')
    BY DEF WithinRate, Refills
  <1>1. Account(k, i)' = Account(k, i) /\ Account(k, i) \in Int
    BY AccountType DEF Account, Refills
  <1>2. /\ trueTime \in Int /\ DateNow \in Int /\ t \in Int /\ d \in Int
        /\ Refills(trueTime) \in Int /\ Refills(DateNow) \in Int /\ MaxTokens \in Int
        /\ Refills(bucket[k].lastRefill) \in Int /\ bucket[k].tokens \in Int
    BY KeyType
  <1>3. /\ Refills(trueTime') = Refills(trueTime) + Refills(t)
        /\ Refills(DateNow') = Refills(DateNow) + Refills(d)
    BY <1>2, RefillsSplit
  <1>4. Refills(t) \in Int /\ Refills(d) \in Int /\ Refills(d) <= Refills(t)
    <2>1. t - d \in Nat /\ t - d \in Int
      BY <1>2
    <2>2. Refills(t - d) \in Nat
      BY <2>1, RefillsType
    <2>3. Refills(t - d) = Refills(t) - Refills(d)
      BY <1>2, RefillsSplit
    <2>4. Refills(t) \in Int /\ Refills(d) \in Int
      BY <1>2, RefillsType
    <2> QED BY <2>2, <2>3, <2>4
  <1>5. Worth(k)' = bucket[k].tokens + ((Refills(DateNow) + Refills(d)) - Refills(bucket[k].lastRefill))
    <2>1. Worth(k)' = bucket'[k].tokens + (Refills(DateNow') - Refills(bucket'[k].lastRefill))
      BY DEF Worth, Refills
    <2>2. Worth(k)' = bucket[k].tokens + (Refills(DateNow') - Refills(bucket[k].lastRefill))
      BY <2>1
    <2>3. Refills(DateNow') = Refills(DateNow) + Refills(d)
      BY <1>3
    <2> QED BY <2>2, <2>3
  <1>6. Account(k, i) + Worth(k) <= MaxTokens + Refills(trueTime)
    BY DEF WithinRate
  <1>7. Worth(k) \in Int /\ Worth(k)' = Worth(k) + Refills(d)
    <2>1. Worth(k) = bucket[k].tokens + (Refills(DateNow) - Refills(bucket[k].lastRefill))
      BY DEF Worth
    <2> QED BY <1>2, <1>4, <1>5, <2>1
  <1>8. Refills(trueTime') = Refills(trueTime) + Refills(t)
    BY <1>3
  <1>9. Account(k, i)' + Worth(k)' = (Account(k, i) + Worth(k)) + Refills(d)
    BY <1>1, <1>4, <1>7
  <1>10. MaxTokens + Refills(trueTime') = (MaxTokens + Refills(trueTime)) + Refills(t)
    BY <1>2, <1>4, <1>8
  <1> QED BY <1>1, <1>2, <1>4, <1>6, <1>7, <1>9, <1>10

LEMMA LimiterInvStays == LimiterInv /\ [LimiterNext]_limiterVars => LimiterInv'
  <1> SUFFICES ASSUME LimiterInv, [LimiterNext]_limiterVars PROVE LimiterInv'
    OBVIOUS
  <1>0. LimiterVarsOK /\ BucketsOK /\ WithinRate /\ NoDebt /\ RateIsBounded
    BY DEF LimiterInv
  <1>1. ASSUME NEW k \in LimitedKey, Allow(k) PROVE LimiterInv'
    <2>1. LimiterVarsOK' /\ trueTime' = trueTime
      BY <1>0, <1>1, AllowGives
    <2>2. BucketsOK'
      <3> SUFFICES ASSUME NEW l \in LimitedKey
                   PROVE  /\ bucket'[l].lastRefill = -1 \/ bucket'[l].lastRefill \in 0 .. trueTime
                          /\ bucket'[l].lastRefill = -1 => allowed'[l] = << >>
        BY <2>1 DEF BucketsOK
      <3>1. CASE l # k
        BY <1>0, <1>1, <3>1, AllowGives DEF BucketsOK
      <3>2. CASE l = k
        BY <1>0, <1>1, <3>2, AllowGives, KeyType
      <3> QED BY <3>1, <3>2
    <2>3. WithinRate'
      <3> SUFFICES ASSUME NEW l \in LimitedKey, NEW i \in 1 .. Len(allowed'[l])
                   PROVE  Account(l, i)' + Worth(l)' <= MaxTokens + Refills(trueTime)
        BY <2>1 DEF WithinRate, Refills
      <3>1. CASE l # k
        BY <1>0, <1>1, <3>1, OthersKeepTheirs DEF WithinRate
      <3>2. CASE l = k
        BY <1>1, <3>2, AllowKeepsRate
      <3> QED BY <3>1, <3>2
    <2> QED BY <1>1, <2>1, <2>2, <2>3, AllowKeepsBound, AllowKeepsNoDebt DEF LimiterInv
  <1>2. CASE ClockTicks
    <2>1. /\ trueTime' = trueTime + 1 /\ UNCHANGED <<bucket, setBacks, allowed>>
          /\ DateNow' = DateNow + 1
      BY <1>0, <1>2 DEF ClockTicks, DateNow, LimiterVarsOK
    <2>2. LimiterVarsOK' /\ BucketsOK' /\ NoDebt' /\ RateIsBounded'
      BY <1>0, <2>1 DEF LimiterVarsOK, BucketsOK, NoDebt, RateIsBounded
    <2>3. WithinRate'
      BY <1>0, <2>1, TimeKeepsRate
    <2> QED BY <2>2, <2>3 DEF LimiterInv
  <1>3. CASE ClockIsSetBack
    <2>1. /\ setBacks' = setBacks + 1 /\ setBacks < trueTime /\ UNCHANGED <<bucket, trueTime, allowed>>
          /\ trueTime' = trueTime + 0 /\ DateNow' = DateNow + (-1)
      BY <1>0, <1>3 DEF ClockIsSetBack, DateNow, LimiterVarsOK
    <2>2. LimiterVarsOK' /\ BucketsOK' /\ NoDebt' /\ RateIsBounded'
      BY <1>0, <2>1 DEF LimiterVarsOK, BucketsOK, NoDebt, RateIsBounded
    <2>3. WithinRate'
      BY <1>0, <2>1, TimeKeepsRate
    <2> QED BY <2>2, <2>3 DEF LimiterInv
  <1>4. CASE UNCHANGED limiterVars
    BY <1>0, <1>4 DEF limiterVars, LimiterInv, LimiterVarsOK, BucketsOK, WithinRate, NoDebt, RateIsBounded,
                      Worth, Account, DateNow, Refills
  <1> QED BY <1>1, <1>2, <1>3, <1>4 DEF LimiterNext

LEMMA InvGivesFairness == LimiterInv => RateIsFair
  <1> SUFFICES ASSUME LimiterInv PROVE RateIsBounded /\ PatienceIsServed
    BY DEF RateIsFair
  <1>1. RateIsBounded /\ LimiterVarsOK /\ NoDebt
    BY DEF LimiterInv
  <1>2. ASSUME NEW k \in LimitedKey, setBacks = 0, bucket[k].lastRefill < trueTime
        PROVE  Refilled(k) >= 1
    <2>1. /\ bucket[k].tokens >= 0 /\ DateNow = trueTime
          /\ bucket[k].tokens \in Int /\ bucket[k].lastRefill \in Int /\ trueTime \in Int
          /\ Refills(DateNow) \in Int /\ Refills(bucket[k].lastRefill) \in Int /\ MaxTokens >= 1
      BY <1>1, <1>2, KeyType DEF NoDebt, DateNow, LimiterVarsOK
    <2>2. Refills(DateNow) - Refills(bucket[k].lastRefill) >= 1
      <3>1. DateNow - bucket[k].lastRefill \in Int /\ DateNow - bucket[k].lastRefill >= 1
        BY <1>2, <2>1
      <3>2. Refills(DateNow - bucket[k].lastRefill) = Refills(DateNow) - Refills(bucket[k].lastRefill)
        BY <2>1, RefillsSplit
      <3> QED BY <3>1, <3>2, RefillsType
    <2>3. Worth(k) >= 1
      BY <2>1, <2>2 DEF Worth
    <2> QED BY <1>1, <2>1, <2>3, RefillIsLimited
  <1> QED BY <1>1, <1>2 DEF PatienceIsServed

\* Whatever the sizes of bucket and refill, the order of calls and what happens to
\* the wall clock, no stretch of time lets through more than a full bucket and its
\* refills; and without a set-back clock a tick of waiting is enough
\* (rateLimiter.ts, allow).
THEOREM RateIsAlwaysFair == LimiterSpec => []RateIsFair
  <1>1. LimiterSpec => []LimiterInv
    BY LimiterInvHolds, LimiterInvStays, PTL DEF LimiterSpec
  <1> QED BY <1>1, InvGivesFairness, PTL

-----------------------------------------------------------------------------
(* RateLimiter: types.                                                     *)

\* A bucket holds what fits, and owes no more than the clock was set back for.
DebtOK ==
    /\ trueTime <= MaxClock /\ setBacks <= MaxSetBack
    /\ asked \in [LimitedKey -> 0 .. MaxAsked]
    /\ \A k \in LimitedKey :
          /\ bucket[k].tokens <= MaxTokens
          /\ bucket[k].tokens + Refills(setBacks) >= 0
          /\ bucket[k].lastRefill = -1 => bucket[k].tokens = MaxTokens
          /\ bucket[k].lastRefill # -1 => Worth(k) + Refills(setBacks) >= 0

LimiterTypeInv == LimiterVarsOK /\ BucketsOK /\ DebtOK

LEMMA LimiterTypeInvHolds == LimiterInit => LimiterTypeInv
  <1> SUFFICES ASSUME LimiterInit PROVE LimiterTypeInv
    OBVIOUS
  <1>1. LimiterVarsOK /\ BucketsOK
    BY LimiterInvHolds DEF LimiterInv
  <1>2. Refills(0) \in Nat
    BY RefillsType
  <1> QED BY <1>1, <1>2, LimiterAssumption DEF LimiterInit, LimiterTypeInv, DebtOK, AbsentBucket

\* A call leaves its key what was refilled, or one less of something.
LEMMA AllowKeepsTypes ==
    ASSUME LimiterTypeInv, NEW k \in LimitedKey, Allow(k)
    PROVE  LimiterTypeInv'
  <1>1. /\ LimiterVarsOK /\ BucketsOK /\ DebtOK /\ LimiterVarsOK'
        /\ trueTime' = trueTime /\ setBacks' = setBacks /\ DateNow' = DateNow
        /\ setBacks \in Nat /\ Refills(setBacks) \in Nat
    <2>1. LimiterVarsOK /\ BucketsOK /\ DebtOK
      BY DEF LimiterTypeInv
    <2>2. setBacks \in Nat
      BY <2>1 DEF LimiterVarsOK
    <2> QED BY <2>1, <2>2, AllowGives, RefillsType
  <1>2. asked' \in [LimitedKey -> 0 .. MaxAsked]
    BY <1>1, LimiterAssumption DEF Allow, DebtOK
  <1>3. /\ Refilled(k) \in Int /\ Refilled(k) <= MaxTokens /\ MaxTokens \in Nat
        /\ Refilled(k) + Refills(setBacks) >= 0
    <2>1. \/ Refilled(k) = MaxTokens
          \/ bucket[k].lastRefill # -1 /\ Refilled(k) = Worth(k)
      BY <1>1, RefillIsLimited
    <2> QED BY <1>1, <2>1, RefillIsLimited, KeyType DEF DebtOK
  <1>4. /\ bucket'[k].tokens \in Int /\ Worth(k)' = bucket'[k].tokens
        /\ bucket'[k].tokens <= MaxTokens /\ bucket'[k].tokens + Refills(setBacks) >= 0
        /\ bucket'[k].lastRefill = DateNow /\ DateNow \in 0 .. trueTime
    <2>1. /\ bucket'[k].lastRefill = DateNow
          /\ bucket'[k].tokens \in Int /\ Worth(k)' = bucket'[k].tokens
          /\ bucket'[k].tokens = Refilled(k) \/ (Refilled(k) >= 1 /\ bucket'[k].tokens = Refilled(k) - 1)
      BY <1>1, AllowGives
    <2>2. DateNow \in 0 .. trueTime
      BY <1>1, KeyType
    <2> QED BY <1>1, <1>3, <2>1, <2>2
  <1>5. Refills(setBacks)' = Refills(setBacks)
    BY <1>1 DEF Refills
  <1>6. DebtOK'
    <2> SUFFICES ASSUME NEW l \in LimitedKey
                 PROVE  /\ bucket'[l].tokens <= MaxTokens
                        /\ bucket'[l].tokens + Refills(setBacks) >= 0
                        /\ bucket'[l].lastRefill = -1 => bucket'[l].tokens = MaxTokens
                        /\ bucket'[l].lastRefill # -1 => Worth(l)' + Refills(setBacks) >= 0
      BY <1>1, <1>2, <1>5 DEF DebtOK
    <2>1. CASE l = k
      BY <1>1, <1>4, <2>1 DEF LimiterVarsOK
    <2>2. CASE l # k
      BY <1>1, <2>2, OthersKeepTheirs DEF DebtOK
    <2> QED BY <2>1, <2>2
  <1>7. BucketsOK'
    <2> SUFFICES ASSUME NEW l \in LimitedKey
                 PROVE  /\ bucket'[l].lastRefill = -1 \/ bucket'[l].lastRefill \in 0 .. trueTime
                        /\ bucket'[l].lastRefill = -1 => allowed'[l] = << >>
      BY <1>1 DEF BucketsOK
    <2>1. CASE l = k
      BY <1>1, <1>4, <2>1 DEF LimiterVarsOK
    <2>2. CASE l # k
      BY <1>1, <2>2, OthersKeepTheirs DEF BucketsOK
    <2> QED BY <2>1, <2>2
  <1> QED BY <1>1, <1>6, <1>7 DEF LimiterTypeInv

\* A tick adds a refill to what the keys are worth.
LEMMA TickKeepsTypes == LimiterTypeInv /\ ClockTicks => LimiterTypeInv'
  <1> SUFFICES ASSUME LimiterTypeInv, ClockTicks PROVE LimiterTypeInv'
    OBVIOUS
  <1>1. /\ LimiterVarsOK /\ BucketsOK /\ DebtOK
        /\ bucket' = bucket /\ allowed' = allowed /\ setBacks' = setBacks
        /\ trueTime' = trueTime + 1 /\ trueTime < MaxClock /\ trueTime \in Nat /\ setBacks \in Nat
        /\ asked' = [k \in LimitedKey |-> 0]
    BY DEF ClockTicks, LimiterTypeInv, LimiterVarsOK
  <1>2. LimiterVarsOK' /\ BucketsOK'
    BY <1>1 DEF LimiterVarsOK, BucketsOK
  <1>3. Refills(setBacks)' = Refills(setBacks) /\ Refills(setBacks) \in Nat
    BY <1>1, RefillsType DEF Refills
  <1>4. ASSUME NEW k \in LimitedKey
        PROVE  Worth(k)' \in Int /\ Worth(k) \in Int /\ Worth(k)' >= Worth(k)
    <2>1. DateNow' = DateNow + 1 /\ DateNow \in Int
      BY <1>1, KeyType DEF DateNow
    <2>2. Refills(DateNow') = Refills(DateNow) + Refills(1) /\ Refills(1) \in Nat
      BY <2>1, RefillsSplit, RefillsType
    <2>3. Worth(k)' = bucket[k].tokens + (Refills(DateNow') - Refills(bucket[k].lastRefill))
      BY <1>1 DEF Worth, Refills
    <2>4. /\ Refills(DateNow) \in Int /\ Refills(bucket[k].lastRefill) \in Int
          /\ bucket[k].tokens \in Int
      BY <1>1, KeyType
    <2> QED BY <2>2, <2>3, <2>4 DEF Worth
  <1>5. DebtOK'
    BY <1>1, <1>3, <1>4, LimiterAssumption DEF DebtOK
  <1> QED BY <1>2, <1>5 DEF LimiterTypeInv

\* A clock that is set back takes from what the keys are worth the refill by which
\* they may owe more.
LEMMA SetBackKeepsTypes == LimiterTypeInv /\ ClockIsSetBack => LimiterTypeInv'
  <1> SUFFICES ASSUME LimiterTypeInv, ClockIsSetBack PROVE LimiterTypeInv'
    OBVIOUS
  <1>1. /\ LimiterVarsOK /\ BucketsOK /\ DebtOK
        /\ bucket' = bucket /\ allowed' = allowed /\ trueTime' = trueTime /\ asked' = asked
        /\ setBacks' = setBacks + 1 /\ setBacks < MaxSetBack /\ setBacks < trueTime
        /\ trueTime \in Nat /\ setBacks \in Nat
    BY DEF ClockIsSetBack, LimiterTypeInv, LimiterVarsOK
  <1>2. LimiterVarsOK' /\ BucketsOK'
    BY <1>1 DEF LimiterVarsOK, BucketsOK
  <1>3. /\ Refills(setBacks') = Refills(setBacks) + Refills(1)
        /\ Refills(setBacks)' = Refills(setBacks')
        /\ Refills(setBacks) \in Nat /\ Refills(1) \in Nat
    <2>1. Refills(setBacks + 1) = Refills(setBacks) + Refills(1)
      BY <1>1, RefillsSplit
    <2> QED BY <1>1, <2>1, RefillsType DEF Refills
  <1>4. ASSUME NEW k \in LimitedKey
        PROVE  Worth(k)' \in Int /\ Worth(k) \in Int /\ Worth(k)' = Worth(k) - Refills(1)
    <2>1. DateNow' = DateNow - 1 /\ DateNow \in Int
      BY <1>1, KeyType DEF DateNow
    <2>2. Refills(DateNow') = Refills(DateNow) - Refills(1)
      BY <2>1, RefillsSplit
    <2>3. Worth(k)' = bucket[k].tokens + (Refills(DateNow') - Refills(bucket[k].lastRefill))
      BY <1>1 DEF Worth, Refills
    <2>4. /\ Refills(DateNow) \in Int /\ Refills(bucket[k].lastRefill) \in Int
          /\ bucket[k].tokens \in Int
      BY <1>1, KeyType
    <2> QED BY <1>3, <2>2, <2>3, <2>4 DEF Worth
  <1>5. ASSUME NEW k \in LimitedKey
        PROVE  /\ bucket[k].tokens <= MaxTokens
               /\ bucket[k].tokens + Refills(setBacks') >= 0
               /\ bucket[k].lastRefill = -1 => bucket[k].tokens = MaxTokens
               /\ bucket[k].lastRefill # -1 => Worth(k)' + Refills(setBacks') >= 0
    <2>1. bucket[k].tokens \in Int
      BY <1>1, KeyType
    <2> QED BY <1>1, <1>3, <1>4, <2>1 DEF DebtOK
  <1>6. DebtOK'
    BY <1>1, <1>3, <1>5, LimiterAssumption DEF DebtOK
  <1> QED BY <1>2, <1>6 DEF LimiterTypeInv

\* A bucket never holds more than it may and owes no more than one refill for each
\* time the clock was set back; no bucket was refilled at a time yet to come
\* (rateLimiter.ts, allow).
THEOREM LimiterTypeCorrect == LimiterSpec => []LimiterTypeOK
  <1>1. LimiterTypeInv /\ [LimiterNext]_limiterVars => LimiterTypeInv'
    <2> SUFFICES ASSUME LimiterTypeInv, [LimiterNext]_limiterVars PROVE LimiterTypeInv'
      OBVIOUS
    <2>1. CASE UNCHANGED limiterVars
      BY <2>1 DEF limiterVars, LimiterTypeInv, LimiterVarsOK, BucketsOK, DebtOK, Worth, Refills, DateNow
    <2> QED BY <2>1, AllowKeepsTypes, TickKeepsTypes, SetBackKeepsTypes DEF LimiterNext
  <1>2. LimiterTypeInv => LimiterTypeOK
    <2> SUFFICES ASSUME LimiterTypeInv PROVE LimiterTypeOK
      OBVIOUS
    <2>1. LimiterVarsOK /\ BucketsOK /\ DebtOK
      BY DEF LimiterTypeInv
    <2>2. ASSUME NEW k \in LimitedKey
          PROVE  /\ bucket[k].tokens \in -(RefillPer * MaxSetBack) .. MaxTokens
                 /\ bucket[k].lastRefill \in -1 .. MaxClock
      <3>1. Refills(setBacks) <= Refills(MaxSetBack) /\ Refills(setBacks) \in Int /\ Refills(MaxSetBack) \in Int
        <4>1. setBacks \in Int /\ MaxSetBack \in Int /\ MaxSetBack - setBacks \in Nat
          BY <2>1, LimiterAssumption DEF LimiterVarsOK, DebtOK
        <4>2. Refills(MaxSetBack - setBacks) = Refills(MaxSetBack) - Refills(setBacks)
          BY <4>1, RefillsSplit
        <4>3. Refills(MaxSetBack - setBacks) \in Nat
          BY <4>1, RefillsType
        <4> QED BY <4>1, <4>2, <4>3, RefillsType
      <3>2. bucket[k].tokens \in -Refills(MaxSetBack) .. MaxTokens
        BY <2>1, <3>1, KeyType DEF DebtOK
      <3>3. bucket[k].lastRefill \in -1 .. MaxClock
        <4>1. trueTime \in Nat /\ trueTime <= MaxClock
          BY <2>1 DEF LimiterVarsOK, DebtOK
        <4>2. bucket[k].lastRefill = -1 \/ bucket[k].lastRefill \in 0 .. trueTime
          BY <2>1 DEF BucketsOK
        <4>3. MaxClock \in Nat
          BY LimiterAssumption
        <4>4. CASE bucket[k].lastRefill = -1
          BY <4>3, <4>4
        <4>5. CASE bucket[k].lastRefill \in 0 .. trueTime
          BY <4>1, <4>3, <4>5
        <4> QED BY <4>2, <4>4, <4>5
      <3> QED BY <3>2, <3>3 DEF Refills
    <2> QED BY <2>1, <2>2, LimiterAssumption DEF LimiterTypeOK, LimiterVarsOK, DebtOK
  <1> QED BY LimiterTypeInvHolds, <1>1, <1>2, PTL DEF LimiterSpec

\* Of a set of numbers there is a smallest.
LEMMA LeastOf ==
    ASSUME NEW T \in SUBSET Nat, T # {}
    PROVE  \E m \in T : \A k \in T : m <= k
  <1> DEFINE R == OpToRel(<, Nat)
  <1>1. \A x, y \in Nat : x < y => <<x, y>> \in R
    BY DEF OpToRel
  <1>2. IsWellFoundedOn(R, Nat)
    BY NatLessThanWellFounded
  <1> HIDE DEF R
  <1>3. PICK m \in T : \A k \in T : <<k, m>> \notin R
    BY <1>2, WFMin
  <1>4. \A k \in T : ~(k < m)
    BY <1>1, <1>3
  <1>5. ASSUME NEW k \in T PROVE m <= k
    <2>1. m \in Nat /\ k \in Nat
      OBVIOUS
    <2> QED BY <1>4, <2>1
  <1> QED BY <1>5

\* What a paused socket had read ahead, up to the first frame that stops.


\* Induction over the natural numbers, for a set of them.
LEMMA NatSetInduction ==
    ASSUME NEW S, 0 \in S, \A n \in Nat : n \in S => n + 1 \in S
    PROVE  Nat \subseteq S
  <1> SUFFICES ASSUME Nat \ S # {} PROVE FALSE
    OBVIOUS
  <1>1. PICK m \in Nat \ S : \A k \in Nat \ S : m <= k
    BY LeastOf
  <1>2. m # 0 /\ m \in Nat /\ m - 1 \in Nat /\ ~(m <= m - 1)
    BY <1>1
  <1>3. m - 1 \in S
    BY <1>1, <1>2
  <1>4. (m - 1) + 1 \in S
    BY <1>2, <1>3
  <1> QED BY <1>2, <1>4

\* A function over the numbers up to N may be defined by what it is at 0 and how
\* it goes on.
IsStep(step, G, N) == step \in [G \X (1 .. N) -> G]
Continues(f, base, step, G, N) ==
    f \in [0 .. N -> G] /\ f[0] = base /\ \A k \in 1 .. N : f[k] = step[<<f[k - 1], k>>]

LEMMA RecursionUpTo ==
    ASSUME NEW N \in Nat, NEW G, NEW base \in G, NEW step, IsStep(step, G, N)
    PROVE  \E f : Continues(f, base, step, G, N)
  <1> DEFINE Good(n, g) == /\ g \in [0 .. n -> G] /\ g[0] = base
                           /\ \A k \in 1 .. n : g[k] = step[<<g[k - 1], k>>]
             S == {n \in Nat : n <= N => \E g : Good(n, g)}
  <1>1. 0 \in S
    <2>1. Good(0, [k \in 0 .. 0 |-> base])
      OBVIOUS
    <2> QED BY <2>1
  <1>2. ASSUME NEW n \in Nat, n \in S PROVE n + 1 \in S
    <2> SUFFICES ASSUME n + 1 <= N PROVE \E h : Good(n + 1, h)
      OBVIOUS
    <2>1. PICK g : Good(n, g)
      BY <1>2
    <2> DEFINE next == step[<<g[n], n + 1>>]
               h == [k \in 0 .. n + 1 |-> IF k = n + 1 THEN next ELSE g[k]]
    <2>2. g \in [0 .. n -> G] /\ g[0] = base /\ g[n] \in G /\ n + 1 \in 1 .. N
      BY <2>1
    <2>3. next \in G
      BY <2>2 DEF IsStep
    <2>4. /\ h[0] = base /\ h[n + 1] = next /\ \A k \in 0 .. n : h[k] = g[k]
          /\ h \in [0 .. n + 1 -> G]
      <3> HIDE DEF next
      <3>1. \A k \in 0 .. n : k \in 0 .. n + 1 /\ k # n + 1
        OBVIOUS
      <3>2. 0 \in 0 .. n + 1 /\ 0 # n + 1 /\ n + 1 \in 0 .. n + 1
        OBVIOUS
      <3>3. \A k \in 0 .. n + 1 : k = n + 1 \/ k \in 0 .. n
        OBVIOUS
      <3>4. \A k \in 0 .. n + 1 : (IF k = n + 1 THEN next ELSE g[k]) \in G
        BY <2>2, <2>3, <3>3
      <3> QED BY <2>2, <3>1, <3>2, <3>4
    <2>5. \A k \in 1 .. n : g[k] = step[<<g[k - 1], k>>]
      BY <2>1
    <2> HIDE DEF h
    <2>6. ASSUME NEW k \in 1 .. n + 1 PROVE h[k] = step[<<h[k - 1], k>>]
      <3>1. k - 1 \in 0 .. n /\ (k = n + 1 => k - 1 = n) /\ (k # n + 1 => k \in 1 .. n /\ k \in 0 .. n)
        OBVIOUS
      <3>2. h[k - 1] = g[k - 1]
        BY <2>4, <3>1
      <3> QED BY <2>4, <2>5, <3>1, <3>2
    <2>7. Good(n + 1, h)
      BY <2>4, <2>6
    <2> QED BY <2>7
  <1> HIDE DEF S
  <1>3. N \in S
    BY <1>1, <1>2, NatSetInduction
  <1> QED BY <1>3 DEF S, Continues


-----------------------------------------------------------------------------
(* OTEngine: sequences and their parts.                                    *)

Rejoins(s, t, u) == (s \o t) \o u = s \o (t \o u)
LEMMA PutTogether ==
    ASSUME NEW C, NEW s \in Seq(C), NEW t \in Seq(C), NEW u \in Seq(C)
    PROVE  s \o t \in Seq(C) /\ Rejoins(s, t, u)
  <1>1. s \o t \in Seq(C) /\ t \o u \in Seq(C)
    BY ConcatProperties
  <1>2. (s \o t) \o u = s \o (t \o u)
    BY ConcatAssociative
  <1> QED BY <1>1, <1>2 DEF Rejoins


-----------------------------------------------------------------------------
(* FlattenSeq, one sequence at a time.                                     *)

\* The sequences so far, joined.
Flattens(seqs, C, h) ==
    /\ h \in [1 .. Len(seqs) -> Seq(C)] /\ h[1] = seqs[1]
    /\ \A i \in 2 .. Len(seqs) : h[i] = h[i - 1] \o seqs[i]
    /\ FlattenSeq(seqs) = h[Len(seqs)]

LEMMA FlattenIs ==
    ASSUME NEW C, NEW seqs \in Seq(Seq(C)), Len(seqs) >= 1
    PROVE  \E h : Flattens(seqs, C, h)
  <1> DEFINE N == Len(seqs)
             step == [p \in Seq(C) \X (1 .. N) |-> p[1] \o seqs[p[2]]]
             Defining(h) == h = [i \in 1 .. N |-> IF i = 1 THEN seqs[i] ELSE h[i - 1] \o seqs[i]]
  <1>1. N \in Nat /\ N >= 1 /\ << >> \in Seq(C) /\ \A i \in 1 .. N : seqs[i] \in Seq(C)
    OBVIOUS
  <1>2. \A s \in Seq(C), i \in 1 .. N : s \o seqs[i] \in Seq(C)
    BY <1>1, ConcatProperties
  <1>3. IsStep(step, Seq(C), N)
    BY <1>2 DEF IsStep
  <1>4. \A s \in Seq(C), i \in 1 .. N : step[<<s, i>>] = s \o seqs[i]
    OBVIOUS
  <1> HIDE DEF step, N
  <1>5. PICK g : Continues(g, << >>, step, Seq(C), N)
    BY <1>1, <1>3, RecursionUpTo
  <1>6. g \in [0 .. N -> Seq(C)] /\ g[0] = << >> /\ \A k \in 1 .. N : g[k] = step[<<g[k - 1], k>>]
    BY <1>5 DEF Continues
  <1>7. ASSUME NEW k \in 1 .. N PROVE g[k] = g[k - 1] \o seqs[k] /\ g[k] \in Seq(C)
    <2>1. k - 1 \in 0 .. N /\ k \in 0 .. N
      BY <1>1
    <2>2. g[k - 1] \in Seq(C) /\ g[k] \in Seq(C)
      BY <1>6, <2>1
    <2> QED BY <1>4, <1>6, <2>2
  <1> DEFINE r == [i \in 1 .. N |-> g[i]]
  <1>8. Defining(r)
    <2>1. ASSUME NEW i \in 1 .. N
          PROVE  r[i] = IF i = 1 THEN seqs[i] ELSE r[i - 1] \o seqs[i]
      <3>1. CASE i = 1
        <4>1. g[i] = g[i - 1] \o seqs[i]
          BY <1>7
        <4>2. i - 1 = 0 /\ seqs[1] \in Seq(C) /\ g[0] = << >>
          BY <1>1, <1>6, <3>1
        <4>3. g[1] = << >> \o seqs[1]
          BY <3>1, <4>1, <4>2
        <4>4. << >> \o seqs[1] = seqs[1]
          BY <4>2
        <4> QED BY <3>1, <4>3, <4>4
      <3>2. CASE i # 1
        <4>1. i - 1 \in 1 .. N
          BY <1>1, <3>2
        <4>2. r[i - 1] = g[i - 1] /\ r[i] = g[i]
          BY <4>1
        <4> QED BY <1>7, <3>2, <4>2
      <3> QED BY <3>1, <3>2
    <2>2. r = [i \in 1 .. N |-> r[i]]
      OBVIOUS
    <2> HIDE DEF r
    <2> QED BY <2>1, <2>2
  <1> DEFINE h == CHOOSE f : Defining(f)
  <1>9. Defining(h)
    <2> HIDE DEF Defining, r
    <2> QED BY <1>8
  <1>10. FlattenSeq(seqs) = h[N]
    BY <1>1 DEF FlattenSeq, N
  <1> HIDE DEF h
  <1>11. DOMAIN h = 1 .. N /\ h = [i \in 1 .. N |-> h[i]]
    BY <1>9
  <1>12. h[1] = seqs[1] /\ \A i \in 2 .. N : h[i] = h[i - 1] \o seqs[i]
    <2>1. 1 \in 1 .. N
      BY <1>1
    <2>2. h[1] = seqs[1]
      BY <1>9, <2>1
    <2>3. ASSUME NEW i \in 2 .. N PROVE h[i] = h[i - 1] \o seqs[i]
      <3>1. i \in 1 .. N /\ i # 1
        BY <1>1
      <3> QED BY <1>9, <3>1
    <2> QED BY <2>2, <2>3
  <1> DEFINE S == {k \in Nat : k + 1 <= N => h[k + 1] \in Seq(C)}
  <1>13. 0 \in S
    BY <1>1, <1>12
  <1>14. ASSUME NEW k \in Nat, k \in S PROVE k + 1 \in S
    <2> SUFFICES ASSUME (k + 1) + 1 <= N PROVE h[(k + 1) + 1] \in Seq(C)
      OBVIOUS
    <2>1. (k + 1) + 1 \in 2 .. N /\ (k + 1) + 1 \in 1 .. N /\ ((k + 1) + 1) - 1 = k + 1 /\ k + 1 <= N
      BY <1>1
    <2>2. h[k + 1] \in Seq(C)
      BY <1>14, <2>1
    <2> QED BY <1>2, <1>12, <2>1, <2>2
  <1> HIDE DEF S
  <1>15. Nat \subseteq S
    BY <1>13, <1>14, NatSetInduction
  <1>16. ASSUME NEW i \in 1 .. N PROVE h[i] \in Seq(C)
    <2>1. i - 1 \in Nat /\ (i - 1) + 1 = i /\ i <= N
      BY <1>1
    <2> QED BY <1>15, <2>1 DEF S
  <1>17. h \in [1 .. N -> Seq(C)]
    BY <1>11, <1>16
  <1>18. Flattens(seqs, C, h)
    BY <1>10, <1>12, <1>17 DEF Flattens, N
  <1> QED BY <1>18

LEMMA FlattenNone == FlattenSeq(<< >>) = << >>
  BY DEF FlattenSeq

LEMMA FlattenAppend ==
    ASSUME NEW C, NEW a \in Seq(Seq(C)), NEW x \in Seq(C)
    PROVE  /\ FlattenSeq(a) \in Seq(C)
           /\ FlattenSeq(Append(a, x)) = FlattenSeq(a) \o x
  <1> DEFINE b == Append(a, x)  N == Len(a)
  <1>1. /\ b \in Seq(Seq(C)) /\ Len(b) = N + 1 /\ N \in Nat /\ b[N + 1] = x
        /\ \A i \in 1 .. N : b[i] = a[i]
    OBVIOUS
  <1> HIDE DEF b
  <1>2. PICK g : Flattens(b, C, g)
    BY <1>1, FlattenIs
  <1>3. /\ g[1] = b[1] /\ FlattenSeq(b) = g[N + 1]
        /\ \A i \in 2 .. N + 1 : g[i] = g[i - 1] \o b[i]
    BY <1>1, <1>2 DEF Flattens
  <1>4. CASE N = 0
    <2>1. a = << >> /\ FlattenSeq(a) = << >>
      BY <1>4, FlattenNone, EmptySeq
    <2>2. FlattenSeq(b) = x
      BY <1>1, <1>3, <1>4
    <2>3. << >> \o x = x /\ << >> \in Seq(C)
      OBVIOUS
    <2> QED BY <2>1, <2>2, <2>3 DEF b
  <1>5. CASE N # 0
    <2>0. N >= 1
      BY <1>1, <1>5
    <2>1. PICK h : Flattens(a, C, h)
      BY <2>0, FlattenIs
    <2>2. /\ h[1] = a[1] /\ FlattenSeq(a) = h[N] /\ h \in [1 .. N -> Seq(C)]
          /\ \A i \in 2 .. N : h[i] = h[i - 1] \o a[i]
      BY <2>1 DEF Flattens
    <2> DEFINE S == {k \in Nat : k + 1 <= N => h[k + 1] = g[k + 1]}
    <2>3. 0 \in S
      <3>1. 1 \in 1 .. N
        BY <1>1, <1>5
      <3> QED BY <1>1, <1>3, <2>2, <3>1
    <2>4. ASSUME NEW k \in Nat, k \in S PROVE k + 1 \in S
      <3> SUFFICES ASSUME (k + 1) + 1 <= N PROVE h[(k + 1) + 1] = g[(k + 1) + 1]
        OBVIOUS
      <3>1. /\ (k + 1) + 1 \in 2 .. N /\ (k + 1) + 1 \in 2 .. N + 1 /\ (k + 1) + 1 \in 1 .. N
            /\ ((k + 1) + 1) - 1 = k + 1 /\ k + 1 <= N
        BY <1>1
      <3>2. h[k + 1] = g[k + 1]
        BY <2>4, <3>1
      <3>3. b[(k + 1) + 1] = a[(k + 1) + 1]
        BY <1>1, <3>1
      <3>4. /\ h[(k + 1) + 1] = h[k + 1] \o a[(k + 1) + 1]
            /\ g[(k + 1) + 1] = g[k + 1] \o b[(k + 1) + 1]
        <4>1. /\ h[(k + 1) + 1] = h[((k + 1) + 1) - 1] \o a[(k + 1) + 1]
              /\ g[(k + 1) + 1] = g[((k + 1) + 1) - 1] \o b[(k + 1) + 1]
          BY <1>3, <2>2, <3>1
        <4> QED BY <3>1, <4>1
      <3> QED BY <3>2, <3>3, <3>4
    <2> HIDE DEF S
    <2>5. Nat \subseteq S
      BY <2>3, <2>4, NatSetInduction
    <2>6. h[N] = g[N]
      <3>1. N - 1 \in Nat /\ (N - 1) + 1 = N
        BY <1>1, <1>5
      <3>2. N - 1 \in S
        BY <2>5, <3>1
      <3> QED BY <1>1, <3>1, <3>2 DEF S
    <2>7. g[N + 1] = g[N] \o x
      <3>1. N + 1 \in 2 .. N + 1 /\ (N + 1) - 1 = N
        BY <1>1, <1>5
      <3>2. g[N + 1] = g[(N + 1) - 1] \o b[N + 1]
        BY <1>3, <3>1
      <3> QED BY <1>1, <3>1, <3>2
    <2>8. FlattenSeq(a) \in Seq(C)
      <3>1. N \in 1 .. N
        BY <1>1, <2>0
      <3>2. h[N] \in Seq(C)
        BY <2>2, <3>1
      <3> QED BY <2>2, <3>2
    <2> QED BY <1>3, <2>2, <2>6, <2>7, <2>8 DEF b
  <1> QED BY <1>4, <1>5


-----------------------------------------------------------------------------
(* Lines, and what joining them makes.                                     *)

Newline == <<"\n">>
Line == Seq(Characters)
\* The lines, each behind a line feed.
Behind(ls) == [i \in DOMAIN ls |-> <<"\n">> \o ls[i]]
Post(ls) == FlattenSeq(Behind(ls))

LEMMA Newlines ==
    /\ "\n" \in Characters /\ Newline \in Line /\ Len(Newline) = 1 /\ << >> \in Line
    /\ \A x \in Line : Newline \o x \in Line
  <1>1. "\n" \in Characters
    BY DEF Characters, Blank
  <1> QED BY <1>1, ConcatProperties DEF Newline, Line

LEMMA BehindAppend ==
    ASSUME NEW a \in Seq(Line), NEW x \in Line
    PROVE  /\ Behind(a) \in Seq(Line)
           /\ Behind(Append(a, x)) = Append(Behind(a), Newline \o x)
  <1> DEFINE d == Append(a, x)  e == Behind(a)  y == Newline \o x  f == Append(e, y)
  <1>1. /\ d \in Seq(Line) /\ Len(d) = Len(a) + 1 /\ Len(a) \in Nat /\ d[Len(a) + 1] = x
        /\ \A i \in 1 .. Len(a) : d[i] = a[i] /\ a[i] \in Line
        /\ DOMAIN a = 1 .. Len(a) /\ DOMAIN d = 1 .. Len(d)
    OBVIOUS
  <1>2. e \in Seq(Line) /\ Len(e) = Len(a) /\ \A i \in 1 .. Len(a) : e[i] = Newline \o a[i]
    <2>1. e = [i \in 1 .. Len(a) |-> Newline \o a[i]]
      BY <1>1 DEF Behind, Newline
    <2>2. \A i \in 1 .. Len(a) : Newline \o a[i] \in Line
      BY <1>1, Newlines
    <2> HIDE DEF e
    <2> QED BY <1>1, <2>1, <2>2
  <1>3. y \in Line
    BY Newlines
  <1> HIDE DEF e, y
  <1>4. /\ f \in Seq(Line) /\ Len(f) = Len(a) + 1 /\ f[Len(a) + 1] = y
        /\ \A i \in 1 .. Len(a) : f[i] = e[i]
    BY <1>1, <1>2, <1>3
  <1> HIDE DEF f, d
  <1>5. ASSUME NEW i \in 1 .. Len(a) + 1 PROVE f[i] = Newline \o d[i]
    <2>1. CASE i \in 1 .. Len(a)
      BY <1>1, <1>2, <1>4, <2>1
    <2>2. CASE i = Len(a) + 1
      BY <1>1, <1>4, <2>2 DEF y
    <2> QED BY <1>1, <2>1, <2>2
  <1>6. Behind(d) = [i \in 1 .. Len(a) + 1 |-> Newline \o d[i]]
    BY <1>1 DEF Behind, Newline
  <1>7. f = [i \in 1 .. Len(a) + 1 |-> f[i]]
    BY <1>4
  <1>8. f = Behind(d)
    BY <1>5, <1>6, <1>7
  <1> QED BY <1>2, <1>8 DEF d, e, f, y

LEMMA PostNone == Post(<< >>) = << >>
  <1>1. Behind(<< >>) = << >>
    BY DEF Behind
  <1> QED BY <1>1, FlattenNone DEF Post

LEMMA PostAppend ==
    ASSUME NEW a \in Seq(Line), NEW x \in Line
    PROVE  Post(a) \in Line /\ Post(Append(a, x)) = Post(a) \o (Newline \o x)
  <1>1. /\ Behind(a) \in Seq(Line) /\ Newline \o x \in Line
        /\ Behind(Append(a, x)) = Append(Behind(a), Newline \o x)
    BY BehindAppend, Newlines
  <1>2. Behind(a) \in Seq(Seq(Characters)) /\ Newline \o x \in Seq(Characters)
    BY <1>1 DEF Line
  <1> QED BY <1>1, <1>2, FlattenAppend DEF Post, Line

\* What is shown of Append(b, x) if it is so of b, and of no lines, is so of all.
LEMMA LinesInduct ==
    ASSUME NEW T, << >> \in T,
           \A b \in Seq(Line), x \in Line : b \in T => Append(b, x) \in T
    PROVE  Seq(Line) \subseteq T
  <1> DEFINE S == {n \in Nat : \A b \in Seq(Line) : Len(b) = n => b \in T}
  <1>1. 0 \in S
    BY EmptySeq
  <1>2. ASSUME NEW n \in Nat, n \in S PROVE n + 1 \in S
    <2> SUFFICES ASSUME NEW b \in Seq(Line), Len(b) = n + 1 PROVE b \in T
      OBVIOUS
    <2> DEFINE f == SubSeq(b, 1, n)  l == b[n + 1]
    <2>1. f \in Seq(Line) /\ Len(f) = n /\ l \in Line /\ Append(f, l) = b
      <3>1. f \in Seq(Line) /\ Len(f) = n /\ l \in Line /\ \A i \in 1 .. n : f[i] = b[i]
        OBVIOUS
      <3> HIDE DEF f, l
      <3>2. /\ Append(f, l) \in Seq(Line) /\ Len(Append(f, l)) = n + 1
            /\ \A i \in 1 .. n + 1 : Append(f, l)[i] = IF i = n + 1 THEN l ELSE f[i]
        BY <3>1
      <3>3. \A i \in 1 .. n + 1 : i = n + 1 \/ i \in 1 .. n
        OBVIOUS
      <3>4. \A i \in 1 .. n + 1 : Append(f, l)[i] = b[i]
        BY <3>1, <3>2, <3>3 DEF l
      <3> QED BY <3>1, <3>2, <3>4, SeqEqual
    <2> HIDE DEF f, l
    <2>2. f \in T
      BY <1>2, <2>1
    <2> QED BY <2>1, <2>2
  <1> HIDE DEF S
  <1>3. Nat \subseteq S
    BY <1>1, <1>2, NatSetInduction
  <1>4. ASSUME NEW b \in Seq(Line) PROVE b \in T
    <2>1. Len(b) \in Nat
      OBVIOUS
    <2>2. Len(b) \in S
      BY <1>3, <2>1
    <2> QED BY <2>2 DEF S
  <1> QED BY <1>4

LEMMA LinesJoin ==
    ASSUME NEW s \in Line, NEW t \in Line, NEW u \in Line
    PROVE  /\ s \o t \in Line /\ Rejoins(s, t, u)
           /\ Len(s \o t) = Len(s) + Len(t) /\ Len(s) \in Nat
  <1>1. s \in Seq(Characters) /\ t \in Seq(Characters) /\ u \in Seq(Characters)
    BY DEF Line
  <1>2. s \o t \in Seq(Characters) /\ Rejoins(s, t, u)
    BY <1>1, PutTogether
  <1>3. Len(s \o t) = Len(s) + Len(t) /\ Len(s) \in Nat
    BY <1>1
  <1> QED BY <1>2, <1>3 DEF Line

LEMMA FirstOnes ==
    ASSUME NEW C, NEW s \in Seq(C), NEW k \in 0 .. Len(s)
    PROVE  /\ SubSeq(s, 1, k) \in Seq(C) /\ Len(SubSeq(s, 1, k)) = k
           /\ \A i \in 1 .. k : SubSeq(s, 1, k)[i] = s[i]
  <1>1. k \in Nat /\ k <= Len(s) /\ \A i \in 1 .. k : i \in 1 .. Len(s)
    OBVIOUS
  <1> QED BY <1>1


LEMMA PostConcat ==
    ASSUME NEW a \in Seq(Line), NEW b \in Seq(Line)
    PROVE  Post(a \o b) = Post(a) \o Post(b)
  <1> DEFINE T == {d \in Seq(Line) : Post(a \o d) = Post(a) \o Post(d)}
  <1>1. Post(a) \in Line
    BY PostAppend, Newlines
  <1>2. << >> \in T
    <2>1. a \o << >> = a /\ Post(a) \o << >> = Post(a) /\ << >> \in Seq(Line)
      BY <1>1 DEF Line
    <2> QED BY <2>1, PostNone
  <1>3. ASSUME NEW d \in Seq(Line), NEW x \in Line, d \in T PROVE Append(d, x) \in T
    <2> DEFINE y == Newline \o x
    <2>1. Post(d) \in Line /\ Post(Append(d, x)) = Post(d) \o y /\ y \in Line
      BY PostAppend, Newlines
    <2>2. a \o d \in Seq(Line) /\ a \o Append(d, x) = Append(a \o d, x) /\ Append(d, x) \in Seq(Line)
      OBVIOUS
    <2>3. Post(a \o Append(d, x)) = Post(a \o d) \o y
      BY <2>2, PostAppend
    <2>4. Post(a \o d) = Post(a) \o Post(d)
      BY <1>3
    <2>5. (Post(a) \o Post(d)) \o y = Post(a) \o (Post(d) \o y)
      <3>1. Rejoins(Post(a), Post(d), y)
        BY <1>1, <2>1, LinesJoin
      <3> QED BY <3>1 DEF Rejoins
    <2> QED BY <2>1, <2>2, <2>3, <2>4, <2>5
  <1> HIDE DEF T
  <1>4. Seq(Line) \subseteq T
    BY <1>2, <1>3, LinesInduct
  <1>5. b \in T
    BY <1>4
  <1> QED BY <1>5 DEF T

LEMMA PostOne == ASSUME NEW x \in Line PROVE Post(<< x >>) = Newline \o x
  <1>1. << x >> = Append(<< >>, x) /\ << >> \in Seq(Line)
    OBVIOUS
  <1>2. Post(<< x >>) = Post(<< >>) \o (Newline \o x)
    BY <1>1, PostAppend
  <1>3. << >> \o (Newline \o x) = Newline \o x
    BY Newlines DEF Line
  <1> QED BY <1>2, <1>3, PostNone

LEMMA LenPost ==
    ASSUME NEW a \in Seq(Line)
    PROVE  /\ Len(Post(a)) = Len(FlattenSeq(a)) + Len(a)
           /\ Post(a) \in Line /\ FlattenSeq(a) \in Line
  <1> DEFINE T == {d \in Seq(Line) : Len(Post(d)) = Len(FlattenSeq(d)) + Len(d)}
  <1>1. << >> \in T
    BY PostNone, FlattenNone
  <1>2. ASSUME NEW d \in Seq(Line) PROVE FlattenSeq(d) \in Line /\ Post(d) \in Line
    <2>1. d \in Seq(Seq(Characters)) /\ << >> \in Seq(Characters)
      BY DEF Line
    <2> QED BY <2>1, FlattenAppend, PostAppend, Newlines DEF Line
  <1>3. ASSUME NEW d \in Seq(Line), NEW x \in Line, d \in T PROVE Append(d, x) \in T
    <2>1. d \in Seq(Seq(Characters)) /\ x \in Seq(Characters)
      BY DEF Line
    <2>2. FlattenSeq(Append(d, x)) = FlattenSeq(d) \o x /\ Post(Append(d, x)) = Post(d) \o (Newline \o x)
      BY <2>1, FlattenAppend, PostAppend
    <2>3. FlattenSeq(d) \in Line /\ Post(d) \in Line /\ Newline \o x \in Line
      BY <1>2, Newlines
    <2>4. Len(FlattenSeq(d) \o x) = Len(FlattenSeq(d)) + Len(x)
      BY <2>3 DEF Line
    <2>5. Len(Newline \o x) = 1 + Len(x)
      BY Newlines, LinesJoin
    <2>6. Len(Post(d) \o (Newline \o x)) = Len(Post(d)) + Len(Newline \o x)
      BY <2>3 DEF Line
    <2>7. Append(d, x) \in Seq(Line) /\ Len(Append(d, x)) = Len(d) + 1 /\ Len(d) \in Nat
      OBVIOUS
    <2>8. Len(FlattenSeq(d)) \in Nat /\ Len(Post(d)) \in Nat /\ Len(x) \in Nat
      BY <2>3 DEF Line
    <2>9. Len(Post(d)) = Len(FlattenSeq(d)) + Len(d)
      BY <1>3
    <2>10. Len(Post(Append(d, x))) = Len(FlattenSeq(Append(d, x))) + Len(Append(d, x))
      BY <2>2, <2>4, <2>5, <2>6, <2>7, <2>8, <2>9
    <2> QED BY <2>7, <2>10
  <1> HIDE DEF T
  <1>4. Seq(Line) \subseteq T
    BY <1>1, <1>3, LinesInduct
  <1>5. a \in T
    BY <1>4
  <1> QED BY <1>2, <1>5 DEF T

\* A character more: it ends the last line, or a line feed begins another.
LEMMA CharacterMore ==
    ASSUME NEW ls \in Seq(Line), ls # << >>, NEW c \in Characters
    PROVE  /\ WithCharacter(ls, c) \in Seq(Line) /\ WithCharacter(ls, c) # << >>
           /\ Post(WithCharacter(ls, c)) = Post(ls) \o <<c>>
  <1>1. CASE c = "\n"
    <2>1. WithCharacter(ls, c) = Append(ls, << >>) /\ << >> \in Line
      BY <1>1, Newlines DEF WithCharacter
    <2>2. Append(ls, << >>) \in Seq(Line) /\ Append(ls, << >>) # << >>
      BY <2>1
    <2>3. Newline \o << >> = <<c>>
      BY <1>1 DEF Newline
    <2>4. Post(Append(ls, << >>)) = Post(ls) \o (Newline \o << >>)
      BY <2>1, PostAppend
    <2> QED BY <2>1, <2>2, <2>3, <2>4
  <1>2. CASE c # "\n"
    <2> DEFINE n == Len(ls)  f == SubSeq(ls, 1, n - 1)  l == ls[n]  m == Append(l, c)  q == [ls EXCEPT ![n] = m]
    <2>1. n \in Nat /\ n >= 1 /\ l \in Line
      OBVIOUS
    <2>2. m \in Line /\ m = l \o <<c>> /\ <<c>> \in Line
      BY <2>1 DEF Line
    <2>3. WithCharacter(ls, c) = q
      BY <1>2 DEF WithCharacter
    <2>4. f \in Seq(Line) /\ Len(f) = n - 1 /\ \A i \in 1 .. n - 1 : f[i] = ls[i]
      <3>1. n - 1 \in 0 .. Len(ls)
        BY <2>1
      <3> QED BY <3>1, FirstOnes
    <2> HIDE DEF m
    <2>5. q \in Seq(Line) /\ Len(q) = n /\ q[n] = m /\ \A i \in 1 .. n - 1 : q[i] = ls[i]
      BY <2>1, <2>2
    <2> HIDE DEF q, f, l
    <2>6. ASSUME NEW x \in Line, NEW w \in Seq(Line), Len(w) = n, w[n] = x, \A i \in 1 .. n - 1 : w[i] = ls[i]
          PROVE  w = Append(f, x)
      <3>1. /\ Append(f, x) \in Seq(Line) /\ Len(Append(f, x)) = n
            /\ \A i \in 1 .. n : Append(f, x)[i] = IF i = n THEN x ELSE f[i]
        BY <2>1, <2>4
      <3>2. \A i \in 1 .. n : i = n \/ i \in 1 .. n - 1
        BY <2>1
      <3>3. \A i \in 1 .. n : w[i] = Append(f, x)[i]
        BY <2>4, <2>6, <3>1, <3>2
      <3> QED BY <2>6, <3>1, <3>3, SeqEqual
    <2>7. ls = Append(f, l)
      BY <2>1, <2>6 DEF l
    <2>8. q = Append(f, m)
      BY <2>2, <2>5, <2>6
    <2>9. Post(ls) = Post(f) \o (Newline \o l) /\ Post(q) = Post(f) \o (Newline \o m) /\ Post(f) \in Line
      BY <2>1, <2>2, <2>4, <2>7, <2>8, PostAppend
    <2>10. Newline \o m = (Newline \o l) \o <<c>>
      <3>1. Rejoins(Newline, l, <<c>>)
        BY <2>1, <2>2, Newlines, LinesJoin
      <3> QED BY <2>2, <3>1 DEF Rejoins
    <2>11. Post(f) \o ((Newline \o l) \o <<c>>) = (Post(f) \o (Newline \o l)) \o <<c>>
      <3>1. Newline \o l \in Line
        BY <2>1, Newlines
      <3>2. Rejoins(Post(f), Newline \o l, <<c>>)
        BY <2>2, <2>9, <3>1, LinesJoin
      <3> QED BY <3>2 DEF Rejoins
    <2>12. q # << >>
      BY <2>1, <2>5
    <2> QED BY <2>3, <2>5, <2>9, <2>10, <2>11, <2>12
  <1> QED BY <1>1, <1>2


\* The lines of a text, joined, are the text.
LEMMA SplitIs ==
    ASSUME NEW t \in Line
    PROVE  /\ SplitLines(t) \in Seq(Line) /\ SplitLines(t) # << >>
           /\ Post(SplitLines(t)) = Newline \o t
  <1> DEFINE N == Len(t)
             G == {ls \in Seq(Line) : ls # << >>}
             step == [p \in G \X (1 .. N) |-> WithCharacter(p[1], t[p[2]])]
             Defining(h) ==
                 h = [n \in 0 .. N |-> IF n = 0 THEN << << >> >> ELSE WithCharacter(h[n - 1], t[n])]
  <1>1. N \in Nat /\ << << >> >> \in G /\ \A i \in 1 .. N : t[i] \in Characters
    BY Newlines DEF Line
  <1>2. ASSUME NEW ls \in G, NEW i \in 1 .. N
        PROVE  WithCharacter(ls, t[i]) \in G /\ Post(WithCharacter(ls, t[i])) = Post(ls) \o <<t[i]>>
    <2>1. ls \in Seq(Line) /\ ls # << >> /\ t[i] \in Characters
      BY <1>1
    <2> QED BY <2>1, CharacterMore
  <1>2a. \A ls \in G : ls \in Seq(Line) /\ ls # << >>
    OBVIOUS
  <1> HIDE DEF G, N
  <1>3. IsStep(step, G, N)
    BY <1>2 DEF IsStep
  <1>4. \A ls \in G, i \in 1 .. N : step[<<ls, i>>] = WithCharacter(ls, t[i])
    OBVIOUS
  <1> HIDE DEF step
  <1>5. PICK g : Continues(g, << << >> >>, step, G, N)
    BY <1>1, <1>3, RecursionUpTo
  <1>6. g \in [0 .. N -> G] /\ g[0] = << << >> >> /\ \A k \in 1 .. N : g[k] = step[<<g[k - 1], k>>]
    BY <1>5 DEF Continues
  <1>7. ASSUME NEW k \in 1 .. N PROVE g[k] = WithCharacter(g[k - 1], t[k])
    <2>1. k - 1 \in 0 .. N
      BY <1>1
    <2>2. g[k - 1] \in G
      BY <1>6, <2>1
    <2> QED BY <1>4, <1>6, <2>2
  <1>8. Defining(g)
    <2>1. ASSUME NEW n \in 0 .. N
          PROVE  g[n] = IF n = 0 THEN << << >> >> ELSE WithCharacter(g[n - 1], t[n])
      <3>1. n # 0 => n \in 1 .. N
        BY <1>1
      <3> QED BY <1>6, <1>7, <3>1
    <2>2. g = [n \in 0 .. N |-> g[n]]
      BY <1>6
    <2> QED BY <2>1, <2>2
  <1> DEFINE h == CHOOSE f : Defining(f)
  <1>9. Defining(h)
    <2> HIDE DEF Defining
    <2> QED BY <1>8
  <1>10. SplitLines(t) = h[N]
    BY DEF SplitLines, N
  <1> HIDE DEF h
  <1>11. h[0] = << << >> >> /\ \A n \in 1 .. N : h[n] = WithCharacter(h[n - 1], t[n])
    <2>1. 0 \in 0 .. N /\ \A n \in 1 .. N : n \in 0 .. N /\ n # 0
      BY <1>1
    <2> QED BY <1>9, <2>1
  <1> DEFINE S == {k \in Nat : k <= N => h[k] \in G /\ Post(h[k]) = Newline \o SubSeq(t, 1, k)}
  <1>12. 0 \in S
    <2>1. SubSeq(t, 1, 0) = << >>
      BY DEF Line
    <2>2. Post(h[0]) = Newline \o << >>
      BY <1>11, PostOne, Newlines
    <2> QED BY <1>1, <1>11, <2>1, <2>2
  <1>13. ASSUME NEW k \in Nat, k \in S PROVE k + 1 \in S
    <2> DEFINE p == SubSeq(t, 1, k)  c == t[k + 1]
    <2> SUFFICES ASSUME k + 1 <= N
                 PROVE  h[k + 1] \in G /\ Post(h[k + 1]) = Newline \o SubSeq(t, 1, k + 1)
      OBVIOUS
    <2>1. k + 1 \in 1 .. N /\ (k + 1) - 1 = k /\ k <= N /\ k \in 0 .. N
      BY <1>1
    <2>2. h[k] \in G /\ Post(h[k]) = Newline \o p
      BY <1>13, <2>1
    <2>3. h[k + 1] = WithCharacter(h[k], c)
      BY <1>11, <2>1
    <2>4. h[k + 1] \in G /\ Post(h[k + 1]) = Post(h[k]) \o <<c>>
      BY <1>2, <2>1, <2>2, <2>3
    <2>5. p \in Line /\ <<c>> \in Line /\ SubSeq(t, 1, k + 1) = p \o <<c>>
      <3>1. c \in Characters
        BY <1>1, <2>1
      <3>2. <<c>> \in Seq(Characters) /\ Len(<<c>>) = 1 /\ <<c>>[1] = c
        BY <3>1
      <3>3. p \in Seq(Characters) /\ Len(p) = k /\ \A i \in 1 .. k : p[i] = t[i]
        BY <2>1, FirstOnes DEF Line, N
      <3>4. /\ SubSeq(t, 1, k + 1) \in Seq(Characters) /\ Len(SubSeq(t, 1, k + 1)) = k + 1
            /\ \A i \in 1 .. k + 1 : SubSeq(t, 1, k + 1)[i] = t[i]
        <4>1. k + 1 \in 0 .. Len(t)
          BY <1>1, <2>1 DEF N
        <4> QED BY <4>1, FirstOnes DEF Line
      <3> DEFINE q == <<c>>
      <3> HIDE DEF p, q
      <3>5. /\ p \o q \in Seq(Characters) /\ Len(p \o q) = k + 1
            /\ \A i \in 1 .. k : (p \o q)[i] = p[i]
            /\ (p \o q)[k + 1] = q[1]
        BY <3>2, <3>3 DEF q
      <3>6. \A i \in 1 .. k + 1 : (p \o q)[i] = t[i]
        <4>1. \A i \in 1 .. k + 1 : i = k + 1 \/ i \in 1 .. k
          OBVIOUS
        <4>2. q[1] = t[k + 1]
          BY <3>2 DEF q
        <4> QED BY <3>3, <3>5, <4>1, <4>2
      <3>7. \A i \in 1 .. Len(SubSeq(t, 1, k + 1)) : SubSeq(t, 1, k + 1)[i] = (p \o q)[i]
        BY <3>4, <3>6
      <3>8. SubSeq(t, 1, k + 1) = p \o q
        BY <3>4, <3>5, <3>7, SeqEqual
      <3> QED BY <3>2, <3>3, <3>8 DEF Line, q
    <2> HIDE DEF p, c
    <2>6. (Newline \o p) \o <<c>> = Newline \o (p \o <<c>>)
      <3>1. Rejoins(Newline, p, <<c>>)
        BY <2>5, Newlines, LinesJoin
      <3> QED BY <3>1 DEF Rejoins
    <2> QED BY <2>2, <2>4, <2>5, <2>6
  <1> HIDE DEF S
  <1>14. Nat \subseteq S
    BY <1>12, <1>13, NatSetInduction
  <1>15. N \in S
    BY <1>1, <1>14
  <1>16. h[N] \in G /\ Post(h[N]) = Newline \o SubSeq(t, 1, N)
    BY <1>1, <1>15 DEF S
  <1>17. SubSeq(t, 1, N) = t
    BY SubSeqFull DEF Line, N
  <1> QED BY <1>2a, <1>10, <1>16, <1>17


-----------------------------------------------------------------------------
(* A position of the editor, and the text in front of it and behind it.    *)

LEMMA CutIs ==
    ASSUME NEW t \in Line, NEW i \in Nat
    PROVE  /\ Upto(t, i) = SubSeq(t, 1, Smaller(i, Len(t))) /\ From(t, i) = SubSeq(t, i + 1, Len(t))
           /\ Upto(t, i) \in Line /\ From(t, i) \in Line
           /\ Len(Upto(t, i)) = Smaller(i, Len(t)) /\ Upto(t, i) \o From(t, i) = t
  <1> DEFINE k == Smaller(i, Len(t))  p == SubSeq(t, 1, k)  q == SubSeq(t, i + 1, Len(t))
  <1>1. t \in Seq(Characters) /\ Len(t) \in Nat
    BY DEF Line
  <1>2. Upto(t, i) = p /\ From(t, i) = q
    <2>1. /\ Larger(0, 0) + 1 = 1 /\ Larger(i, 0) + 1 = i + 1
          /\ Smaller(Len(t), Len(t)) = Len(t)
      BY <1>1 DEF Larger, Smaller
    <2> QED BY <2>1 DEF Upto, From, Cut
  <1>3. k \in 0 .. Len(t) /\ (k = i \/ (k = Len(t) /\ i > Len(t)))
    BY <1>1 DEF Smaller
  <1> HIDE DEF k
  <1>4. p \in Seq(Characters) /\ Len(p) = k /\ \A j \in 1 .. k : p[j] = t[j]
    BY <1>1, <1>3, FirstOnes
  <1>5. /\ q \in Seq(Characters) /\ Len(q) = Len(t) - k
        /\ \A j \in 1 .. Len(t) - k : q[j] = t[k + j]
    <2>1. CASE i <= Len(t)
      <3>1. k = i
        BY <1>3, <2>1
      <3>2. /\ q \in Seq(Characters) /\ Len(q) = Len(t) - i
            /\ \A j \in 1 .. Len(t) - i : q[j] = t[i + j]
        BY <1>1, <2>1
      <3> QED BY <3>1, <3>2
    <2>2. CASE i > Len(t)
      <3>1. q = << >> /\ k = Len(t)
        BY <1>1, <1>3, <2>2
      <3>2. << >> \in Seq(Characters) /\ Len(<< >>) = 0
        OBVIOUS
      <3> HIDE DEF q
      <3>4. q \in Seq(Characters) /\ Len(q) = 0
        BY <3>1, <3>2
      <3>3. Len(t) - k = 0
        BY <1>1, <3>1
      <3> QED BY <3>4, <3>3
    <2> QED BY <1>1, <2>1, <2>2
  <1> HIDE DEF p, q
  <1>6. /\ p \o q \in Seq(Characters) /\ Len(p \o q) = Len(t)
        /\ \A j \in 1 .. k : (p \o q)[j] = p[j]
        /\ \A j \in 1 .. Len(t) - k : (p \o q)[k + j] = q[j]
    BY <1>1, <1>3, <1>4, <1>5
  <1>7. ASSUME NEW j \in 1 .. Len(t) PROVE (p \o q)[j] = t[j]
    <2>1. CASE j <= k
      BY <1>3, <1>4, <1>6, <2>1
    <2>2. CASE j > k
      <3>1. j - k \in 1 .. Len(t) - k /\ k + (j - k) = j
        BY <1>1, <1>3, <2>2
      <3> QED BY <1>5, <1>6, <3>1
    <2>3. j <= k \/ j > k
      BY <1>1, <1>3
    <2> QED BY <2>1, <2>2, <2>3
  <1>8. p \o q = t
    BY <1>1, <1>6, <1>7, SeqEqual
  <1> QED BY <1>2, <1>4, <1>5, <1>8 DEF Line, p, q, k

LEMMA Thirds ==
    ASSUME NEW C, NEW s \in Seq(C), NEW n \in Nat, n < Len(s)
    PROVE  /\ SubSeq(s, 1, n) \in Seq(C) /\ Len(SubSeq(s, 1, n)) = n
           /\ s[n + 1] \in C /\ SubSeq(s, n + 2, Len(s)) \in Seq(C)
           /\ s = SubSeq(s, 1, n) \o (<< s[n + 1] >> \o SubSeq(s, n + 2, Len(s)))
  <1> DEFINE a == SubSeq(s, 1, n)  l == s[n + 1]  b == SubSeq(s, n + 2, Len(s))  m == << l >> \o b
             w == a \o m
  <1>1. Len(s) \in Nat /\ n + 1 \in 1 .. Len(s) /\ n \in 0 .. Len(s)
    OBVIOUS
  <1>2. a \in Seq(C) /\ Len(a) = n /\ \A j \in 1 .. n : a[j] = s[j]
    BY <1>1, FirstOnes
  <1>3. l \in C
    BY <1>1
  <1>4. /\ b \in Seq(C) /\ Len(b) = Len(s) - n - 1
        /\ \A j \in 1 .. Len(s) - n - 1 : b[j] = s[n + 1 + j]
    BY <1>1
  <1> HIDE DEF a, b, l
  <1>5. /\ m \in Seq(C) /\ Len(m) = Len(s) - n /\ m[1] = l
        /\ \A j \in 1 .. Len(s) - n - 1 : m[1 + j] = b[j]
    BY <1>1, <1>3, <1>4
  <1> HIDE DEF m
  <1>6. /\ w \in Seq(C) /\ Len(w) = Len(s)
        /\ \A j \in 1 .. n : w[j] = a[j]
        /\ \A j \in 1 .. Len(s) - n : w[n + j] = m[j]
    <2>1. a \in Seq(C) /\ m \in Seq(C) /\ Len(a) = n /\ Len(m) = Len(s) - n
      BY <1>2, <1>5
    <2>2. Len(w) = Len(a) + Len(m) /\ w \in Seq(C)
      BY <2>1
    <2>3. ASSUME NEW j \in 1 .. n PROVE w[j] = a[j]
      BY <1>1, <2>1
    <2>4. ASSUME NEW j \in 1 .. Len(s) - n PROVE w[n + j] = m[j]
      BY <1>1, <2>1
    <2> QED BY <1>1, <2>1, <2>2, <2>3, <2>4
  <1> HIDE DEF w
  <1>7. ASSUME NEW j \in 1 .. Len(s) PROVE s[j] = w[j]
    <2>1. CASE j <= n
      BY <1>1, <1>2, <1>6, <2>1
    <2>2. CASE j = n + 1
      <3>1. 1 \in 1 .. Len(s) - n
        BY <1>1
      <3>2. w[n + 1] = m[1]
        BY <1>6, <3>1
      <3> QED BY <1>5, <2>2, <3>2 DEF l
    <2>3. CASE j > n + 1
      <3>1. j - n \in 1 .. Len(s) - n /\ n + (j - n) = j /\ j - n - 1 \in 1 .. Len(s) - n - 1
            /\ 1 + (j - n - 1) = j - n /\ n + 1 + (j - n - 1) = j
        BY <1>1, <2>3
      <3>2. w[n + (j - n)] = m[j - n]
        BY <1>6, <3>1
      <3>3. m[1 + (j - n - 1)] = b[j - n - 1]
        BY <1>5, <3>1
      <3>4. b[j - n - 1] = s[n + 1 + (j - n - 1)]
        BY <1>4, <3>1
      <3> QED BY <3>1, <3>2, <3>3, <3>4
    <2> QED BY <1>1, <2>1, <2>2, <2>3
  <1>8. s = w
    BY <1>6, <1>7, SeqEqual
  <1> QED BY <1>2, <1>3, <1>4, <1>8 DEF a, b, l, m, w

\* The lines up to a position, each behind a line feed, and those from it on.
LinesUpto(ls, n, i) == Post(SubSeq(ls, 1, n)) \o (Newline \o Upto(ls[n + 1], i))
LinesFrom(ls, n, i) == From(ls[n + 1], i) \o Post(SubSeq(ls, n + 2, Len(ls)))

LEMMA LinesPart ==
    ASSUME NEW ls \in Seq(Line), NEW n \in Nat, NEW i \in Nat, n < Len(ls)
    PROVE  /\ LinesUpto(ls, n, i) \in Line /\ LinesFrom(ls, n, i) \in Line
           /\ Post(ls) = LinesUpto(ls, n, i) \o LinesFrom(ls, n, i)
           /\ Len(LinesUpto(ls, n, i)) =
                  Len(FlattenSeq(SubSeq(ls, 1, n))) + n + Smaller(i, Len(ls[n + 1])) + 1
           /\ Len(FlattenSeq(SubSeq(ls, 1, n))) \in Nat /\ Smaller(i, Len(ls[n + 1])) \in Nat
  <1> DEFINE a == SubSeq(ls, 1, n)  l == ls[n + 1]  b == SubSeq(ls, n + 2, Len(ls))
             x == Upto(l, i)  y == From(l, i)  z == Newline \o x
  <1>1. a \in Seq(Line) /\ Len(a) = n /\ l \in Line /\ b \in Seq(Line) /\ ls = a \o (<< l >> \o b)
    BY Thirds
  <1> HIDE DEF a, b, l
  <1>2. x \in Line /\ y \in Line /\ Len(x) = Smaller(i, Len(l)) /\ x \o y = l
    BY <1>1, CutIs
  <1> HIDE DEF x, y
  <1>3. z \in Line /\ Len(z) = 1 + Len(x) /\ Len(x) \in Nat
    <2>1. Newline \in Line /\ Len(Newline) = 1
      BY Newlines
    <2> HIDE DEF z
    <2>2. z \in Line /\ Len(z) = Len(Newline) + Len(x) /\ Len(x) \in Nat
      BY <1>2, <2>1, LinesJoin DEF z
    <2> QED BY <2>1, <2>2
  <1>4. Post(ls) = Post(a) \o ((Newline \o l) \o Post(b))
    <2>1. << l >> \in Seq(Line) /\ << l >> \o b \in Seq(Line)
      BY <1>1
    <2>2. Post(<< l >> \o b) = Post(<< l >>) \o Post(b)
      BY <1>1, <2>1, PostConcat
    <2>3. Post(a \o (<< l >> \o b)) = Post(a) \o Post(<< l >> \o b)
      BY <1>1, <2>1, PostConcat
    <2> QED BY <1>1, <2>2, <2>3, PostOne
  <1>5. Newline \o l = z \o y
    <2>1. Rejoins(Newline, x, y)
      BY <1>2, Newlines, LinesJoin
    <2> QED BY <1>2, <2>1 DEF Rejoins
  <1> HIDE DEF z
  <1>6. Post(a) \in Line /\ Post(b) \in Line /\ Len(Post(a)) = Len(FlattenSeq(a)) + n
        /\ FlattenSeq(a) \in Line
    BY <1>1, LenPost
  <1>7. (z \o y) \o Post(b) = z \o (y \o Post(b)) /\ y \o Post(b) \in Line
    <2>1. Rejoins(z, y, Post(b)) /\ y \o Post(b) \in Line
      BY <1>2, <1>3, <1>6, LinesJoin
    <2> QED BY <2>1 DEF Rejoins
  <1> DEFINE v == y \o Post(b)
  <1>8. Post(a) \o (z \o v) = (Post(a) \o z) \o v /\ Post(a) \o z \in Line
        /\ Len(Post(a) \o z) = Len(Post(a)) + Len(z)
    <2>1. Rejoins(Post(a), z, v) /\ Post(a) \o z \in Line /\ Len(Post(a) \o z) = Len(Post(a)) + Len(z)
      BY <1>3, <1>6, <1>7, LinesJoin
    <2> QED BY <2>1 DEF Rejoins
  <1>9. Post(ls) = (Post(a) \o z) \o v
    BY <1>4, <1>5, <1>7, <1>8
  <1>10. Len(FlattenSeq(a)) \in Nat
    BY <1>6, LinesJoin
  <1>11. Len(Post(a) \o z) = Len(FlattenSeq(a)) + n + Len(x) + 1
    BY <1>3, <1>6, <1>8, <1>10
  <1>12. LinesUpto(ls, n, i) = Post(a) \o z /\ LinesFrom(ls, n, i) = v
    BY DEF LinesUpto, LinesFrom, a, b, l, x, y, z
  <1> HIDE DEF v
  <1>13. v \in Line
    BY <1>7 DEF v
  <1> QED BY <1>2, <1>3, <1>8, <1>9, <1>10, <1>11, <1>12, <1>13 DEF a, l

\* One sequence taken apart in two ways.
LEMMA Halves ==
    ASSUME NEW t \in Line, NEW s \in Line, NEW u \in Line, NEW n \in Nat,
           Newline \o t = s \o u, Len(s) = n + 1
    PROVE  s = Newline \o SubSeq(t, 1, n) /\ u = SubSeq(t, n + 1, Len(t)) /\ n <= Len(t)
  <1> DEFINE C == Characters  c == "\n"
  <1>0. /\ c \in C /\ t \in Seq(C) /\ s \in Seq(C) /\ u \in Seq(C) /\ Newline = <<c>>
        /\ <<c>> \o t = s \o u
    BY Newlines DEF Line, Newline
  <1> HIDE DEF C, c
  <1> DEFINE w == <<c>> \o t
  <1>1. /\ w \in Seq(C) /\ Len(w) = 1 + Len(t) /\ w[1] = c /\ Len(t) \in Nat
        /\ \A i \in 1 .. Len(t) : w[i + 1] = t[i]
    BY <1>0
  <1>2. /\ Len(w) = n + 1 + Len(u) /\ Len(u) \in Nat
        /\ \A i \in 1 .. n + 1 : w[i] = s[i]
        /\ \A i \in 1 .. Len(u) : w[n + 1 + i] = u[i]
    <2> DEFINE v == s \o u
    <2>1. /\ Len(v) = Len(s) + Len(u) /\ Len(u) \in Nat
          /\ \A i \in 1 .. Len(s) : v[i] = s[i]
          /\ \A i \in 1 .. Len(u) : v[Len(s) + i] = u[i]
      BY <1>0
    <2>2. w = v
      BY <1>0
    <2> HIDE DEF v, w
    <2> QED BY <2>1, <2>2
  <1> HIDE DEF w
  <1>3. n <= Len(t) /\ Len(u) = Len(t) - n
    BY <1>0, <1>1, <1>2
  <1> DEFINE p == SubSeq(t, 1, n)  q == SubSeq(t, n + 1, Len(t))
  <1>4. p \in Seq(C) /\ Len(p) = n /\ \A i \in 1 .. n : p[i] = t[i]
    BY <1>0, <1>1, <1>3, FirstOnes
  <1>5. q \in Seq(C) /\ Len(q) = Len(t) - n /\ \A i \in 1 .. Len(t) - n : q[i] = t[n + i]
    BY <1>0, <1>1, <1>3
  <1> HIDE DEF p, q
  <1>6. u = q
    <2>1. ASSUME NEW i \in 1 .. Len(u) PROVE u[i] = q[i]
      <3>1. n + i \in 1 .. Len(t) /\ i \in 1 .. Len(t) - n /\ n + 1 + i = (n + i) + 1
        BY <1>3
      <3>2. u[i] = w[n + 1 + i] /\ w[(n + i) + 1] = t[n + i] /\ q[i] = t[n + i]
        BY <1>1, <1>2, <1>5, <3>1
      <3> QED BY <3>1, <3>2
    <2> QED BY <1>0, <1>3, <1>5, <2>1, SeqEqual
  <1>7. s = <<c>> \o p
    <2> DEFINE z == <<c>> \o p
    <2>1. z \in Seq(C) /\ Len(z) = n + 1 /\ z[1] = c /\ \A i \in 1 .. n : z[i + 1] = p[i]
      BY <1>0, <1>4
    <2> HIDE DEF z
    <2>2. ASSUME NEW i \in 1 .. n + 1 PROVE s[i] = z[i]
      <3>1. CASE i = 1
        BY <1>0, <1>1, <1>2, <2>1, <3>1
      <3>2. CASE i # 1
        <4>1. i - 1 \in 1 .. n /\ (i - 1) + 1 = i /\ i - 1 \in 1 .. Len(t)
          BY <1>3, <3>2
        <4>2. z[(i - 1) + 1] = p[i - 1] /\ p[i - 1] = t[i - 1] /\ w[(i - 1) + 1] = t[i - 1]
          BY <1>1, <1>4, <2>1, <4>1
        <4> QED BY <1>2, <4>1, <4>2
      <3> QED BY <3>1, <3>2
    <2>3. s = z
      BY <1>0, <1>2, <2>1, <2>2, SeqEqual
    <2> QED BY <2>3 DEF z
  <1> QED BY <1>0, <1>3, <1>6, <1>7 DEF p, q

LEMMA AtPosition ==
    ASSUME NEW t \in Line, NEW p \in Position, p.line < Len(SplitLines(t))
    PROVE  /\ Offset(t, p) \in Nat
           /\ LinesUpto(SplitLines(t), p.line, p.character) = Newline \o Upto(t, Offset(t, p))
           /\ LinesFrom(SplitLines(t), p.line, p.character) = From(t, Offset(t, p))
           /\ Offset(t, p) <= Len(t)
  <1> DEFINE ls == SplitLines(t)  n == p.line  i == p.character  o == Offset(t, p)
             u == LinesUpto(ls, n, i)  v == LinesFrom(ls, n, i)
             start == Len(FlattenSeq(SubSeq(ls, 1, n)))  far == Smaller(i, Len(ls[n + 1]))
  <1>1. n \in Nat /\ i \in Nat
    BY DEF Position
  <1>2. ls \in Seq(Line) /\ Post(ls) = Newline \o t /\ Len(ls) \in Nat
    <2>1. ls \in Seq(Line) /\ Post(ls) = Newline \o t
      BY SplitIs, Zenon
    <2> QED BY <2>1
  <1>3. o = start + n + far
    <2>1. ~(n >= Len(ls))
      BY <1>1, <1>2
    <2> QED BY <2>1 DEF Offset
  <1> HIDE DEF ls, o
  <1>4. /\ u \in Line /\ v \in Line /\ Post(ls) = u \o v
        /\ Len(u) = start + n + far + 1 /\ start \in Nat /\ far \in Nat
    BY <1>1, <1>2, LinesPart DEF ls
  <1> HIDE DEF u, v, start, far, n, i
  <1>5. o \in Nat /\ Len(u) = o + 1
    BY <1>1, <1>3, <1>4
  <1>6. Newline \o t = u \o v
    BY <1>2, <1>4
  <1>7. u = Newline \o SubSeq(t, 1, o) /\ v = SubSeq(t, o + 1, Len(t)) /\ o <= Len(t)
    BY <1>4, <1>5, <1>6, Halves
  <1>8. Smaller(o, Len(t)) = o
    <2>1. Len(t) \in Nat
      BY DEF Line
    <2> QED BY <1>5, <1>7, <2>1 DEF Smaller
  <1>9. Upto(t, o) = SubSeq(t, 1, o) /\ From(t, o) = SubSeq(t, o + 1, Len(t))
    BY <1>5, <1>8, CutIs
  <1> QED BY <1>5, <1>7, <1>9 DEF ls, n, i, o, u, v


-----------------------------------------------------------------------------
(* Lines joined, and a change of lines as a change of the text.            *)

LEMMA TailIs == ASSUME NEW x \in Line PROVE Tail(Newline \o x) = x
  <1> DEFINE w == Newline \o x  v == Tail(w)
  <1>1. Newline = <<"\n">> /\ "\n" \in Characters /\ x \in Seq(Characters)
    BY Newlines DEF Newline, Line
  <1>2. /\ w \in Seq(Characters) /\ Len(w) = 1 + Len(x) /\ Len(x) \in Nat
        /\ \A i \in 1 .. Len(x) : w[i + 1] = x[i]
    BY <1>1
  <1> HIDE DEF w
  <1>3. w # << >>
    BY <1>2
  <1>4. v \in Seq(Characters) /\ Len(v) = Len(x) /\ \A i \in 1 .. Len(x) : v[i] = w[i + 1]
    BY <1>2, <1>3
  <1> HIDE DEF v
  <1>5. v = x
    BY <1>1, <1>2, <1>4, SeqEqual
  <1> QED BY <1>5 DEF v, w

LEMMA FirstLine ==
    ASSUME NEW x \in Line, NEW b \in Seq(Line)
    PROVE  /\ << x >> \o b \in Seq(Line) /\ Post(b) \in Line /\ x \o Post(b) \in Line
           /\ Post(<< x >> \o b) = Newline \o (x \o Post(b))
  <1>1. << x >> \in Seq(Line) /\ << x >> \o b \in Seq(Line)
    OBVIOUS
  <1>2. Post(<< x >> \o b) = Post(<< x >>) \o Post(b)
    BY <1>1, PostConcat
  <1>3. Post(<< x >>) = Newline \o x
    BY PostOne
  <1>4. Post(b) \in Line
    BY LenPost
  <1>5. Rejoins(Newline, x, Post(b)) /\ x \o Post(b) \in Line
    BY <1>4, Newlines, LinesJoin
  <1>6. (Newline \o x) \o Post(b) = Newline \o (x \o Post(b))
    BY <1>5 DEF Rejoins
  <1> QED BY <1>1, <1>2, <1>3, <1>4, <1>5, <1>6

LEMMA JoinIs ==
    ASSUME NEW ls \in Seq(Line), ls # << >>
    PROVE  JoinLines(ls) \in Line /\ Post(ls) = Newline \o JoinLines(ls)
  <1> DEFINE x == ls[1]  b == SubSeq(ls, 2, Len(ls))  r == x \o Post(b)
  <1>1. JoinLines(ls) = Tail(Post(ls))
    BY DEF JoinLines, Post, Behind
  <1>2. x \in Line /\ b \in Seq(Line) /\ ls = << x >> \o b
    <2>1. Len(ls) \in Nat /\ Len(ls) > 0 /\ 0 \in Nat
      BY EmptySeq
    <2> DEFINE a == SubSeq(ls, 1, 0)  l == ls[0 + 1]  d == SubSeq(ls, 0 + 2, Len(ls))
    <2>2. a \in Seq(Line) /\ Len(a) = 0 /\ l \in Line /\ d \in Seq(Line) /\ ls = a \o (<< l >> \o d)
      BY <2>1, Thirds
    <2>3. l = x /\ d = b
      OBVIOUS
    <2> HIDE DEF a, l, d, x, b
    <2>4. a = << >> /\ << l >> \o d \in Seq(Line)
      BY <2>2, EmptySeq
    <2> DEFINE m == << l >> \o d
    <2>5. << >> \o m = m
      BY <2>4
    <2> HIDE DEF m
    <2>6. ls = m
      BY <2>2, <2>4, <2>5 DEF m
    <2> QED BY <2>2, <2>3, <2>6 DEF m
  <1> HIDE DEF x, b
  <1>3. Post(<< x >> \o b) = Newline \o r /\ r \in Line
    BY <1>2, FirstLine
  <1> HIDE DEF r
  <1>4. Post(ls) = Newline \o r
    BY <1>2, <1>3
  <1>5. JoinLines(ls) = r
    BY <1>1, <1>3, <1>4, TailIs
  <1> QED BY <1>3, <1>4, <1>5

\* Splitting a text at its line feeds loses nothing: joined again, the lines are the
\* text (applyChangeToText, otEngine.ts:90 and 106).
THEOREM LinesJoinAgain == ASSUME NEW t \in Line PROVE JoinLines(SplitLines(t)) = t
  <1>1. JoinLines(SplitLines(t)) = Tail(Post(SplitLines(t)))
    BY DEF JoinLines, Post, Behind
  <1>2. Post(SplitLines(t)) = Newline \o t
    BY SplitIs
  <1> QED BY <1>1, <1>2, TailIs

\* Six parts put together from within, and in the order in which they stand.
SixJoined(a, n, x, s, y, b) ==
    (a \o (n \o ((x \o s) \o y))) \o b = ((a \o (n \o x)) \o s) \o (y \o b)
LEMMA SixParts ==
    ASSUME NEW a \in Line, NEW n \in Line, NEW x \in Line, NEW s \in Line, NEW y \in Line, NEW b \in Line
    PROVE  SixJoined(a, n, x, s, y, b)
  <1> DEFINE p == n \o x  xs == x \o s  ap == a \o p  ps == p \o s  q == ap \o s
  <1>1. p \in Line /\ xs \in Line /\ Rejoins(n, x, s)
    BY LinesJoin
  <1>2. ap \in Line /\ ps \in Line /\ Rejoins(a, p, s)
    BY <1>1, LinesJoin
  <1>3. q \in Line /\ Rejoins(n, xs, y) /\ Rejoins(a, ps, y)
    BY <1>1, <1>2, LinesJoin
  <1>4. Rejoins(q, y, b)
    BY <1>3, LinesJoin
  <1>5. n \o (xs \o y) = (n \o xs) \o y /\ n \o xs = ps
    BY <1>1, <1>3 DEF Rejoins
  <1>6. a \o (ps \o y) = (a \o ps) \o y /\ a \o ps = q
    BY <1>2, <1>3 DEF Rejoins
  <1>7. (q \o y) \o b = q \o (y \o b)
    BY <1>4 DEF Rejoins
  <1> HIDE DEF p, xs, ap, ps, q
  <1>8. (a \o (n \o (xs \o y))) \o b = q \o (y \o b)
    BY <1>5, <1>6, <1>7
  <1> QED BY <1>8 DEF p, xs, ap, q, SixJoined

\* Lines with those of a range replaced by one.
Replaced(a, x, s, y, b) == (a \o << (x \o s) \o y >>) \o b
ReplacedIs(a, x, s, y, b) ==
    /\ Replaced(a, x, s, y, b) \in Seq(Line) /\ Replaced(a, x, s, y, b) # << >>
    /\ Post(Replaced(a, x, s, y, b)) = ((Post(a) \o (Newline \o x)) \o s) \o (y \o Post(b))

LEMMA LinesReplaced ==
    ASSUME NEW a \in Seq(Line), NEW x \in Line, NEW s \in Line, NEW y \in Line, NEW b \in Seq(Line)
    PROVE  ReplacedIs(a, x, s, y, b)
  <1> DEFINE r == (x \o s) \o y  ar == a \o << r >>  m == ar \o b
  <1>1. x \o s \in Line /\ r \in Line
    <2>1. x \o s \in Line
      BY LinesJoin
    <2> QED BY <2>1, LinesJoin
  <1>2. Post(a) \in Line /\ Post(b) \in Line /\ Newline \in Line
    BY LenPost, Newlines
  <1>3. (Post(a) \o (Newline \o r)) \o Post(b) = ((Post(a) \o (Newline \o x)) \o s) \o (y \o Post(b))
    <2>1. SixJoined(Post(a), Newline, x, s, y, Post(b))
      BY <1>2, SixParts
    <2> QED BY <2>1 DEF SixJoined
  <1> HIDE DEF r
  <1>4. /\ << r >> \in Seq(Line) /\ ar \in Seq(Line) /\ m \in Seq(Line)
        /\ Len(ar) = Len(a) + 1 /\ Len(m) = Len(ar) + Len(b)
        /\ Len(a) \in Nat /\ Len(b) \in Nat
    BY <1>1
  <1>5. Post(m) = Post(ar) \o Post(b) /\ Post(ar) = Post(a) \o Post(<< r >>) /\ Post(<< r >>) = Newline \o r
    BY <1>1, <1>4, PostConcat, PostOne
  <1> HIDE DEF ar, m
  <1>6. m # << >>
    BY <1>4
  <1>7. Post(m) = ((Post(a) \o (Newline \o x)) \o s) \o (y \o Post(b))
    BY <1>3, <1>5
  <1> QED BY <1>4, <1>6, <1>7 DEF m, ar, r, ReplacedIs, Replaced

LEMMA ChangeFields ==
    ASSUME NEW c \in TextChange
    PROVE  /\ c.start \in Position /\ c.end \in Position /\ c.text \in Line
           /\ c.start.line \in Nat /\ c.end.line \in Nat /\ c.start.line <= c.end.line
           /\ c.start.character \in Nat /\ c.end.character \in Nat
  BY DEF TextChange, Position, Line

\* What a change of lines makes of the lines.
LEMMA ChangedLines ==
    ASSUME NEW t \in Line, NEW c \in TextChange, c.start.line < Len(SplitLines(t))
    PROVE  LET ls == SplitLines(t)
               a == SubSeq(ls, 1, c.start.line)
               b == SubSeq(ls, c.end.line + 2, Len(ls))
               x == Upto(ls[c.start.line + 1], c.start.character)
               y == Suffix(ls, c)
               m == (a \o << (x \o c.text) \o y >>) \o b
           IN /\ a \in Seq(Line) /\ b \in Seq(Line) /\ x \in Line /\ y \in Line
              /\ m \in Seq(Line) /\ m # << >>
              /\ Post(m) = ((Post(a) \o (Newline \o x)) \o c.text) \o (y \o Post(b))
              /\ ApplyChangeToText(t, c) = JoinLines(m)
  <1> DEFINE ls == SplitLines(t)  n == c.start.line
             a == SubSeq(ls, 1, n)  b == SubSeq(ls, c.end.line + 2, Len(ls))
             x == Upto(ls[n + 1], c.start.character)  y == Suffix(ls, c)
             m == (a \o << (x \o c.text) \o y >>) \o b
  <1>1. ls \in Seq(Line) /\ Len(ls) \in Nat
    BY SplitIs
  <1>2. ~(n >= Len(ls))
    BY <1>1, ChangeFields
  <1>3. ApplyChangeToText(t, c) = JoinLines(m)
    BY <1>2 DEF ApplyChangeToText
  <1> HIDE DEF ls
  <1>4. a \in Seq(Line)
    BY <1>1, <1>2, ChangeFields, FirstOnes
  <1>5. b \in Seq(Line)
    BY <1>1, ChangeFields
  <1>6. x \in Line
    <2>1. ls[n + 1] \in Line
      BY <1>1, <1>2, ChangeFields
    <2> QED BY <2>1, CutIs, ChangeFields
  <1>7. y \in Line
    <2> DEFINE i == IF c.end.line < Len(ls) THEN c.end.line ELSE c.start.line
    <2>1. i + 1 \in 1 .. Len(ls)
      BY <1>1, <1>2, ChangeFields
    <2>2. y = From(ls[i + 1], c.end.character)
      BY DEF Suffix
    <2> HIDE DEF i, y
    <2>3. ls[i + 1] \in Line
      BY <1>1, <2>1
    <2> QED BY <2>2, <2>3, CutIs, ChangeFields
  <1> HIDE DEF a, b, x, y, n
  <1>8. m \in Seq(Line) /\ m # << >>
        /\ Post(m) = ((Post(a) \o (Newline \o x)) \o c.text) \o (y \o Post(b))
    <2>1. c.text \in Line
      BY ChangeFields
    <2>2. ReplacedIs(a, x, c.text, y, b)
      BY <1>4, <1>5, <1>6, <1>7, <2>1, LinesReplaced
    <2> QED BY <2>2 DEF ReplacedIs, Replaced
  <1> HIDE DEF m
  <1> QED BY <1>3, <1>4, <1>5, <1>6, <1>7, <1>8 DEF a, b, x, y, m, n, ls

\* A change of a text is a text.
LEMMA ChangedIsText ==
    ASSUME NEW t \in Line, NEW c \in TextChange
    PROVE  ApplyChangeToText(t, c) \in Line
  <1>1. CASE c.start.line < Len(SplitLines(t))
    <2> DEFINE ls == SplitLines(t)
               a == SubSeq(ls, 1, c.start.line)
               b == SubSeq(ls, c.end.line + 2, Len(ls))
               x == Upto(ls[c.start.line + 1], c.start.character)
               m == (a \o << (x \o c.text) \o Suffix(ls, c) >>) \o b
    <2>1. m \in Seq(Line) /\ m # << >> /\ ApplyChangeToText(t, c) = JoinLines(m)
      BY <1>1, ChangedLines
    <2> HIDE DEF m
    <2> QED BY <2>1, JoinIs
  <1>2. CASE ~(c.start.line < Len(SplitLines(t)))
    <2>1. c.start.line >= Len(SplitLines(t))
      <3>1. Len(SplitLines(t)) \in Nat
        BY SplitIs
      <3> QED BY <1>2, <3>1, ChangeFields
    <2>2. ApplyChangeToText(t, c) = t \o c.text
      BY <2>1 DEF ApplyChangeToText
    <2>3. t \o c.text \in Line
      BY ChangeFields, LinesJoin
    <2> QED BY <2>2, <2>3
  <1> QED BY <1>1, <1>2

LEMMA OffsetIs ==
    ASSUME NEW t \in Line, NEW p \in Position
    PROVE  Offset(t, p) \in Nat
  <1>1. CASE p.line < Len(SplitLines(t))
    BY <1>1, AtPosition
  <1>2. CASE ~(p.line < Len(SplitLines(t)))
    <2>1. Len(SplitLines(t)) \in Nat /\ p.line \in Nat /\ Len(t) \in Nat
      <3>1. SplitLines(t) \in Seq(Line)
        BY SplitIs
      <3>2. Len(SplitLines(t)) \in Nat
        BY <3>1
      <3> QED BY <3>2 DEF Position, Line
    <2>2. p.line >= Len(SplitLines(t))
      BY <1>2, <2>1
    <2>3. Offset(t, p) = Len(t)
      BY <2>2 DEF Offset
    <2> QED BY <2>1, <2>3
  <1> QED BY <1>1, <1>2

LEMMA EditedIsText ==
    ASSUME NEW t \in Line, NEW c \in TextChange
    PROVE  Edited(t, c) \in Line
  <1> DEFINE u == Upto(t, Offset(t, c.start))  v == From(t, Offset(t, c.end))
  <1>1. Offset(t, c.start) \in Nat /\ Offset(t, c.end) \in Nat
    BY ChangeFields, OffsetIs
  <1>2. u \in Line /\ v \in Line
    BY <1>1, CutIs
  <1>3. Edited(t, c) = (u \o c.text) \o v
    BY DEF Edited
  <1> HIDE DEF u, v
  <1>4. u \o c.text \in Line
    BY <1>2, ChangeFields, LinesJoin
  <1> QED BY <1>2, <1>3, <1>4, LinesJoin

\* A change that fits the text means the same in lines and in the text.
LEMMA SameChange ==
    ASSUME NEW t \in Line, NEW c \in TextChange, InRange(t, c)
    PROVE  ApplyChangeToText(t, c) = Edited(t, c)
  <1> DEFINE ls == SplitLines(t)
             a == SubSeq(ls, 1, c.start.line)
             b == SubSeq(ls, c.end.line + 2, Len(ls))
             x == Upto(ls[c.start.line + 1], c.start.character)
             y == Suffix(ls, c)
             m == (a \o << (x \o c.text) \o y >>) \o b
             u == Upto(t, Offset(t, c.start))  v == From(t, Offset(t, c.end))
             e == (u \o c.text) \o v
  <1>1. Len(ls) \in Nat /\ c.start.line < Len(ls) /\ c.end.line < Len(ls)
    BY SplitIs, ChangeFields DEF InRange
  <1>2. /\ m \in Seq(Line) /\ m # << >> /\ ApplyChangeToText(t, c) = JoinLines(m)
        /\ Post(m) = ((Post(a) \o (Newline \o x)) \o c.text) \o (y \o Post(b))
    BY <1>1, ChangedLines
  <1>3. Post(a) \o (Newline \o x) = Newline \o u
    <2>1. LinesUpto(ls, c.start.line, c.start.character) = Newline \o u
      BY <1>1, AtPosition, ChangeFields
    <2> QED BY <2>1 DEF LinesUpto
  <1>4. y \o Post(b) = v
    <2>1. LinesFrom(ls, c.end.line, c.end.character) = v
      BY <1>1, AtPosition, ChangeFields
    <2>2. y = From(ls[c.end.line + 1], c.end.character)
      BY <1>1 DEF Suffix
    <2> QED BY <2>1, <2>2 DEF LinesFrom
  <1>5. u \in Line /\ v \in Line
    <2>1. Offset(t, c.start) \in Nat /\ Offset(t, c.end) \in Nat
      BY ChangeFields, OffsetIs
    <2> QED BY <2>1, CutIs
  <1>6. Edited(t, c) = e
    BY DEF Edited
  <1> HIDE DEF m, a, b, x, y, u, v, ls
  <1>7. e \in Line /\ ((Newline \o u) \o c.text) \o v = Newline \o e
    <2>1. c.text \in Line /\ Newline \in Line
      BY ChangeFields, Newlines
    <2>2. u \o c.text \in Line /\ Rejoins(Newline, u, c.text)
      BY <1>5, <2>1, LinesJoin
    <2>3. e \in Line /\ Rejoins(Newline, u \o c.text, v)
      BY <1>5, <2>1, <2>2, LinesJoin
    <2>4. (Newline \o u) \o c.text = Newline \o (u \o c.text)
      BY <2>2 DEF Rejoins
    <2>5. (Newline \o (u \o c.text)) \o v = Newline \o e
      BY <2>3 DEF Rejoins
    <2> QED BY <2>3, <2>4, <2>5
  <1> HIDE DEF e
  <1>8. Post(m) = Newline \o e
    BY <1>2, <1>3, <1>4, <1>7
  <1>9. JoinLines(m) = e
    <2>1. JoinLines(m) = Tail(Post(m))
      BY DEF JoinLines, Post, Behind
    <2> QED BY <1>7, <1>8, <2>1, TailIs
  <1> QED BY <1>2, <1>6, <1>9


-----------------------------------------------------------------------------
(* One change after another.                                               *)

\* Changes of lines, one after another, leave a text.
LEMMA ApplyAllIs ==
    ASSUME NEW t \in Line, NEW changes \in Seq(TextChange)
    PROVE  /\ ApplyAll(t, changes) \in Line
           /\ Len(changes) = 0 => ApplyAll(t, changes) = t
           /\ Len(changes) = 1 => ApplyAll(t, changes) = ApplyChangeToText(t, changes[1])
  <1> DEFINE N == Len(changes)
             step == [p \in Line \X (1 .. N) |-> ApplyChangeToText(p[1], changes[p[2]])]
             Defining(h) ==
                 h = [n \in 0 .. N |-> IF n = 0 THEN t ELSE ApplyChangeToText(h[n - 1], changes[n])]
  <1>1. N \in Nat /\ \A i \in 1 .. N : changes[i] \in TextChange
    OBVIOUS
  <1>2. ASSUME NEW u \in Line, NEW i \in 1 .. N PROVE ApplyChangeToText(u, changes[i]) \in Line
    BY <1>1, ChangedIsText
  <1> HIDE DEF N
  <1>3. IsStep(step, Line, N)
    BY <1>2 DEF IsStep
  <1>4. \A u \in Line, i \in 1 .. N : step[<<u, i>>] = ApplyChangeToText(u, changes[i])
    OBVIOUS
  <1> HIDE DEF step
  <1>5. PICK g : Continues(g, t, step, Line, N)
    BY <1>1, <1>3, RecursionUpTo
  <1>6. g \in [0 .. N -> Line] /\ g[0] = t /\ \A k \in 1 .. N : g[k] = step[<<g[k - 1], k>>]
    BY <1>5 DEF Continues
  <1>7. ASSUME NEW k \in 1 .. N PROVE g[k] = ApplyChangeToText(g[k - 1], changes[k])
    <2>1. k - 1 \in 0 .. N
      BY <1>1
    <2>2. g[k - 1] \in Line
      BY <1>6, <2>1
    <2> QED BY <1>4, <1>6, <2>2
  <1>8. Defining(g)
    <2>1. ASSUME NEW n \in 0 .. N
          PROVE  g[n] = IF n = 0 THEN t ELSE ApplyChangeToText(g[n - 1], changes[n])
      <3>1. n # 0 => n \in 1 .. N
        BY <1>1
      <3> QED BY <1>6, <1>7, <3>1
    <2>2. g = [n \in 0 .. N |-> g[n]]
      BY <1>6
    <2> QED BY <2>1, <2>2
  <1> DEFINE h == CHOOSE f : Defining(f)
  <1>9. Defining(h)
    <2> HIDE DEF Defining
    <2> QED BY <1>8
  <1>10. ApplyAll(t, changes) = h[N]
    BY DEF ApplyAll, N
  <1> HIDE DEF h
  <1>11. h[0] = t /\ \A n \in 1 .. N : h[n] = ApplyChangeToText(h[n - 1], changes[n])
    <2>1. 0 \in 0 .. N /\ \A n \in 1 .. N : n \in 0 .. N /\ n # 0
      BY <1>1
    <2> QED BY <1>9, <2>1
  <1> DEFINE S == {k \in Nat : k <= N => h[k] \in Line}
  <1>12. 0 \in S
    BY <1>11
  <1>13. ASSUME NEW k \in Nat, k \in S PROVE k + 1 \in S
    <2> SUFFICES ASSUME k + 1 <= N PROVE h[k + 1] \in Line
      OBVIOUS
    <2>1. k + 1 \in 1 .. N /\ (k + 1) - 1 = k /\ k <= N
      BY <1>1
    <2>2. h[k] \in Line
      BY <1>13, <2>1
    <2>3. h[k + 1] = ApplyChangeToText(h[k], changes[k + 1])
      BY <1>11, <2>1
    <2> QED BY <1>2, <2>1, <2>2, <2>3
  <1> HIDE DEF S
  <1>14. Nat \subseteq S
    BY <1>12, <1>13, NatSetInduction
  <1>15. N \in S
    BY <1>1, <1>14
  <1>16. h[N] \in Line
    BY <1>1, <1>15 DEF S
  <1>17. N = 1 => h[N] = ApplyChangeToText(t, changes[1])
    <2>1. N = 1 => 1 \in 1 .. N /\ 1 - 1 = 0
      OBVIOUS
    <2> QED BY <1>11, <2>1
  <1>18. N = 0 => h[N] = t
    BY <1>11
  <1> QED BY <1>10, <1>16, <1>17, <1>18 DEF N

\* And so do those of the editor.
LEMMA EditedAllIs ==
    ASSUME NEW t \in Line, NEW changes \in Seq(TextChange)
    PROVE  /\ EditedAll(t, changes) \in Line
           /\ Len(changes) = 0 => EditedAll(t, changes) = t
           /\ Len(changes) = 1 => EditedAll(t, changes) = Edited(t, changes[1])
  <1> DEFINE N == Len(changes)
             step == [p \in Line \X (1 .. N) |-> Edited(p[1], changes[p[2]])]
             Defining(h) ==
                 h = [n \in 0 .. N |-> IF n = 0 THEN t ELSE Edited(h[n - 1], changes[n])]
  <1>1. N \in Nat /\ \A i \in 1 .. N : changes[i] \in TextChange
    OBVIOUS
  <1>2. ASSUME NEW u \in Line, NEW i \in 1 .. N PROVE Edited(u, changes[i]) \in Line
    BY <1>1, EditedIsText
  <1> HIDE DEF N
  <1>3. IsStep(step, Line, N)
    BY <1>2 DEF IsStep
  <1>4. \A u \in Line, i \in 1 .. N : step[<<u, i>>] = Edited(u, changes[i])
    OBVIOUS
  <1> HIDE DEF step
  <1>5. PICK g : Continues(g, t, step, Line, N)
    BY <1>1, <1>3, RecursionUpTo
  <1>6. g \in [0 .. N -> Line] /\ g[0] = t /\ \A k \in 1 .. N : g[k] = step[<<g[k - 1], k>>]
    BY <1>5 DEF Continues
  <1>7. ASSUME NEW k \in 1 .. N PROVE g[k] = Edited(g[k - 1], changes[k])
    <2>1. k - 1 \in 0 .. N
      BY <1>1
    <2>2. g[k - 1] \in Line
      BY <1>6, <2>1
    <2> QED BY <1>4, <1>6, <2>2
  <1>8. Defining(g)
    <2>1. ASSUME NEW n \in 0 .. N
          PROVE  g[n] = IF n = 0 THEN t ELSE Edited(g[n - 1], changes[n])
      <3>1. n # 0 => n \in 1 .. N
        BY <1>1
      <3> QED BY <1>6, <1>7, <3>1
    <2>2. g = [n \in 0 .. N |-> g[n]]
      BY <1>6
    <2> QED BY <2>1, <2>2
  <1> DEFINE h == CHOOSE f : Defining(f)
  <1>9. Defining(h)
    <2> HIDE DEF Defining
    <2> QED BY <1>8
  <1>10. EditedAll(t, changes) = h[N]
    BY DEF EditedAll, N
  <1> HIDE DEF h
  <1>11. h[0] = t /\ \A n \in 1 .. N : h[n] = Edited(h[n - 1], changes[n])
    <2>1. 0 \in 0 .. N /\ \A n \in 1 .. N : n \in 0 .. N /\ n # 0
      BY <1>1
    <2> QED BY <1>9, <2>1
  <1> DEFINE S == {k \in Nat : k <= N => h[k] \in Line}
  <1>12. 0 \in S
    BY <1>11
  <1>13. ASSUME NEW k \in Nat, k \in S PROVE k + 1 \in S
    <2> SUFFICES ASSUME k + 1 <= N PROVE h[k + 1] \in Line
      OBVIOUS
    <2>1. k + 1 \in 1 .. N /\ (k + 1) - 1 = k /\ k <= N
      BY <1>1
    <2>2. h[k] \in Line
      BY <1>13, <2>1
    <2>3. h[k + 1] = Edited(h[k], changes[k + 1])
      BY <1>11, <2>1
    <2> QED BY <1>2, <2>1, <2>2, <2>3
  <1> HIDE DEF S
  <1>14. Nat \subseteq S
    BY <1>12, <1>13, NatSetInduction
  <1>15. N \in S
    BY <1>1, <1>14
  <1>16. h[N] \in Line
    BY <1>1, <1>15 DEF S
  <1>17. N = 1 => h[N] = Edited(t, changes[1])
    <2>1. N = 1 => 1 \in 1 .. N /\ 1 - 1 = 0
      OBVIOUS
    <2> QED BY <1>11, <2>1
  <1>18. N = 0 => h[N] = t
    BY <1>11
  <1> QED BY <1>10, <1>16, <1>17, <1>18 DEF N


-----------------------------------------------------------------------------
(* The whole of a text replaced.                                           *)

LEMMA NoText == ASSUME NEW t \in Line PROVE Upto(t, 0) = << >>
  <1>1. Len(t) \in Nat /\ 0 \in Nat
    BY DEF Line
  <1>2. Smaller(0, Len(t)) = 0
    BY <1>1 DEF Smaller
  <1>3. Upto(t, 0) \in Line /\ Len(Upto(t, 0)) = 0
    BY <1>1, <1>2, CutIs
  <1> QED BY <1>3, EmptySeq DEF Line

LEMMA NothingBehind == ASSUME NEW t \in Line PROVE From(t, Len(t)) = << >>
  <1>1. Len(t) \in Nat /\ t \in Seq(Characters)
    BY DEF Line
  <1>2. From(t, Len(t)) = SubSeq(t, Len(t) + 1, Len(t))
    BY <1>1, CutIs
  <1>3. SubSeq(t, Len(t) + 1, Len(t)) = << >>
    BY <1>1
  <1> QED BY <1>2, <1>3

\* What textToSingleChange returns covers the text, from its start to the end of
\* its last line.
LEMMA WholeIs ==
    ASSUME NEW t \in Line
    PROVE  /\ WholeEnd(SplitLines(t)) \in Position
           /\ Upto(t, Offset(t, [line |-> 0, character |-> 0])) = << >>
           /\ From(t, Offset(t, WholeEnd(SplitLines(t)))) = << >>
  <1> DEFINE ls == SplitLines(t)  n == Len(ls)  l == ls[n]  p == WholeEnd(ls)
             z == [line |-> 0, character |-> 0]
  <1>1. ls \in Seq(Line) /\ ls # << >> /\ n \in Nat /\ n > 0
    <2>1. ls \in Seq(Line) /\ ls # << >>
      BY SplitIs
    <2> HIDE DEF ls
    <2> QED BY <2>1, EmptySeq
  <1> HIDE DEF ls
  <1>2. l \in Line /\ Len(l) \in Nat
    <2>1. l \in Line
      BY <1>1
    <2> QED BY <2>1 DEF Line
  <1>3. p = [line |-> n - 1, character |-> Len(l)]
    BY DEF WholeEnd, Last
  <1>4. p \in Position /\ p.line = n - 1 /\ p.character = Len(l) /\ p.line < n
    BY <1>1, <1>2, <1>3 DEF Position
  <1>5. Offset(t, z) = 0
    <2>1. z.line = 0 /\ z.character = 0 /\ ~(0 >= n)
      BY <1>1
    <2>2. Offset(t, z) = Len(FlattenSeq(SubSeq(ls, 1, 0))) + 0 + Smaller(0, Len(ls[0 + 1]))
      BY <2>1 DEF Offset, ls
    <2>3. FlattenSeq(SubSeq(ls, 1, 0)) = << >>
      <3>1. SubSeq(ls, 1, 0) = << >>
        BY <1>1
      <3> QED BY <3>1, FlattenNone
    <2>4. Len(ls[0 + 1]) \in Nat
      <3>1. ls[0 + 1] \in Line
        BY <1>1
      <3> QED BY <3>1 DEF Line
    <2>5. Smaller(0, Len(ls[0 + 1])) = 0
      BY <2>4 DEF Smaller
    <2> QED BY <2>2, <2>3, <2>5
  <1>6. From(t, Offset(t, p)) = << >>
    <2>1. LinesFrom(ls, p.line, p.character) = From(t, Offset(t, p))
      BY <1>4, AtPosition DEF ls
    <2>2. LinesFrom(ls, n - 1, Len(l)) = From(ls[(n - 1) + 1], Len(l)) \o Post(SubSeq(ls, (n - 1) + 2, n))
      BY DEF LinesFrom
    <2>3. (n - 1) + 1 = n /\ SubSeq(ls, (n - 1) + 2, n) = << >>
      BY <1>1
    <2>4. From(l, Len(l)) = << >>
      BY <1>2, NothingBehind
    <2>5. << >> \o << >> = << >>
      OBVIOUS
    <2> QED BY <1>4, <2>1, <2>2, <2>3, <2>4, <2>5, PostNone
  <1> QED BY <1>4, <1>5, <1>6, NoText DEF p, ls, z

\* The one change that is returned makes the new text of the old one.
LEMMA WholeIsReplaced ==
    ASSUME NEW old \in Line, NEW new \in Line
    PROVE  EditedAll(old, TextToSingleChange(old, new)) = new
  <1>1. CASE old = new
    <2>1. TextToSingleChange(old, new) = << >>
      BY <1>1 DEF TextToSingleChange
    <2>2. << >> \in Seq(TextChange) /\ Len(<< >>) = 0
      OBVIOUS
    <2> QED BY <1>1, <2>1, <2>2, EditedAllIs
  <1>2. CASE old # new
    <2> DEFINE z == [line |-> 0, character |-> 0]  p == WholeEnd(SplitLines(old))
               c == [start |-> z, end |-> p, text |-> new]  cs == << c >>
    <2>1. TextToSingleChange(old, new) = cs
      BY <1>2 DEF TextToSingleChange
    <2>2. z \in Position /\ p \in Position
      BY WholeIs DEF Position
    <2>3. z.line <= p.line
      BY <2>2 DEF Position
    <2> HIDE DEF z, p
    <2>4. c \in TextChange /\ c.start = z /\ c.end = p /\ c.text = new
      BY <2>2, <2>3 DEF TextChange, Line
    <2> HIDE DEF c
    <2>5. cs \in Seq(TextChange) /\ Len(cs) = 1 /\ cs[1] = c
      BY <2>4
    <2> HIDE DEF cs
    <2>6. EditedAll(old, cs) = Edited(old, c)
      BY <2>5, EditedAllIs
    <2>7. Upto(old, Offset(old, z)) = << >> /\ From(old, Offset(old, p)) = << >>
      BY WholeIs DEF z, p
    <2>8. Edited(old, c) = (<< >> \o new) \o << >>
      BY <2>4, <2>7 DEF Edited
    <2>9. (<< >> \o new) \o << >> = new
      BY DEF Line
    <2> QED BY <2>1, <2>6, <2>8, <2>9
  <1> QED BY <1>1, <1>2


-----------------------------------------------------------------------------
(* The engine.                                                             *)

\* The texts are texts, and the engine has the editor's, until it is reset.
OtInv ==
    /\ otText \in Line /\ otState \in Line
    /\ otSteps \in 0 .. MaxOtSteps
    /\ otLast[1] \in {"none", "edit", "remote", "merge", "reset"}
    /\ EngineKnowsText

LEMMA OutcomeFields ==
    ASSUME NEW old, NEW new
    PROVE  /\ Outcome(old, new).text = new
           /\ Outcome(old, new).changes = TextToSingleChange(old, new)
  BY DEF Outcome

\* Where the library's patches fit, a peer's changes are made as they stand.
LEMMA RemoteIs ==
    ASSUME NEW t \in Line, NEW changes \in Seq(TextChange), PatchesFit(t, ApplyAll(t, changes))
    PROVE  /\ ApplyRemoteWithOT(t, changes).text = ApplyAll(t, changes)
           /\ EditedAll(t, ApplyRemoteWithOT(t, changes).changes) = ApplyAll(t, changes)
  <1> DEFINE u == ApplyAll(t, changes)
  <1>1. u \in Line
    BY ApplyAllIs
  <1>2. Patched(t, u, t).text = u /\ Every(Patched(t, u, t).results)
    BY DEF PatchesFit
  <1>3. ApplyRemoteWithOT(t, changes) = Outcome(t, u)
    BY <1>2 DEF ApplyRemoteWithOT
  <1> HIDE DEF u
  <1>4. EditedAll(t, TextToSingleChange(t, u)) = u
    BY <1>1, WholeIsReplaced
  <1> QED BY <1>3, <1>4, OutcomeFields DEF u

\* What a merge makes is one of the two texts that the patches make.
LEMMA MergeIs ==
    ASSUME NEW t \in Line, NEW local \in Seq(TextChange), NEW remote \in Seq(TextChange),
           \A a, b \in {ApplyAll(t, local), ApplyAll(t, remote)} : KeepsText(t, a, b)
    PROVE  /\ MergeChanges(t, local, remote).text \in Line
           /\ EditedAll(t, MergeChanges(t, local, remote).changes) = MergeChanges(t, local, remote).text
           /\ Every(Patched(t, ApplyAll(t, local), ApplyAll(t, remote)).results)
              => MergeChanges(t, local, remote).text
                     = Patched(t, ApplyAll(t, local), ApplyAll(t, remote)).text
  <1> DEFINE l == ApplyAll(t, local)  r == ApplyAll(t, remote)
             there == Patched(t, l, r)  back == Patched(t, r, l)
             new == IF Every(there.results) THEN there.text ELSE back.text
  <1>1. there.text \in Line /\ back.text \in Line
    BY DEF KeepsText, Line
  <1>2. MergeChanges(t, local, remote) = Outcome(t, new)
    BY DEF MergeChanges
  <1>3. Every(there.results) => new = there.text
    OBVIOUS
  <1> HIDE DEF there, back
  <1>4. new \in Line
    BY <1>1
  <1> HIDE DEF new
  <1>5. EditedAll(t, TextToSingleChange(t, new)) = new
    BY <1>4, WholeIsReplaced
  <1> QED BY <1>2, <1>3, <1>4, <1>5, OutcomeFields DEF there

LEMMA OtInvInit == OtInit => OtInv
  BY OtAssumption DEF OtInit, OtInv, EngineKnowsText, Line

\* What the changes of an operation are.
LEMMA OtOperations ==
    /\ OtLocal \subseteq Seq(TextChange) /\ OtRemote \subseteq Seq(TextChange)
    /\ << >> \in Seq(TextChange)
  BY OtAssumption

LEMMA OtSteps ==
    ASSUME OtInv, NEW name \in {"edit", "remote", "merge", "reset"}, NEW local, NEW remote,
           Stepping(name, local, remote)
    PROVE  /\ otSteps' \in 0 .. MaxOtSteps /\ otLast'[1] = name
           /\ otLast'[2] = local /\ otLast'[3] = remote
  BY OtAssumption DEF OtInv, Stepping

LEMMA OtInvNext == OtInv /\ [OtNext]_otVars /\ [LibraryServes]_otVars => OtInv'
  <1> SUFFICES ASSUME OtInv, [OtNext]_otVars, [LibraryServes]_otVars PROVE OtInv'
    OBVIOUS
  <1>1. otText \in Line /\ otState \in Line
    BY DEF OtInv
  <1>2. ASSUME UNCHANGED otVars PROVE OtInv'
    BY <1>2 DEF OtInv, otVars, EngineKnowsText
  <1> DEFINE moved == UNCHANGED otVars
  <1> HIDE DEF moved
  <1>3. ~moved => LibraryServes
    BY DEF moved
  <1>4. ASSUME NEW changes \in OtLocal, OtLocalEdit(changes) PROVE OtInv'
    <2>1. EditedAll(otText, changes) \in Line
      BY <1>1, OtOperations, EditedAllIs
    <2>2. otText' \in Line /\ otState' \in Line /\ otState' = otText'
      BY <1>4, <2>1 DEF OtLocalEdit
    <2>3. Stepping("edit", changes, << >>)
      BY <1>4 DEF OtLocalEdit
    <2>4. otSteps' \in 0 .. MaxOtSteps /\ otLast'[1] = "edit"
      BY <2>3, OtSteps
    <2> QED BY <2>2, <2>4 DEF OtInv, EngineKnowsText
  <1>5. ASSUME NEW changes \in OtRemote, OtRemoteChange(changes), ~moved PROVE OtInv'
    <2> DEFINE u == ApplyAll(otText, changes)
    <2>1. Stepping("remote", << >>, changes) /\ Carries(ApplyRemoteWithOT(otText, changes))
      BY <1>5 DEF OtRemoteChange
    <2>2. otSteps' \in 0 .. MaxOtSteps /\ otLast'[1] = "remote" /\ otLast'[3] = changes
      BY <2>1, OtSteps
    <2>3. PatchesFit(otText, u)
      BY <1>3, <1>5, <2>2 DEF LibraryServes
    <2>4. u \in Line /\ changes \in Seq(TextChange)
      BY <1>1, OtOperations, ApplyAllIs
    <2>5. otState' = u /\ otText' = u
      BY <1>1, <2>1, <2>3, <2>4, RemoteIs DEF Carries
    <2> QED BY <2>2, <2>4, <2>5 DEF OtInv, EngineKnowsText
  <1>6. ASSUME NEW local \in OtLocal, NEW remote \in OtRemote, OtMerge(local, remote), ~moved
        PROVE  OtInv'
    <2> DEFINE m == MergeChanges(otState, local, remote)
    <2>1. Stepping("merge", local, remote) /\ Carries(m) /\ otState = otText
      BY <1>6 DEF OtMerge
    <2>2. /\ otSteps' \in 0 .. MaxOtSteps /\ otLast'[1] = "merge"
          /\ otLast'[2] = local /\ otLast'[3] = remote
      BY <2>1, OtSteps
    <2>3. \A a, b \in {ApplyAll(otText, local), ApplyAll(otText, remote)} : KeepsText(otText, a, b)
      BY <1>3, <1>6, <2>2 DEF LibraryServes
    <2>4. local \in Seq(TextChange) /\ remote \in Seq(TextChange)
      BY OtOperations
    <2>5. m.text \in Line /\ EditedAll(otText, m.changes) = m.text
      BY <1>1, <2>1, <2>3, <2>4, MergeIs
    <2>6. otState' = m.text /\ otText' = m.text
      BY <2>1, <2>5 DEF Carries
    <2> QED BY <2>2, <2>5, <2>6 DEF OtInv, EngineKnowsText
  <1>7. ASSUME OtReset PROVE OtInv'
    <2>1. Stepping("reset", << >>, << >>) /\ otState' = << >> /\ otText' = otText
      BY <1>7 DEF OtReset
    <2>2. otSteps' \in 0 .. MaxOtSteps /\ otLast'[1] = "reset"
      BY <2>1, OtSteps
    <2> QED BY <1>1, <2>1, <2>2, Newlines DEF OtInv, EngineKnowsText
  <1> QED BY <1>2, <1>4, <1>5, <1>6, <1>7 DEF OtNext, moved

\* As far as the library does its part, the texts have only characters of the
\* document, and the engine goes on from the text of the editor, whatever is
\* edited here, comes from a peer or is merged (otEngine.ts:18, 37, 67).
THEOREM EngineHasTheText ==
    OtSpec /\ LibraryDoesItsPart => [](OtTypeOK /\ EngineKnowsText)
  <1>1. OtInv => OtTypeOK /\ EngineKnowsText
    BY DEF OtInv, OtTypeOK, Line
  <1> QED BY <1>1, OtInvInit, OtInvNext, PTL DEF OtSpec, LibraryDoesItsPart

\* A peer's change, on its way through the patches to one replacement of the
\* document, does what it says (applyRemoteWithOT, otEngine.ts:67).
THEOREM RemoteChangesAreExact == OtSpec /\ LibraryDoesItsPart => RemoteChangeIsExact
  <1> DEFINE Exact == otLast'[1] = "remote" => otText' = ApplyAll(otText, otLast'[3])
  <1>1. OtInv /\ [OtNext]_otVars /\ [LibraryServes]_otVars => [Exact]_otVars
    <2> SUFFICES ASSUME OtInv, OtNext, LibraryServes, otLast'[1] = "remote"
                 PROVE  otText' = ApplyAll(otText, otLast'[3])
      OBVIOUS
    <2>1. PICK changes \in OtRemote : OtRemoteChange(changes)
      <3>1. ASSUME NEW changes \in OtLocal, OtLocalEdit(changes) PROVE FALSE
        BY <3>1, OtSteps DEF OtLocalEdit
      <3>2. ASSUME NEW local \in OtLocal, NEW remote \in OtRemote, OtMerge(local, remote) PROVE FALSE
        BY <3>2, OtSteps DEF OtMerge
      <3>3. ASSUME OtReset PROVE FALSE
        BY <3>3, OtSteps DEF OtReset
      <3> QED BY <3>1, <3>2, <3>3 DEF OtNext
    <2>2. otText \in Line /\ changes \in Seq(TextChange)
      BY OtOperations DEF OtInv
    <2>3. Stepping("remote", << >>, changes) /\ Carries(ApplyRemoteWithOT(otText, changes))
      BY <2>1 DEF OtRemoteChange
    <2>4. otLast'[3] = changes
      BY <2>3, OtSteps
    <2>5. PatchesFit(otText, ApplyAll(otText, changes))
      BY <2>4 DEF LibraryServes
    <2> QED BY <2>2, <2>3, <2>4, <2>5, RemoteIs DEF Carries
  <1>2. OtSpec /\ LibraryDoesItsPart => [][Exact]_otVars
    <2> HIDE DEF Exact
    <2> QED BY <1>1, OtInvInit, OtInvNext, PTL DEF OtSpec, LibraryDoesItsPart
  <1> QED BY <1>2 DEF RemoteChangeIsExact

\* A merge with nothing from one side is what the other side did
\* (mergeChanges, otEngine.ts:37).
THEOREM MergesWithNobodyAreExact == OtSpec /\ LibraryDoesItsPart => MergeWithNobody
  <1> DEFINE Exact == /\ otLast'[1] = "merge"
                      /\ << >> \in {otLast'[2], otLast'[3]}
                      => otText' = ApplyAll(otText, otLast'[2] \o otLast'[3])
  <1>1. OtInv /\ [OtNext]_otVars /\ [LibraryServes]_otVars => [Exact]_otVars
    <2> SUFFICES ASSUME OtInv, OtNext, LibraryServes, otLast'[1] = "merge",
                        << >> \in {otLast'[2], otLast'[3]}
                 PROVE  otText' = ApplyAll(otText, otLast'[2] \o otLast'[3])
      OBVIOUS
    <2>1. PICK local \in OtLocal : \E remote \in OtRemote : OtMerge(local, remote)
      <3>1. ASSUME NEW changes \in OtLocal, OtLocalEdit(changes) PROVE FALSE
        BY <3>1, OtSteps DEF OtLocalEdit
      <3>2. ASSUME NEW changes \in OtRemote, OtRemoteChange(changes) PROVE FALSE
        BY <3>2, OtSteps DEF OtRemoteChange
      <3>3. ASSUME OtReset PROVE FALSE
        BY <3>3, OtSteps DEF OtReset
      <3> QED BY <3>1, <3>2, <3>3 DEF OtNext
    <2>2. PICK remote \in OtRemote : OtMerge(local, remote)
      BY <2>1
    <2> DEFINE l == ApplyAll(otText, local)  r == ApplyAll(otText, remote)
               m == MergeChanges(otText, local, remote)
    <2>3. otText \in Line /\ local \in Seq(TextChange) /\ remote \in Seq(TextChange)
      BY OtOperations DEF OtInv
    <2>4. Stepping("merge", local, remote) /\ Carries(MergeChanges(otState, local, remote))
          /\ otState = otText
      BY <2>2 DEF OtMerge
    <2>5. otLast'[2] = local /\ otLast'[3] = remote
      BY <2>4, OtSteps
    <2>6. /\ \A t \in {l, r} : PatchesFit(otText, t) /\ NoPatchesNoChange(otText, t)
          /\ \A t, u \in {l, r} : KeepsText(otText, t, u)
      BY <2>5 DEF LibraryServes
    <2>7. otText' = m.text /\ (Every(Patched(otText, l, r).results) => m.text = Patched(otText, l, r).text)
      <3>1. EditedAll(otText, m.changes) = m.text
        BY <2>3, <2>6, MergeIs
      <3>2. otText' = m.text
        BY <2>4, <3>1 DEF Carries
      <3> QED BY <2>3, <2>6, <3>2, MergeIs
    <2>8. CASE remote = << >>
      <3>1. r = otText
        BY <2>3, <2>8, ApplyAllIs
      <3>2. Patched(otText, l, r).text = l /\ Every(Patched(otText, l, r).results)
        BY <2>6, <3>1 DEF PatchesFit
      <3>3. local \o remote = local
        BY <2>3, <2>8
      <3> QED BY <2>5, <2>7, <3>2, <3>3
    <2>9. CASE local = << >>
      <3>1. l = otText
        BY <2>3, <2>9, ApplyAllIs
      <3>2. Patched(otText, l, r).text = r /\ Every(Patched(otText, l, r).results)
        BY <2>6, <3>1 DEF NoPatchesNoChange
      <3>3. local \o remote = remote
        BY <2>3, <2>9
      <3> QED BY <2>5, <2>7, <3>2, <3>3
    <2> QED BY <2>5, <2>8, <2>9
  <1>2. OtSpec /\ LibraryDoesItsPart => [][Exact]_otVars
    <2> HIDE DEF Exact
    <2> QED BY <1>1, OtInvInit, OtInvNext, PTL DEF OtSpec, LibraryDoesItsPart
  <1> QED BY <1>2 DEF MergeWithNobody

\* The lines and characters of a change that fits the document mean the same to
\* the engine as to the editor (applyChangeToText, otEngine.ts:89).
THEOREM LinesMeanTheSame == OtSpec /\ LibraryDoesItsPart => ChangesMeanTheSame
  <1> DEFINE Same == otLast'[1] = "remote" => \A i \in DOMAIN otLast'[3] :
                         LET change == otLast'[3][i]
                         IN InRange(otText, change)
                            => ApplyChangeToText(otText, change) = Edited(otText, change)
  <1>1. OtInv /\ [OtNext]_otVars => [Same]_otVars
    <2> SUFFICES ASSUME OtInv, OtNext, otLast'[1] = "remote", NEW i \in DOMAIN otLast'[3],
                        InRange(otText, otLast'[3][i])
                 PROVE  ApplyChangeToText(otText, otLast'[3][i]) = Edited(otText, otLast'[3][i])
      OBVIOUS
    <2>1. PICK changes \in OtRemote : OtRemoteChange(changes)
      <3>1. ASSUME NEW changes \in OtLocal, OtLocalEdit(changes) PROVE FALSE
        BY <3>1, OtSteps DEF OtLocalEdit
      <3>2. ASSUME NEW local \in OtLocal, NEW remote \in OtRemote, OtMerge(local, remote) PROVE FALSE
        BY <3>2, OtSteps DEF OtMerge
      <3>3. ASSUME OtReset PROVE FALSE
        BY <3>3, OtSteps DEF OtReset
      <3> QED BY <3>1, <3>2, <3>3 DEF OtNext
    <2>2. otLast'[3] = changes
      <3>1. Stepping("remote", << >>, changes)
        BY <2>1 DEF OtRemoteChange
      <3> QED BY <3>1, OtSteps
    <2>3. changes \in Seq(TextChange) /\ otText \in Line
      BY OtOperations DEF OtInv
    <2>4. otLast'[3][i] \in TextChange
      BY <2>2, <2>3
    <2> QED BY <2>3, <2>4, SameChange
  <1>2. OtSpec /\ LibraryDoesItsPart => [][Same]_otVars
    <2> HIDE DEF Same
    <2> QED BY <1>1, OtInvInit, OtInvNext, PTL DEF OtSpec, LibraryDoesItsPart
  <1> QED BY <1>2 DEF ChangesMeanTheSame

-----------------------------------------------------------------------------
(* The ten side by side.                                                   *)

\* A step of the extension is a step of every part, or that part stands still:
\* what holds of a part by itself holds of it beside the others.
THEOREM PartsGoTheirOwnWays ==
    ExtensionSpec => /\ Spec /\ TurnSpec /\ OtSpec /\ MeshSpec /\ TreeSpec
                     /\ TunnelSpec /\ PresenceSpec /\ ChatSpec /\ LocalSpec /\ LimiterSpec
  <1>1. ExtensionInit => /\ Init /\ FileInit /\ OtInit /\ MeshInit /\ TreeInit
                         /\ TunnelInit /\ PresenceInit /\ ChatInit /\ LocalInit /\ LimiterInit
    BY DEF ExtensionInit
  <1>2. ASSUME [ExtensionNext]_extensionVars
        PROVE  /\ [Next]_vars /\ [FileNext /\ (made' # made => Quiet)]_fileVars
               /\ [OtNext]_otVars /\ [MeshNext]_meshVars /\ [TreeNext]_treeVars
               /\ [TunnelNext]_tunnelVars /\ [PresenceNext]_presenceVars /\ [ChatNext]_chatVars
               /\ [LocalNext]_nodeVars /\ [LimiterNext]_limiterVars
    <2>1. CASE Moves("session", Network)
      BY <2>1 DEF Moves, Others, Next
    <2>2. CASE Moves("files", FileNext /\ (made' # made => Quiet))
      BY <2>2 DEF Moves, Others
    <2>3. CASE Moves("engine", OtNext)
      BY <2>3 DEF Moves, Others
    <2>4. CASE Moves("mesh", MeshNext)
      BY <2>4 DEF Moves, Others
    <2>5. CASE Moves("tree", TreeNext)
      BY <2>5 DEF Moves, Others
    <2>6. CASE Moves("tunnel", TunnelNext)
      BY <2>6 DEF Moves, Others
    <2>7. CASE Moves("presence", PresenceNext)
      BY <2>7 DEF Moves, Others
    <2>8. CASE Moves("chat", ChatNext)
      BY <2>8 DEF Moves, Others
    <2>9. CASE Moves("local", LocalNext)
      BY <2>9 DEF Moves, Others
    <2>10. CASE Moves("limiter", LimiterNext)
      BY <2>10 DEF Moves, Others
    <2>11. CASE UNCHANGED extensionVars
      BY <2>11 DEF extensionVars
    <2> QED BY <1>2, <2>1, <2>2, <2>3, <2>4, <2>5, <2>6, <2>7, <2>8, <2>9, <2>10, <2>11
            DEF ExtensionNext
  <1>3. ExtensionSpec => Spec /\ TurnSpec
    <2>1. /\ [ExtensionNext]_extensionVars => [Next]_vars
          /\ [ExtensionNext]_extensionVars => [FileNext /\ (made' # made => Quiet)]_fileVars
      BY <1>2
    <2> QED BY <1>1, <2>1, PTL DEF ExtensionSpec, Spec, TurnSpec
  <1>4. ExtensionSpec => OtSpec /\ MeshSpec /\ TreeSpec /\ TunnelSpec
    <2>1. /\ [ExtensionNext]_extensionVars => [OtNext]_otVars
          /\ [ExtensionNext]_extensionVars => [MeshNext]_meshVars
          /\ [ExtensionNext]_extensionVars => [TreeNext]_treeVars
          /\ [ExtensionNext]_extensionVars => [TunnelNext]_tunnelVars
      BY <1>2
    <2> QED BY <1>1, <2>1, PTL DEF ExtensionSpec, OtSpec, MeshSpec, TreeSpec, TunnelSpec
  <1>5. ExtensionSpec => PresenceSpec /\ ChatSpec /\ LocalSpec /\ LimiterSpec
    <2>1. /\ [ExtensionNext]_extensionVars => [PresenceNext]_presenceVars
          /\ [ExtensionNext]_extensionVars => [ChatNext]_chatVars
          /\ [ExtensionNext]_extensionVars => [LocalNext]_nodeVars
          /\ [ExtensionNext]_extensionVars => [LimiterNext]_limiterVars
      BY <1>2
    <2> QED BY <1>1, <2>1, PTL DEF ExtensionSpec, PresenceSpec, ChatSpec, LocalSpec, LimiterSpec
  <1> QED BY <1>3, <1>4, <1>5

\* Whichever part moves, the state of all that have no run of their own stays
\* typed, as far as the library of differences does its part.
THEOREM ExtensionTypeCorrect == ExtensionSpec /\ LibraryDoesItsPart => []ExtensionTypeOK
  <1>1. /\ OtTypeOK /\ MeshTypeOK /\ TreeTypeOK /\ TunnelTypeOK
        /\ PresenceTypeOK /\ ChatTypeOK /\ LocalTypeOK /\ LimiterTypeOK
        => ExtensionTypeOK
    BY DEF ExtensionTypeOK
  <1> QED BY <1>1, PartsGoTheirOwnWays, EngineHasTheText, MeshTypeCorrect, TreeTypeCorrect,
             RequestsAnsweredOnce, PresenceTypeCorrect, ChatTypeCorrect, KnownChildIsAlive,
             LimiterTypeCorrect, PTL

\* What the services promise, they promise beside each other: two who take turns
\* have the same file, all show the same chat, no node is left behind, nobody gets
\* more than the rate.
THEOREM ExtensionIsSafe ==
    ASSUME NEW a, NEW b, a # b, Peer = {a, b}, AutoSave = "on"
    PROVE  ExtensionSpec => [](TurnTakersAgree /\ SameLinesForAll /\ NoOrphan /\ RateIsFair)
  <1>1. TurnSpec => []TurnTakersAgree
    BY TurnTakersAlwaysAgree
  <1> QED BY <1>1, PartsGoTheirOwnWays, EverybodyShowsTheSame, NoNodeIsOrphaned,
             RateIsAlwaysFair, PTL

=============================================================================
