------------------------ MODULE RevocationBenchProofs --------------------------
(***************************************************************************)
(* Proofs about RevocationBench, for every interval, lifetime and number   *)
(* of trials that TimingAssumption admits.                                 *)
(***************************************************************************)
EXTENDS RevocationBench, TLAPS

\* The longest one round of the agent's loop can take.
Round == Interval + MaxWork + MaxLag

\* While the agent warms up it is authorized, the trial is young, and what the
\* cache holds was put there at least one sleep ago.
Warming ==
  phase = "warm" =>
    /\ ~revoked /\ stale = 0
    /\ clock >= warm * Interval
    /\ clock <= warm * Round
    /\ exp = IF mode = "token_only" THEN TokenTTL ELSE LongTTL
    /\ cachedOk => cachedUntil + Interval <= clock + CacheTTL

\* Once it is revoked nothing new is trusted, and every answer it still gets
\* took the clock an interval further into what was.
Polling ==
  phase = "poll" =>
    /\ revoked
    /\ revokedAt >= Interval
    /\ clock >= revokedAt + stale * Interval
    /\ cachedOk => cachedUntil + Interval <= revokedAt + CacheTTL
    /\ mode = "token_only" => exp = TokenTTL
    /\ CASE mode = "db_checked" -> clock <= revokedAt + MaxWork
         [] mode = "cache_5s" -> clock < revokedAt + CacheTTL + Round
         [] mode = "token_only" -> clock < revokedAt + TokenTTL + Round

BInv ==
  /\ TypeOK
  /\ AgentWorksBeforeRevoke
  /\ Warming
  /\ Polling
  /\ WithinDeclaredBound
  /\ StaleReadsBounded

\* Every number is a natural.
LEMMA Numbers ==
  /\ Interval \in Nat \ {0} /\ CacheTTL \in Nat \ {0} /\ TokenTTL \in Nat \ {0}
  /\ LongTTL \in Nat \ {0} /\ MaxWait \in Nat \ {0} /\ Trials \in Nat \ {0}
  /\ MaxWork \in Nat /\ MaxLag \in Nat
  BY NumbersAssumption

LEMMA DurationsAre ==
  ASSUME NEW d \in Durations
  PROVE  d[1] \in 0 .. MaxWork /\ d[2] \in 0 .. MaxWork /\ d[1] + d[2] <= MaxWork
  BY DEF Durations

\* One more interval.
LEMMA OneMore ==
  ASSUME NEW n \in Nat, NEW i \in Nat
  PROVE  n * i \in Nat /\ (n + 1) * i = n * i + i
  OBVIOUS

LEMMA InitBInv == Init => BInv
<1> SUFFICES ASSUME Init PROVE BInv
  OBVIOUS
<1>1. phase = "reset" /\ mode = "db_checked"
  BY DEF Init
<1>2. revoked \in BOOLEAN /\ cachedOk \in BOOLEAN
  BY Zenon DEF Init
<1>3. TypeOK
  BY <1>2, Numbers DEF Init, TypeOK, Modes, Phases, WarmUps
<1> QED
  BY <1>1, <1>3
  DEF BInv, AgentWorksBeforeRevoke, Warming, Polling, WithinDeclaredBound, StaleReadsBounded

\* A trial starts with the delegation restored (_reset_delegation).
LEMMA StartTrialStep == ASSUME BInv, StartTrial PROVE BInv'
<1>1. ~revoked' /\ ~cachedOk' /\ revoked' \in BOOLEAN /\ cachedOk' \in BOOLEAN
  BY Zenon DEF StartTrial
<1>2. phase' = "warm"
  BY DEF StartTrial
<1>3. TypeOK'
  BY <1>1, Numbers DEF BInv, StartTrial, TypeOK, Phases, WarmUps
<1>4. Warming'
  BY <1>1, Numbers DEF StartTrial, Warming, Round
<1> QED
  BY <1>2, <1>3, <1>4
  DEF BInv, AgentWorksBeforeRevoke, Polling, WithinDeclaredBound, StaleReadsBounded

\* A warm-up read is answered, or its own token has run out: nothing is revoked.
LEMMA WarmUpStep ==
  ASSUME BInv, NEW d \in Durations, NEW lag \in 0 .. MaxLag, WarmUp(d[1], d[2], lag)
  PROVE  BInv'
<1> DEFINE t == clock + d[1]
<1>0. /\ d[1] \in 0 .. MaxWork /\ d[2] \in 0 .. MaxWork /\ d[1] + d[2] <= MaxWork
      /\ lag \in Nat /\ lag <= MaxLag
  BY DurationsAre, Numbers
<1>1. /\ phase = "warm" /\ warm < WarmUps /\ warm \in Nat /\ clock \in Nat
      /\ ~revoked /\ stale = 0 /\ cachedOk \in BOOLEAN /\ cachedUntil \in Nat
      /\ clock >= warm * Interval /\ clock <= warm * Round
      /\ exp = IF mode = "token_only" THEN TokenTTL ELSE LongTTL
      /\ mode \in Modes /\ exp \in Nat
  BY DEF BInv, TypeOK, Warming, WarmUp, StillWarming
<1>2. Round \in Nat
  BY Numbers DEF Round
<1>3. UNCHANGED <<mode, left, revoked, exp, revokedAt, stale, halt>>
  BY DEF WarmUp
<1>4. ASSUME Allow(t), warm' = warm + 1, UNCHANGED phase,
             clock' = clock + d[1] + d[2] + Interval + lag
      PROVE  BInv'
  <2>1. /\ clock' \in Nat /\ clock' >= clock + Interval /\ clock' <= clock + Round
    BY <1>0, <1>1, <1>4, Numbers DEF Round
  <2>2. /\ cachedOk' \in BOOLEAN /\ cachedUntil' \in Nat
        /\ cachedOk' => cachedUntil' + Interval <= clock' + CacheTTL
    <3>1. \/ (cachedOk' <=> cachedOk) /\ cachedUntil' = cachedUntil
          \/ cachedUntil' = clock + CacheTTL
      BY <1>1, <1>4, Zenon DEF Allow, CachedAllow, Modes
    <3>2. cachedOk' \in BOOLEAN
      BY <1>1, <1>4, Zenon DEF Allow, CachedAllow, Modes
    <3>3. cachedOk => cachedUntil + Interval <= clock + CacheTTL
      BY <1>1 DEF BInv, Warming
    <3> QED BY <1>1, <2>1, <3>1, <3>2, <3>3, Numbers
  <2>3. /\ clock' >= warm' * Interval /\ clock' <= warm' * Round
    <3>1. /\ (warm + 1) * Interval = warm * Interval + Interval
          /\ (warm + 1) * Round = warm * Round + Round
          /\ warm * Interval \in Nat /\ warm * Round \in Nat
      BY <1>1, <1>2, Numbers, OneMore
    <3> QED BY <1>1, <1>2, <1>4, <2>1, <3>1, Numbers
  <2>4. TypeOK'
    BY <1>1, <1>3, <1>4, <2>1, <2>2 DEF BInv, TypeOK, Phases, WarmUps
  <2>5. Warming'
    BY <1>1, <1>3, <1>4, <2>2, <2>3 DEF Warming
  <2> QED
    BY <1>1, <1>4, <2>4, <2>5
    DEF BInv, AgentWorksBeforeRevoke, Polling, WithinDeclaredBound, StaleReadsBounded
<1>5. ASSUME Deny(t), phase' = "failed", UNCHANGED <<warm, clock>>
      PROVE  BInv'
  <2>1. ~(exp > t)
    <3> SUFFICES ASSUME exp > t PROVE FALSE
      OBVIOUS
    <3>1. ~(exp <= t)
      BY <1>0, <1>1, Numbers
    <3>2. Honoured(t)
      BY <1>1, Zenon DEF Honoured
    <3> QED BY <1>1, <1>5, <3>1, <3>2, Zenon DEF Deny, CachedDeny, Modes
  <2>2. exp' <= clock' + MaxWork
    BY <1>0, <1>1, <1>3, <1>5, <2>1, Numbers
  <2>3. cachedOk' \in BOOLEAN /\ cachedUntil' = cachedUntil
    BY <1>1, <1>5, Zenon DEF Deny, CachedDeny, Modes
  <2>4. TypeOK' /\ ~revoked'
    BY <1>1, <1>3, <1>5, <2>3 DEF BInv, TypeOK, Phases
  <2> QED
    BY <1>5, <2>2, <2>4
    DEF BInv, AgentWorksBeforeRevoke, Warming, Polling, WithinDeclaredBound, StaleReadsBounded
<1> QED BY <1>4, <1>5 DEF WarmUp

\* The loop of the agent leaves room for two calls and a sleep.
LEMMA RoundIsShort == Round \in Nat /\ Round + MaxWork <= 2 * Interval /\ Interval <= Round
  BY Numbers, TimingAssumption DEF Round

\* The instant of the revocation is read while nothing but the cache is trusted.
LEMMA RevokeStep ==
  ASSUME BInv, NEW work \in 0 .. MaxWork, Revoke(work)
  PROVE  BInv'
<1>1. /\ phase = "warm" /\ warm = 3 /\ clock \in Nat /\ mode \in Modes /\ stale = 0
      /\ clock >= warm * Interval
      /\ exp = IF mode = "token_only" THEN TokenTTL ELSE LongTTL
      /\ cachedOk \in BOOLEAN /\ cachedUntil \in Nat
      /\ cachedOk => cachedUntil + Interval <= clock + CacheTTL
  BY DEF BInv, TypeOK, Warming, Revoke, WarmUps
<1>2. /\ phase' = "poll" /\ revoked' = TRUE /\ revokedAt' = clock /\ clock' = clock + work
      /\ UNCHANGED <<mode, left, warm, exp, cachedOk, cachedUntil, stale, halt>>
  BY DEF Revoke
<1>3. revoked' /\ (cachedOk' => cachedUntil' + Interval <= revokedAt' + CacheTTL)
  BY <1>1, <1>2
<1>4. work \in Nat /\ work <= MaxWork /\ stale' * Interval = 0
  BY <1>1, <1>2, Numbers
<1>5. /\ revokedAt' >= Interval /\ clock' >= revokedAt' + stale' * Interval
      /\ clock' <= revokedAt' + MaxWork /\ clock' \in Nat
      /\ clock' < revokedAt' + CacheTTL + Round /\ clock' < revokedAt' + TokenTTL + Round
  BY <1>1, <1>2, <1>4, Numbers, RoundIsShort DEF Round
<1>6. TypeOK'
  BY <1>1, <1>2, <1>5 DEF BInv, TypeOK, Phases
<1>7. Polling'
  BY <1>1, <1>2, <1>3, <1>5 DEF Polling, Modes
<1>8. StaleReadsBounded'
  BY <1>1, <1>2, <1>4, Numbers DEF StaleReadsBounded
<1> QED
  BY <1>2, <1>6, <1>7, <1>8 DEF BInv, AgentWorksBeforeRevoke, Warming, WithinDeclaredBound

\* The agent is stopped before the watching ends, and every answer it got in
\* the meantime used up an interval of what was still trusted.
LEMMA PollStep ==
  ASSUME BInv, NEW d \in Durations, NEW lag \in 0 .. MaxLag, Poll(d[1], d[2], lag)
  PROVE  BInv'
<1> DEFINE t == clock + d[1]
           trusted == IF mode = "cache_5s" THEN CacheTTL ELSE TokenTTL
<1>0. /\ d[1] \in 0 .. MaxWork /\ d[2] \in 0 .. MaxWork /\ d[1] + d[2] <= MaxWork
      /\ lag \in Nat /\ lag <= MaxLag
  BY DurationsAre, Numbers
<1>1. /\ phase = "poll" /\ mode \in Modes /\ clock \in Nat /\ revokedAt \in Nat
      /\ stale \in Nat /\ exp \in Nat /\ cachedUntil \in Nat
      /\ revoked /\ cachedOk \in BOOLEAN
      /\ revokedAt >= Interval /\ clock >= revokedAt + stale * Interval
      /\ cachedOk => cachedUntil + Interval <= revokedAt + CacheTTL
      /\ mode = "token_only" => exp = TokenTTL
  BY DEF BInv, TypeOK, Polling, Poll
<1>2. /\ mode = "db_checked" => clock <= revokedAt + MaxWork
      /\ mode # "db_checked" => clock < revokedAt + trusted + Round
  BY <1>1 DEF BInv, Polling, Modes
<1>3. UNCHANGED <<mode, left, warm, revoked, exp, revokedAt>> /\ revoked'
  BY <1>1 DEF Poll
<1>4. /\ trusted \in Nat \ {0} /\ trusted + 2 * Interval < MaxWait
      /\ trusted = IF mode = "cache_5s" THEN CacheTTL ELSE TokenTTL
  BY Numbers, TimingAssumption
<1> HIDE DEF trusted
<1>5. Watching
  BY <1>1, <1>2, <1>4, RoundIsShort, Numbers DEF Watching, Round
<1>6. ASSUME Allow(t), stale' = stale + 1, UNCHANGED <<phase, halt>>,
             clock' = clock + d[1] + d[2] + Interval + lag
      PROVE  BInv'
  <2>1. ~Honoured(t)
    BY <1>1, Zenon DEF Honoured
  <2>2. mode # "db_checked" /\ UNCHANGED <<cachedOk, cachedUntil>>
    BY <1>1, <1>6, <2>1, Zenon DEF Allow, CachedAllow, Modes
  <2>3. clock + Interval < revokedAt + trusted /\ clock < revokedAt + trusted - d[1]
    <3>1. CASE mode = "cache_5s"
      <4>1. cachedOk /\ clock < cachedUntil
        BY <1>6, <2>1, <3>1, Zenon DEF Allow, CachedAllow, CacheHit
      <4> QED BY <1>0, <1>1, <1>4, <3>1, <4>1, Numbers, TimingAssumption
    <3>2. CASE mode = "token_only"
      <4>1. exp > t
        BY <1>6, <3>2 DEF Allow
      <4> QED BY <1>0, <1>1, <1>4, <3>2, <4>1, Numbers
    <3> QED BY <1>1, <2>2, <3>1, <3>2 DEF Modes
  <2>4. stale' * Interval = stale * Interval + Interval /\ stale * Interval \in Nat
    BY <1>1, <1>6, Numbers, OneMore
  <2>5. /\ clock' \in Nat /\ stale' \in Nat
        /\ clock' >= revokedAt + stale' * Interval
        /\ clock' < revokedAt + trusted + Round
        /\ stale' * Interval < trusted
    BY <1>0, <1>1, <1>4, <1>6, <2>3, <2>4, Numbers DEF Round
  <2>6. TypeOK'
    BY <1>1, <1>3, <1>6, <2>2, <2>5 DEF BInv, TypeOK
  <2>7. Polling'
    BY <1>1, <1>3, <1>4, <1>6, <2>2, <2>5 DEF Polling, Modes
  <2>8. StaleReadsBounded'
    BY <1>3, <1>4, <2>2, <2>5 DEF StaleReadsBounded
  <2> QED
    BY <1>1, <1>6, <2>6, <2>7, <2>8 DEF BInv, AgentWorksBeforeRevoke, Warming, WithinDeclaredBound
<1>7. ASSUME Deny(t), clock' = clock + d[1] + d[2],
             halt' = clock + d[1] + d[2] - revokedAt, phase' = "halted", UNCHANGED stale
      PROVE  BInv'
  <2>1. cachedOk' \in BOOLEAN /\ cachedUntil' = cachedUntil
    BY <1>1, <1>7, Zenon DEF Deny, CachedDeny, Modes
  <2>2. stale * Interval \in Nat
    BY <1>1, Numbers, OneMore
  <2>3. /\ clock' \in Nat /\ halt' \in Nat
        /\ mode = "db_checked" => halt' <= 2 * Interval
        /\ mode # "db_checked" => halt' <= trusted + 2 * Interval
        /\ halt' < MaxWait
    BY <1>0, <1>1, <1>2, <1>4, <1>7, <2>2, RoundIsShort, Numbers, TimingAssumption
  <2>4. TypeOK'
    BY <1>1, <1>3, <1>7, <2>1, <2>3 DEF BInv, TypeOK, Phases
  <2>5. WithinDeclaredBound'
    BY <1>1, <1>3, <1>4, <2>3, Numbers DEF WithinDeclaredBound, DeclaredBound, Modes
  <2>6. StaleReadsBounded'
    BY <1>1, <1>3, <1>7 DEF BInv, StaleReadsBounded
  <2> QED
    BY <1>7, <2>4, <2>5, <2>6 DEF BInv, AgentWorksBeforeRevoke, Warming, Polling
<1> QED BY <1>5, <1>6, <1>7 DEF Poll

LEMMA NextTrialStep == ASSUME BInv, NextTrial PROVE BInv'
<1>1. /\ mode \in Modes /\ left \in 0 .. Trials /\ phase = "halted"
      /\ revoked \in BOOLEAN
  BY DEF BInv, TypeOK, NextTrial
<1>2. UNCHANGED <<warm, clock, exp, cachedOk, cachedUntil, revokedAt, stale, halt>>
  BY DEF NextTrial
<1>3. /\ mode' \in Modes /\ phase' \in {"reset", "end"} /\ left' \in 0 .. Trials
  BY <1>1, Numbers DEF NextTrial, Modes
<1>4. revoked' \in BOOLEAN
  BY <1>1, Zenon DEF NextTrial
<1>5. TypeOK'
  BY <1>2, <1>3, <1>4 DEF BInv, TypeOK, Phases
<1> QED
  BY <1>3, <1>5
  DEF BInv, AgentWorksBeforeRevoke, Warming, Polling, WithinDeclaredBound, StaleReadsBounded

\* The invariant, for every interval and lifetime.
THEOREM BenchInvariance == Spec => []BInv
<1>1. ASSUME BInv, UNCHANGED vars PROVE BInv'
  BY <1>1
  DEF vars, BInv, TypeOK, AgentWorksBeforeRevoke, Warming, Polling, WithinDeclaredBound,
      StaleReadsBounded, DeclaredBound
<1>2. ASSUME BInv, Next PROVE BInv'
  BY <1>2, StartTrialStep, NextTrialStep, RevokeStep, WarmUpStep, PollStep DEF Next
<1> QED BY <1>1, <1>2, InitBInv, PTL DEF Spec

\* Every field of the benchmark keeps its type.
THEOREM BenchTyped == Spec => []TypeOK
  BY BenchInvariance, PTL DEF BInv

\* A trial whose agent is refused before the revocation (bench_revocation.py:206)
\* has outlived its own token, whatever the lifetimes and whatever the trials
\* before it revoked.
THEOREM WarmUpFailsByItself == Spec => []AgentWorksBeforeRevoke
  BY BenchInvariance, PTL DEF BInv

\* Whatever the lifetimes, each mode keeps the bound it declares: two intervals
\* beyond what it trusts, nothing when the database is asked.
THEOREM BoundsHold == Spec => []WithinDeclaredBound
  BY BenchInvariance, PTL DEF BInv

\* And no row is returned after the revocation when the database is asked, in
\* the other modes fewer than fit into the trusted lifetime.
THEOREM StaleBounded == Spec => []StaleReadsBounded
  BY BenchInvariance, PTL DEF BInv
=============================================================================
