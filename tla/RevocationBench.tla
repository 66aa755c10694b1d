--------------------------- MODULE RevocationBench ----------------------------
(***************************************************************************)
(* bench_revocation.py: how long an agent keeps succeeding after its       *)
(* delegation was revoked, when the portal asks the database on every read,*)
(* when it caches the authorization, and when it trusts the token until it *)
(* expires.                                                                *)
(*                                                                         *)
(* A read of Portal("rls") is what GuardedRead promises of it: rows while  *)
(* the delegation stands and the token lives, a denial after.  Time counts *)
(* from the start of a trial, in ticks of one clock for agent and database.*)
(* A call of the database takes up to MaxWork, a sleep up to MaxLag more   *)
(* than was asked for.                                                     *)
(***************************************************************************)
EXTENDS Integers

CONSTANTS
  Interval,         \* REQUEST_INTERVAL_S
  CacheTTL,         \* CACHE_TTL_S
  TokenTTL,         \* TOKEN_TTL_S
  LongTTL,          \* the lifetime of a token in the other modes
  MaxWait,          \* MAX_WAIT_S
  MaxWork, MaxLag,  \* bounds on how slow the machine is
  Trials            \* --trials

Modes == {"db_checked", "cache_5s", "token_only"}
WarmUps == 3

ASSUME NumbersAssumption ==
  /\ {Interval, CacheTTL, TokenTTL, LongTTL, MaxWait, Trials} \subseteq Nat \ {0}
  /\ {MaxWork, MaxLag} \subseteq Nat

\* A sleep and two calls take at most two intervals, and the agent is watched
\* for longer than any mode declares.  Of a token and the warm-up it is used in,
\* either may last longer.
ASSUME TimingAssumption ==
  /\ 2 * MaxWork + MaxLag <= Interval
  /\ CacheTTL + 2 * Interval < MaxWait
  /\ TokenTTL + 2 * Interval < MaxWait

VARIABLES
  mode,       \* the mode being measured
  left,       \* trials left, of this mode
  phase,      \* how far the trial is
  warm,       \* warm-up reads made
  clock,      \* time.monotonic()
  revoked,    \* revoked_at of the agent's delegation
  exp,        \* when the token expires
  cachedOk,   \* CachingPortal._cached_ok
  cachedUntil,
  revokedAt,  \* what _revoke() returned
  stale,      \* reads after the revocation that returned rows
  halt        \* halt_latency_s

vars == <<mode, left, phase, warm, clock, revoked, exp, cachedOk, cachedUntil,
          revokedAt, stale, halt>>

Phases == {"reset", "warm", "poll", "halted", "failed", "end"}

TypeOK ==
  /\ mode \in Modes
  /\ left \in 0 .. Trials
  /\ phase \in Phases
  /\ warm \in 0 .. WarmUps
  /\ clock \in Nat /\ exp \in Nat /\ cachedUntil \in Nat
  /\ revokedAt \in Nat /\ stale \in Nat /\ halt \in Nat
  /\ revoked \in BOOLEAN /\ cachedOk \in BOOLEAN

\* bound
DeclaredBound ==
  CASE mode = "db_checked" -> 2 * Interval
    [] mode = "cache_5s" -> CacheTTL + 2 * Interval
    [] mode = "token_only" -> TokenTTL + 2 * Interval

\* Whatever an earlier run left in the delegation.
Init ==
  /\ mode = "db_checked"
  /\ left = Trials
  /\ phase = "reset"
  /\ revoked \in BOOLEAN
  /\ cachedOk = FALSE
  /\ warm = 0 /\ clock = 0 /\ exp = 0 /\ cachedUntil = 0
  /\ revokedAt = 0 /\ stale = 0 /\ halt = 0
-----------------------------------------------------------------------------
\* Mutant: the revocation of the trial before is left standing.
KeepDelegation ==
  /\ phase = "reset"
  /\ phase' = "warm"
  /\ warm' = 0 /\ clock' = 0 /\ stale' = 0
  /\ exp' = IF mode = "token_only" THEN TokenTTL ELSE LongTTL
  /\ cachedOk' = FALSE /\ cachedUntil' = 0
  /\ UNCHANGED <<mode, left, revoked, revokedAt, halt>>

\* _reset_delegation, a new portal with an empty cache, a new token.
StartTrial ==
  /\ phase = "reset"
  /\ phase' = "warm"
  /\ revoked' = FALSE
  /\ warm' = 0 /\ clock' = 0 /\ stale' = 0
  /\ exp' = IF mode = "token_only" THEN TokenTTL ELSE LongTTL
  /\ cachedOk' = FALSE /\ cachedUntil' = 0
  /\ UNCHANGED <<mode, left, revokedAt, halt>>

\* Portal("rls").read_shipments, judged at time t.
Honoured(t) == ~revoked /\ exp > t

\* Mutant: every hit keeps the entry for another CacheTTL.
HitRenews(t) ==
  \/ /\ cachedOk /\ clock < cachedUntil
     /\ cachedUntil' = clock + CacheTTL
     /\ UNCHANGED cachedOk
  \/ /\ ~(cachedOk /\ clock < cachedUntil)
     /\ Honoured(t)
     /\ cachedOk' = TRUE /\ cachedUntil' = clock + CacheTTL

CacheHit == cachedOk /\ clock < cachedUntil

\* CachingPortal.read_shipments: the last answer again, or a read that fills
\* the entry from the moment the call was made.
CachedAllow(t) ==
  \/ CacheHit /\ UNCHANGED <<cachedOk, cachedUntil>>
  \/ /\ ~CacheHit /\ Honoured(t)
     /\ cachedOk' = TRUE /\ cachedUntil' = clock + CacheTTL

CachedDeny(t) ==
  /\ ~CacheHit /\ ~Honoured(t)
  /\ cachedOk' = FALSE /\ UNCHANGED cachedUntil

\* A read that starts now and is judged at t returns rows, or a denial.
\* TokenOnlyPortal looks at the signature and the expiry alone.
Allow(t) ==
  CASE mode = "db_checked" -> Honoured(t) /\ UNCHANGED <<cachedOk, cachedUntil>>
    [] mode = "cache_5s" -> CachedAllow(t)
    [] mode = "token_only" -> exp > t /\ UNCHANGED <<cachedOk, cachedUntil>>

Deny(t) ==
  CASE mode = "db_checked" -> ~Honoured(t) /\ UNCHANGED <<cachedOk, cachedUntil>>
    [] mode = "cache_5s" -> CachedDeny(t)
    [] mode = "token_only" -> exp <= t /\ UNCHANGED <<cachedOk, cachedUntil>>

\* Mutant: one read too many.
WarmingOnceMore == phase = "warm" /\ warm <= WarmUps

StillWarming == phase = "warm" /\ warm < WarmUps

\* A warm-up read and the sleep after it, or the assertion that it succeeded.
WarmUp(before, after, lag) ==
  /\ StillWarming
  /\ \/ /\ Allow(clock + before)
        /\ warm' = warm + 1
        /\ clock' = clock + before + after + Interval + lag
        /\ UNCHANGED phase
     \/ /\ Deny(clock + before)
        /\ phase' = "failed"
        /\ UNCHANGED <<warm, clock>>
  /\ UNCHANGED <<mode, left, revoked, exp, revokedAt, stale, halt>>

\* _revoke: the instant is read before the statement is sent.
Revoke(work) ==
  /\ phase = "warm" /\ warm = WarmUps
  /\ phase' = "poll"
  /\ revoked' = TRUE
  /\ revokedAt' = clock
  /\ clock' = clock + work
  /\ UNCHANGED <<mode, left, warm, exp, cachedOk, cachedUntil, stale, halt>>

Watching == clock - revokedAt < MaxWait

\* The agent goes on until it is denied, or until MAX_WAIT_S is over.
Poll(before, after, lag) ==
  /\ phase = "poll"
  /\ \/ /\ Watching /\ Allow(clock + before)
        /\ stale' = stale + 1
        /\ clock' = clock + before + after + Interval + lag
        /\ UNCHANGED <<phase, halt>>
     \/ /\ Watching /\ Deny(clock + before)
        /\ clock' = clock + before + after
        /\ halt' = clock + before + after - revokedAt
        /\ phase' = "halted"
        /\ UNCHANGED stale
     \/ /\ ~Watching
        /\ halt' = MaxWait
        /\ phase' = "halted"
        /\ UNCHANGED <<clock, cachedOk, cachedUntil, stale>>
  /\ UNCHANGED <<mode, left, warm, revoked, exp, revokedAt>>

\* The trial is recorded: another one, the next mode, or the end, which resets
\* the delegation once more.
NextTrial ==
  /\ phase = "halted"
  /\ \/ left > 1 /\ left' = left - 1 /\ phase' = "reset" /\ UNCHANGED <<mode, revoked>>
     \/ /\ left = 1
        /\ revoked' = FALSE
        /\ IF mode = "token_only"
           THEN phase' = "end" /\ left' = 0 /\ UNCHANGED mode
           ELSE /\ phase' = "reset" /\ left' = Trials
                /\ mode' = IF mode = "db_checked" THEN "cache_5s" ELSE "token_only"
  /\ UNCHANGED <<warm, clock, exp, cachedOk, cachedUntil, revokedAt, stale, halt>>

\* A call is judged after before ticks and answered after another after ticks.
Durations == {d \in (0 .. MaxWork) \X (0 .. MaxWork) : d[1] + d[2] <= MaxWork}

Next ==
  \/ StartTrial \/ NextTrial
  \/ \E work \in 0 .. MaxWork : Revoke(work)
  \/ \E d \in Durations, lag \in 0 .. MaxLag :
       WarmUp(d[1], d[2], lag) \/ Poll(d[1], d[2], lag)

Spec == Init /\ [][Next]_vars
-----------------------------------------------------------------------------
\* bench_revocation.py:206 "agent could not work pre-revoke": a trial that fails
\* there failed by its own slowness.  Its warm-up used up its own token; nothing
\* that an earlier trial or mode revoked, cached or was given stands in its way.
AgentWorksBeforeRevoke ==
  phase = "failed" => ~revoked /\ exp <= clock + MaxWork

\* The bound each mode declares is kept (within_bound), and it is the agent that
\* was stopped, not the watching that ended.
WithinDeclaredBound ==
  phase = "halted" => halt <= DeclaredBound /\ ~(halt = MaxWait)

\* What the bound is for: no row at all once the database is asked, and in the
\* other modes fewer answers than fit into the lifetime that was trusted.
StaleReadsBounded ==
  phase \in {"poll", "halted"} =>
  /\ mode = "db_checked" => stale = 0
  /\ mode = "cache_5s" => stale * Interval < CacheTTL
  /\ mode = "token_only" => stale * Interval < TokenTTL
=============================================================================
