------------------------------ MODULE Bootstrap -------------------------------
(***************************************************************************)
(* init_schema, and the life of a signing key: the schema is made, the key *)
(* planted and the scenario seeded in three separate commits, and a        *)
(* process that dies between two of them leaves a database that answers.   *)
(* The key signs credentials, in the issuer's process, and the trail.      *)
(*                                                                         *)
(* Requests arrive at any time; initialisations come one after another.    *)
(* With the trail's rows in a line, a row verifies if the key that made    *)
(* its hash is the key of the day; a hash made with no key is NULL.        *)
(***************************************************************************)
EXTENDS Integers, Sequences

CONSTANTS
  Secrets,      \* values of PORTAL_SIGNING_KEY
  SeedRows,     \* rows seed.sql appends to the trail: its approvals
  MaxRows,      \* bound: the trail takes no more requests
  MaxCrashes,   \* bound on initialisations that die
  NULL

VARIABLES
  built,    \* the schema is there
  seeded,
  key,      \* the secret in portal.signing_key
  trail,    \* audit_event, in order of seq
  init,     \* the initialisation under way, and the environment it started in
  env,      \* the environment of new processes
  tokens,   \* the secrets that credentials were signed with
  crashes,
  keyless,  \* history: a request was recorded before the key was planted,
  rotated   \* or the key was replaced

vars == <<built, seeded, key, trail, init, env, tokens, crashes, keyless, rotated>>

ASSUME BootAssumption ==
  /\ SeedRows \in Nat \ {0} /\ MaxRows \in Nat /\ MaxCrashes \in Nat
  /\ NULL \notin Secrets

Idle == init = NULL
Step(stage) == [stage |-> stage, secret |-> init.secret]
RowBy(k, decision) == [by |-> k, decision |-> decision]

Init ==
  /\ built = FALSE /\ seeded = FALSE
  /\ key = NULL
  /\ trail = <<>>
  /\ init = NULL
  /\ env \in Secrets
  /\ tokens = {}
  /\ crashes = 0
  /\ keyless = FALSE /\ rotated = FALSE
-----------------------------------------------------------------------------
\* Mutants: making the schema again keeps the data; it is made only where
\* there is none.
MakeKeepingData ==
  /\ Idle
  /\ init' = [stage |-> "plant", secret |-> env]
  /\ built' = TRUE
  /\ key' = NULL
  /\ trail' = <<>>
  /\ keyless' = FALSE /\ rotated' = FALSE
  /\ UNCHANGED <<seeded, env, tokens, crashes>>

MakeOnce ==
  /\ Idle /\ ~built
  /\ init' = [stage |-> "plant", secret |-> env]
  /\ built' = TRUE
  /\ UNCHANGED <<seeded, key, trail, env, tokens, crashes, keyless, rotated>>

\* schema.sql, sent as one string and so one transaction: whatever was there is
\* dropped, the key and the trail with it.
MakeSchema ==
  /\ Idle
  /\ init' = [stage |-> "plant", secret |-> env]
  /\ built' = TRUE /\ seeded' = FALSE
  /\ key' = NULL
  /\ trail' = <<>>
  /\ keyless' = FALSE /\ rotated' = FALSE
  /\ UNCHANGED <<env, tokens, crashes>>

\* Mutant: the scenario comes first, and only then the key.
SeedFirst ==
  /\ ~Idle /\ init.stage = "plant" /\ ~seeded
  /\ seeded' = TRUE
  /\ trail' = trail \o [i \in 1 .. SeedRows |-> RowBy(key, "approve")]
  /\ UNCHANGED <<built, key, init, env, tokens, crashes, keyless, rotated>>

\* plant_signing_key, in the process that made the schema.
PlantKey ==
  /\ ~Idle /\ init.stage = "plant"
  /\ key' = init.secret
  /\ init' = Step("seed")
  /\ UNCHANGED <<built, seeded, trail, env, tokens, crashes, keyless, rotated>>

\* seed.sql, one transaction; `portal init --no-seed` ends without it.
Seed ==
  /\ ~Idle /\ init.stage = "seed"
  /\ \/ /\ seeded' = TRUE
        /\ trail' = trail \o [i \in 1 .. SeedRows |-> RowBy(key, "approve")]
     \/ UNCHANGED <<seeded, trail>>
  /\ init' = NULL
  /\ UNCHANGED <<built, key, env, tokens, crashes, keyless, rotated>>

\* The process dies, or its connection does.
Crash ==
  /\ ~Idle
  /\ crashes < MaxCrashes
  /\ crashes' = crashes + 1
  /\ init' = NULL
  /\ UNCHANGED <<built, seeded, key, trail, env, tokens, keyless, rotated>>

\* New processes are given another secret.
ChangeSecret(s) ==
  /\ env' = s
  /\ UNCHANGED <<built, seeded, key, trail, init, tokens, crashes, keyless, rotated>>

\* plant_signing_key on its own: a rotation.
Rotate ==
  /\ Idle /\ built
  /\ key' = env
  /\ rotated' = (rotated \/ key \notin {NULL, env})
  /\ UNCHANGED <<built, seeded, trail, init, env, tokens, crashes, keyless>>

Mint ==
  /\ tokens' = tokens \cup {env}
  /\ UNCHANGED <<built, seeded, key, trail, init, env, crashes, keyless, rotated>>

\* verify_credential: no key, no claims.
Verifies(tok) == key # NULL /\ tok = key

\* read_shipments with a token whose grant is the seeded one; without a schema
\* it raises and leaves nothing.
Request(tok) ==
  /\ built
  /\ Len(trail) < MaxRows
  /\ trail' = Append(trail,
       RowBy(key, IF Verifies(tok) /\ seeded THEN "allow" ELSE "deny"))
  /\ keyless' = (keyless \/ key = NULL)
  /\ UNCHANGED <<built, seeded, key, init, env, tokens, crashes, rotated>>

Initialise == MakeSchema \/ PlantKey \/ Seed

Next ==
  \/ Initialise \/ Crash \/ Rotate \/ Mint
  \/ \E s \in Secrets : ChangeSecret(s)
  \/ \E tok \in tokens : Request(tok)

\* An initialisation runs on unless it dies, and where there is no key one is
\* started again, as RUNBOOK.md 8 tells the operator.
Unfinished == ~Idle \/ key = NULL
Spec == Init /\ [][Next]_vars /\ WF_vars(Unfinished /\ Initialise)
-----------------------------------------------------------------------------
\* audit_verify's first bad row, for rows that are in a line.
Bad == {i \in DOMAIN trail : trail[i].by # key}

\* RUNBOOK.md:152 "a break means ... the signing key changed": the schema as
\* init_schema leaves it verifies, however often it died on the way, unless a
\* request came in while there was no key or the key was replaced.
BuiltTrailVerifies ==
  Idle /\ key # NULL /\ Bad # {} => keyless \/ rotated

\* Half a database serves nothing: whoever was allowed held a token signed with
\* the key that was there, and the scenario was seeded completely before.
HalfBuiltServesNothing ==
  \A i \in DOMAIN trail : trail[i].decision = "allow" =>
    /\ trail[i].by \in tokens
    /\ \E j \in 1 .. i - 1 : trail[j].decision = "approve"

\* tests/test_fresh_cluster.py: init_schema can be run over whatever an
\* earlier one left, so in the end there is a database with a key.
EventuallyKeyed == built ~> key # NULL
=============================================================================
