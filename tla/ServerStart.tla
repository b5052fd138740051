----------------------------- MODULE ServerStart -----------------------------
(***************************************************************************)
(* Server processes starting on one data directory and one database: the    *)
(* secrets (bins/z8run-cli/src/secrets.rs), the schema migrations           *)
(* (z8run-storage/src/migration.rs) and, once a server is up, the           *)
(* credential vault and the sessions that depend on both (credential_vault  *)
(* .rs, z8run-api/src/auth.rs).  A process may die between any two steps    *)
(* and a statement may fail; more than one process may be started.          *)
(*                                                                         *)
(* A secret is a number, so that a new one differs from all earlier ones.   *)
(* Of a table only the migration that shaped it is kept; indexes are left   *)
(* out.  One credential and one session stand for all.                      *)
(***************************************************************************)
EXTENDS Naturals, Sequences

CONSTANTS
    Server,     \* processes, each of which may be started again and again
    MaxKeys,    \* bound on the secrets that are generated
    MaxFaults   \* bound on crashes and failing statements

ASSUME ServerStartAssumption == MaxKeys \in Nat /\ MaxFaults \in Nat

Version == 1 .. 5
Table == {"flows", "executions", "credentials", "users", "connections", "hook_routes",
          "flow_deployments"}
Secret == {"jwt", "vault"}

FromEnv == 0   \* the value of an environment variable, the same at every start
Missing == MaxKeys + 1
Torn == MaxKeys + 2   \* created, not yet written: too short to be accepted

VARIABLES
    backend,   \* "sqlite" or "postgres"
    env,       \* secrets set in the environment of every process
    file,      \* content of jwt.key and vault.key
    keys,      \* number of secrets generated
    at,        \* where each process is in its start
    secret,    \* the secrets each process resolved
    todo,      \* <<version, statements left>> of the migration it applies
    shape,     \* the migration that shaped each table, 0 if there is none
    recorded,  \* rows of schema_migrations
    faults,
    sealedBy,  \* {key}: what the stored credential is encrypted with
    signedBy,  \* {key}: what a user's session is signed with
    met,       \* history: two processes were starting, or one while one was up
    swallowed  \* history: a statement failed and the migration went on

startVars == <<backend, env, file, keys, at, secret, todo, shape, recorded, faults,
               sealedBy, signedBy, met, swallowed>>
processVars == <<at, secret, todo>>
databaseVars == <<shape, recorded, sealedBy>>

Places == {"off", "jwt", "vault", "create jwt", "create vault", "write jwt", "write vault",
           "check", "apply", "up"}

\* What the files, the processes and the tables hold is of its type.
StartTypeOK ==
    /\ env \subseteq Secret /\ keys \in 0 .. MaxKeys
    /\ file \in [Secret -> 0 .. Torn]
    /\ at \in [Server -> Places]
    /\ secret \in [Server -> [Secret -> 0 .. MaxKeys]]
    /\ \A s \in Server : todo[s][1] \in 0 .. 6
    /\ shape \in [Table -> 0 .. 5]
    /\ recorded \subseteq Version
    /\ faults \in 0 .. MaxFaults
    /\ sealedBy \subseteq 0 .. MaxKeys /\ signedBy \subseteq 0 .. MaxKeys

\* PostgreSQL needs the JWT secret in the environment.
StartInit ==
    /\ backend \in {"sqlite", "postgres"}
    /\ env \in SUBSET Secret /\ (backend = "postgres" => "jwt" \in env)
    /\ file = [k \in Secret |-> Missing]
    /\ keys = 0 /\ faults = 0
    /\ at = [s \in Server |-> "off"]
    /\ secret = [s \in Server |-> [k \in Secret |-> 0]]
    /\ todo = [s \in Server |-> <<0, <<>>>>]
    /\ shape = [t \in Table |-> 0] /\ recorded = {}
    /\ sealedBy = {} /\ signedBy = {}
    /\ met = FALSE /\ swallowed = FALSE

----------------------------------------------------------------------------
(* The statements of the migrations.                                       *)

IfMissing(t) == [op |-> "create if missing", table |-> t]
Create(t) == [op |-> "create", table |-> t]
DropIfThere(t) == [op |-> "drop if there", table |-> t]
AddColumn(t) == [op |-> "add column", table |-> t]

V1 == <<IfMissing("flows"), IfMissing("executions"), IfMissing("credentials")>>
V2 == <<IfMissing("users"), IfMissing("connections"), AddColumn("flows")>>
\* Faulty: the table of V1 is not dropped first.
V3CreateOnly == <<Create("credentials")>>

V3 == <<DropIfThere("credentials"), Create("credentials")>>
V4 == <<IfMissing("hook_routes")>>
V5 == <<DropIfThere("hook_routes"), Create("hook_routes"), IfMissing("flow_deployments")>>
Statements == <<V1, V2, V3, V4, V5>>

\* Whether the database accepts the statement; PostgreSQL adds the column
\* IF NOT EXISTS.
Accepts(st) ==
    CASE st.op = "create" -> shape[st.table] = 0
      [] st.op = "add column" -> shape[st.table] = 1 \/ (backend = "postgres" /\ shape[st.table] # 0)
      [] OTHER -> TRUE

ShapedBy(st, v) ==
    CASE st.op = "create if missing" -> IF shape[st.table] = 0 THEN v ELSE shape[st.table]
      [] st.op = "drop if there" -> 0
      [] OTHER -> v

\* The migration that shapes each table last.
Newest == [t \in Table |-> CASE t = "executions" -> 1
                             [] t \in {"flows", "users", "connections"} -> 2
                             [] t = "credentials" -> 3
                             [] t \in {"hook_routes", "flow_deployments"} -> 5]

----------------------------------------------------------------------------
(* Secrets: resolve_with, load_or_create and write_new.                    *)

Goto(s, place) == at' = [at EXCEPT ![s] = place]

Launch(s) ==
    /\ at[s] = "off"
    /\ Goto(s, "jwt")
    /\ met' = (met \/ \E t \in Server \ {s} : at[t] # "off")
    /\ secret' = [secret EXCEPT ![s] = [k \in Secret |-> 0]]
    /\ todo' = [todo EXCEPT ![s] = <<0, <<>>>>]
    /\ UNCHANGED <<backend, env, file, keys, databaseVars, faults, signedBy, swallowed>>

Resolved(s, k, value) ==
    /\ secret' = [secret EXCEPT ![s][k] = value]
    /\ Goto(s, IF k = "jwt" THEN "vault" ELSE "check")

\* From the environment, the vault also from the JWT variable; else from the
\* file.  A short file stops the start.
Load(s, k) ==
    /\ at[s] = k
    /\ \/ /\ k \in env \/ (k = "vault" /\ "jwt" \in env)
          /\ Resolved(s, k, FromEnv)
       \/ /\ k \notin env /\ "jwt" \notin env
          /\ \/ /\ file[k] \notin {Missing, Torn}
                /\ Resolved(s, k, file[k])
             \/ /\ file[k] = Torn
                /\ Goto(s, "off")
                /\ UNCHANGED secret
             \/ /\ file[k] = Missing
                /\ Goto(s, IF k = "jwt" THEN "create jwt" ELSE "create vault")
                /\ UNCHANGED secret
    /\ UNCHANGED <<backend, env, file, keys, todo, databaseVars, faults, signedBy, met, swallowed>>

\* Faulty: a file that is there is created anew.
CreateOver(s, k) ==
    /\ at[s] = IF k = "jwt" THEN "create jwt" ELSE "create vault"
    /\ file' = [file EXCEPT ![k] = Torn]
    /\ Goto(s, IF k = "jwt" THEN "write jwt" ELSE "write vault")
    /\ UNCHANGED <<backend, env, keys, secret, todo, databaseVars, faults, signedBy, met, swallowed>>

\* create_new: who finds the file there reads it instead.
CreateFile(s, k) ==
    /\ at[s] = IF k = "jwt" THEN "create jwt" ELSE "create vault"
    /\ \/ /\ file[k] = Missing
          /\ file' = [file EXCEPT ![k] = Torn]
          /\ Goto(s, IF k = "jwt" THEN "write jwt" ELSE "write vault")
       \/ /\ file[k] # Missing
          /\ Goto(s, k)
          /\ UNCHANGED file
    /\ UNCHANGED <<backend, env, keys, secret, todo, databaseVars, faults, signedBy, met, swallowed>>

WriteFile(s, k) ==
    /\ at[s] = IF k = "jwt" THEN "write jwt" ELSE "write vault"
    /\ keys < MaxKeys
    /\ keys' = keys + 1
    /\ file' = [file EXCEPT ![k] = keys + 1]
    /\ Resolved(s, k, keys + 1)
    /\ UNCHANGED <<backend, env, todo, databaseVars, faults, signedBy, met, swallowed>>

\* What the message about a short file tells the operator to do; the process
\* that created it is gone.
OperatorDeletesTornFile(k) ==
    /\ \A s \in Server : at[s] # IF k = "jwt" THEN "write jwt" ELSE "write vault"
    /\ file[k] = Torn
    /\ file' = [file EXCEPT ![k] = Missing]
    /\ UNCHANGED <<backend, env, keys, processVars, databaseVars, faults, signedBy, met, swallowed>>

----------------------------------------------------------------------------
(* Migrations: run_sqlite_migrations and run_pg_migrations.                *)

\* Faulty: the version is recorded before its statements have run.
CheckRecording(s) ==
    /\ at[s] = "check"
    /\ LET v == todo[s][1] + 1 IN
       \/ /\ v = 6
          /\ Goto(s, "up")
          /\ UNCHANGED <<todo, recorded>>
       \/ /\ v \in recorded
          /\ todo' = [todo EXCEPT ![s] = <<v, <<>>>>]
          /\ UNCHANGED <<at, recorded>>
       \/ /\ v \in Version \ recorded
          /\ todo' = [todo EXCEPT ![s] = <<v, Statements[v]>>]
          /\ recorded' = recorded \cup {v}
          /\ Goto(s, "apply")
    /\ UNCHANGED <<backend, env, file, keys, secret, shape, sealedBy, faults, signedBy, met, swallowed>>

\* The next version: applied already, or not.
Check(s) ==
    /\ at[s] = "check"
    /\ LET v == todo[s][1] + 1 IN
       \/ /\ v = 6
          /\ Goto(s, "up")
          /\ UNCHANGED todo
       \/ /\ v \in recorded
          /\ todo' = [todo EXCEPT ![s] = <<v, <<>>>>]
          /\ UNCHANGED at
       \/ /\ v \in Version \ recorded
          /\ todo' = [todo EXCEPT ![s] = <<v, Statements[v]>>]
          /\ Goto(s, "apply")
    /\ UNCHANGED <<backend, env, file, keys, secret, databaseVars, faults, signedBy, met, swallowed>>

\* SQLite takes every error of V2 for a statement applied before.
Forgives(v) == backend = "sqlite" /\ v = 2

\* A statement is accepted, refused, or fails for reasons of the database.
Apply(s) ==
    /\ at[s] = "apply"
    /\ todo[s][2] # <<>>
    /\ LET v == todo[s][1]
           st == Head(todo[s][2])
           goOn == todo' = [todo EXCEPT ![s] = <<v, Tail(@[2])>>] /\ UNCHANGED at
           giveUp == Goto(s, "off") /\ UNCHANGED todo
           fails == IF Forgives(v) THEN goOn ELSE giveUp
       IN  \/ /\ Accepts(st)
              /\ shape' = [shape EXCEPT ![st.table] = ShapedBy(st, v)]
              /\ sealedBy' = IF st = DropIfThere("credentials") THEN {} ELSE sealedBy
              /\ goOn
              /\ UNCHANGED <<faults, swallowed>>
           \/ /\ ~Accepts(st)
              /\ fails
              /\ UNCHANGED <<shape, sealedBy, faults, swallowed>>
           \/ /\ Accepts(st) /\ faults < MaxFaults
              /\ faults' = faults + 1
              /\ fails
              /\ swallowed' = (swallowed \/ Forgives(v))
              /\ UNCHANGED <<shape, sealedBy>>
    /\ UNCHANGED <<backend, env, file, keys, secret, recorded, signedBy, met>>

\* INSERT of the version row, which is there if another process was faster.
Record(s) ==
    /\ at[s] = "apply"
    /\ todo[s][2] = <<>>
    /\ recorded' = recorded \cup {todo[s][1]}
    /\ Goto(s, IF todo[s][1] \in recorded THEN "off" ELSE "check")
    /\ UNCHANGED <<backend, env, file, keys, secret, todo, shape, sealedBy, faults, signedBy, met,
                   swallowed>>

Die(s) ==
    /\ at[s] # "off"
    /\ faults < MaxFaults
    /\ faults' = faults + 1
    /\ Goto(s, "off")
    /\ UNCHANGED <<backend, env, file, keys, secret, todo, databaseVars, signedBy, met, swallowed>>

----------------------------------------------------------------------------
(* A server that is up: the vault and the sessions.                        *)

StoreCredential(s) ==
    /\ at[s] = "up"
    /\ shape["credentials"] = 3
    /\ sealedBy' = {secret[s]["vault"]}
    /\ UNCHANGED <<backend, env, file, keys, processVars, shape, recorded, faults, signedBy, met,
                   swallowed>>

DeleteCredential(s) ==
    /\ at[s] = "up"
    /\ shape["credentials"] = 3 /\ sealedBy # {}
    /\ sealedBy' = {}
    /\ UNCHANGED <<backend, env, file, keys, processVars, shape, recorded, faults, signedBy, met,
                   swallowed>>

Login(s) ==
    /\ at[s] = "up"
    /\ shape["users"] # 0
    /\ signedBy' = {secret[s]["jwt"]}
    /\ UNCHANGED <<backend, env, file, keys, processVars, databaseVars, faults, met, swallowed>>

Resolving(s) == \E k \in Secret : Load(s, k) \/ CreateFile(s, k) \/ WriteFile(s, k)
Migrating(s) == Check(s) \/ Apply(s) \/ Record(s)

StartNext ==
    \/ \E s \in Server :
          \/ Launch(s) \/ Resolving(s) \/ Migrating(s) \/ Die(s)
          \/ StoreCredential(s) \/ DeleteCredential(s) \/ Login(s)
    \/ \E k \in Secret : OperatorDeletesTornFile(k)

\* Every process that is off is started again, a started one goes on, and the
\* operator does as told.
StartFairness ==
    /\ \A s \in Server : WF_startVars(Launch(s) \/ Resolving(s) \/ Migrating(s))
    /\ \A k \in Secret : WF_startVars(OperatorDeletesTornFile(k))

----------------------------------------------------------------------------
(* Properties.                                                             *)

(***************************************************************************)
(* A restart never makes a stored credential unreadable or logs a user out: *)
(* every server that is up holds the keys the credential was sealed with    *)
(* and the session was signed with (secrets.rs: the first start writes the  *)
(* secrets and later starts reuse them), wherever earlier starts died and   *)
(* whoever else was starting.                                               *)
(***************************************************************************)
SecretsSurvive ==
    \A s \in Server : at[s] = "up" =>
        /\ sealedBy \subseteq {secret[s]["vault"]}
        /\ signedBy \subseteq {secret[s]["jwt"]}

(***************************************************************************)
(* Versions are recorded in order, and a server is up only on the newest    *)
(* schema, every table as its last migration shapes it: also if earlier     *)
(* starts died between two statements, or between the last one and the      *)
(* version row.  Not so if processes started at the same time, and not if   *)
(* SQLite forgave a statement of V2 that really failed.                     *)
(***************************************************************************)
RecordedIsApplied ==
    met \/ swallowed \/
    /\ \A v \in recorded : 1 .. v \subseteq recorded
    /\ (\E s \in Server : at[s] = "up") => recorded = Version /\ shape = Newest

(***************************************************************************)
(* A stored credential goes only when its user deletes it; the DROP of V3   *)
(* meets one only if another process was started meanwhile.                 *)
(***************************************************************************)
CredentialsStay ==
    sealedBy # {} /\ sealedBy' = {} => met \/ \E s \in Server : DeleteCredential(s)

(***************************************************************************)
(* Neither a restart nor a migration costs a user a secret: no step leads    *)
(* to a state in which one is lost (at first there are none).               *)
(***************************************************************************)
SecretsAreKept == [][SecretsSurvive' /\ CredentialsStay]_startVars

(***************************************************************************)
(* However often a start dies or fails, the next ones go through: no        *)
(* sequence of crashes leaves a database or a data directory on which no    *)
(* server comes up.                                                         *)
(***************************************************************************)
ServesAgain == []<>(\E s \in Server : at[s] = "up")
=============================================================================
