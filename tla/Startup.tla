------------------------------- MODULE Startup -------------------------------
(***************************************************************************)
(* How the tasks come up.  Every API task reads the database password when *)
(* it is imported, takes PostgreSQL's advisory lock, runs Alembic on a     *)
(* connection of its own, and then serves (backend/app/db.py, main.py,     *)
(* config.py, alembic/env.py).  Every worker waits for the documents table *)
(* and then polls, reading the password for each connection                *)
(* (worker/consumer/main.py).  RDS rotates the password meanwhile, tasks   *)
(* die and are replaced, and connections drop.                             *)
(*                                                                         *)
(* A password is the number of rotations before it.                        *)
(***************************************************************************)
EXTENDS Integers

CONSTANTS
    Tasks,          \* API tasks
    Workers,
    MaxRotations,   \* bound of the model: rotations of the password
    MaxFaults       \* bound of the model: tasks killed, connections dropped

ASSUME StartupAssumption ==
    Tasks \cap Workers = {} /\ MaxRotations \in Nat /\ MaxFaults \in Nat

Free == "free"
Orphaned == "orphaned"   \* held by a connection whose client is gone

ASSUME LockAssumption == Free \notin Tasks /\ Orphaned \notin Tasks

VARIABLES
    dbPassword,     \* the password PostgreSQL accepts
    secret,         \* the password Secrets Manager tells
    schema,         \* the migration has committed
    lock,           \* the advisory lock: a task, Free or Orphaned
    pc,             \* where each task and worker is
    password,       \* API: cached by _db_password; worker: last fetched
    session,        \* tasks whose pooled connection is alive
    seen,           \* tasks whose Alembic has found the schema at head
    refused,        \* whose last connection failed to authenticate
    late,           \* workers past the deadline of wait_for_schema
    faults,
    outcomes        \* history: "clash", a migration met another's tables;
                    \* "dropped", a connection was lost during a migration

dbVars == <<dbPassword, secret, schema>>
taskVars == <<lock, session, seen>>
historyVars == <<faults, outcomes>>
startupVars == <<dbVars, taskVars, pc, password, refused, late, historyVars>>

Upgrading == {"connecting", "reading", "creating", "raising", "unlocking"}
TaskStates == {"down", "starting", "locking", "serving"} \cup Upgrading
WorkerStates == {"down", "fetching", "probing", "polling"}

StartupTypeOK ==
    /\ dbPassword \in 0 .. MaxRotations /\ secret \in 0 .. MaxRotations
    /\ schema \in BOOLEAN
    /\ lock \in Tasks \cup {Free, Orphaned}
    /\ pc \in [Tasks \cup Workers -> TaskStates \cup WorkerStates]
    /\ \A t \in Tasks : pc[t] \in TaskStates
    /\ \A w \in Workers : pc[w] \in WorkerStates
    /\ password \in [Tasks \cup Workers -> 0 .. MaxRotations]
    /\ session \subseteq {t \in Tasks : pc[t] \notin {"down", "starting"}}
    /\ seen \subseteq {t \in Tasks : pc[t] \in {"unlocking", "serving"}}
    /\ refused \subseteq Tasks \cup Workers
    /\ late \subseteq Workers
    /\ faults \in 0 .. MaxFaults
    /\ outcomes \subseteq {"clash", "dropped"}

(* A new environment, or one whose schema another release has created. *)
StartupInit ==
    /\ dbPassword = 0 /\ secret = 0
    /\ schema \in BOOLEAN
    /\ lock = Free
    /\ pc = [x \in Tasks \cup Workers |-> "down"]
    /\ password = [x \in Tasks \cup Workers |-> 0]
    /\ session = {} /\ seen = {} /\ refused = {} /\ late = {}
    /\ faults = 0
    /\ outcomes = {}

Goes(x, from, to) == pc[x] = from /\ pc' = [pc EXCEPT ![x] = to]

Accepts(x) == password[x] = dbPassword

-----------------------------------------------------------------------------
(* An API task. *)

(* Mutant: the engine's first connection is made at import. *)
ImportConnects(t) ==
    /\ Goes(t, "down", "starting")
    /\ password' = [password EXCEPT ![t] = secret]
    /\ session' = session \cup {t}
    /\ UNCHANGED <<dbVars, lock, seen, refused, late, historyVars>>

(* Importing db.py builds the engine, with the password of now. *)
Import(t) ==
    /\ Goes(t, "down", "starting")
    /\ password' = [password EXCEPT ![t] = secret]
    /\ UNCHANGED <<dbVars, taskVars, refused, late, historyVars>>

(* The process ends; its connections close, and with them the lock. *)
Exit(t) ==
    /\ pc' = [pc EXCEPT ![t] = "down"]
    /\ session' = session \ {t}
    /\ seen' = seen \ {t}
    /\ refused' = refused \ {t}
    /\ UNCHANGED <<dbVars, password, late, historyVars>>

(* engine.connect() of run_migrations. *)
Connect(t) ==
    /\ pc[t] = "starting"
    /\ \/ /\ Accepts(t)
          /\ pc' = [pc EXCEPT ![t] = "locking"]
          /\ session' = session \cup {t}
          /\ UNCHANGED <<dbVars, lock, seen, password, refused, late, historyVars>>
       \/ ~Accepts(t) /\ Exit(t) /\ UNCHANGED lock

(* Mutant: pg_try_advisory_lock, whose answer is not looked at. *)
AcquireLockIfFree(t) ==
    /\ Goes(t, "locking", IF lock = Free THEN "connecting" ELSE "serving")
    /\ t \in session
    /\ lock' = IF lock = Free THEN t ELSE lock
    /\ UNCHANGED <<dbVars, session, seen, password, refused, late, historyVars>>

(* Mutant: upgrade() is called without the lock. *)
AcquireNoLock(t) ==
    /\ Goes(t, "locking", "connecting")
    /\ UNCHANGED <<dbVars, taskVars, password, refused, late, historyVars>>

(* pg_advisory_lock: waits for whoever holds it. *)
AcquireLock(t) ==
    /\ Goes(t, "locking", "connecting")
    /\ t \in session
    /\ lock = Free
    /\ lock' = t
    /\ UNCHANGED <<dbVars, session, seen, password, refused, late, historyVars>>

(* It raises where the connection has gone. *)
LockFails(t) ==
    /\ pc[t] = "locking"
    /\ t \notin session
    /\ Exit(t)
    /\ UNCHANGED lock

(* env.py connects again, outside the pool, with the cached password. *)
ConnectAlembic(t) ==
    /\ Goes(t, "connecting", IF Accepts(t) THEN "reading" ELSE "raising")
    /\ UNCHANGED <<dbVars, taskVars, password, refused, late, historyVars>>

(* Alembic reads the revision the database is at, *)
ReadRevision(t) ==
    /\ Goes(t, "reading", IF schema THEN "unlocking" ELSE "creating")
    /\ seen' = IF schema THEN seen \cup {t} ELSE seen
    /\ UNCHANGED <<dbVars, lock, session, password, refused, late, historyVars>>

(* and applies what is missing in one transaction, which fails where the   *)
(* tables exist by now.                                                    *)
Create(t) ==
    /\ Goes(t, "creating", IF schema THEN "raising" ELSE "unlocking")
    /\ schema' = TRUE
    /\ seen' = IF schema THEN seen ELSE seen \cup {t}
    /\ outcomes' = IF schema THEN outcomes \cup {"clash"} ELSE outcomes
    /\ UNCHANGED <<dbPassword, secret, lock, session, password, refused, late, faults>>

(* Mutant: the lock is left to the connection, which goes to the pool. *)
NoUnlock(t) ==
    /\ Goes(t, "unlocking", "serving")
    /\ UNCHANGED <<dbVars, taskVars, password, refused, late, historyVars>>

(* The finally block, and the lifespan's yield. *)
Unlock(t) ==
    /\ Goes(t, "unlocking", "serving")
    /\ t \in session
    /\ lock' = Free
    /\ UNCHANGED <<dbVars, session, seen, password, refused, late, historyVars>>

(* The upgrade has raised, or unlocking does: the application does not start. *)
StartFails(t) ==
    /\ pc[t] = "raising" \/ (pc[t] = "unlocking" /\ t \notin session)
    /\ lock' = IF lock = t THEN Free ELSE lock
    /\ Exit(t)

(* A request uses a pooled connection that pool_pre_ping found alive, or   *)
(* opens one with the URL of the engine.                                   *)
Request(t) ==
    /\ pc[t] = "serving"
    /\ \/ t \in session /\ refused' = refused \ {t} /\ UNCHANGED session
       \/ Accepts(t) /\ session' = session \cup {t} /\ refused' = refused \ {t}
       \/ ~Accepts(t) /\ refused' = refused \cup {t} /\ UNCHANGED session
    /\ UNCHANGED <<dbVars, lock, seen, pc, password, late, historyVars>>

-----------------------------------------------------------------------------
(* A worker. *)

StartWorker(w) ==
    /\ Goes(w, "down", "fetching")
    /\ late' = late \ {w}
    /\ UNCHANGED <<dbVars, taskVars, password, refused, historyVars>>

(* _db_password, for every connection. *)
Fetch(w) ==
    /\ Goes(w, "fetching", "probing")
    /\ password' = [password EXCEPT ![w] = secret]
    /\ UNCHANGED <<dbVars, taskVars, refused, late, historyVars>>

(* Mutant: connecting is enough. *)
ProbeConnects(w) ==
    /\ Goes(w, "probing", IF Accepts(w) THEN "polling"
                          ELSE IF w \in late THEN "down" ELSE "fetching")
    /\ UNCHANGED <<dbVars, taskVars, password, refused, late, historyVars>>

(* SELECT 1 FROM documents; an error is raised only past the deadline. *)
Probe(w) ==
    /\ Goes(w, "probing", IF Accepts(w) /\ schema THEN "polling"
                          ELSE IF w \in late THEN "down" ELSE "fetching")
    /\ UNCHANGED <<dbVars, taskVars, password, refused, late, historyVars>>

Deadline(w) ==
    /\ pc[w] \in {"fetching", "probing"}
    /\ w \notin late
    /\ late' = late \cup {w}
    /\ UNCHANGED <<dbVars, taskVars, pc, password, refused, historyVars>>

(* Mutant: the password is cached, as the API's is. *)
WorkCached(w) ==
    /\ pc[w] = "polling"
    /\ refused' = IF Accepts(w) THEN refused \ {w} ELSE refused \cup {w}
    /\ UNCHANGED <<dbVars, taskVars, pc, password, late, historyVars>>

(* connect() for a message or the reaper: the secret of now. *)
Work(w) ==
    /\ pc[w] = "polling"
    /\ password' = [password EXCEPT ![w] = secret]
    /\ refused' = IF secret = dbPassword THEN refused \ {w} ELSE refused \cup {w}
    /\ UNCHANGED <<dbVars, taskVars, pc, late, historyVars>>

-----------------------------------------------------------------------------
(* External: RDS changes the secret and the database one after the other,  *)
(* in either order.                                                        *)
RotateSecret ==
    /\ secret < MaxRotations /\ secret <= dbPassword
    /\ secret' = secret + 1
    /\ UNCHANGED <<dbPassword, schema, taskVars, pc, password, refused, late, historyVars>>

RotateDatabase ==
    /\ dbPassword < MaxRotations /\ dbPassword <= secret
    /\ dbPassword' = dbPassword + 1
    /\ UNCHANGED <<secret, schema, taskVars, pc, password, refused, late, historyVars>>

EndRotation ==
    \/ secret < dbPassword /\ RotateSecret
    \/ dbPassword < secret /\ RotateDatabase

(* External: a task is killed or a host is lost; the server may keep the   *)
(* connection, and its lock, for a while.                                  *)
Kill(x) ==
    /\ pc[x] # "down"
    /\ faults < MaxFaults
    /\ faults' = faults + 1
    /\ pc' = [pc EXCEPT ![x] = "down"]
    /\ session' = session \ {x} /\ seen' = seen \ {x} /\ refused' = refused \ {x}
    /\ lock' = IF lock = x THEN Orphaned ELSE lock
    /\ UNCHANGED <<dbVars, password, late, outcomes>>

ServerNotices ==
    /\ lock = Orphaned
    /\ lock' = Free
    /\ UNCHANGED <<dbVars, session, seen, pc, password, refused, late, historyVars>>

(* External: the connection of a living task drops, and its lock with it. *)
Drop(t) ==
    /\ t \in session
    /\ faults < MaxFaults
    /\ faults' = faults + 1
    /\ session' = session \ {t}
    /\ lock' = IF lock = t THEN Free ELSE lock
    /\ outcomes' = IF lock = t THEN outcomes \cup {"dropped"} ELSE outcomes
    /\ UNCHANGED <<dbVars, seen, pc, password, refused, late>>

-----------------------------------------------------------------------------
TaskStarts(t) ==
    \/ Import(t) \/ Connect(t) \/ AcquireLock(t) \/ LockFails(t)
    \/ ConnectAlembic(t) \/ ReadRevision(t) \/ Create(t)
    \/ Unlock(t) \/ StartFails(t)

WorkerStarts(w) == StartWorker(w) \/ Fetch(w) \/ Probe(w)

StartupNext ==
    \/ \E t \in Tasks : TaskStarts(t) \/ Request(t) \/ Kill(t) \/ Drop(t)
    \/ \E w \in Workers : WorkerStarts(w) \/ Deadline(w) \/ Work(w) \/ Kill(w)
    \/ RotateSecret \/ RotateDatabase \/ ServerNotices

StartupSpec == StartupInit /\ [][StartupNext]_startupVars

(* ECS restarts what has exited and processes run; a rotation that began   *)
(* ends, a dead connection is noticed, and requests come.  A task takes    *)
(* the lock once in its life: weak fairness is enough to get it.           *)
StartupFairSpec ==
    /\ StartupSpec
    /\ \A t \in Tasks : WF_startupVars(TaskStarts(t)) /\ WF_startupVars(Request(t))
    /\ \A w \in Workers : WF_startupVars(WorkerStarts(w)) /\ WF_startupVars(Work(w))
    /\ WF_startupVars(EndRotation) /\ WF_startupVars(ServerNotices)

-----------------------------------------------------------------------------
(* Nobody uses a table that is not there: a task that serves has seen the  *)
(* schema at head, and a worker polls only when it exists, whoever made    *)
(* it and whoever died doing so (db.py 40-51, main.py 73-92).              *)
ServingHasSchema ==
    /\ \A t \in Tasks : pc[t] = "serving" => schema /\ t \in seen
    /\ \A w \in Workers : pc[w] = "polling" => schema

(* Two migrations never fight over the same tables, unless the connection  *)
(* that held the lock was lost in the middle of one (db.py 29-37).         *)
MigrationsAreSerial == "clash" \in outcomes => "dropped" \in outcomes

(* While its connection lives, a task inside the upgrade is the one that   *)
(* has the lock; and nobody has it elsewhere, so no failure, password that *)
(* was rotated or retry leaves it behind (the finally of db.py 46-51).     *)
LockIsTheUpgraders ==
    \A t \in Tasks : lock = t <=> (pc[t] \in Upgrading /\ t \in session)

(* Whatever dies or is rotated while it comes up, the system comes up:     *)
(* every task serves, every worker polls, and stays so.                    *)
EverybodyComesUp ==
    <>[](/\ \A t \in Tasks : pc[t] = "serving"
         /\ \A w \in Workers : pc[w] = "polling")

FollowsRotation(x) == (x \in refused) ~> (x \notin refused)

(* A worker that a rotation shuts out is let in again (main.py 57-70). *)
WorkersFollowRotation == \A w \in Workers : FollowsRotation(w)

(* "Called once on an authentication error", so that "the next connection  *)
(* refetches" the password: an API task that a rotation shuts out is let   *)
(* in again (config.py 83-88, docs/ARCHITECTURE.md 715).                   *)
TasksFollowRotation == \A t \in Tasks : FollowsRotation(t)
=============================================================================
