---------------------------- MODULE StartupProofs ----------------------------
(***************************************************************************)
(* Theorems about Startup, for any number of API tasks and workers and any *)
(* number of rotations, crashes and lost connections.                      *)
(***************************************************************************)
EXTENDS Startup, TLAPS

(* Whoever has seen the schema has seen what is there. *)
SeenIsThere == seen # {} => schema

(* A task past the upgrade has seen it. *)
PastIsSeen == \A t \in Tasks : pc[t] \in {"unlocking", "serving"} => t \in seen

PollersSawIt == \A w \in Workers : pc[w] = "polling" => schema

(* An upgrade goes on without its lock only when its connection was lost. *)
UnlockedIsDropped ==
    \A t \in Tasks : pc[t] \in Upgrading /\ t \notin session => "dropped" \in outcomes

(* A migration that will fail has lost its lock, or another has. *)
CreatorIsFirst ==
    \A t \in Tasks : pc[t] = "creating" /\ schema => "dropped" \in outcomes

StartupInv ==
    /\ StartupTypeOK
    /\ SeenIsThere /\ PastIsSeen /\ PollersSawIt
    /\ LockIsTheUpgraders /\ UnlockedIsDropped /\ CreatorIsFirst
    /\ MigrationsAreSerial

-----------------------------------------------------------------------------
USE StartupAssumption, LockAssumption DEF Upgrading, TaskStates, WorkerStates, Free, Orphaned

LEMMA InitStartup == StartupInit => StartupInv
  BY DEF StartupInit, StartupInv, StartupTypeOK, SeenIsThere, PastIsSeen, PollersSawIt,
         LockIsTheUpgraders, UnlockedIsDropped, CreatorIsFirst, MigrationsAreSerial

LEMMA TypeStep ==
    ASSUME StartupInv, [StartupNext]_startupVars
    PROVE  StartupTypeOK'
<1> USE DEF StartupTypeOK, dbVars, taskVars, historyVars
<1>0. StartupTypeOK
  BY DEF StartupInv
<1>1. ASSUME NEW t \in Tasks, TaskStarts(t)
      PROVE  StartupTypeOK'
  <2>1. CASE Import(t)
    BY <1>0, <2>1 DEF Import, Goes
  <2>2. ASSUME Exit(t), lock' \in Tasks \cup {"free", "orphaned"}
        PROVE  StartupTypeOK'
    BY <1>0, <2>2 DEF Exit
  <2>3. CASE Connect(t)
    BY <1>0, <2>2, <2>3 DEF Connect
  <2>4. CASE AcquireLock(t)
    BY <1>0, <2>4 DEF AcquireLock, Goes
  <2>5. CASE LockFails(t)
    BY <1>0, <2>2, <2>5 DEF LockFails
  <2>6. CASE ConnectAlembic(t)
    BY <1>0, <2>6 DEF ConnectAlembic, Goes
  <2>7. CASE ReadRevision(t)
    BY <1>0, <2>7 DEF ReadRevision, Goes
  <2>8. CASE Create(t)
    BY <1>0, <2>8 DEF Create, Goes
  <2>9. CASE Unlock(t)
    BY <1>0, <2>9 DEF Unlock, Goes
  <2>10. CASE StartFails(t)
    BY <1>0, <2>2, <2>10 DEF StartFails
  <2>11. QED
    BY <1>1, <2>1, <2>3, <2>4, <2>5, <2>6, <2>7, <2>8, <2>9, <2>10 DEF TaskStarts
<1>2. ASSUME NEW t \in Tasks, Request(t)
      PROVE  StartupTypeOK'
  BY <1>0, <1>2 DEF Request
<1>3. ASSUME NEW x \in Tasks \cup Workers, Kill(x)
      PROVE  StartupTypeOK'
  BY <1>0, <1>3 DEF Kill
<1>4. ASSUME NEW t \in Tasks, Drop(t)
      PROVE  StartupTypeOK'
  BY <1>0, <1>4 DEF Drop
<1>5. ASSUME NEW w \in Workers, WorkerStarts(w) \/ Deadline(w) \/ Work(w)
      PROVE  StartupTypeOK'
  <2>1. CASE StartWorker(w)
    BY <1>0, <2>1 DEF StartWorker, Goes
  <2>2. CASE Fetch(w)
    BY <1>0, <2>2 DEF Fetch, Goes
  <2>3. CASE Probe(w)
    BY <1>0, <2>3 DEF Probe, Goes
  <2>4. CASE Deadline(w)
    BY <1>0, <2>4 DEF Deadline
  <2>5. CASE Work(w)
    BY <1>0, <2>5 DEF Work
  <2>6. QED
    BY <1>5, <2>1, <2>2, <2>3, <2>4, <2>5 DEF WorkerStarts
<1>6. CASE RotateSecret \/ RotateDatabase
  <2>1. /\ secret' \in 0 .. MaxRotations /\ dbPassword' \in 0 .. MaxRotations
        /\ UNCHANGED <<schema, lock, session, seen, pc, password, refused, late, faults, outcomes>>
    BY <1>0, <1>6, SMT DEF RotateSecret, RotateDatabase
  <2>2. QED
    BY <1>0, <2>1
<1>7. CASE ServerNotices
  BY <1>0, <1>7 DEF ServerNotices
<1>8. CASE UNCHANGED startupVars
  BY <1>0, <1>8 DEF startupVars
<1>9. QED
  BY <1>1, <1>2, <1>3, <1>4, <1>5, <1>6, <1>7, <1>8 DEF StartupNext

(* The schema never goes, and who has seen it is known to have. *)
LEMMA SchemaStep ==
    ASSUME StartupInv, [StartupNext]_startupVars
    PROVE  SeenIsThere' /\ PastIsSeen' /\ PollersSawIt'
<1> USE DEF StartupInv, StartupTypeOK, SeenIsThere, PastIsSeen, PollersSawIt,
            dbVars, taskVars, historyVars
<1>1. ASSUME NEW t \in Tasks, TaskStarts(t)
      PROVE  SeenIsThere' /\ PastIsSeen' /\ PollersSawIt'
  <2>1. CASE Import(t)
    BY <2>1 DEF Import, Goes
  <2>2. CASE Exit(t)
    BY <2>2 DEF Exit
  <2>3. CASE Connect(t)
    BY <2>2, <2>3 DEF Connect
  <2>4. CASE AcquireLock(t)
    BY <2>4 DEF AcquireLock, Goes
  <2>5. CASE LockFails(t) \/ StartFails(t)
    BY <2>2, <2>5 DEF LockFails, StartFails
  <2>6. CASE ConnectAlembic(t)
    BY <2>6 DEF ConnectAlembic, Goes
  <2>7. CASE ReadRevision(t)
    BY <2>7 DEF ReadRevision, Goes
  <2>8. CASE Create(t)
    BY <2>8 DEF Create, Goes
  <2>9. CASE Unlock(t)
    BY <2>9 DEF Unlock, Goes
  <2>10. QED
    BY <1>1, <2>1, <2>3, <2>4, <2>5, <2>6, <2>7, <2>8, <2>9 DEF TaskStarts
<1>2. ASSUME NEW t \in Tasks, Request(t) \/ Drop(t)
      PROVE  SeenIsThere' /\ PastIsSeen' /\ PollersSawIt'
  BY <1>2 DEF Request, Drop
<1>3. ASSUME NEW x \in Tasks \cup Workers, Kill(x)
      PROVE  SeenIsThere' /\ PastIsSeen' /\ PollersSawIt'
  BY <1>3 DEF Kill
<1>4. ASSUME NEW w \in Workers, WorkerStarts(w) \/ Deadline(w) \/ Work(w)
      PROVE  SeenIsThere' /\ PastIsSeen' /\ PollersSawIt'
  BY <1>4 DEF WorkerStarts, StartWorker, Fetch, Probe, Deadline, Work, Goes
<1>5. CASE RotateSecret \/ RotateDatabase \/ ServerNotices
  BY <1>5 DEF RotateSecret, RotateDatabase, ServerNotices
<1>6. CASE UNCHANGED startupVars
  BY <1>6 DEF startupVars
<1>7. QED
  BY <1>1, <1>2, <1>3, <1>4, <1>5, <1>6 DEF StartupNext

(* The lock goes in with the upgrade and out with it. *)
LEMMA LockStep ==
    ASSUME StartupInv, [StartupNext]_startupVars
    PROVE  LockIsTheUpgraders' /\ UnlockedIsDropped'
<1> USE DEF StartupInv, StartupTypeOK, LockIsTheUpgraders, UnlockedIsDropped,
            dbVars, taskVars, historyVars
<1>1. ASSUME NEW t \in Tasks, TaskStarts(t)
      PROVE  LockIsTheUpgraders' /\ UnlockedIsDropped'
  <2>1. CASE Import(t)
    BY <2>1 DEF Import, Goes
  <2>2. CASE Connect(t)
    BY <2>2 DEF Connect, Exit
  <2>3. CASE AcquireLock(t)
    BY <2>3 DEF AcquireLock, Goes
  <2>4. CASE LockFails(t)
    BY <2>4 DEF LockFails, Exit
  <2>5. CASE ConnectAlembic(t)
    BY <2>5 DEF ConnectAlembic, Goes
  <2>6. CASE ReadRevision(t)
    BY <2>6 DEF ReadRevision, Goes
  <2>7. CASE Create(t)
    BY <2>7 DEF Create, Goes
  <2>8. CASE Unlock(t)
    BY <2>8 DEF Unlock, Goes
  <2>9. CASE StartFails(t)
    BY <2>9 DEF StartFails, Exit
  <2>10. QED
    BY <1>1, <2>1, <2>2, <2>3, <2>4, <2>5, <2>6, <2>7, <2>8, <2>9 DEF TaskStarts
<1>2. ASSUME NEW t \in Tasks, Request(t)
      PROVE  LockIsTheUpgraders' /\ UnlockedIsDropped'
  BY <1>2 DEF Request
<1>3. ASSUME NEW t \in Tasks, Drop(t)
      PROVE  LockIsTheUpgraders' /\ UnlockedIsDropped'
  BY <1>3 DEF Drop
<1>4. ASSUME NEW x \in Tasks \cup Workers, Kill(x)
      PROVE  LockIsTheUpgraders' /\ UnlockedIsDropped'
  BY <1>4 DEF Kill
<1>5. ASSUME NEW w \in Workers, WorkerStarts(w) \/ Deadline(w) \/ Work(w)
      PROVE  LockIsTheUpgraders' /\ UnlockedIsDropped'
  BY <1>5 DEF WorkerStarts, StartWorker, Fetch, Probe, Deadline, Work, Goes
<1>6. CASE RotateSecret \/ RotateDatabase \/ ServerNotices
  BY <1>6 DEF RotateSecret, RotateDatabase, ServerNotices
<1>7. CASE UNCHANGED startupVars
  BY <1>7 DEF startupVars
<1>8. QED
  BY <1>1, <1>2, <1>3, <1>4, <1>5, <1>6, <1>7 DEF StartupNext

(* Two tasks that are both creating cannot both hold the lock. *)
LEMMA SerialStep ==
    ASSUME StartupInv, [StartupNext]_startupVars
    PROVE  CreatorIsFirst' /\ MigrationsAreSerial'
<1> USE DEF StartupInv, StartupTypeOK, CreatorIsFirst, MigrationsAreSerial,
            dbVars, taskVars, historyVars
<1>1. ASSUME NEW t \in Tasks, Create(t)
      PROVE  CreatorIsFirst' /\ MigrationsAreSerial'
  <2>1. ASSUME NEW u \in Tasks, u # t, pc[u] = "creating"
        PROVE  "dropped" \in outcomes
    BY <1>1, <2>1 DEF LockIsTheUpgraders, UnlockedIsDropped, Create, Goes
  <2>2. QED
    BY <1>1, <2>1 DEF Create, Goes
<1>2. ASSUME NEW t \in Tasks, TaskStarts(t), ~Create(t)
      PROVE  CreatorIsFirst' /\ MigrationsAreSerial'
  BY <1>2 DEF TaskStarts, Import, Connect, Exit, AcquireLock, LockFails, ConnectAlembic,
              ReadRevision, Unlock, StartFails, Goes
<1>3. ASSUME NEW t \in Tasks, Request(t) \/ Drop(t)
      PROVE  CreatorIsFirst' /\ MigrationsAreSerial'
  BY <1>3 DEF Request, Drop
<1>4. ASSUME NEW x \in Tasks \cup Workers, Kill(x)
      PROVE  CreatorIsFirst' /\ MigrationsAreSerial'
  BY <1>4 DEF Kill
<1>5. ASSUME NEW w \in Workers, WorkerStarts(w) \/ Deadline(w) \/ Work(w)
      PROVE  CreatorIsFirst' /\ MigrationsAreSerial'
  BY <1>5 DEF WorkerStarts, StartWorker, Fetch, Probe, Deadline, Work, Goes
<1>6. CASE RotateSecret \/ RotateDatabase \/ ServerNotices
  BY <1>6 DEF RotateSecret, RotateDatabase, ServerNotices
<1>7. CASE UNCHANGED startupVars
  BY <1>7 DEF startupVars
<1>8. QED
  BY <1>1, <1>2, <1>3, <1>4, <1>5, <1>6, <1>7 DEF StartupNext

(* The inductive invariant of coming up (db.py 29-51, main.py 47-92). *)
THEOREM StartupIsInvariant == StartupSpec => []StartupInv
<1>1. ASSUME StartupInv, [StartupNext]_startupVars
      PROVE  StartupInv'
  BY <1>1, TypeStep, SchemaStep, LockStep, SerialStep DEF StartupInv
<1>2. QED
  BY <1>1, InitStartup, PTL DEF StartupSpec

(* Every task and worker is in one of its states, and the lock is free, an *)
(* orphan's or a task's.                                                   *)
THEOREM StartupTypeCorrect == StartupSpec => []StartupTypeOK
<1>1. StartupInv => StartupTypeOK
  BY DEF StartupInv
<1>2. QED
  BY <1>1, StartupIsInvariant, PTL

(* Nobody serves or polls before the schema is at head. *)
THEOREM ServingHasSchemaAlways == StartupSpec => []ServingHasSchema
<1>1. StartupInv => ServingHasSchema
  BY DEF StartupInv, SeenIsThere, PastIsSeen, PollersSawIt, ServingHasSchema
<1>2. QED
  BY <1>1, StartupIsInvariant, PTL

(* Two migrations fight only after a connection that held the lock is lost. *)
THEOREM MigrationsAreSerialAlways == StartupSpec => []MigrationsAreSerial
<1>1. StartupInv => MigrationsAreSerial
  BY DEF StartupInv
<1>2. QED
  BY <1>1, StartupIsInvariant, PTL

(* The lock is held by the task inside the upgrade and by no other. *)
THEOREM LockIsTheUpgradersAlways == StartupSpec => []LockIsTheUpgraders
<1>1. StartupInv => LockIsTheUpgraders
  BY DEF StartupInv
<1>2. QED
  BY <1>1, StartupIsInvariant, PTL
=============================================================================
