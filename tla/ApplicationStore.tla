-------------------------- MODULE ApplicationStore --------------------------
(***************************************************************************)
(* The SQLite file one or more queue managers share                        *)
(* (src/autoapply/store.ts, src/autoapply/autoaply.ts).  A manager is one   *)
(* instance of AutoaplyQueueManager in one operating system process; its    *)
(* owner is the UUID its ApplicationStore draws.  Every SQL transaction     *)
(* (BEGIN IMMEDIATE ... COMMIT) is one atomic step; what a manager does     *)
(* between two transactions is interleaved with the other managers, with    *)
(* crashes and with the operating system giving a dead pid to a stranger.   *)
(*                                                                          *)
(* The manager keeps a cache of the rows and works on it: a call first runs *)
(* list() (recover the file, reload the cache: action Begin) and then       *)
(* decides on the cached job and writes it back (action Commit).  Nothing   *)
(* in the UPDATE of save() looks at what the row holds by then; that the    *)
(* write never destroys a newer state is a property of the worker lock,     *)
(* which worker.ts takes and the command line and the scripts do not.       *)
(***************************************************************************)
EXTENDS Naturals, FiniteSets

CONSTANTS
  Owners,   \* manager instances; each is constructed at most once
  Unlocked, \* those of cli.ts and of the scripts: they never take the lock
  Jobs,     \* queue ids
  Keys,     \* canonical requisitions
  KeyOf,    \* the requisition an id stands for
  NoOne     \* SQL NULL, and "no job"

ASSUME OwnersAssumption ==
  Unlocked \subseteq Owners /\ NoOne \notin Owners /\ NoOne \notin Jobs
ASSUME KeyAssumption == KeyOf \in [Jobs -> Keys]

VARIABLES
  phase,     \* the life of each manager's process
  workers,   \* table workers: the registered owners
  lock,      \* metadata row active_worker_owner
  row,       \* table applications: status and owner
  cache,     \* each manager's in-memory queue: the status it last read
  call,      \* each manager's call between its list() and its write
  running    \* the job each manager's processNext is awaiting

vars == <<phase, workers, lock, row, cache, call, running>>

Statuses == {"none", "queued", "applying", "applied", "skipped", "failed",
             "paused_for_review"}
Phases == {"new", "opening", "open", "refused", "locked", "closed", "crashed",
           "recycled"}
Kinds == {"enqueue", "claim", "persist", "applied", "failed", "skip", "pause",
          "dismiss", "reopen", "retry_reviewed", "thumbs_down"}

Idle == [kind |-> "idle", job |-> NoOne]
Calls == {Idle} \cup [kind : Kinds, job : Jobs]
Rows == [status : Statuses, owner : Owners \cup {NoOne}]

Serving == {"open", "locked"}                     \* may list the rows
Registered == {"open", "refused", "locked"}       \* alive, between insert and close
Alive == Registered \cup {"opening"}

Empty == [status |-> "none", owner |-> NoOne]

\* A manager whose program has got as far as calling it.
Working(o) == phase[o] = IF o \in Unlocked THEN "open" ELSE "locked"

-----------------------------------------------------------------------------
(* What the SQL does. *)

\* Mutant of Dead: a missed heartbeat counts as death.
Silent == {o \in workers : phase[o] \in {"crashed", "locked"}}

\* recover() probes each registered pid with signal 0.  A recycled pid answers.
Dead == {o \in workers : phase[o] = "crashed"}

Paused(r) == [r EXCEPT !.status = "paused_for_review", !.owner = NoOne]

\* Mutant of Recovered: the claims of the dead workers are not released.
RecoveredOwnerless(expired) ==
  [j \in Jobs |->
     IF row[j].status = "applying" /\ j \in expired /\ row[j].owner = NoOne
     THEN Paused(row[j]) ELSE row[j]]

\* Mutant of Recovered: an expired lease alone releases a claim.
RecoveredByLease(expired) ==
  [j \in Jobs |->
     IF row[j].status = "applying" /\ (row[j].owner \in Dead \/ j \in expired)
     THEN Paused(row[j]) ELSE row[j]]

\* The rows after recover(): the claims of dead workers and, among the rows
\* whose lease ran out, those whose owner is not a registered worker.  Owner
\* and lease are set and cleared together, and a NULL lease never runs out.
Recovered(expired) ==
  [j \in Jobs |->
     IF /\ row[j].status = "applying"
        /\ \/ row[j].owner \in Dead
           \/ /\ j \in expired /\ row[j].owner # NoOne
              /\ row[j].owner \notin workers \ Dead
     THEN Paused(row[j]) ELSE row[j]]

\* The UPDATE of save(): the owner column survives only in status applying.
Saved(j, status) ==
  [row EXCEPT ![j] = [status |-> status,
                      owner |-> IF status = "applying" THEN @.owner ELSE NoOne]]

\* Mutant of List: rows already in the cache are not read again.
ListNew(o, expired) ==
  /\ workers' = workers \ Dead
  /\ row' = Recovered(expired)
  /\ cache' = [cache EXCEPT ![o] =
                 [j \in Jobs |-> IF @[j] = "none" THEN row'[j].status ELSE @[j]]]

\* recover(), then SELECT every row into the cache of manager o.
List(o, expired) ==
  /\ workers' = workers \ Dead
  /\ row' = Recovered(expired)
  /\ cache' = [cache EXCEPT ![o] = [j \in Jobs |-> row'[j].status]]

-----------------------------------------------------------------------------
(* The life of a manager. *)

Init ==
  /\ phase = [o \in Owners |-> "new"]
  /\ workers = {}
  /\ lock = NoOne
  /\ row = [j \in Jobs |-> Empty]
  /\ cache = [o \in Owners |-> [j \in Jobs |-> "none"]]
  /\ call = [o \in Owners |-> Idle]
  /\ running = [o \in Owners |-> NoOne]

\* The constructor opens the file and recovers it before it registers itself.
Open(o) ==
  /\ phase[o] = "new"
  /\ phase' = [phase EXCEPT ![o] = "opening"]
  /\ \E expired \in SUBSET Jobs : row' = Recovered(expired)
  /\ workers' = workers \ Dead
  /\ UNCHANGED <<lock, cache, call, running>>

Register(o) ==
  /\ phase[o] = "opening"
  /\ phase' = [phase EXCEPT ![o] = "open"]
  /\ workers' = workers \cup {o}
  /\ UNCHANGED <<lock, row, cache, call, running>>

\* list() on its own: the constructor's first load, getPendingQueue, metrics.
Refresh(o) ==
  /\ phase[o] \in Serving
  /\ call[o] = Idle
  /\ \E expired \in SUBSET Jobs : List(o, expired)
  /\ UNCHANGED <<phase, lock, call, running>>

LockTaken(o) == lock # NoOne /\ lock # o /\ lock \in workers

\* A worker that does not get the lock closes its manager and exits.
AcquireWorkerLock(o) ==
  /\ o \notin Unlocked
  /\ phase[o] = "open"
  /\ call[o] = Idle
  /\ IF LockTaken(o)
     THEN phase' = [phase EXCEPT ![o] = "refused"] /\ UNCHANGED lock
     ELSE phase' = [phase EXCEPT ![o] = "locked"] /\ lock' = o
  /\ UNCHANGED <<workers, row, cache, call, running>>

\* Mutant of Close: the UPDATE forgets to compare the owner.
CloseAll(o) ==
  /\ phase[o] \in Registered
  /\ call[o] = Idle
  /\ phase' = [phase EXCEPT ![o] = "closed"]
  /\ row' = [j \in Jobs |->
               IF row[j].status = "applying" THEN Paused(row[j]) ELSE row[j]]
  /\ lock' = IF lock = o THEN NoOne ELSE lock
  /\ workers' = workers \ {o}
  /\ running' = [running EXCEPT ![o] = NoOne]
  /\ UNCHANGED <<cache, call>>

\* close() runs in a finally block, also when a queue call threw mid-job.
Close(o) ==
  /\ phase[o] \in Registered
  /\ call[o] = Idle
  /\ phase' = [phase EXCEPT ![o] = "closed"]
  /\ row' = [j \in Jobs |->
               IF row[j].status = "applying" /\ row[j].owner = o
               THEN Paused(row[j]) ELSE row[j]]
  /\ lock' = IF lock = o THEN NoOne ELSE lock
  /\ workers' = workers \ {o}
  /\ running' = [running EXCEPT ![o] = NoOne]
  /\ UNCHANGED <<cache, call>>

Crash(o) ==
  /\ phase[o] \in Alive
  /\ phase' = [phase EXCEPT ![o] = "crashed"]
  /\ call' = [call EXCEPT ![o] = Idle]
  /\ running' = [running EXCEPT ![o] = NoOne]
  /\ UNCHANGED <<workers, lock, row, cache>>

\* The operating system hands the pid to an unrelated process, which later ends.
RecyclePid(o) ==
  /\ phase[o] = "crashed"
  /\ phase' = [phase EXCEPT ![o] = "recycled"]
  /\ UNCHANGED <<workers, lock, row, cache, call, running>>

StrangerExits(o) ==
  /\ phase[o] = "recycled"
  /\ phase' = [phase EXCEPT ![o] = "crashed"]
  /\ UNCHANGED <<workers, lock, row, cache, call, running>>

-----------------------------------------------------------------------------
(* The calls of the manager. *)

\* Who calls what, and when.  One job is run at a time and the caller that
\* awaited it records its outcome; a worker also settles parked jobs between two
\* runs, and its intake works beside the run.  skip(id, reason) is "skip" as the
\* outcome of a run and "dismiss" when intake rules out the row that enqueue()
\* returned, or a script one of the rows it listed as queued before.  The scripts
\* run a row they once listed without a claim, and record its outcome at any time.
Listed(o, j) == o \in Unlocked /\ running[o] = NoOne /\ cache[o][j] = "queued"

MayCall(o, kind, j) ==
  CASE kind = "enqueue" -> TRUE
    [] kind = "dismiss" -> o \notin Unlocked \/ Listed(o, j)
    [] kind = "reopen" -> o \notin Unlocked
    [] kind = "claim" -> running[o] = NoOne
    [] kind = "retry_reviewed" -> o \in Unlocked /\ running[o] = NoOne
    [] kind = "thumbs_down" -> Listed(o, j)
    [] kind = "persist" -> FALSE
    [] OTHER ->                 \* a parked job, or one intake has moved on since
         \/ running[o] = j \/ o \in Unlocked
         \/ /\ o \notin Unlocked /\ running[o] = NoOne
            /\ cache[o][j] \in {"paused_for_review", "skipped", "queued"}

Begin(o, kind, j) ==
  /\ Working(o)
  /\ call[o] = Idle
  /\ MayCall(o, kind, j)
  /\ \E expired \in SUBSET Jobs : List(o, expired)
  /\ call' = [call EXCEPT ![o] = [kind |-> kind, job |-> j]]
  /\ UNCHANGED <<phase, lock, running>>

Return(o) ==
  /\ call' = [call EXCEPT ![o] = Idle]
  /\ UNCHANGED <<phase, workers, lock>>

\* An early return leaves the store and the cache as they were.
Refuse(o) == Return(o) /\ UNCHANGED <<row, cache>>

Write(o, j, status) ==
  /\ Return(o)
  /\ row' = Saved(j, status)
  /\ cache' = [cache EXCEPT ![o][j] = status]

\* processNext() returns after it has recorded the outcome of its run.
RunEnds(o, j) == running' = [running EXCEPT ![o] = IF @ = j THEN NoOne ELSE @]

\* enqueue(): the cached jobs are searched first, then INSERT OR IGNORE lets
\* the UNIQUE columns decide.
Known(o, j) == \E i \in Jobs : cache[o][i] # "none" /\ KeyOf[i] = KeyOf[j]

\* Mutant of Stored: only the primary key is unique.
StoredId(j) == row[j].status # "none"

Stored(j) == \E i \in Jobs : row[i].status # "none" /\ KeyOf[i] = KeyOf[j]

CommitEnqueue(o, j) ==
  /\ call[o] = [kind |-> "enqueue", job |-> j]
  /\ Return(o) /\ UNCHANGED running
  /\ \/ Known(o, j) /\ UNCHANGED <<row, cache>>
     \/ /\ ~Known(o, j) /\ Stored(j)      \* ignored: the stored row is read back
        /\ \E i \in Jobs :
             /\ row[i].status # "none" /\ KeyOf[i] = KeyOf[j]
             /\ cache' = [cache EXCEPT ![o][i] = row[i].status]
        /\ UNCHANGED row
     \/ /\ ~Known(o, j) /\ ~Stored(j)
        /\ row' = [row EXCEPT ![j] = [Empty EXCEPT !.status = "queued"]]
        /\ cache' = [cache EXCEPT ![o][j] = "queued"]

\* markApplying(): the claim is UPDATE ... WHERE status = 'queued'.
CommitClaim(o, j) ==
  /\ call[o] = [kind |-> "claim", job |-> j]
  /\ UNCHANGED running
  /\ IF cache[o][j] # "queued" \/ row[j].status # "queued"
     THEN Refuse(o)
     ELSE /\ row' = [row EXCEPT ![j] = [status |-> "applying", owner |-> o]]
          /\ call' = [call EXCEPT ![o].kind = "persist"]
          /\ UNCHANGED <<phase, workers, lock, cache>>

CommitPersist(o, j) ==
  /\ call[o] = [kind |-> "persist", job |-> j]
  /\ Write(o, j, "applying")
  /\ running' = [running EXCEPT ![o] = j]

\* markApplied(): an already applied job only has its receipt completed.
CommitApplied(o, j) ==
  /\ call[o] = [kind |-> "applied", job |-> j]
  /\ RunEnds(o, j)
  /\ IF cache[o][j] = "none" THEN Refuse(o) ELSE Write(o, j, "applied")

Outcomes == {[kind |-> "failed", status |-> "failed", ends |-> TRUE],
             [kind |-> "skip", status |-> "skipped", ends |-> TRUE],
             [kind |-> "dismiss", status |-> "skipped", ends |-> FALSE],
             [kind |-> "pause", status |-> "paused_for_review", ends |-> FALSE]}

\* Mutant of CommitOutcome: no early return for an applied job.
CommitAnyOutcome(o, j) ==
  \E outcome \in Outcomes :
    /\ call[o] = [kind |-> outcome.kind, job |-> j]
    /\ IF outcome.ends THEN RunEnds(o, j) ELSE UNCHANGED running
    /\ IF cache[o][j] = "none" THEN Refuse(o) ELSE Write(o, j, outcome.status)

\* markFailed(), pauseForReview() and skip(reason) refuse an applied job.  park()
\* pauses a job before the run that parked it has returned.
CommitOutcome(o, j) ==
  \E outcome \in Outcomes :
    /\ call[o] = [kind |-> outcome.kind, job |-> j]
    /\ IF outcome.ends THEN RunEnds(o, j) ELSE UNCHANGED running
    /\ IF cache[o][j] \in {"none", "applied"}
       THEN Refuse(o) ELSE Write(o, j, outcome.status)

\* reopenAtSource(): only a skipped job, and only for a reason the source undoes.
CommitReopen(o, j) ==
  /\ call[o] = [kind |-> "reopen", job |-> j]
  /\ UNCHANGED running
  /\ \/ Refuse(o)
     \/ cache[o][j] = "skipped" /\ Write(o, j, "queued")

CommitRetryReviewed(o, j) ==
  /\ call[o] = [kind |-> "retry_reviewed", job |-> j]
  /\ UNCHANGED running
  /\ IF cache[o][j] \in {"paused_for_review", "failed"}
     THEN Write(o, j, "queued") ELSE Refuse(o)

\* recordFeedback('thumbs_down') looks at no status at all.
CommitThumbsDown(o, j) ==
  /\ call[o] = [kind |-> "thumbs_down", job |-> j]
  /\ UNCHANGED running
  /\ IF cache[o][j] = "none" THEN Refuse(o) ELSE Write(o, j, "skipped")

Commit(o) ==
  \E j \in Jobs :
    \/ CommitEnqueue(o, j) \/ CommitClaim(o, j) \/ CommitPersist(o, j)
    \/ CommitApplied(o, j) \/ CommitOutcome(o, j) \/ CommitReopen(o, j)
    \/ CommitRetryReviewed(o, j) \/ CommitThumbsDown(o, j)

\* processNext() writes a retry or a pause from the job it claimed long ago,
\* with no list() before it.
WriteBack(o) ==
  \E j \in Jobs, status \in {"queued", "paused_for_review"} :
    /\ Working(o)
    /\ call[o] = Idle
    /\ running[o] = j
    /\ Write(o, j, status)
    /\ RunEnds(o, j)

\* recordFitProbe(): intake dismisses a queued job by a conditional UPDATE that
\* goes past the cache.
RecordFitProbe(o) ==
  \E j \in Jobs :
    /\ o \notin Unlocked /\ Working(o)
    /\ call[o] = Idle
    /\ row[j].status = "queued"
    /\ row' = Saved(j, "skipped")
    /\ UNCHANGED <<phase, workers, lock, cache, call, running>>

-----------------------------------------------------------------------------
Calling(o) == \E kind \in Kinds, j \in Jobs : Begin(o, kind, j)

\* What a live process does when it is given the processor.
Advance(o) ==
  \/ Register(o) \/ Refresh(o) \/ AcquireWorkerLock(o)
  \/ Calling(o) \/ Commit(o) \/ WriteBack(o) \/ RecordFitProbe(o)

Next ==
  \E o \in Owners :
    \/ Open(o) \/ Advance(o) \/ Close(o)
    \/ Crash(o) \/ RecyclePid(o) \/ StrangerExits(o)

Spec == Init /\ [][Next]_vars

\* A live process keeps running; nothing promises that a closed or crashed
\* manager is ever replaced, nor that a stranger gives a pid back.
FairSpec == Spec /\ \A o \in Owners : WF_vars(Advance(o))

-----------------------------------------------------------------------------
(* Properties. *)

\* Every variable keeps its shape, and only a claimed row has an owner.
TypeOK ==
  /\ phase \in [Owners -> Phases]
  /\ workers \subseteq Owners
  /\ lock \in Owners \cup {NoOne}
  /\ row \in [Jobs -> Rows]
  /\ \A j \in Jobs : row[j].status # "applying" => row[j].owner = NoOne
  /\ cache \in [Owners -> [Jobs -> Statuses]]
  /\ call \in [Owners -> Calls]
  /\ running \in [Owners -> Jobs \cup {NoOne}]

\* acquireWorkerLock(): two live processes are never both past the lock,
\* whatever crashes, recycled pids and half-constructed managers surround them.
OneWorker ==
  \A o, p \in Owners : phase[o] = "locked" /\ phase[p] = "locked" => o = p

\* claim(): while a process awaits the run of a job, nobody else has claimed the
\* job and nobody has recorded it as sent.
RunExclusive ==
  \A o \in Owners, j \in Jobs :
    running[o] = j => row[j].owner \in {o, NoOne} /\ row[j].status # "applied"

\* recover() finds a claim again by its owner's registration: an applying row
\* without a registered owner would never be released.
ClaimRegistered ==
  \A j \in Jobs : row[j].status = "applying" => row[j].owner \in workers

\* save() writes what the cache says over whatever the row holds: for the
\* worker it always holds what was cached, so no newer state is lost.
NoLostUpdate ==
  \A o \in Owners :
    phase[o] = "locked" /\ call[o].kind \notin {"idle", "enqueue", "persist"} =>
      LET j == call[o].job
      IN cache[o][j] # "none" => cache[o][j] = row[j].status

\* The UNIQUE columns and enqueue(): one requisition never has two rows, also
\* when two managers enqueue its aliases at once.
OneRowPerRequisition ==
  \A i, j \in Jobs :
    row[i].status # "none" /\ row[j].status # "none" /\ KeyOf[i] = KeyOf[j]
      => i = j

\* markApplied() is final: an application recorded as sent is never queued,
\* claimed, skipped, failed or parked again by a later or a stale write.
AppliedIsFinal ==
  [][\A j \in Jobs : row[j].status = "applied" => row'[j].status = "applied"]_vars

\* recover() "never transfers a claim while that process may be alive": a live
\* owner loses a claim only by its own close() or because somebody saved the row.
OnlyTheDeadAreRobbed ==
  [][\A j \in Jobs, o \in Owners :
       row[j].owner = o /\ row'[j].owner # o =>
         \/ phase[o] = "crashed" \/ phase'[o] = "closed"
         \/ \E p \in Owners :
              \/ call[p].job = j /\ call'[p] # call[p]
              \/ running[p] = j /\ running'[p] # j]_vars

\* recover() in every list(): the claim of a dead worker does not stay applying
\* while some manager keeps using the file, unless a stranger holds its pid.
OrphanReleased ==
  \A o \in Owners, j \in Jobs :
    row[j].owner = o /\ phase[o] = "crashed" ~>
      \/ row[j].owner # o
      \/ phase[o] = "recycled"
      \/ \A p \in Owners : phase[p] \notin Serving
=============================================================================
