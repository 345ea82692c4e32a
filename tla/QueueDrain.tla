----------------------------- MODULE QueueDrain -----------------------------
(***************************************************************************)
(* The unattended scripts that empty the application queue: the overnight   *)
(* marathon (scripts/run-overnight-marathon.ts) and the hourly drain        *)
(* (scripts/drain-backfill-and-hourly.ts), with the repair script that puts *)
(* failed rows back (scripts/reset-overnight-marathon.ts).                  *)
(*                                                                          *)
(* They do not go through the worker: no row is claimed, several lanes run  *)
(* at once, and run() is told retryReviewed, so of a checkpoint it believes *)
(* a confirmation page and nothing else.  What keeps a job from running     *)
(* again is the row, the attempt registry and a counter, in files of their  *)
(* own; what keeps two scripts apart is a pid file.  A script may die at    *)
(* any point and be started again.                                          *)
(*                                                                          *)
(* Which host is ready is left open (session-pool.ts decides it), as are the *)
(* order of the jobs in a lane and what makes a posting ineligible.         *)
(***************************************************************************)
EXTENDS Naturals, FiniteSets

CONSTANTS
  Jobs,       \* queue ids
  LaneOf,     \* partitionJobsIntoProviderLanes(): the browser lane of a job
  HostOf,     \* getRateLimitKey(): the host or tenant a chunk takes once
  Procs,      \* script processes
  None,       \* no process, no job
  MaxStarts,  \* bound: scripts started
  MaxSends    \* bound: submit clicks of one job

ASSUME DrainAssumption ==
  None \notin Procs \cup Jobs /\ MaxStarts \in Nat /\ MaxSends \in Nat \ {0}

VARIABLES
  row,        \* status column
  reason,     \* payload.error, as far as the scripts look for it
  retries,    \* payload.retryCount
  attempts,   \* job-attempts.json
  registry,   \* attempted-job-ids.json; Unreadable when the file is of no use
  history,    \* jobs in run-history.jsonl and overnight-errors.jsonl
  journal,    \* in-flight-checkpoint.json
  saved,      \* what the checkpoint.json in a directory shows
  lock,       \* the pid in worker.lock
  script,     \* per process: what it is and how far
  memory,     \* per process: inMemoryRegistry
  todo,       \* per process: jobs of the chunk not begun yet
  run,        \* per process and job: the run and its report
  starts, sent, arrived,   \* history: scripts started, clicks, applications received
  raced                    \* history: two scripts found the lock free, or one of them
                           \* took a live holder for dead

disk == <<row, reason, retries, attempts, registry, history, journal>>
vars == <<row, reason, retries, attempts, registry, history, journal, saved, lock,
          script, memory, todo, run, starts, sent, arrived, raced>>

\* A registry that is no list of jobs.
Unreadable == {None}
Statuses == {"queued", "applied", "paused", "failed", "skipped"}
\* "crash": a hard timeout or a lost browser; "solvable": a validation error, a
\* click without a receipt, and their like.
Reasons == {"none", "crash", "solvable", "other"}
Steps == {"off", "found free", "recovering", "requeueing", "choosing", "lanes"}
Stages == {"none", "open", "timed out", "over", "marked"}
Results == {"none", "submitted", "unproven", "paused", "failed", "skipped",
            "wifi", "queued"}

\* The runner keeps a checkpoint under a hash of the requisition; the audit and
\* the recovery look for it under the queue id.
SessionDir(j) == <<"requisition", j>>
AuditDir(j) == <<"id", j>>
Dirs == {SessionDir(j) : j \in Jobs} \cup {AuditDir(j) : j \in Jobs}

NoRun == [stage |-> "none", clicked |-> FALSE, result |-> "none", why |-> "none"]

Active(p) == script[p].step \in {"recovering", "requeueing", "choosing", "lanes"}
Live(p) == script[p].step # "off"
At(p, step) == script[p].step = step
GoTo(p, step) == script' = [script EXCEPT ![p].step = step]
Stage(p, j) == run[p][j].stage

Init ==
  /\ row = [j \in Jobs |-> "queued"]
  /\ reason = [j \in Jobs |-> "none"]
  /\ retries = [j \in Jobs |-> 0]
  /\ attempts = [j \in Jobs |-> 0]
  /\ registry = Unreadable
  /\ history = {}
  /\ journal = {}
  /\ saved = [d \in Dirs |-> "none"]
  /\ lock = None
  /\ script = [p \in Procs |-> [kind |-> "drain", step |-> "off"]]
  /\ memory = [p \in Procs |-> Unreadable]
  /\ todo = [p \in Procs |-> {}]
  /\ run = [p \in Procs |-> [j \in Jobs |-> NoRun]]
  /\ starts = 0
  /\ sent = [j \in Jobs |-> 0]
  /\ arrived = [j \in Jobs |-> FALSE]
  /\ raced = FALSE

-----------------------------------------------------------------------------
(* Start-up: the lock, the recovery, the requeueing. *)

\* A second caller that finds the lock free before the first has written it.
Racing(p) == \E q \in Procs \ {p} : At(q, "found free")

\* Mutant of LockFree: a lock file is taken over without asking for its pid.
LockFreeAlways(p) == TRUE

\* acquireLock(): the lock of a process that is gone counts as none.
LockFree(p) == lock \notin {q \in Procs \ {p} : Live(q)}

\* The probe asks other programs for the name of the process: when they time out,
\* a live holder is taken for dead.  (Bound: nothing is started after a race.)
Start(p, kind) ==
  /\ At(p, "off") /\ starts < MaxStarts /\ ~raced
  /\ starts' = starts + 1
  /\ script' = [script EXCEPT ![p] = [kind |-> kind, step |-> "found free"]]
  /\ raced' = (raced \/ Racing(p) \/ ~LockFree(p))
  /\ UNCHANGED <<disk, saved, lock, memory, todo, run, sent, arrived>>

TakeLock(p) ==
  /\ At(p, "found free")
  /\ lock' = p
  /\ GoTo(p, "recovering")
  /\ UNCHANGED <<disk, saved, memory, todo, run, starts, sent, arrived, raced>>

\* A checkpoint found by the audit and by the recovery.
Audited(j) == saved[AuditDir(j)] # "none"

\* recoverPowerOffAndNetOffJobs(): the jobs in flight when the last script died.
\* (Failed rows with a network error in their payload are requeued as well.)
Recover(p) ==
  /\ At(p, "recovering")
  /\ row' = [j \in Jobs |->
       CASE j \in journal /\ Audited(j) -> "applied"
         [] j \in journal /\ ~Audited(j) /\ row[j] \notin {"applied", "skipped"} -> "queued"
         [] OTHER -> row[j]]
  /\ journal' = {}
  /\ GoTo(p, IF script[p].kind = "drain" THEN "requeueing" ELSE "choosing")
  /\ UNCHANGED <<reason, retries, attempts, registry, history, saved, lock, memory, todo,
                 run, starts, sent, arrived, raced>>

\* resetEligiblePausedJobs(): crashes of the browser and hard timeouts come back
\* with a clean record, other solvable outcomes at most three times.
Ended(j) == row[j] \in {"paused", "failed"}
Crashed(j) == row[j] = "failed" /\ reason[j] = "crash"
Solvable(j) == Ended(j) /\ reason[j] = "solvable" /\ retries[j] < 3

\* Which postings are the roots of a board, and so skipped, and which are of an
\* employer on the fixed list whose rows always come back, is left open.
Requeue(p) ==
  /\ At(p, "requeueing")
  /\ \E roots, favoured \in SUBSET {j \in Jobs : Ended(j)} :
       LET clean(j) == j \notin roots /\ (Crashed(j) \/ j \in favoured)
           again(j) == j \notin roots /\ ~clean(j) /\ Solvable(j)
       IN /\ row' = [j \in Jobs |-> CASE j \in roots -> "skipped"
                                     [] clean(j) \/ again(j) -> "queued"
                                     [] OTHER -> row[j]]
          /\ reason' = [j \in Jobs |->
               IF j \notin roots /\ Crashed(j) THEN "none" ELSE reason[j]]
          /\ retries' = [j \in Jobs |-> CASE clean(j) -> 0
                                         [] again(j) -> retries[j] + 1
                                         [] OTHER -> retries[j]]
  /\ GoTo(p, "choosing")
  /\ UNCHANGED <<attempts, registry, history, journal, saved, lock, memory, todo, run,
                 starts, sent, arrived, raced>>

-----------------------------------------------------------------------------
(* The choice of a chunk. *)

\* loadAttemptedRegistry(): the copy in memory, the file, or else every job that
\* the run history and the error log know.
Loaded(p) ==
  IF memory[p] # Unreadable THEN memory[p]
  ELSE IF registry # Unreadable THEN registry ELSE history

Queued == {j \in Jobs : row[j] = "queued"}

\* isJobAlreadyAttempted(); an alias of the job under another id is left out.
Attempted(p, j) == attempts[j] >= 2 \/ j \in Loaded(p)

\* selectDiversifiedMultiLaneChunk(): one job per host, of the hosts that are ready.
Chunks(fresh) ==
  {c \in SUBSET fresh : \A i, j \in c : HostOf[i] = HostOf[j] => i = j}

Release(p) ==
  /\ lock' = IF lock = p THEN None ELSE lock
  /\ GoTo(p, "off")
  /\ memory' = [memory EXCEPT ![p] = Unreadable]
  /\ todo' = [todo EXCEPT ![p] = {}]

\* The marathon: filterUnattemptedJobs() fails the rows of attempted jobs; the
\* script ends when nothing is left.
ChooseFresh(p) ==
  /\ At(p, "choosing") /\ script[p].kind = "marathon"
  /\ LET attempted == {j \in Queued : Attempted(p, j)} IN
     /\ row' = [j \in Jobs |-> IF j \in attempted THEN "failed" ELSE row[j]]
     /\ registry' = IF Queued # {} /\ memory[p] = Unreadable THEN Loaded(p) ELSE registry
     /\ IF Queued \ attempted = {}
          THEN Release(p)
          ELSE /\ memory' = [memory EXCEPT ![p] = Loaded(p)]
               /\ \E chunk \in Chunks(Queued \ attempted) \ {{}} :
                    todo' = [todo EXCEPT ![p] = chunk]
               /\ GoTo(p, "lanes")
               /\ UNCHANGED lock
  /\ UNCHANGED <<reason, retries, attempts, history, journal, saved, run, starts, sent,
                 arrived, raced>>

\* The drain: one pass over every queued row; it keeps no registry.
ChooseAll(p) ==
  /\ At(p, "choosing") /\ script[p].kind = "drain"
  /\ todo' = [todo EXCEPT ![p] = Queued]
  /\ GoTo(p, "lanes")
  /\ UNCHANGED <<disk, saved, lock, memory, run, starts, sent, arrived, raced>>

\* Every lane is through.  The marathon starts its next cycle or is out of time.
Idle(p) == \A j \in Jobs : Stage(p, j) = "none"

EndCycle(p) ==
  /\ At(p, "lanes") /\ todo[p] = {} /\ Idle(p)
  /\ \/ Release(p)
     \/ script[p].kind = "marathon" /\ GoTo(p, "choosing") /\ UNCHANGED <<lock, memory, todo>>
  /\ UNCHANGED <<disk, saved, run, starts, sent, arrived, raced>>

-----------------------------------------------------------------------------
(* One job in its lane. *)

LaneFree(p, j) == \A i \in Jobs : LaneOf[i] = LaneOf[j] => Stage(p, i) = "none"

\* Mutant of Recorded: retryReviewed passes over the page as well.
RecordedNever(j) == FALSE

\* A saved confirmation page ends run() at once; the words of one do not.
Recorded(j) == saved[SessionDir(j)] = "page"

\* The next job of a lane: deferred (its host cools down, the time is up), ruled
\* out by a preflight, or opened.
Begin(p, j) ==
  /\ At(p, "lanes") /\ j \in todo[p] /\ LaneFree(p, j)
  /\ todo' = [todo EXCEPT ![p] = @ \ {j}]
  /\ \/ UNCHANGED <<row, reason, journal, history, run>>
     \/ /\ row' = [row EXCEPT ![j] = IF @ = "applied" THEN @ ELSE "skipped"]
        /\ reason' = [reason EXCEPT ![j] = IF row[j] = "applied" THEN @ ELSE "other"]
        /\ UNCHANGED <<journal, history, run>>
     \/ /\ journal' = IF script[p].kind = "marathon" THEN journal \cup {j} ELSE journal
        /\ run' = [run EXCEPT ![p][j] =
             IF Recorded(j)
               THEN [NoRun EXCEPT !.stage = "over", !.result = "submitted"]
               ELSE [NoRun EXCEPT !.stage = "open"]]
        /\ UNCHANGED <<row, reason, history>>
  /\ UNCHANGED <<retries, attempts, registry, saved, lock, script, memory, starts, sent,
                 arrived, raced>>

\* The final Submit.  A run whose hard timeout has fired goes on until its browser
\* is closed.
Click(p, j) ==
  /\ Stage(p, j) \in {"open", "timed out"} /\ ~run[p][j].clicked
  /\ sent[j] < MaxSends
  /\ sent' = [sent EXCEPT ![j] = @ + 1]
  /\ \E got \in {arrived[j], TRUE} : arrived' = [arrived EXCEPT ![j] = got]
  /\ run' = [run EXCEPT ![p][j].clicked = TRUE]
  /\ UNCHANGED <<disk, saved, lock, script, memory, todo, starts, raced>>

\* How run() ends: an outcome and its reason.  A failure is one before the click;
\* a lost network is reported as such on either side of it.
Outcomes(clicked) ==
  {<<"paused", "solvable">>, <<"paused", "other">>, <<"skipped", "other">>,
   <<"wifi", "other">>, <<"queued", "other">>}
  \cup (IF clicked THEN {<<"unproven", "other">>}
        ELSE {<<"failed", "crash">>, <<"failed", "solvable">>, <<"failed", "other">>})

Over(p, j, result, why) ==
  run' = [run EXCEPT ![p][j] = [@ EXCEPT !.stage = "over", !.result = result, !.why = why]]

\* run() returns, with a receipt seen as a text or as a page of its own.
Finish(p, j) ==
  /\ Stage(p, j) = "open"
  /\ history' = history \cup {j}
  /\ journal' = journal \ {j}
  /\ \/ /\ arrived[j]
        /\ Over(p, j, "submitted", "none")
        /\ \E shown \in {"text", "page"} : saved' = [saved EXCEPT ![SessionDir(j)] = shown]
     \/ /\ \E o \in Outcomes(run[p][j].clicked) : Over(p, j, o[1], o[2])
        /\ UNCHANGED saved
  /\ UNCHANGED <<row, reason, retries, attempts, registry, lock, script, memory, todo,
                 starts, sent, arrived, raced>>

\* runWithHardTimeout() rejects; the journal is cleared before the browser is closed.
TimeOut(p, j) ==
  /\ Stage(p, j) = "open"
  /\ run' = [run EXCEPT ![p][j].stage = "timed out"]
  /\ journal' = journal \ {j}
  /\ UNCHANGED <<row, reason, retries, attempts, registry, history, saved, lock, script,
                 memory, todo, starts, sent, arrived, raced>>

\* childRunner.close() ends the run left behind, which may have seen its receipt.
Close(p, j) ==
  /\ Stage(p, j) = "timed out"
  /\ Over(p, j, "failed", "crash")
  /\ history' = history \cup {j}
  /\ \/ UNCHANGED saved
     \/ /\ arrived[j] /\ run[p][j].clicked
        /\ \E shown \in {"text", "page"} : saved' = [saved EXCEPT ![SessionDir(j)] = shown]
  /\ UNCHANGED <<row, reason, retries, attempts, registry, journal, lock, script, memory,
                 todo, starts, sent, arrived, raced>>

\* The marathon audits the checkpoint of a run that is not submitted.
Outcome(p, j) ==
  IF script[p].kind = "marathon" /\ Audited(j) THEN "submitted" ELSE run[p][j].result

\* Mutant of Settled: a run that ended without a receipt is taken for submitted.
SettledUnproven(p, j) ==
  IF Outcome(p, j) \in {"submitted", "unproven"} THEN "applied" ELSE "failed"

\* Mutant of Settled: the report's word for the status.
SettledAsReported(p, j) == Outcome(p, j)

\* The status a result leads to; "queued" keeps the row as it is.  The drain takes
\* a lost network reported by run() for a skip.
Settled(p, j) ==
  CASE Outcome(p, j) = "submitted" -> "applied"
    [] Outcome(p, j) = "paused" -> "paused"
    [] Outcome(p, j) \in {"failed", "unproven"} -> "failed"
    [] Outcome(p, j) = "skipped" -> "skipped"
    [] Outcome(p, j) = "wifi" -> IF script[p].kind = "drain" THEN "skipped" ELSE "queued"
    [] OTHER -> "queued"

\* markApplied, pauseForReview, skip, markFailed: an applied row stays applied.
Mark(p, j) ==
  /\ Stage(p, j) = "over"
  /\ run' = [run EXCEPT ![p][j] = IF script[p].kind = "drain" THEN NoRun
                                  ELSE [@ EXCEPT !.stage = "marked"]]
  /\ IF row[j] = "applied" \/ Settled(p, j) = "queued"
       THEN UNCHANGED <<row, reason>>
       ELSE /\ row' = [row EXCEPT ![j] = Settled(p, j)]
            /\ reason' = [reason EXCEPT ![j] = IF Settled(p, j) = "applied" THEN @
                                               ELSE run[p][j].why]
  /\ UNCHANGED <<retries, attempts, registry, history, journal, saved, lock, script, memory,
                 todo, starts, sent, arrived, raced>>

\* recordAttemptedJob(): the registry learns applied jobs and second attempts; a
\* job kept for a retry is removed from it (removeAttemptedJob), its count is not.
Note(p, j) ==
  /\ Stage(p, j) = "marked"
  /\ run' = [run EXCEPT ![p][j] = NoRun]
  /\ LET done == Outcome(p, j) \in {"submitted", "unproven"}
         kept == Outcome(p, j) \in {"wifi", "queued"}
         Store(listed) == registry' = listed /\ memory' = [memory EXCEPT ![p] = listed]
     IN /\ attempts' = [attempts EXCEPT ![j] = IF kept THEN @ ELSE @ + 1]
        /\ CASE Outcome(p, j) = "queued" -> Store(Loaded(p) \ {j})
             [] ~kept /\ (done \/ attempts[j] >= 1) -> Store(Loaded(p) \cup {j})
             [] OTHER -> UNCHANGED <<registry, memory>>
  /\ UNCHANGED <<row, reason, retries, history, journal, saved, lock, script, todo, starts,
                 sent, arrived, raced>>

-----------------------------------------------------------------------------
(* A crash, and the repair script. *)

Crash(p) ==
  /\ Live(p)
  /\ GoTo(p, "off")
  /\ memory' = [memory EXCEPT ![p] = Unreadable]
  /\ todo' = [todo EXCEPT ![p] = {}]
  /\ run' = [run EXCEPT ![p] = [j \in Jobs |-> NoRun]]
  /\ UNCHANGED <<disk, saved, lock, starts, sent, arrived, raced>>

\* reset-overnight-marathon.ts takes the two maps of the registry file for job ids
\* and keeps neither: the file is left without them.
Reset ==
  /\ row' = [j \in Jobs |-> IF row[j] \in {"failed", "paused"} THEN "queued" ELSE row[j]]
  /\ reason' = [j \in Jobs |-> IF row[j] \in {"failed", "paused"} THEN "none" ELSE reason[j]]
  /\ attempts' = [j \in Jobs |-> IF row[j] = "applied" THEN attempts[j] ELSE 0]
  /\ registry' = Unreadable
  /\ UNCHANGED <<retries, history, journal, saved, lock, script, memory, todo, run, starts,
                 sent, arrived, raced>>

-----------------------------------------------------------------------------
JobStep(p, j) ==
  Begin(p, j) \/ Click(p, j) \/ Finish(p, j) \/ TimeOut(p, j) \/ Close(p, j)
  \/ Mark(p, j) \/ Note(p, j)

ScriptStep(p) ==
  TakeLock(p) \/ Recover(p) \/ Requeue(p) \/ ChooseFresh(p) \/ ChooseAll(p) \/ EndCycle(p)
  \/ \E j \in Jobs : JobStep(p, j)

Next ==
  \/ Reset
  \/ \E p \in Procs :
       \/ \E kind \in {"marathon", "drain"} : Start(p, kind)
       \/ Crash(p)
       \/ ScriptStep(p)

Spec == Init /\ [][Next]_vars

-----------------------------------------------------------------------------
(* Properties. *)

\* The variables stay within their types.
TypeOK ==
  /\ row \in [Jobs -> Statuses]
  /\ reason \in [Jobs -> Reasons]
  /\ retries \in [Jobs -> 0..3]
  /\ attempts \in [Jobs -> Nat]
  /\ registry \in (SUBSET Jobs) \cup {Unreadable}
  /\ history \subseteq Jobs /\ journal \subseteq Jobs
  /\ saved \in [Dirs -> {"none", "text", "page"}]
  /\ lock \in Procs \cup {None}
  /\ script \in [Procs -> [kind : {"marathon", "drain"}, step : Steps]]
  /\ memory \in [Procs -> (SUBSET Jobs) \cup {Unreadable}]
  /\ todo \in [Procs -> SUBSET Jobs]
  /\ run \in [Procs -> [Jobs -> [stage : Stages, clicked : BOOLEAN, result : Results,
                                 why : Reasons]]]
  /\ starts \in 0..MaxStarts
  /\ sent \in [Jobs -> 0..MaxSends]
  /\ arrived \in [Jobs -> BOOLEAN]
  /\ raced \in BOOLEAN

\* Two scripts drive the queue at once only when both looked at worker.lock before
\* either wrote it, or the probe of a live holder timed out: a dead holder is
\* detected, a release leaves the lock of another alone.
SoleSupervisor == ~raced => \A p, q \in Procs : Active(p) /\ Active(q) => p = q

\* However often scripts die and start again, they do not submit an application
\* whose row is applied or whose confirmation page was saved.
ReceiptStopsResends ==
  [][~raced => \A j \in Jobs :
       sent'[j] # sent[j] => row[j] # "applied" /\ saved[SessionDir(j)] # "page"]_vars

\* A row says applied only of an application that arrived: no timeout, recovery,
\* audit or missing receipt makes one of a run that was not accepted.
AppliedHasArrived == \A j \in Jobs : row[j] = "applied" => arrived[j]

\* "Final Submit is never retried merely because it timed out"
\* (docs/autoapply-ats-coverage.md:38): the drain does not queue a job again after
\* a run that clicked Submit, crashed or ran into its hard timeout.
FinalSubmitNotRetried ==
  [][\A p \in Procs, j \in Jobs :
       Requeue(p) /\ Crashed(j) /\ sent[j] > 0 => row'[j] # "queued"]_vars
=============================================================================
