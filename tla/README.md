# A TLA+ model of the job hunter, its application worker and its outreach

The repository holds a job hunter that polls company career boards from a
scheduled workflow, an application worker and overnight scripts that fill and
submit the forms of the jobs it found, and a cold-mail page with its sender. This
directory holds TLA+ modules of the parts that keep state over runs, restarts,
requests and processes, TLC configurations that check them on small instances, and
TLAPS proofs for any size of instance. `PROJECT.json` maps every definition to the
lines it stands for (paths start at the repository's root, called `src/` there).

    tlc -workers 2 -config MCApplicationStore.cfg MCApplicationStore
    tlapm ApplicationStore_proofs.tla

## 1. The system

### Hunt (`src/index.ts`, `state.ts`, `select-boards.ts`, `outage.ts`, `catalog.ts`, `fetchers/routing.ts`, `.github/workflows/hunt.yml`)

One run at a time (a concurrency group of the workflow). A run restores the seen
file and the board state from the Actions cache and the published catalogue from
the `data` branch, selects the boards it polls, fetches them concurrently, some of
them with a second engine where the first failed, judges the postings nobody has
seen, writes the files, mails the matches, and the workflow commits
`companies.json` and publishes the catalogue.

State: `seen.json` (posting to the time it was last seen), `board-state.json`
(last poll, last yield and failure streak of each board), `companies.json` (the
roster), `jobs.json` (the catalogue, with a `closedAt` for a posting that went
away).

What is hard: the four files travel by different ways (cache, commit, forced
push) and each can be lost, or be older than the others. A posting that is not
in an answer may be closed, or its site may have been skipped, failed, or share
its tenant with one that answered. A platform may be down for days, a board may be
dead or behind a bot wall, and both look like an error.

Correct means: no match is lost or mailed twice, an open posting stays open
while its site lists it, no healthy board is dropped and an outage never empties
the roster, a dead board goes, and every board is polled in turn.

### Application worker (`src/autoapply/`)

| part | files | state | operations |
|---|---|---|---|
| store and queue | `store.ts`, `autoaply.ts` | SQLite: applications, workers, worker lock, attempts, pacing, events; a cache of the rows in each manager | enqueue, claim, mark, skip, dismiss, reopen, feedback, recover, lock |
| worker loop | `worker.ts` | map of parked applications, one current run | start and repark, intake, confirmations, parked runs, claim |
| one application | `runner.ts`, `submission.ts`, `preflight.ts` | `checkpoint.json` of the application, the browser tab | preflight, resume or reconcile, fill, reserve, click, wait for the receipt |
| intake | `intake.ts` | a set of judged jobs | fetch the catalogue, judge, enqueue or skip |
| pacing | `store.ts`, `cli.ts` | attempts of the day and of the hour, the latest time an employer may be tried | reserve, cool down |
| mail | `mail-evidence.ts` and the mailbox scripts | cursor of the mailbox | find a code, a confirmation |
| session pool | `session-pool.ts` | browser profiles in use, health of hosts | lease, release, back off |

Managers of the queue are constructed in `worker.ts:66`, which takes the worker
lock, and in `cli.ts:115` and the scripts `run-overnight-marathon.ts:295`,
`drain-backfill-and-hourly.ts:355`, `find-eligible.ts:12` and
`submit-canaries.ts:18`, which do not. They meet in the file.

What is hard: processes die between any two steps and their pid is given away;
every queue call reads a cache and writes by id alone; a final submit whose
answer is lost may have arrived, so that a retry applies twice; the set of
cooling employers is read once and used for minutes.

Correct means: one worker, one run of a job at a time, nothing final is
overwritten, no application is sent twice, a possibly sent one is accounted for
and keeps its siblings at the employer waiting, and the limits of the pacing hold
across midnight, restarts and processes.

### Scripts that drain the queue (`scripts/`, `attempted-registry.ts`, `power-net-recovery.ts`)

`run-overnight-marathon.ts` takes chunks of queued jobs, one per host, into lanes
that run at once, until its hours are over; `drain-backfill-and-hourly.ts` puts
failed rows that look solvable back and makes one pass;
`reset-overnight-marathon.ts` is run by hand and puts all failed and paused rows
back. None of them claims a row. Their state is four memories of one attempt that
each knows a part of: the row, `attempted-job-ids.json` with `job-attempts.json`
and the run history it is rebuilt from, `in-flight-checkpoint.json`, from which a
start after a power cut recovers, and the runner's own checkpoint. `worker.lock` is
a pid in a file, looked at and written in two steps.

What is hard: a hard timeout rejects while the run behind it goes on; a script
dies with jobs in flight; the checkpoint is kept under a hash of the requisition
and looked for under the queue id; the repair empties some of the memories only.

Correct means: one supervisor, applied is what arrived, and what is known to have
arrived is not sent again, in whatever order the scripts are run.

### Outreach (`src/outreach.ts`, `outreach-send.ts`, `publish-outreach.ts`, `web/app/api/outreach`, `.github/workflows/outreach.yml`)

`contacted.json` has a row per contact: the mails sent, the day of the next one,
and flags for a reply, a bounce, a skip. On the user's machine `outreach.ts` builds
a batch of drafts and serves a page whose clicks record a mail and lead to the
draft, or writes the drafts for `outreach-send.ts`, which mails a reviewed
directory. Hosted, the page is published into a private repository by a workflow
that pulls the rows, builds and pushes them merged; its clicks are requests to an
API that commits to the repository by compare and swap.

What is hard: every party reads the whole file, awaits, and writes the whole file;
the cards are minutes to days older than the click on them; a write may be taken
and its answer lost; the sender dies between a mail and its record.

Correct means: a card leads to one mail, nobody who replied, bounced or was skipped
is mailed, a follow-up waits for its gap, and the cap of a rolling day holds for
everyone together.

### Others

Discovery and bulk import of boards, the adapters of some twenty platforms,
screening, classification and the mail that lists the matches, the résumé tools,
contacts and the verification of addresses, the web application, the dashboard and
the browser extension. The hunt publishes the catalogue which the worker's intake
fetches; the web application reads the same file.

## 2. Modules

| module | part | state in the code |
|---|---|---|
| `ApplicationStore` | `store.ts`, `autoaply.ts`, the lock in `worker.ts` | `row` is the table applications (status, owner), `workers` the table workers, `lock` the metadata row, `cache` each manager's `queue`, `call` a queue call between its `list()` and its write, `running` the job `processNext()` awaits, `phase` the process |
| `ApplicationWorker` | `worker.ts`, `runner.ts`, `intake.ts` | `row` and `journal` are in the file, `checkpoint` is `checkpoint.json`, `parked` the map of the worker, `run` the call of `run()`; `sends` counts runs that went past the final click, `lost` says that the report of one was given up for a run that did not click (both history), and `received` is what the employer knows |
| `SubmissionOnce` | what the worker promises of an application | `intended`, `sent`, `forgotten`, `delivered`, `settled`: no state of its own in the code |
| `TenantPacing` | attempts and cooldowns in `store.ts`, their use in `worker.ts` | `attempts` is submission_attempts and tenant_attempts, `until` is tenant_cooldowns, `pass` the iteration of the loop with the cooldowns it read, `run` the application in the browser with the day and the time it has computed, `clock` is `Date.now()`; `clicks`, the presses by reservation and day, is history |
| `BoardRotation` | `select-boards.ts`, `outage.ts`, `state.ts`, `routing.ts`, the roster in `index.ts` and `hunt.yml` | `listed` and `hot` are `companies.json` on main, `cache` the saved `board-state.json`, `job` the run under way with its copies of both; `answered`, `waited`, `quiet` are history |
| `PostingAlerts` | `index.ts`, `state.ts`, `catalog.ts`, `hunt.yml` | `cache` is the saved `seen.json`, `published` is `jobs.json` on the data branch, `live` what each site lists, `job` the run under way; `mailed`, `forgotten`, `steady` are history |
| `QueueDrain` | the scripts, `attempted-registry.ts`, `power-net-recovery.ts` | `row`, `reason`, `retries` are columns and payload of the queue, `attempts`, `registry`, `history`, `journal`, `lock` files of the scripts, `saved` the checkpoints, `memory`, `todo`, `run` what a process holds; `sent`, `arrived`, `raced` are history |
| `OutreachRows` | `contacted.json` | no variables: rows, gaps, cap, flags, merge, as operators |
| `OutreachHosted` | `route.ts`, `publish-outreach.ts`, `outreach.yml` | `rows` and `batch` are the files of the repository, `req` the requests with what each has read, `build` the workflow with its copy; `lost` is history |
| `OutreachLocal` | `outreach.ts` served or on the command line, `outreach-send.ts` | `rows` is the file, `proc` the process that holds the build lock with its cards, `req` the requests with the copy each has read, `manifest` the drafts for review, `sender` the sender with its copy; `mails`, `cut`, `raced` are history |
| `ApplicationStore_proofs`, `ApplicationWorker_proofs`, `TenantPacing_proofs`, `QueueDrain_proofs`, `BoardRotation_proofs`, `PostingAlerts_proofs`, `OutreachHosted_proofs`, `OutreachLocal_proofs` | proofs | one inductive invariant per component (two for the store), and the theorems that follow |
| `MC...` | instances for TLC | |

`ApplicationWorker` rests on `ApplicationStore`: under the worker lock, which
`ApplicationStore` models step by step, a queue call is one step, and that is how
`ApplicationWorker` writes it. `TenantPacing` is the part of a claim that
`ApplicationWorker` leaves out, since it only holds more jobs back.
`BoardRotation` and `PostingAlerts` are the two halves of a hunt that share only
which sites were polled and which failed; each takes the other's half as a choice.
`QueueDrain` uses the queue without the worker and is composed with no other
module: the scripts and the worker are not meant to run together, and what an
unlocked manager does to one that is locked is in `ApplicationStore`.
`OutreachHosted` and `OutreachLocal` share the rules of `OutreachRows`; a
repository and a local file are never written by the same click.

`ApplicationWorker` implements `SubmissionOnce` by
`Once == INSTANCE SubmissionOnce WITH ...`: the intent is the journal entry, sent
the clicks, forgotten the history `lost` (a run that ended before it read the
checkpoint saved its own report over that of the click, and no restart has brought
the click back from the journal yet), delivered what the employer has, settled the
status applied. Queue, restarts, reviews and evidence are steps that stutter there
or move `forgotten`. The run `worker` checks the refinement as the property
SubmitsOnce and the theorem `Implements` proves it.

### How an action corresponds to the code

*ApplicationStore.* A SQL transaction is a step. A manager's life is `Open` (the
constructor up to its recovery), `Register` (the insert of its owner),
`AcquireWorkerLock`, `Close`, `Crash`, and `RecyclePid`, where a stranger gets the
dead process's pid and answers its probe until `StrangerExits`. A queue call is
`Begin`, which is `list()` (recover the file, read every row), then `Commit`, one
disjunct per call, which decides on the cached job and saves it. What happens in
the file between the two is the point of the module. `Refresh`, `WriteBack` and
`RecordFitProbe` are the calls that do one of the two alone.

*ApplicationWorker.* `Start`, `Repark` and `Ready` are the start-up of
`worker.ts`; `Claim` and `TakeUp` begin a run from the queue or of a parked
application; `Preflight`, `Gate`, `Load`, `Form`, `Prepared`, `Journaled`,
`Click` and `Wait` are `run()` between the points at which it writes to disk or
the employer hears from it, so that `Crash` falls between any two; `Record` and
`Throws` are what the worker makes of the report. `Intake` runs beside a run.
`MailConfirms` and `LateReceipt` are evidence that comes later. `Gate` has what lies
between the start of a run and its reading of the checkpoint: the public API of
Greenhouse and Lever (2452-2457) and, for every provider, the opening of the page
(2458-2475). A run that ends there is `Blind`: the catch at 3272 or the skip reports
that nothing was attempted, and the `finally` at 3417 saves it, over an attempted
checkpoint too. `Recall` is what undoes it: `Repark` believes the journal. A `Click`
is a run that goes past the final submit: within one run `runner.ts` may press the
button again, after a healed field (3222), a solved challenge (3193) or a repair of
the whole page (3232-3238). This module counts runs; `TenantPacing` has the presses.

*TenantPacing.* An iteration is `Look`, which reads the cooling tenants, `TakeUp`
of parked applications until `ParkedDone`, then `Claim` or `NothingToClaim`. The
run of an application is `AskDay` and `AskNow`, which compute the label of the day
and the time before the transaction, `Reserve`, the transaction that checks both
limits and inserts, `Click`, a press of the button, which the run may repeat on the
reservation it has, and `Leave`; `Challenge` is `coolTenant()`. `Tick` and
`Restart` may fall anywhere.

*BoardRotation.* `Checkout` reads the roster and restores the board state; `Hunt`
selects, polls, judges the failures, detects outages, evicts and writes both files;
`HuntFails` is one that throws before; then the workflow's `SaveCache` and
`Commit`, or `GiveUp`; a `Commit` whose autostash conflicts leaves the markers in the
file, each hunt throws on them (`HuntFails`) until a person keeps one side, which is
`GiveUp`, or both. `RunnerLost` loses the machine, `Import` adds a row on main
meanwhile. The verdict of a failed poll goes the way of the code: `Errors` are the
ways `route()` throws, with one engine or two, `BlockKind` is `extractBlockKind()`
and `Blocked` what `pollBoard()` makes of it and of the `failureClass` that
`route()` left behind.

*PostingAlerts.* `Begin` restores both files, `Poll` is one site, whose answer is
any part of its list, since adapters stop at a number of pages; `WriteSeen`
stamps what is new and decides what matches, `WriteCatalog` is `updateCatalog()`
and the rendering, `HuntFails` a throw before either; then the workflow's
`SaveCache`, `Mail` and `Publish`, each of which may fail. `PutUp`, `TakeDown`,
`CacheEvicted` and `RunnerLost` are the surroundings.

*QueueDrain.* `Start` finds the lock free, or judges its live holder dead because the
probe timed out (92-100); `TakeLock` writes it; `Recover` takes
the journal of a script that died, `Requeue` is the drain's
`resetEligiblePausedJobs()`. `ChooseFresh` is the marathon's next chunk, past the
registry, and `ChooseAll` the drain's one pass. A job goes through `Begin`,
`Click`, then `Finish`, or `TimeOut`, where the script gives up and the run goes
on until `Close`; `Mark` is the row, `Note` the registry, both of which the
marathon writes after auditing the checkpoint. `EndCycle` starts over or ends,
`Crash` falls anywhere, and `Reset` is the repair, at any time.

*OutreachHosted.* A request is `Arrive` (the published draft), `Gate` (the rows),
`Read` and `Put` (each try of `commitState()`, whose answer may be lost). A read may
fail, or give the sha without the text: for a large file `getFile()` reads the text by
a second call and answers '' when that fails (`route.ts:116-127`). A gate then sees no
rows (`blind`), and a write replaces the file by the row of its own click (`blank`). The
gate of a mail sent by hand is left out when its read fails (317), which is `blind` as
well. The
workflow is `Pull`, `Build`, `MergeRows`, `PushRows`, `PushBatch`, with `Abort`
anywhere.

*OutreachLocal.* A build is `StartBuild`, `EndBuild` and, for `--mbox`, `WriteMbox`;
the server's own are `StartRefresh`, `EndRefresh`, several at once, and `Stop` ends
it. A request reads at `Arrive` and writes at `Open`, `RecordByHand` or `Mark`, or
ends at `NotOpened`. The sender is `StartSender`, `Send`, `Save`, `EndSender`, with
`CrashSender` between a mail and its record, and `Unreported` for a mail that left
although `git send-email` exited with an error (148-152).

The comments of each module name the exact steps; `map` in `PROJECT.json` the lines.

## 3. What the runs show

| run | instance | distinct states | properties |
|---|---|---|---|
| `store_workers` | two locked managers, two jobs of different requisitions | 137,803 | OneWorker, RunExclusive, ClaimRegistered, NoLostUpdate, AppliedIsFinal |
| `store_shared` | a worker and an unlocked manager, two ids of one requisition, fair | 108,888 | OneRowPerRequisition, OnlyTheDeadAreRobbed, OrphanReleased |
| `worker` | two jobs of one employer, one at Greenhouse or Lever, the other with an alias, fair | 755,375 | ClickOnRecord, AmbiguityKnown, ParkedBlocksSiblings, ClickAccountedFor, SubmitsOnce |
| `worker_listed` | the two jobs, no alias | violation | OneApplication |
| `pacing` | two employers, three reservations, days and hours of two ticks, limits 1 and 1 | 1,979,231 | HourlyCap, ClicksPerDay, LaterPassesRest |
| `rotation` | three boards of a platform with one engine and one of a platform with two, two slots, evicted after 1 day, after 2 behind a bot wall | 1,228,282 | TypeOK, NoPlatformWiped, SweptWhileHealthy, EvictedOnEvidence, UnpolledSurvive |
| `rotation_dead` | the same | violation | OnlyWallsHold |
| `alerts` | two sites of one tenant, two postings, retention 2 and 1 | 3,624,441 | TypeOK, MailedOnce, OpenWhileListed, DroppedWhenLongClosed |
| `drain` | one job, two processes, three starts, two clicks | 1,353,221 | TypeOK, SoleSupervisor, AppliedHasArrived, ReceiptStopsResends |
| `drain_resend` | two jobs at one host in two lanes, one process, two starts | violation | FinalSubmitNotRetried |
| `outreach_hosted` | one contact, two clicks, gaps of 1 and 3 days, two tries of a commit, three days | 1,770,000 (about) | TypeOK, AnsweredNotMailed, RepeatRefused, FollowUpsWait, CapHeld, ClicksKeepClicks |
| `outreach_local` | two contacts, two requests, two builds, two runs of the sender, two days, one mail reported as failed | 2,700,000 (about) | TypeOK, CardMailsOnce, RerunsSendOnce, CapShared, AnsweredNotMailed |

Each module says what its properties mean, next to them. The ones that carry most:

- **RunExclusive, ClaimRegistered, NoLostUpdate, AppliedIsFinal** say that the
  worker lock is enough for a queue that writes without looking. Without it they
  fail (section 6, 1).
- **SubmitsOnce, ClickOnRecord, AmbiguityKnown, ClickAccountedFor** say that
  the journal, the checkpoint and the recovery at start-up keep a possibly sent
  application from being sent again, whatever moment the process dies at, that it
  is called applied only if the employer has it, and that it ends up settled or with
  a person. They hold as long as the report of the click is not lost (`lost`), and
  again once a restart has read the journal. `worker_listed` shows the exception: a
  run does things before it reads the checkpoint. A posting that the public API calls
  closed then, or a page or browser that does not open, overwrites the attempted
  checkpoint, and the next Resume submits the application a second time.
- **ParkedBlocksSiblings** is what holds of "an unresolved submission blocks
  sibling roles" (section 6, 2, for what does not).
- **HourlyCap** speaks of the rows; **ClicksPerDay** of the applications pressed on a
  day, however often a run presses: the presses themselves have no limit.
  **LaterPassesRest** is what the cooldown guarantees: from the next iteration on.
- **EvictedOnEvidence, NoPlatformWiped, UnpolledSurvive** bound what may leave the
  roster, with lost caches and lost commits; EvictedOnEvidence counts from the last
  answer the board gave, and asks for the longer hold of every board that really
  met a wall. `rotation_dead` is the other direction: a board whose two engines both
  failed without a wall is held like a walled one, because `route()` files that as
  'error' and `shouldEvictBoard()` asks only whether there is a kind. With the kind
  `extractBlockKind()` gives, OnlyWallsHold is true in the same instance.
  **SweptWhileHealthy** is the rotation's bound without failures.
- **MailedOnce, OpenWhileListed, DroppedWhenLongClosed** hold over lost
  caches, failed mails and failed publishes as far as each says; OpenWhileListed is
  about postings that no answer was cut off before (section 6, 10).
- **SoleSupervisor** holds but for two scripts that look at the pid file before either
  writes it, or a probe that times out; **AppliedHasArrived** says that no timeout,
  audit, recovery or missing receipt calls an application applied that did not arrive;
  **ReceiptStopsResends** that a saved confirmation page stops every later run,
  through repairs and requeues. `drain_resend` shows what is not stopped: a click
  whose run hit its hard timeout.
- **ClicksKeepClicks, RepeatRefused, FollowUpsWait, CapHeld, AnsweredNotMailed** hold
  of the hosted clicks under every interleaving of their reads and writes, lost
  answers and rebuilds, as long as no write drops rows (`lost`; section 6, 6) and the
  gate was shown the file (`blind`). A click that is given a sha without its text is
  one that drops them: section 6, 11. **CardMailsOnce** holds of the served page
  whatever its copies do to one another, because the card leaves the batch in one
  step; the others of `OutreachLocal` hold until somebody acts on a stale copy
  (`raced`), which nothing in the code prevents. What that does to the cap is
  section 6, 12.

A violation run is a finding in `PROJECT.json`, with the sentence of the
repository it contradicts. Each trace takes two runs or more of the thing that goes
wrong; none is visible in one handler.

### Bounds, and why they are enough

- *Two managers.* Every race of the file is between two of them; each may be
  constructed once, crash and be recycled. The theorems of section 5 are for any
  number. `row` and `cache` leave out the lease's clock: which leases have expired
  is a choice at each recovery.
- *Two jobs.* One is enough for a race over a row, two for one requisition under
  two ids or for siblings of an employer. In `drain` one job is enough: its row,
  counters, registry and checkpoint are kept per job, and two jobs meet only in
  hosts and lanes, which the run `drain_resend` has; two jobs and two processes at
  once are past what can be enumerated.
- *`MaxStarts` 3, `MaxSends` 2.* A script that dies, one that recovers, and one that
  acts on what the recovery left. A second click is the violation; a third adds
  nothing.
- *Clocks.* `MaxTime` is past one day and one hour in `pacing`, so that windows
  overlap a midnight; in `rotation` it leaves time for an answer, a failure and an
  eviction after either hold; in `alerts` it is past both retentions. An hour is as
  long as a day in `pacing`, which reaches what a window that is shorter than a day
  and crosses its end reaches. In the outreach a day is a step; a cap of a rolling
  day needs two days, three let a follow-up fall before and after its gap of 1.
  The longer gap of a later touch is left to `FollowUpsSpaced`.
- *`Healthy` and `MinSample`* are the floors below which a run trusts no
  conclusion about a platform or a catalogue; they are small enough that both
  sides of each occur.
- *Requests and tries.* Two clicks are every pair that can race; two tries let one of
  them lose its answer and repeat, and run out. A contact more in
  `outreach_local` is for the cap, which is counted over all.
- *Builds and runs of the sender*: two each, so that a card or a reviewed draft of an
  older build meets what a newer one recorded, and a directory is sent again.
- *`NextDay` waits* for requests under way, and for a mail and its record: they take
  seconds, and a midnight between them would only move a stamp by a day.
- *After `raced`* nothing new is built or sent: the properties say nothing of such
  behaviours, and one step past the race is kept to see that they say so. The
  constraint `RowsKept` of `outreach_hosted` ends a behaviour where a write drops rows
  (`lost`), for the same reason; that ClicksKeepClicks holds after it too is the
  theorem `ClicksKeep`.
- *One job listed, the other aliased* in `worker`: the properties of plain jobs are then
  about the listed one, with a sibling that requeues. A job that is both, and one that is
  neither, are left to the theorems, which make no difference between them.
- *`MaxCut` 1* bounds the mails that leave and are reported as failed; each one excuses
  one more, so a second adds no case.
- *Symmetry* is declared where the constants are interchangeable and no liveness is
  checked: the managers and the jobs of `store_workers`, tenants and ids of `pacing`,
  the boards of one platform, the sites and the postings of one tenant, the
  processes and the jobs of `drain`, contacts and requests of the outreach. Which
  contact a fresh request names is a placeholder no step reads.
- *Deadlock* is checked in `worker`, `worker_listed` and `pacing`. A store may end
  with every manager closed, scripts and requests run out, and the clocks of the
  others end at their bound.

## 4. Fairness

- `ApplicationStore`: `FairSpec` has weak fairness of `Advance(o)` for each
  manager: a live process goes on with the call it is in. Nobody is made to close,
  to start again, or to give a pid away. OrphanReleased says a claim of a dead
  process is released *if* some manager keeps listing, or its pid was recycled.
- `ApplicationWorker`: `FairSpec` has weak fairness of `Awake`: the logon task
  restarts a worker that is down, the recovery goes on, and a run goes on since a
  watchdog bounds it. What a run ends with, mails, receipts and Resume are not
  promised. ClickAccountedFor is stated of behaviours in which the worker
  eventually stays up.
- The other modules state safety only. Nothing schedules the scripts, a click or the
  sender: a person does. The hunt is scheduled, but a run may fail for ever, and what
  would be worth promising of one that does not (every board polled in turn) is
  bounded, and so stated as the safety property SweptWhileHealthy.

## 5. Proofs

`ApplicationStore_proofs`, for any managers, ids and requisitions. Two inductive
invariants. `GInv` holds whatever managers share the file: a registered owner
leaves the table workers only by its own `close()` or when its process is dead,
and the metadata row names whoever is past the lock. From it follow
`TypeCorrect`, `LockSafe` (OneWorker), `RowsUnique` (OneRowPerRequisition) and
`Robbed` (OnlyTheDeadAreRobbed). The properties alone are not inductive: that a
claim is not left behind needs that every owner of a row is registered. `EInv`
holds when every manager takes the lock: then only its holder claims and writes,
and its cache is the file whenever it writes. From both follow `RunsExclusive`,
`ClaimsRegistered`, `WritesFresh` (NoLostUpdate) and `Finality` (AppliedIsFinal),
each under the assumption `Unlocked = {}`, which is needed: section 6, 1.

`TenantPacing_proofs`, for any limits, clock, days and hours: `TypeCorrect`, `Daily`,
`Hourly`, `ClicksDaily` (ClicksPerDay), `StaysAway` (LaterPassesRest). The caps are
inductive with the types and the finiteness of the table; the heart is
`WindowCounted`: every attempt of a window that a new one falls into is counted by the
query before it, also one stamped later. The applications pressed on a day exceed the
rows of that day by one at most: what counts are the reservations pressed, each of
which has its row (`Sent`), only a run whose label was computed before a midnight
clicks after it, and whoever reserves later has the label of the new day (`UnderWay`,
`OneOver`). `StaysAway` needs `Resting`: what cools is among what the iteration read,
or was met by it.

`ApplicationWorker_proofs`, for any jobs, employers, aliases and numbers of
crashes: `TypeCorrect`, `Recorded` (ClickOnRecord), `SentOnce`, `Known`
(AmbiguityKnown), `Withheld`, `Blocked` (ParkedBlocksSiblings) and `Implements`
(SubmitsOnce): `SentOnce` is that an application is sent again only after a blind run
has lost the report of its click, and `Withheld` that one that may have been sent never
returns to the queue short of that. The
invariant `IInv` says of every job how far its run is
and what the disk holds by then, that the map says no more than the disk, that
what may have been sent is in the map, and that no sibling is unresolved while a
run may still come to the click. `RunFrame` and `OthersKept` say that a run is
about its own job, so each step has to be looked at for one job only.
`Implements` follows the refinement: the initial states map to an initial state, and
under `IInv` each action maps to Intend, Submit, Forget, Remember, Deliver, Settle or a
stutter.
Writing the proofs showed that the properties of the map and of the queue hold of jobs
without an alias in the catalogue only: an alias requeues a parked row while the
map keeps its old report. They are stated of `Plain` jobs.

`QueueDrain_proofs`, for any jobs, hosts and processes: `TypeCorrect`,
`OneSupervisor` (SoleSupervisor), `AppliedArrived` (AppliedHasArrived),
`NoResendAfterReceipt` (ReceiptStopsResends), and two that no run states:
`AuditFindsNothing`, that the marathon's audit and its recovery never find a
checkpoint, because the runner saves under the hash of the requisition and they look
under the queue id, and `AppliedStays`, that no step takes an applied row back.
The invariant adds to the types: `Lone`, a script past the lock is the one the lock
names, and one that found it free is the only one alive, until two race; `AtHand`,
what a script has in hand belongs to its lanes; `Receipts`, whatever is saved under a
session, marked applied or reported submitted has arrived; and `Unsettled`, a job
that is to run, or whose run may still click, is not applied and has no saved page.

`BoardRotation_proofs`, for any roster, engines, slots and holds: `TypeCorrect`,
`PlatformsKept` (NoPlatformWiped), `EvictedFairly` (EvictedOnEvidence),
`UnpolledKept` (UnpolledSurvive) and `ColdBoardsSwept` (SweptWhileHealthy). For the
first four the invariant says that a failure streak on file began after the board's
last answer (`Dated`), that a run's copies are those it restored but for what it
polled (`Copies`), and that what it drops was silent for the hold (`Evidence`).
`ColdBoardsSwept` is an argument about counting: each run of the quiet time that
left a board out polled as many cold boards as there were slots, and since the oldest
go first none of them was polled twice before that board. So the boards polled later
than it number at least its waits times the slots (`Sweeping`), and there are only so
many. `Rotating` ties the run under way to the selection it made.

`PostingAlerts_proofs`, for any sites, tenants, postings and retentions:
`TypeCorrect`, `MailsOnce` (MailedOnce), `StaysOpen` (OpenWhileListed) and
`LeavesWhenLongClosed` (DroppedWhenLongClosed). `Found`: what stood on a site all
through the run, and was not cut off of its answer, was found. `Carried`: a run that could
fetch the catalogue has all of it but what was long closed. `Stamped`: the saved seen
file, and every copy of it, stamps a mailed posting no earlier than its mail, unless it
is due again; the cache is saved before the mail, so this survives every failure.

`OutreachHosted_proofs`, for any contacts, requests, gaps, cap and tries:
`TypeCorrect`, `ClicksKeep` (ClicksKeepClicks), `AnsweredRefused` (AnsweredNotMailed),
`RepeatsRefused` (RepeatRefused), `FollowUpsSpaced` (FollowUpsWait) and `CapKept`
(CapHeld). `ClicksKeep` is of every write but one on a text that was not read (`blank`),
and rests on the sha a write names. The others are about clicks whose gate saw the rows
(`blind` is false), in behaviours in which no write dropped rows, and there the
invariant says: no copy is ahead of the rows (`Behind`), a recorded click is in them
(`Filed`), a flag that was found stays (`Flagged`), the gap after a click is in the
due date of every copy that knows the click and over for every draft built on it
(`Spaced`), what was on file when a click was let through is older than its draft
(`Known`), and fewer than the cap were (`Capped`). `MergeForgetsNothing`, which no run
states, is the promise above `mergeState()`: what a publication goes on to push
records all that the rows and its own copy did when it merged them; what `lost` marks of
publications is a click after that.

`OutreachLocal_proofs`, for any contacts, requests, builds, runs and cap:
`TypeCorrect`, `CardsMailOnce` (CardMailsOnce), `RerunsRefused` (RerunsSendOnce),
`CapKept` (CapShared) and `AnsweredLeftAlone` (AnsweredNotMailed). `CardsMailOnce`
needs only that a card on the page has led to no mail (`Paged`), and holds whatever
copies race. The others are about behaviours without a stale copy. `RerunsRefused`
needs that the mails of a draft are no more than the records cut off, by a crash or by
an exit status that calls a delivered mail failed, one once the touch moved on, and
one on its way (`Once`); `CapKept` that every mail since a day is on file, cut off or
on its way (`OnFile`), and that what a run has left fits under the cap with what its
copy counts (`Room`). Counting mails over contacts made this the longest proof: a row
of `Cardinality` lemmas says how one more mail, one more stamp or another day changes
each count.

In these last five modules the inductive conjunction is `IInv`, and the theorem
`Invariance` is that it holds in every reachable state.

The proofs use the assumptions on constants in each module, and nothing else.
`OwnersAssumption`, `JobsAssumption` and the like say that SQL NULL is no id;
`RosterAssumption` and `ContactsAssumption` that a file holds finitely many boards and
contacts; `BoundsAssumption` of `PostingAlerts` that the clock does not
start past its bound;
`GapsAssumption` that the gaps before later follow-ups are no shorter, as those of
`TOUCH_GAPS` are: with gaps that shrink FollowUpsWait could not be kept by one due date.

### Only model-checked

Liveness (OrphanReleased, ClickAccountedFor) and everything that needs ENABLED,
which are out of the prover's reach. Every invariant and every action property of the
passing runs is a theorem, as is the refinement.

## 6. Where the code differs from what is said of it

Three differences are findings, each with a run: `worker_listed`, `drain_resend` and
`rotation_dead`. The others below were met while modelling. The models have the
behaviour of the code in each case, and the properties are stated so that they hold
of it.

1. *An unlocked manager overwrites an applied row.* `docs/autoapply-architecture.md:43-44`
   calls applied jobs protected from automatic retry. `save()` (`store.ts:138`)
   writes by id alone, and the managers of `cli.ts:115`,
   `run-overnight-marathon.ts:295` and `drain-backfill-and-hourly.ts:355` take no
   lock: one that listed a job before another marked it applied writes its own
   outcome over it. AppliedIsFinal is about managers that take the lock.
2. *A click that does not end as paused holds nothing back.*
   `docs/autoapply-argon-handoff.md:100`: "An unresolved request or submission blocks
   sibling roles at that tenant." A run that clicked and ends as skipped or failed
   (`runner.ts:3200`, `3267`, `3272`) is not parked (`worker.ts:339`), so the next job of
   the employer is submitted. ParkedBlocksSiblings is about paused rows.
3. *A challenge does not hold back the rest of its iteration.*
   `docs/autoapply-master-tickets.md:211-213` has the employer's other roles wait. The
   cooling tenants are read at `worker.ts:219` and used at 244 and 317; a challenge met
   between cools the employer from the next iteration on, as LaterPassesRest says.
4. *Boards that fail are polled first for ever.* `select-boards.ts:19-21` promises a
   full sweep every ceil(cold / slots) runs. A failure keeps the poll time
   (`state.ts:216-218`), the oldest go first (`select-boards.ts:47`), so as many failing
   boards as there are slots leave none to others until they are evicted.
   SweptWhileHealthy is the bound without failures.
5. *A publish that is skipped or fails is not made good.* `hunt.yml:370-372`: "the next
   run republishes". The next run starts from the catalogue on the data branch,
   and the matches of the skipped one are in the seen file, so they are not judged
   again (`index.ts:366`).
6. *A publication can overwrite a click.* `publish-outreach.ts:120` unites the two copies
   "so nothing that actually happened is forgotten". `push()` asks for the sha again
   (87) after the merge has read the rows (193): a click between the two is lost. The
   history variable `lost` marks such behaviours.
7. *Marks on contacts without a row are written nowhere.* `outreach.ts:2248-2249` has
   whoever was skipped or bounced leave the pool. Served on the machine, a contact
   gets its row when it is mailed; `flag()` (3092-3105) writes nothing when there is
   none, and `take()` (3118-3128) drops the card in memory only. The next refresh
   offers the contact again.
8. *Requests at a host can exceed its cap.* The caps (`config.ts:136`, `util.ts:162-200`)
   bound boards, not requests: a Workday poll runs two searches at once
   (`workday.ts:135`) and leaves the other one running when one fails, and the
   descriptions are fetched under the global bound alone (`index.ts:411`). Adapters that
   read pages report a 429 as an ordinary error, so `route()` sends a second request at
   once, where a rate limit it can recognise starts none (`routing.test.ts:129`).
9. *A paused run clears the backoff of its host.* The marathon counts every report that
   is neither submitted nor failed as a success of the host (588-592), also the one of a
   site in maintenance, whose backoff `run()` has just set; it is set again at 639.
10. *An answer that is cut off closes what it left out.* Adapters stop at a number of
   pages (`darwinbox.ts`, `phenom.ts`, `ukg.ts`), and `updateCatalog()` takes an answer
   for the whole list of its site: what lies behind the cut is closed while it is open.
   OpenWhileListed is about what was never cut off (`steady`).
11. *A failed second read erases the rows.* `route.ts:144-146` on `commitState()`:
   "Retrying with a fresh read is what makes "I clicked it" and "it was recorded" the
   same fact." For a file over 1 MB `getFile()` fetches the text by a second call and
   answers '' with the valid sha when that fails (116-127). `commitState()` refuses
   only null (157), so it writes a file with the row of its own click alone, and the
   host accepts it. The gates take the same text for no rows; that of a mail sent by
   hand is skipped as well when its read fails altogether (317). ClicksKeepClicks is
   of writes on a text that was read, the properties of the gates are of gates that
   saw the rows. That a click never drops a row, `[][req' # req => Within(rows,
   rows')]_vars`, fails of two requests.
12. *Page and sender exceed their common cap.* `outreach.ts:74-80` calls it the "real
   send ceiling", shared "by the click-through server here and by outreach-send.ts".
   The sender works out what is left once (`outreach-send.ts:98-101`) and goes on with
   it, while the page sends under its own count. CapShared is about runs of the sender
   that nobody sent beside; without that, `cut = 0 => \A day \in Days :
   Cardinality(Rolling(day)) <= Cap` fails in the instance `outreach_local`.

## 7. Not modelled

- Of the store: import of a legacy JSON queue, the migrations of budgets and
  experience checks, credits, and the event log but for `submit_clicked`.
- Of the worker: the scope of approved URLs, the fifteen-minute wait for an
  automatic verification, the acceptance target, the order of companies, the limit
  of three live tabs. They choose among the jobs that may run; any order is allowed.
- Of a run: pages, fields and answers are one step, `Form`. `runner.ts` is the longest
  file of the worker and most of it reads and fills pages, with the modules it calls
  (`classifier`, `answers`, `widgets`, `self-learning`, the wizards): heuristics on
  text and layout, whose every outcome `Form` allows.
- Of the hunt: reposts, drops of volume, statistics of hosts, the cache of
  multiple locations, issues, dry and test modes. Of the fetchers the pages an adapter
  walks, retries inside an engine, markers of a wall, the semaphore, to which no
  caller passes a signal, and the keyed limits.
- Of the scripts: credentials and résumés they prepare, the score board, the health of
  hosts that defers a job (any deferral is allowed), the one-off repairs
  `recover-gen*.ts`.
- Of the outreach: who is found for a company and how an address is verified, the words
  of a draft, the budgets of its lanes, the LinkedIn list, two senders at once, which
  race on the file as two requests do. The pid file of a build is looked at and written
  in one step, where `outreach.ts:310-340` takes two: two builds never race for it, and no
  property rests on there being one.
- The session pool, mail evidence, accounts and the vault. Accounts and mail are two
  protocols with sites and mailboxes that are only known by what the code tries.
  Confirmation mail is an action of `ApplicationWorker` that may come whenever the
  employer has the application; that a mail older than the new `startTime` of a resumed
  run is not found (`runner.ts:2445`) is one of the behaviours in which it does not.
- Screening, classification, rendering, the résumé builder, discovery and import, the
  web application, the dashboard and the extension: pure functions on text, input and
  output, or user interface. With the tests, and the heuristics above, they are most of
  the repository's lines, and the reason why the map covers a small share of them.

## 8. Plan

The modules above are modelled, checked and proved as far as section 5 says. What
would add most:

1. Abstract specifications for the other components as `SubmissionOnce` is for the
   worker: a catalogue that follows what the sites list, a contact who is mailed once
   per touch but for what races or is cut off, for both outreach modules.
2. The walk through the pages of a form, with the checkpoint after each page and the
   questions it pauses for.
3. Confirmation mail, with the cursor of the mailbox and the start time it is compared
   with (`runner.ts:2445`).
4. The session pool with the health of hosts.
5. The fetchers' request scheduling: the keyed limits and the semaphore.
