------------------------- MODULE ApplicationWorker -------------------------
(***************************************************************************)
(* One application worker over its restarts (src/autoapply/worker.ts), with *)
(* the run of one application in the browser (AutoApplyRunner.run in        *)
(* runner.ts) and the catalogue intake beside it (intake.ts).               *)
(*                                                                          *)
(* Three things outlive the process: the rows of the queue, the event       *)
(* journal in the same file and one checkpoint.json per application.  The   *)
(* map of parked applications does not: a restart rebuilds it.  A final     *)
(* submit whose outcome nobody saw is ambiguous; what follows is about      *)
(* never sending such an application twice, and about keeping its siblings  *)
(* at the same employer waiting.                                            *)
(*                                                                          *)
(* The worker holds the lock of ApplicationStore, so a queue call is one    *)
(* step here.  Submission is on, every row is in scope, and no tenant is    *)
(* cooling or out of its budget: these only hold more jobs back.            *)
(***************************************************************************)
EXTENDS Naturals, FiniteSets

CONSTANTS
  Jobs,       \* queue ids
  TenantOf,   \* the employer of a job, canonicalEmployerKey
  Listed,     \* jobs at Greenhouse and Lever: a run asks their public API first
  Aliased,    \* jobs that a second catalogue entry also leads to
  None,       \* no job
  MaxSends    \* bound: runs of one job that reach the submit click

ASSUME JobsAssumption ==
  None \notin Jobs /\ Listed \subseteq Jobs /\ Aliased \subseteq Jobs
ASSUME SendsAssumption == MaxSends \in Nat \ {0}

VARIABLES
  worker,     \* "down", "starting" (recovering parked reviews) or "up"
  row,        \* status column; "closed" is skipped for a reason the source undoes
  journal,    \* application_events holds a submit_clicked of the job
  checkpoint, \* what checkpoint.json says of the job
  parked,     \* the map of parked applications: what the report in it says
  run,        \* the application being run, and how far it is
  sends,      \* history: runs that clicked the final Submit
  lost,       \* history: the report of a run that clicked was given up for one that
              \* did not, and nothing has brought it back
  received    \* the employer has the application

vars == <<worker, row, journal, checkpoint, parked, run, sends, lost, received>>

Statuses == {"none", "queued", "applying", "applied", "skipped", "closed",
             "failed", "paused_for_review"}
\* "attempted" is a report with submissionAttempted and no receipt, "receipt" one with
\* both; "open" has neither, "stray" a receipt alone.
Saved == {"none", "open", "attempted", "receipt", "stray"}
Clicked == {"attempted", "receipt"}
Steps == {"preflight", "gate", "load", "form", "prepared", "journaled", "armed",
          "waiting", "done"}
Results == {"none", "receipt", "unproven", "skipped", "paused", "failed"}

Idle == [job |-> None, parked |-> FALSE, step |-> "done", report |-> "none",
         result |-> "none"]

Siblings(j) == {i \in Jobs \ {j} : TenantOf[i] = TenantOf[j]}

\* blocksTenant(): an unresolved submission.
Blocking(i) == parked[i] = "attempted"

-----------------------------------------------------------------------------
(* Start, crash and the catalogue. *)

Init ==
  /\ worker = "down"
  /\ row = [j \in Jobs |-> "none"]
  /\ journal = [j \in Jobs |-> FALSE]
  /\ checkpoint = [j \in Jobs |-> "none"]
  /\ parked = [j \in Jobs |-> "none"]
  /\ run = Idle
  /\ sends = [j \in Jobs |-> 0]
  /\ lost = [j \in Jobs |-> FALSE]
  /\ received = [j \in Jobs |-> FALSE]

\* The constructor of the store parks the claims of the dead process.
Start ==
  /\ worker = "down"
  /\ worker' = "starting"
  /\ row' = [j \in Jobs |-> IF row[j] = "applying" THEN "paused_for_review" ELSE row[j]]
  /\ UNCHANGED <<journal, checkpoint, parked, run, sends, lost, received>>

\* The process dies, or stops between two runs.
Crash ==
  /\ worker # "down"
  /\ worker' = "down"
  /\ parked' = [j \in Jobs |-> "none"]
  /\ run' = Idle
  /\ UNCHANGED <<row, journal, checkpoint, sends, lost, received>>

\* Mutant of Unparked: only reviews that never reached Submit are restored.
UnparkedOpen(j) ==
  row[j] = "paused_for_review" /\ parked[j] = "none" /\ checkpoint[j] = "open"

\* A paused review is restored when it left a checkpoint or a click.
Unparked(j) ==
  /\ row[j] = "paused_for_review" /\ parked[j] = "none"
  /\ checkpoint[j] # "none" \/ journal[j]

\* What the restored report says: a click in the journal is believed over a
\* checkpoint that predates it.
Recovered(j) ==
  IF journal[j] /\ checkpoint[j] \notin {"receipt", "stray"} THEN "attempted"
  ELSE checkpoint[j]

\* Whoever keeps a report that says so knows of the click again.
Recall(j, report) == lost' = [lost EXCEPT ![j] = @ /\ report \notin Clicked]

Repark(j) ==
  /\ worker = "starting"
  /\ Unparked(j)
  /\ checkpoint' = [checkpoint EXCEPT ![j] = Recovered(j)]
  /\ parked' = [parked EXCEPT ![j] = Recovered(j)]
  /\ Recall(j, Recovered(j))
  /\ UNCHANGED <<worker, row, journal, run, sends, received>>

Ready ==
  /\ worker = "starting"
  /\ \A j \in Jobs : ~Unparked(j)
  /\ worker' = "up"
  /\ UNCHANGED <<row, journal, checkpoint, parked, run, sends, lost, received>>

\* intake.poll() works beside a run.  A row is judged when it is new, when its
\* reason is one the source can undo, or, by recordFitProbe(), while it is queued
\* without a description.  An alias of the row is judged in every poll: enqueue()
\* returns the row by its URL and skip() refuses only an applied one.
Judged(j) ==
  \/ row[j] \in {"none", "closed"} /\ row' = [row EXCEPT ![j] = "queued"]
  \/ /\ \/ row[j] \in {"none", "closed", "queued"}
        \/ j \in Aliased /\ row[j] # "applied"
     /\ \E reason \in {"closed", "skipped"} : row' = [row EXCEPT ![j] = reason]

Intake(j) ==
  /\ worker = "up"
  /\ Judged(j)
  /\ UNCHANGED <<worker, journal, checkpoint, parked, run, sends, lost, received>>

-----------------------------------------------------------------------------
(* A run: from the queue (processNext) or of a parked application. *)

Turn == worker = "up" /\ run = Idle

\* Mutant of Held: an application is held back by itself alone.
HeldByItself(j) == Blocking(j)

\* The tenant is blocked.
Held(j) == \E i \in Siblings(j) \cup {j} : Blocking(i)

Claim(j) ==
  /\ Turn
  /\ row[j] = "queued" /\ ~Held(j)
  /\ row' = [row EXCEPT ![j] = "applying"]
  /\ run' = [Idle EXCEPT !.job = j, !.step = "preflight"]
  /\ UNCHANGED <<worker, journal, checkpoint, parked, sends, lost, received>>

\* A parked application is taken up again by itself, when it is ready, or because
\* a person pressed Resume; not while a sibling owns the tenant.
TakeUp(j) ==
  /\ Turn
  /\ parked[j] # "none"
  /\ Blocking(j) \/ ~Held(j)
  /\ run' = [Idle EXCEPT !.job = j, !.parked = TRUE,
                         !.step = IF Blocking(j) THEN "gate" ELSE "preflight"]
  /\ UNCHANGED <<worker, row, journal, checkpoint, parked, sends, lost, received>>

At(j, step) == run.job = j /\ run.step = step
GoTo(step) == run' = [run EXCEPT !.step = step]

\* The same preflight as intake's: go on, rule the job out, or look again later.
Preflight(j) ==
  /\ At(j, "preflight")
  /\ \/ GoTo("gate") /\ UNCHANGED <<row, parked>>
     \/ /\ run' = Idle
        /\ parked' = IF run.parked THEN [parked EXCEPT ![j] = "none"] ELSE parked
        /\ \E reason \in {"skipped", "closed"} :
             row' = [row EXCEPT ![j] = IF @ = "applied" THEN @ ELSE reason]
     \/ /\ run' = Idle
        /\ row' = [row EXCEPT ![j] = IF run.parked THEN "paused_for_review" ELSE "queued"]
        /\ UNCHANGED parked
  /\ UNCHANGED <<worker, journal, checkpoint, sends, lost, received>>

\* The end of run(): the finally block saves the report.
Finish(j, report, result) ==
  /\ run' = [run EXCEPT !.step = "done", !.report = report, !.result = result]
  /\ checkpoint' = [checkpoint EXCEPT ![j] = report]

\* A run may end before it has read the checkpoint: the public API calls the posting
\* closed, the profile or the options are invalid, or the page cannot be opened.  Its
\* fresh report is saved, unless there is no page at all, and with the receipt that the
\* observer of a live tab has seen meanwhile.
Blind(j) ==
  /\ \E result \in IF j \in Listed THEN {"failed", "skipped"} ELSE {"failed"},
        report \in IF run.parked /\ received[j] THEN {"open", "stray"} ELSE {"open"} :
       \/ Finish(j, report, result)
       \/ /\ run' = [run EXCEPT !.step = "done", !.report = report, !.result = result]
          /\ UNCHANGED checkpoint
  /\ lost' = [lost EXCEPT ![j] = @ \/ checkpoint[j] \in Clicked]

Gate(j) ==
  /\ At(j, "gate")
  /\ \/ GoTo("load") /\ UNCHANGED <<checkpoint, lost>>
     \/ Blind(j)
  /\ UNCHANGED <<worker, row, journal, parked, sends, received>>

\* An attempted checkpoint is only reconciled: its receipt, the page it left, or
\* Workday's list of applications.  The page may not open again, and the network or
\* the browser be gone: then the saved receipt is given up as well.
Load(j) ==
  /\ At(j, "load")
  /\ \/ checkpoint[j] \notin Clicked /\ GoTo("form") /\ UNCHANGED checkpoint
     \/ checkpoint[j] = "receipt" /\ Finish(j, "receipt", "receipt")
     \/ checkpoint[j] = "attempted" /\ received[j] /\ Finish(j, "receipt", "receipt")
     \/ /\ checkpoint[j] \in Clicked
        /\ \E result \in {"paused", "skipped", "unproven"} : Finish(j, "attempted", result)
  /\ UNCHANGED <<worker, row, journal, parked, sends, lost, received>>

\* The form is filled up to the reserved submission: an error, a closed posting
\* or a lost network, a gate or an unknown answer, an employer that already has
\* the application, or the saved report of a prepared submission.
Form(j) ==
  /\ At(j, "form")
  /\ \/ \E result \in {"failed", "skipped", "paused"} : Finish(j, "open", result)
     \/ received[j] /\ Finish(j, "stray", "receipt")
     \/ GoTo("prepared") /\ checkpoint' = [checkpoint EXCEPT ![j] = "open"]
  /\ UNCHANGED <<worker, row, journal, parked, sends, lost, received>>

\* Mutant of Prepared: the click is journalled by the caller, after the run.
PreparedUnjournaled(j) ==
  /\ At(j, "prepared")
  /\ GoTo("armed")
  /\ UNCHANGED <<worker, row, journal, checkpoint, parked, sends, lost, received>>

\* onPhase('submit_clicked') reaches the journal before anything is clicked.
Prepared(j) ==
  /\ At(j, "prepared")
  /\ GoTo("journaled")
  /\ journal' = [journal EXCEPT ![j] = TRUE]
  /\ UNCHANGED <<worker, row, checkpoint, parked, sends, lost, received>>

Journaled(j) ==
  /\ At(j, "journaled")
  /\ GoTo("armed")
  /\ checkpoint' = [checkpoint EXCEPT ![j] = "attempted"]
  /\ UNCHANGED <<worker, row, journal, parked, sends, lost, received>>

Arrives(j) == \E got \in {received[j], TRUE} : received' = [received EXCEPT ![j] = got]

\* A CAPTCHA that is not solved skips the job, and the browser, the network or the
\* watchdog may end the run here; else the button is clicked.
Click(j) ==
  /\ At(j, "armed")
  /\ \/ /\ \E result \in {"skipped", "unproven", "paused"} : Finish(j, "attempted", result)
        /\ UNCHANGED <<sends, received>>
     \/ /\ sends[j] < MaxSends
        /\ sends' = [sends EXCEPT ![j] = @ + 1]
        /\ GoTo("waiting") /\ Arrives(j)
        /\ UNCHANGED checkpoint
  /\ UNCHANGED <<worker, row, journal, parked, lost>>

\* Waiting for the receipt, with a second click after a solved CAPTCHA or a
\* healed field.  A CAPTCHA or a lost network skips the job, a browser that
\* closed reports it submitted without a receipt, the rest is paused.
Wait(j) ==
  /\ At(j, "waiting")
  /\ \/ received[j] /\ Finish(j, "receipt", "receipt") /\ UNCHANGED received
     \/ /\ \E result \in {"skipped", "unproven", "paused"} : Finish(j, "attempted", result)
        /\ UNCHANGED received
     \/ Arrives(j) /\ UNCHANGED <<run, checkpoint>>
  /\ UNCHANGED <<worker, row, journal, parked, sends, lost>>

\* park() keeps the report and pauses the row.
Park(j) ==
  /\ parked' = [parked EXCEPT ![j] = run.report]
  /\ Recall(j, run.report)
  /\ row' = [row EXCEPT ![j] = IF @ = "applied" THEN @ ELSE "paused_for_review"]

Applied(j) ==
  /\ parked' = [parked EXCEPT ![j] = "none"]
  /\ row' = [row EXCEPT ![j] = "applied"]

\* Mutant of Record: a queued run is paused without keeping its report.
RecordUnparked(j) ==
  /\ At(j, "done")
  /\ run' = Idle
  /\ row' = [row EXCEPT ![j] = IF run.result = "receipt" THEN "applied"
                               ELSE "paused_for_review"]
  /\ UNCHANGED <<worker, journal, checkpoint, parked, sends, lost, received>>

\* The outcome reaches the queue.  A parked run that shows no receipt is parked
\* again, whatever its status.
Record(j) ==
  /\ At(j, "done")
  /\ run' = Idle
  /\ \/ run.result = "receipt" /\ Applied(j) /\ UNCHANGED lost
     \/ /\ run.result = "paused" \/ (run.parked /\ run.result # "receipt")
        /\ Park(j)
     \/ /\ ~run.parked /\ run.result \in {"skipped", "failed", "unproven"}
        /\ row' = [row EXCEPT ![j] = IF run.result = "skipped" THEN "skipped" ELSE "failed"]
        /\ UNCHANGED <<parked, lost>>
  /\ UNCHANGED <<worker, journal, checkpoint, sends, received>>

\* Around a claimed run something throws: the preflight, the browser that cannot
\* be opened, park() before or after it has kept the report, the runner that cannot
\* be closed.  processNext() catches it.  (Around a parked run it ends the worker.)
Throws(j) ==
  /\ At(j, "preflight") \/ At(j, "done")
  /\ ~run.parked
  /\ run' = Idle
  /\ row' = [row EXCEPT ![j] = IF @ = "applied" THEN @ ELSE "failed"]
  /\ \/ UNCHANGED <<parked, lost>>
     \/ /\ run.result = "paused"
        /\ parked' = [parked EXCEPT ![j] = run.report]
        /\ Recall(j, run.report)
  /\ UNCHANGED <<worker, journal, checkpoint, sends, received>>

-----------------------------------------------------------------------------
(* Evidence that arrives while the application is parked. *)

\* A confirmation mail settles it; how a mail is matched to it is left out.
MailConfirms(j) ==
  /\ Turn
  /\ Blocking(j) /\ received[j]
  /\ Applied(j)
  /\ UNCHANGED <<worker, journal, checkpoint, run, sends, lost, received>>

\* The observer left on a live tab sees the employer's late response and saves its
\* report, which the map has as well unless a later run has replaced it there.
LateReceipt(j) ==
  /\ worker = "up" /\ run.job # j
  /\ Blocking(j) /\ received[j]
  /\ \E report \in Clicked : parked' = [parked EXCEPT ![j] = report]
  /\ checkpoint' = [checkpoint EXCEPT ![j] = "receipt"]
  /\ UNCHANGED <<worker, row, journal, run, sends, lost, received>>

-----------------------------------------------------------------------------
Running(j) ==
  \/ Preflight(j) \/ Gate(j) \/ Load(j) \/ Form(j) \/ Prepared(j) \/ Journaled(j)
  \/ Click(j) \/ Wait(j) \/ Record(j) \/ Throws(j)

Next ==
  \/ Start \/ Crash \/ Ready
  \/ \E j \in Jobs :
       \/ Repark(j) \/ Intake(j) \/ Claim(j) \/ TakeUp(j) \/ Running(j)
       \/ MailConfirms(j) \/ LateReceipt(j)

Spec == Init /\ [][Next]_vars

\* The logon task restarts the worker, which then recovers and runs; a run ends,
\* since a watchdog bounds it, but nothing promises how.
Awake == Start \/ Ready \/ \E j \in Jobs : Repark(j) \/ (Running(j) /\ run' # run)

FairSpec == Spec /\ WF_vars(Awake)

-----------------------------------------------------------------------------
(* Properties. *)

\* Every variable keeps its shape.
TypeOK ==
  /\ worker \in {"down", "starting", "up"}
  /\ row \in [Jobs -> Statuses]
  /\ journal \in [Jobs -> BOOLEAN]
  /\ checkpoint \in [Jobs -> Saved]
  /\ parked \in [Jobs -> Saved]
  /\ run \in [job : Jobs \cup {None}, parked : BOOLEAN, step : Steps,
              report : Saved, result : Results]
  /\ sends \in [Jobs -> 0 .. MaxSends]
  /\ lost \in [Jobs -> BOOLEAN]
  /\ received \in [Jobs -> BOOLEAN]

Sends(j) == sends'[j] > sends[j]

\* A crash at any point of run(), a restart, a Resume, an alias or a later run of a parked
\* application never sends the application a second time, unless a run has ended blind
\* and the report of its click is lost.
NeverSentTwice == [][\A j \in Jobs : Sends(j) => sends[j] = 0 \/ lost[j]]_vars

\* "Reconcile it against saved evidence, employer state or correlated confirmation
\* mail before considering another click": nothing sends an application again.
OneApplication == \A j \in Jobs : sends[j] <= 1

\* The worker promises what SubmissionOnce says.
Once ==
  INSTANCE SubmissionOnce WITH
    Applications <- Jobs, intended <- journal, sent <- sends, forgotten <- lost,
    delivered <- received, settled <- [j \in Jobs |-> row[j] = "applied"]

\* The worker, with all its restarts, reviews, aliases and evidence, keeps the promise:
\* sent only with the intent on record, not again while the click is remembered, applied
\* only if the employer has it, and none of it undone.
SubmitsOnce == Once!Spec

\* The click is journalled and checkpointed before the button is pressed: whatever is
\* lost afterwards but the report of it, the disk says that the application may be sent.
ClickOnRecord ==
  \A j \in Jobs :
    sends[j] > 0 => journal[j] /\ (lost[j] \/ checkpoint[j] \in Clicked)

\* An alias may put a parked application back into the queue while the map keeps
\* its old report: the properties of the map and of the queue are about the others.
Plain == Jobs \ Aliased

\* While the worker takes new work, every paused application that may have been
\* sent is in the map that blocks its tenant, or is settled by a receipt; one whose
\* report was lost is so again after a restart, which believes the journal.
AmbiguityKnown ==
  \A j \in Plain :
    Turn /\ row[j] = "paused_for_review" /\ sends[j] > 0 /\ ~lost[j] => parked[j] \in Clicked

\* worker.ts, "without requeueing any ambiguous submission": an application that
\* may have been sent and shows no receipt is never put back into the queue.
NeverRequeued ==
  [][\A j \in Plain :
       sends[j] > 0 /\ ~lost[j] /\ checkpoint[j] # "receipt" /\ row[j] # "queued"
         => row'[j] # "queued"]_vars

\* Nothing is submitted at an employer while a sibling is paused with a submit
\* nobody saw the outcome of, also after a restart has rebuilt the map.
ParkedBlocksSiblings ==
  [][\A j \in Jobs : Sends(j) =>
       \A i \in Siblings(j) \cap Plain :
         ~(row[i] = "paused_for_review" /\ sends[i] > 0 /\ ~lost[i]
           /\ checkpoint[i] # "receipt")]_vars

\* Whatever happens between a click and the record of its outcome, a worker that
\* stays up ends with the application settled or on the list a person reviews.
ClickAccountedFor ==
  <>[](worker # "down") =>
    \A j \in Jobs :
      sends[j] > 0 ~> parked[j] # "none" \/ row[j] \notin {"applying", "paused_for_review"}
=============================================================================
