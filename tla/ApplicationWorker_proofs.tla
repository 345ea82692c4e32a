----------------------- MODULE ApplicationWorker_proofs -----------------------
(***************************************************************************)
(* What TLAPS proves about ApplicationWorker for any set of jobs, employers  *)
(* and aliases, and any number of crashes: a click is on the disk before it  *)
(* is made, an application is sent again only after a run has lost the       *)
(* report of its click, and a paused one that may have been sent keeps its   *)
(* siblings waiting.                                                        *)
(*                                                                          *)
(* The argument: a run reaches the form only when the checkpoint tells of no *)
(* attempt; between the form and the click the journal and then the          *)
(* checkpoint are written; no later step but a run that ends blind takes     *)
(* back what they say, and the history knows of that one (RunOnRecord,       *)
(* OnRecord).  What the map of parked applications says agrees with the disk *)
(* (Mapped), so a tenant is blocked whenever an application of it may have   *)
(* been sent and is not lost (Remembered, Guarded).                          *)
(***************************************************************************)
EXTENDS ApplicationWorker, TLAPS

-----------------------------------------------------------------------------
(* The inductive invariant: Local of each job by itself, and two of all.     *)

\* Nothing runs before the map is rebuilt, and the map dies with the process.
Asleep ==
  /\ worker # "up" => run = Idle
  /\ worker = "down" => \A j \in Jobs : parked[j] = "none"

\* How far the run of j is, and what is on the disk by then.
RunOnRecord(j) ==
  run.job = j =>
    /\ run.step \in {"form", "prepared", "journaled", "armed"} => sends[j] = 0 \/ lost[j]
    /\ run.step \in {"journaled", "armed", "waiting"} => journal[j]
    /\ run.step \in {"armed", "waiting"} => checkpoint[j] \in Clicked
    /\ run.step = "done" =>
         /\ run.report # "none"
         /\ IF run.report \in Clicked THEN checkpoint[j] = run.report
            ELSE checkpoint[j] \notin Clicked \/ lost[j]
    /\ run.step = "preflight" => run.result = "none"

\* The click is on the disk, and the disk claims no other.
OnRecord(j) ==
  /\ sends[j] > 0 => journal[j] /\ (lost[j] \/ checkpoint[j] \in Clicked)
  /\ checkpoint[j] \in Clicked => journal[j]

\* Only a parked run past its preflight is of an application that blocks.
RunFree(j) ==
  run.job = j /\ (run.step = "preflight" \/ ~run.parked) => parked[j] # "attempted"

\* The map says no more than the disk, until a run of j writes.
Untouched(j) == run.job # j \/ run.step \in {"preflight", "gate", "load"}

Mapped(j) ==
  Untouched(j) =>
    /\ parked[j] = "attempted" => checkpoint[j] \in Clicked
    /\ parked[j] = "receipt" /\ j \in Plain => checkpoint[j] = "receipt"

\* A parked application is not in the queue; a run is of a claimed row or of a
\* parked application.
Parted(j) ==
  j \in Plain =>
    /\ parked[j] # "none" => row[j] \notin {"none", "queued", "closed", "applying"}
    /\ run.job = j /\ run.parked => parked[j] # "none"
    /\ run.job = j /\ ~run.parked => row[j] = "applying" /\ parked[j] = "none"

\* An application that may have been sent: the map says so, and it returns to the
\* queue only with a receipt.
Remembered(j) ==
  j \in Plain /\ sends[j] > 0 /\ ~lost[j] =>
    /\ run.job # j \/ run.step = "preflight" => parked[j] \notin {"open", "stray"}
    /\ worker = "up" /\ row[j] = "paused_for_review" /\ run.job # j => parked[j] # "none"
    /\ row[j] \in {"none", "queued", "closed"} => checkpoint[j] = "receipt"
    /\ run.job = j /\ run.step = "preflight" => checkpoint[j] = "receipt"

Local(j) ==
  /\ RunOnRecord(j) /\ OnRecord(j) /\ RunFree(j) /\ Mapped(j) /\ Parted(j)
  /\ Remembered(j)

Unresolved(i) ==
  row[i] = "paused_for_review" /\ sends[i] > 0 /\ ~lost[i] /\ checkpoint[i] # "receipt"

\* No sibling is unresolved while the run of j may still come to the click.
Guarded(j) ==
  run.job = j =>
    \A i \in Siblings(j) \cap Plain :
      /\ run.step \in {"preflight", "form", "prepared", "journaled", "armed"}
           => ~Unresolved(i)
      /\ run.step \in {"gate", "load"} => ~Unresolved(i) \/ checkpoint[j] \in Clicked

IInv == TypeOK /\ Asleep /\ \A j \in Jobs : Local(j) /\ Guarded(j)

-----------------------------------------------------------------------------
(* Facts about the helpers. *)

Written == {"open", "attempted", "receipt", "stray"}

\* A run that finishes keeps its job and saves its report.
LEMMA FinishSaves ==
  ASSUME TypeOK, NEW j \in Jobs, NEW report \in Written, NEW result \in Results,
         Finish(j, report, result)
  PROVE  /\ run' \in [job : Jobs \cup {None}, parked : BOOLEAN, step : Steps,
                      report : Saved, result : Results]
         /\ run'.job = run.job /\ run'.parked = run.parked /\ run'.step = "done"
         /\ run'.report = report /\ run'.result = result
         /\ checkpoint' \in [Jobs -> Saved]
         /\ checkpoint'[j] = report
         /\ \A i \in Jobs \ {j} : checkpoint'[i] = checkpoint[i]
<1>1. report \in Saved
  BY DEF Saved, Written
<1> QED BY <1>1 DEF Finish, TypeOK, Steps

\* A run that ends blind, with its report saved or not.
LEMMA BlindEnds ==
  ASSUME TypeOK, NEW j \in Jobs, Blind(j)
  PROVE  /\ run' \in [job : Jobs \cup {None}, parked : BOOLEAN, step : Steps,
                      report : Saved, result : Results]
         /\ run'.job = run.job /\ run'.parked = run.parked /\ run'.step = "done"
         /\ run'.report \in {"open", "stray"} /\ run'.result # "receipt"
         /\ run'.report = "stray" => received[j]
         /\ checkpoint' \in [Jobs -> Saved]
         /\ checkpoint'[j] \in {checkpoint[j], run'.report}
         /\ \A i \in Jobs \ {j} : checkpoint'[i] = checkpoint[i] /\ lost'[i] = lost[i]
         /\ lost'[j] = (lost[j] \/ checkpoint[j] \in Clicked)
<1> PICK result \in {"failed", "skipped"},
         report \in IF run.parked /\ received[j] THEN {"open", "stray"} ELSE {"open"} :
      \/ Finish(j, report, result)
      \/ /\ run' = [run EXCEPT !.step = "done", !.report = report, !.result = result]
         /\ UNCHANGED checkpoint
  BY DEF Blind
<1>1. report \in Written /\ report \in {"open", "stray"} /\ (report = "stray" => received[j])
  BY DEF Written
<1>2. /\ lost'[j] = (lost[j] \/ checkpoint[j] \in Clicked)
      /\ \A i \in Jobs \ {j} : lost'[i] = lost[i]
  BY DEF Blind, TypeOK
<1>3. CASE Finish(j, report, result)
  <2>1. result \in Results
    BY DEF Results
  <2> QED BY <1>1, <1>2, <1>3, <2>1, FinishSaves
<1>4. CASE /\ run' = [run EXCEPT !.step = "done", !.report = report, !.result = result]
           /\ UNCHANGED checkpoint
  BY <1>1, <1>2, <1>4 DEF TypeOK, Steps, Results, Saved
<1> QED BY <1>3, <1>4

LEMMA IdleRuns ==
  /\ Idle.job = None /\ Idle.parked = FALSE /\ Idle.step = "done"
  /\ Idle.report = "none" /\ Idle.result = "none"
  /\ Idle \in [job : Jobs \cup {None}, parked : BOOLEAN, step : Steps,
               report : Saved, result : Results]
BY DEF Idle, Steps, Results, Saved

\* Only a worker that is up runs a job.
LEMMA RunningUp ==
  ASSUME Asleep, TypeOK, NEW j \in Jobs, run.job = j
  PROVE  worker = "up" /\ run # Idle
BY JobsAssumption, IdleRuns DEF Asleep

-----------------------------------------------------------------------------
(* Every variable keeps its shape. *)

LEMMA InitTypes == Init => TypeOK
BY IdleRuns, SendsAssumption DEF Init, TypeOK, Statuses, Saved

LEMMA NextTypes == TypeOK /\ [Next]_vars => TypeOK'
<1> SUFFICES ASSUME TypeOK, [Next]_vars PROVE TypeOK'
  OBVIOUS
<1> USE DEF TypeOK
<1>1. CASE Start
  BY <1>1 DEF Start, Statuses
<1>2. CASE Crash
  BY <1>2, IdleRuns DEF Crash, Saved
<1>3. CASE Ready
  BY <1>3 DEF Ready
<1>4. ASSUME NEW j \in Jobs, Repark(j) PROVE TypeOK'
  BY <1>4 DEF Repark, Recovered, Recall, Saved
<1>5. ASSUME NEW j \in Jobs, Intake(j) PROVE TypeOK'
  BY <1>5 DEF Intake, Judged, Statuses
<1>6. ASSUME NEW j \in Jobs, Claim(j) PROVE TypeOK'
  BY <1>6, IdleRuns DEF Claim, Statuses, Steps
<1>7. ASSUME NEW j \in Jobs, TakeUp(j) PROVE TypeOK'
  BY <1>7, IdleRuns DEF TakeUp, Steps
<1>8. ASSUME NEW j \in Jobs, Preflight(j) PROVE TypeOK'
  BY <1>8, IdleRuns DEF Preflight, GoTo, Saved, Statuses, Steps
<1>9. ASSUME NEW j \in Jobs, Gate(j) PROVE TypeOK'
  <2>1. CASE GoTo("load") /\ UNCHANGED <<checkpoint, lost>>
    BY <1>9, <2>1 DEF Gate, GoTo, Steps
  <2>2. CASE Blind(j)
    <3>1. lost' \in [Jobs -> BOOLEAN]
      BY <2>2 DEF Blind
    <3> QED BY <1>9, <2>2, <3>1, BlindEnds DEF Gate
  <2> QED BY <1>9, <2>1, <2>2 DEF Gate
<1>10. ASSUME NEW j \in Jobs, Load(j) PROVE TypeOK'
  <2>1. CASE GoTo("form") /\ UNCHANGED checkpoint
    BY <1>10, <2>1 DEF Load, GoTo, Steps
  <2>2. ASSUME NEW result \in {"receipt", "paused", "skipped", "unproven"},
               NEW report \in Clicked, Finish(j, report, result)
        PROVE  TypeOK'
    <3>1. UNCHANGED <<worker, row, journal, parked, sends, lost, received>>
      BY <1>10 DEF Load
    <3> QED BY <3>1, <2>2, FinishSaves DEF Results, Clicked, Written
  <2> QED BY <1>10, <2>1, <2>2 DEF Load, Clicked
<1>11. ASSUME NEW j \in Jobs, Form(j) PROVE TypeOK'
  <2>1. ASSUME NEW result \in {"failed", "skipped", "paused", "receipt"},
               NEW report \in {"open", "stray"}, Finish(j, report, result)
        PROVE  TypeOK'
    <3>1. UNCHANGED <<worker, row, journal, parked, sends, lost, received>>
      BY <1>11 DEF Form
    <3> QED BY <3>1, <2>1, FinishSaves DEF Results, Written
  <2>2. CASE GoTo("prepared") /\ checkpoint' = [checkpoint EXCEPT ![j] = "open"]
    BY <1>11, <2>2 DEF Form, GoTo, Steps, Saved
  <2> QED BY <1>11, <2>1, <2>2 DEF Form
<1>12. ASSUME NEW j \in Jobs, Prepared(j) PROVE TypeOK'
  BY <1>12 DEF Prepared, GoTo, Steps
<1>13. ASSUME NEW j \in Jobs, Journaled(j) PROVE TypeOK'
  BY <1>13 DEF Journaled, GoTo, Steps, Saved
<1>14. ASSUME NEW j \in Jobs, Click(j) PROVE TypeOK'
  <2>1. ASSUME NEW result \in {"skipped", "unproven", "paused"},
               Finish(j, "attempted", result), UNCHANGED <<sends, received>>
        PROVE  TypeOK'
    BY <1>14, <2>1, FinishSaves DEF Click, Results, Written
  <2>2. CASE /\ sends[j] < MaxSends
             /\ sends' = [sends EXCEPT ![j] = @ + 1]
             /\ GoTo("waiting") /\ Arrives(j)
             /\ UNCHANGED checkpoint
    <3>1. sends[j] + 1 \in 0 .. MaxSends
      BY <2>2, SendsAssumption
    <3>2. run' \in [job : Jobs \cup {None}, parked : BOOLEAN, step : Steps,
                    report : Saved, result : Results]
      BY <2>2 DEF GoTo, Steps
    <3>3. received' \in [Jobs -> BOOLEAN] /\ sends' \in [Jobs -> 0 .. MaxSends]
      BY <2>2, <3>1 DEF Arrives
    <3> QED BY <1>14, <2>2, <3>2, <3>3 DEF Click
  <2> QED BY <1>14, <2>1, <2>2 DEF Click
<1>15. ASSUME NEW j \in Jobs, Wait(j) PROVE TypeOK'
  <2>1. ASSUME NEW result \in {"receipt", "skipped", "unproven", "paused"},
               NEW report \in Clicked, Finish(j, report, result), UNCHANGED received
        PROVE  TypeOK'
    <3>1. UNCHANGED <<worker, row, journal, parked, sends, lost>>
      BY <1>15 DEF Wait
    <3> QED BY <3>1, <2>1, FinishSaves DEF Results, Clicked, Written
  <2>2. CASE Arrives(j) /\ UNCHANGED <<run, checkpoint>>
    BY <1>15, <2>2 DEF Wait, Arrives
  <2> QED BY <1>15, <2>1, <2>2 DEF Wait, Clicked
<1>16. ASSUME NEW j \in Jobs, Record(j) PROVE TypeOK'
  BY <1>16, IdleRuns DEF Record, Applied, Park, Recall, Statuses, Saved
<1>17. ASSUME NEW j \in Jobs, Throws(j) PROVE TypeOK'
  BY <1>17, IdleRuns DEF Throws, Recall, Statuses
<1>18. ASSUME NEW j \in Jobs, MailConfirms(j) PROVE TypeOK'
  BY <1>18 DEF MailConfirms, Applied, Statuses, Saved
<1>19. ASSUME NEW j \in Jobs, LateReceipt(j) PROVE TypeOK'
  BY <1>19 DEF LateReceipt, Clicked, Saved
<1>20. CASE UNCHANGED vars
  BY <1>20 DEF vars
<1> QED
  BY <1>1, <1>2, <1>3, <1>4, <1>5, <1>6, <1>7, <1>8, <1>9, <1>10, <1>11, <1>12, <1>13,
     <1>14, <1>15, <1>16, <1>17, <1>18, <1>19, <1>20 DEF Next, Running

\* The variables keep their shape in every state of every run.
THEOREM TypeCorrect == Spec => []TypeOK
BY InitTypes, NextTypes, PTL DEF Spec

-----------------------------------------------------------------------------
(* The jobs that a step is not about. *)

\* A step of another job, in a worker that stays as it is.
LEMMA OthersKept ==
  ASSUME NEW i \in Jobs, Local(i), Guarded(i), worker' = worker,
         row'[i] = row[i], journal'[i] = journal[i], checkpoint'[i] = checkpoint[i],
         parked'[i] = parked[i], sends'[i] = sends[i], lost'[i] = lost[i],
         run.job # i, run'.job # i
  PROVE  Local(i)' /\ Guarded(i)'
BY DEF Local, RunOnRecord, OnRecord, RunFree, Untouched, Mapped, Parted, Remembered,
       Guarded

\* A step of the run of j is about j alone.
LEMMA RunFrame ==
  ASSUME TypeOK, NEW j \in Jobs, Running(j)
  PROVE  /\ run.job = j /\ run'.job \in {j, None} /\ worker' = worker
         /\ \A i \in Jobs \ {j} :
              /\ row'[i] = row[i] /\ journal'[i] = journal[i] /\ sends'[i] = sends[i]
              /\ checkpoint'[i] = checkpoint[i] /\ parked'[i] = parked[i]
              /\ lost'[i] = lost[i]
<1> USE DEF TypeOK
<1>1. run.job = j
  BY DEF Running, At, Preflight, Gate, Load, Form, Prepared, Journaled, Click, Wait,
         Record, Throws
<1>2. ASSUME NEW report \in Written, NEW result \in Results, Finish(j, report, result)
      PROVE  /\ run'.job = j
             /\ \A i \in Jobs \ {j} : checkpoint'[i] = checkpoint[i]
  BY <1>1, <1>2, FinishSaves
<1>3. ASSUME NEW step, GoTo(step) PROVE run'.job = j
  BY <1>1, <1>3 DEF GoTo
<1>4. CASE Preflight(j)
  BY <1>1, <1>3, <1>4, IdleRuns DEF Preflight
<1>5. CASE Gate(j)
  <2>1. UNCHANGED <<worker, row, journal, parked, sends>>
    BY <1>5 DEF Gate
  <2>2. CASE GoTo("load") /\ UNCHANGED <<checkpoint, lost>>
    BY <1>1, <1>3, <2>1, <2>2
  <2>3. CASE Blind(j)
    BY <1>1, <2>1, <2>3, BlindEnds
  <2> QED BY <1>5, <2>2, <2>3 DEF Gate
<1>6. CASE Load(j)
  <2>1. UNCHANGED <<worker, row, journal, parked, sends, lost>>
    BY <1>6 DEF Load
  <2>2. /\ run'.job = j
        /\ \A i \in Jobs \ {j} : checkpoint'[i] = checkpoint[i]
    BY <1>2, <1>3, <1>6 DEF Load, Results, Written
  <2> QED BY <1>1, <2>1, <2>2
<1>7. CASE Form(j)
  <2>1. UNCHANGED <<worker, row, journal, parked, sends, lost>>
    BY <1>7 DEF Form
  <2>2. /\ run'.job = j
        /\ \A i \in Jobs \ {j} : checkpoint'[i] = checkpoint[i]
    BY <1>2, <1>3, <1>7 DEF Form, Results, Written
  <2> QED BY <1>1, <2>1, <2>2
<1>8. CASE Prepared(j)
  BY <1>1, <1>3, <1>8 DEF Prepared
<1>9. CASE Journaled(j)
  BY <1>1, <1>3, <1>9 DEF Journaled
<1>10. CASE Click(j)
  BY <1>1, <1>2, <1>3, <1>10 DEF Click, Results, Written
<1>11. CASE Wait(j)
  <2>1. UNCHANGED <<worker, row, journal, parked, sends, lost>>
    BY <1>11 DEF Wait
  <2>2. /\ run'.job = j
        /\ \A i \in Jobs \ {j} : checkpoint'[i] = checkpoint[i]
    BY <1>1, <1>2, <1>11 DEF Wait, Results, Written
  <2> QED BY <1>1, <2>1, <2>2
<1>12. CASE Record(j)
  BY <1>1, <1>12, IdleRuns DEF Record, Applied, Park, Recall
<1>13. CASE Throws(j)
  BY <1>1, <1>13, IdleRuns DEF Throws, Recall
<1> QED
  BY <1>4, <1>5, <1>6, <1>7, <1>8, <1>9, <1>10, <1>11, <1>12, <1>13 DEF Running

-----------------------------------------------------------------------------
(* The steps of a run keep what holds of its own job. *)

\* What is known of the job of a run.
LEMMA PreflightLocal ==
  ASSUME TypeOK, NEW j \in Jobs, Local(j), Preflight(j)
  PROVE  Local(j)'
<1> USE DEF TypeOK
<1>1. At(j, "preflight") /\ UNCHANGED <<worker, journal, checkpoint, sends, lost>>
  BY DEF Preflight
<1>2. CASE GoTo("gate") /\ UNCHANGED <<row, parked>>
  BY <1>1, <1>2 DEF At, GoTo, Local, RunOnRecord, OnRecord, RunFree, Untouched, Mapped,
                    Parted, Remembered
<1>3. CASE /\ run' = Idle
           /\ parked' = IF run.parked THEN [parked EXCEPT ![j] = "none"] ELSE parked
           /\ \E reason \in {"skipped", "closed"} :
                row' = [row EXCEPT ![j] = IF @ = "applied" THEN @ ELSE reason]
  <2>1. parked'[j] = IF run.parked THEN "none" ELSE parked[j]
    BY <1>3
  <2>2. row'[j] \in {"applied", "skipped", "closed"}
    BY <1>3
  <2> QED BY <1>1, <1>3, <2>1, <2>2, IdleRuns, JobsAssumption
          DEF At, Local, RunOnRecord, OnRecord, RunFree, Untouched, Mapped, Parted,
              Remembered
<1>4. CASE /\ run' = Idle
           /\ row' = [row EXCEPT ![j] = IF run.parked THEN "paused_for_review"
                                        ELSE "queued"]
           /\ UNCHANGED parked
  <2>1. row'[j] = IF run.parked THEN "paused_for_review" ELSE "queued"
    BY <1>4
  <2> QED BY <1>1, <1>4, <2>1, IdleRuns, JobsAssumption
          DEF At, Local, RunOnRecord, OnRecord, RunFree, Untouched, Mapped, Parted,
              Remembered
<1> QED BY <1>2, <1>3, <1>4 DEF Preflight

\* A run that ends keeps what holds, when its report says what was sent or is known to
\* have lost it.
LEMMA FinishLocal ==
  ASSUME TypeOK, NEW j \in Jobs, Local(j), run.job = j, run.step # "preflight",
         NEW report \in Written, NEW result \in Results, Finish(j, report, result),
         report \in Clicked \/ sends[j] = 0 \/ lost[j], report \in Clicked => journal[j],
         UNCHANGED <<worker, row, journal, parked, sends, lost>>
  PROVE  Local(j)'
<1> USE DEF TypeOK
<1>1. /\ run'.job = j /\ run'.parked = run.parked /\ run'.step = "done"
      /\ run'.report = report /\ run'.result = result /\ checkpoint'[j] = report
  BY FinishSaves
<1>2. RunOnRecord(j)'
  BY <1>1 DEF RunOnRecord, Written
<1>3. OnRecord(j)'
  BY <1>1 DEF Local, OnRecord
<1>4. Remembered(j)'
  <2>1. j \in Plain => row[j] \notin {"none", "queued", "closed"}
    BY DEF Local, Parted
  <2> QED BY <1>1, <2>1 DEF Local, Remembered
<1>5. RunFree(j)' /\ Mapped(j)' /\ Parted(j)'
  BY <1>1 DEF Local, RunFree, Mapped, Untouched, Parted
<1> QED BY <1>2, <1>3, <1>4, <1>5 DEF Local

\* A run that ends blind is known to have lost what the checkpoint said.
LEMMA GateLocal ==
  ASSUME TypeOK, NEW j \in Jobs, Local(j), Gate(j)
  PROVE  Local(j)'
<1> USE DEF TypeOK
<1>1. At(j, "gate") /\ UNCHANGED <<worker, row, journal, parked, sends>>
  BY DEF Gate
<1>2. CASE GoTo("load") /\ UNCHANGED <<checkpoint, lost>>
  BY <1>1, <1>2 DEF At, GoTo, Local, RunOnRecord, OnRecord, RunFree, Untouched, Mapped,
                    Parted, Remembered
<1>3. CASE Blind(j)
  <2>1. /\ run'.job = j /\ run'.parked = run.parked /\ run'.step = "done"
        /\ run'.report \in {"open", "stray"}
        /\ checkpoint'[j] \in {checkpoint[j], run'.report}
        /\ lost'[j] = (lost[j] \/ checkpoint[j] \in Clicked)
    BY <1>1, <1>3, BlindEnds DEF At
  <2>2. run'.report \notin Clicked /\ run'.report # "none"
    BY <2>1 DEF Clicked
  <2>3. RunOnRecord(j)' /\ OnRecord(j)'
    BY <1>1, <2>1, <2>2 DEF Local, RunOnRecord, OnRecord
  <2>4. Remembered(j)'
    <3>1. j \in Plain => row[j] \notin {"none", "queued", "closed"}
      BY <1>1 DEF At, Local, Parted
    <3> QED BY <1>1, <2>1, <3>1 DEF Remembered
  <2>5. RunFree(j)' /\ Mapped(j)' /\ Parted(j)'
    BY <1>1, <2>1 DEF At, Local, RunFree, Mapped, Untouched, Parted
  <2> QED BY <2>3, <2>4, <2>5 DEF Local
<1> QED BY <1>2, <1>3 DEF Gate

\* The form is only reached without an attempt in the checkpoint.
LEMMA LoadLocal ==
  ASSUME TypeOK, NEW j \in Jobs, Local(j), Load(j)
  PROVE  Local(j)'
<1> USE DEF TypeOK
<1>1. At(j, "load") /\ UNCHANGED <<worker, row, journal, parked, sends, lost>>
  BY DEF Load
<1>2. CASE checkpoint[j] \notin Clicked /\ GoTo("form") /\ UNCHANGED checkpoint
  <2>1. sends[j] = 0 \/ lost[j]
    BY <1>2 DEF Local, OnRecord
  <2> QED BY <1>1, <1>2, <2>1 DEF At, GoTo, Local, RunOnRecord, OnRecord, RunFree,
                                  Untouched, Mapped, Parted, Remembered
<1>3. ASSUME NEW result \in {"receipt", "paused", "skipped", "unproven"},
             NEW report \in Clicked, Finish(j, report, result), checkpoint[j] \in Clicked
      PROVE  Local(j)'
  <2>1. journal[j] /\ report \in Written
    BY <1>3 DEF Local, OnRecord, Clicked, Written
  <2> QED BY <1>1, <1>3, <2>1, FinishLocal DEF At, Results
<1> QED BY <1>2, <1>3 DEF Load, Clicked

LEMMA FormLocal ==
  ASSUME TypeOK, NEW j \in Jobs, Local(j), Form(j)
  PROVE  Local(j)'
<1> USE DEF TypeOK
<1>1. At(j, "form") /\ UNCHANGED <<worker, row, journal, parked, sends, lost>>
  BY DEF Form
<1>2. sends[j] = 0 \/ lost[j]
  BY <1>1 DEF At, Local, RunOnRecord
<1>3. ASSUME NEW result \in {"failed", "skipped", "paused", "receipt"},
             NEW report \in {"open", "stray"}, Finish(j, report, result)
      PROVE  Local(j)'
  BY <1>1, <1>2, <1>3, FinishLocal DEF At, Results, Written, Clicked
<1>4. CASE GoTo("prepared") /\ checkpoint' = [checkpoint EXCEPT ![j] = "open"]
  BY <1>1, <1>2, <1>4 DEF At, GoTo, Local, RunOnRecord, OnRecord, RunFree, Untouched,
                          Mapped, Parted, Remembered, Plain, Clicked
<1> QED BY <1>3, <1>4 DEF Form

LEMMA PreparedLocal ==
  ASSUME TypeOK, NEW j \in Jobs, Local(j), Prepared(j)
  PROVE  Local(j)'
<1> USE DEF TypeOK
<1>1. run'.job = j /\ run'.step = "journaled" /\ run'.parked = run.parked /\ journal'[j]
  BY DEF Prepared, At, GoTo
<1> QED BY <1>1 DEF Prepared, At, Local, RunOnRecord, OnRecord, RunFree, Untouched,
                    Mapped, Parted, Remembered

LEMMA JournaledLocal ==
  ASSUME TypeOK, NEW j \in Jobs, Local(j), Journaled(j)
  PROVE  Local(j)'
<1> USE DEF TypeOK
<1>1. /\ run'.job = j /\ run'.step = "armed" /\ run'.parked = run.parked
      /\ checkpoint'[j] = "attempted"
  BY DEF Journaled, At, GoTo
<1>2. j \in Plain => row[j] \notin {"none", "queued", "closed"}
  BY DEF Journaled, At, Local, Parted
<1> QED BY <1>1, <1>2 DEF Journaled, At, Local, RunOnRecord, OnRecord, RunFree,
                          Untouched, Mapped, Parted, Remembered, Clicked

\* The click, with the journal and the checkpoint before it.
LEMMA ClickLocal ==
  ASSUME TypeOK, NEW j \in Jobs, Local(j), Click(j)
  PROVE  Local(j)'
<1> USE DEF TypeOK
<1>1. At(j, "armed") /\ UNCHANGED <<worker, row, journal, parked, lost>>
  BY DEF Click
<1>2. ASSUME NEW result \in {"skipped", "unproven", "paused"},
             Finish(j, "attempted", result), UNCHANGED <<sends, received>>
      PROVE  Local(j)'
  <2>1. journal[j]
    BY <1>1 DEF At, Local, RunOnRecord
  <2> QED BY <1>1, <1>2, <2>1, FinishLocal DEF At, Results, Written, Clicked
<1>3. CASE sends' = [sends EXCEPT ![j] = @ + 1] /\ GoTo("waiting") /\ UNCHANGED checkpoint
  <2>1. run'.job = j /\ run'.step = "waiting" /\ run'.parked = run.parked
    BY <1>1, <1>3 DEF At, GoTo
  <2>2. journal[j] /\ checkpoint[j] \in Clicked
    BY <1>1 DEF At, Local, RunOnRecord
  <2>3. j \in Plain => row[j] \notin {"none", "queued", "closed"}
    BY <1>1 DEF At, Local, Parted
  <2> QED BY <1>1, <1>3, <2>1, <2>2, <2>3 DEF At, Local, RunOnRecord, OnRecord, RunFree,
                    Untouched, Mapped, Parted, Remembered
<1> QED BY <1>2, <1>3 DEF Click

LEMMA WaitLocal ==
  ASSUME TypeOK, NEW j \in Jobs, Local(j), Wait(j)
  PROVE  Local(j)'
<1> USE DEF TypeOK
<1>1. At(j, "waiting") /\ UNCHANGED <<worker, row, journal, parked, sends, lost>>
  BY DEF Wait
<1>2. ASSUME NEW result \in {"receipt", "skipped", "unproven", "paused"},
             NEW report \in Clicked, Finish(j, report, result)
      PROVE  Local(j)'
  <2>1. journal[j] /\ report \in Written
    BY <1>1, <1>2 DEF At, Local, RunOnRecord, Written, Clicked
  <2> QED BY <1>1, <1>2, <2>1, FinishLocal DEF At, Results
<1>3. CASE UNCHANGED <<run, checkpoint>>
  BY <1>1, <1>3 DEF Local, RunOnRecord, OnRecord, RunFree, Untouched, Mapped, Parted,
                    Remembered
<1> QED BY <1>2, <1>3 DEF Wait, Clicked

\* A run that sent the application does not end with an open report, unless it lost the
\* other one.
LEMMA DoneReports ==
  ASSUME NEW j \in Jobs, Local(j), At(j, "done")
  PROVE  /\ run.report # "none"
         /\ run.report \in Clicked => checkpoint[j] = run.report /\ journal[j]
         /\ sends[j] > 0 => run.report \in Clicked \/ lost[j]
BY DEF At, Local, RunOnRecord, OnRecord

\* The report of a run that is over goes into the map, with the row paused or failed.
LEMMA ParkLocal ==
  ASSUME TypeOK, NEW j \in Jobs, Local(j), At(j, "done"), run'.job # j,
         parked' = [parked EXCEPT ![j] = run.report], Recall(j, run.report),
         row'[j] \in {"applied", "paused_for_review", "failed"},
         UNCHANGED <<worker, journal, checkpoint, sends>>
  PROVE  Local(j)'
<1> USE DEF TypeOK
<1>1. parked'[j] = run.report /\ lost'[j] = (lost[j] /\ run.report \notin Clicked)
  BY DEF Recall
<1>2. /\ run.report # "none"
      /\ run.report \in Clicked => checkpoint[j] = run.report /\ journal[j]
      /\ sends[j] > 0 => run.report \in Clicked \/ lost[j]
  BY DoneReports
<1>3. OnRecord(j)
  BY DEF Local
<1>4. OnRecord(j)'
  BY <1>1, <1>2, <1>3 DEF OnRecord
<1>5. Mapped(j)'
  BY <1>1, <1>2 DEF Mapped, Clicked
<1>6. Remembered(j)'
  <2>1. j \in Plain' /\ sends'[j] > 0 /\ ~lost'[j] => run.report \in Clicked
    BY <1>1, <1>2
  <2>2. run.report \in Clicked => run.report \notin {"none", "open", "stray"}
    BY DEF Clicked
  <2> QED BY <1>1, <2>1, <2>2 DEF Remembered
<1>7. RunOnRecord(j)' /\ RunFree(j)' /\ Parted(j)'
  BY <1>1, <1>2 DEF RunOnRecord, RunFree, Parted
<1> QED BY <1>4, <1>5, <1>6, <1>7 DEF Local

LEMMA RecordLocal ==
  ASSUME TypeOK, NEW j \in Jobs, Local(j), Record(j)
  PROVE  Local(j)'
<1> USE DEF TypeOK
<1>1. /\ At(j, "done") /\ run' = Idle /\ run'.job # j
      /\ UNCHANGED <<worker, journal, checkpoint, sends>>
  BY IdleRuns, JobsAssumption DEF Record
<1>2. CASE Applied(j) /\ UNCHANGED lost
  <2>1. parked'[j] = "none" /\ row'[j] = "applied"
    BY <1>2 DEF Applied
  <2> QED BY <1>1, <1>2, <2>1 DEF Local, RunOnRecord, OnRecord, RunFree, Untouched, Mapped,
                                  Parted, Remembered
<1>3. CASE Park(j)
  <2>1. row'[j] \in {"applied", "paused_for_review"}
    BY <1>3 DEF Park
  <2> QED BY <1>1, <1>3, <2>1, ParkLocal DEF Park
<1>4. CASE /\ ~run.parked
           /\ row' = [row EXCEPT ![j] = IF run.result = "skipped" THEN "skipped"
                                        ELSE "failed"]
           /\ UNCHANGED <<parked, lost>>
  <2>1. row'[j] \in {"skipped", "failed"}
    BY <1>4
  <2>2. parked[j] # "attempted" /\ (j \in Plain => parked[j] = "none")
    BY <1>1, <1>4 DEF At, Local, RunFree, Parted
  <2> QED BY <1>1, <1>4, <2>1, <2>2 DEF Local, RunOnRecord, OnRecord, RunFree, Untouched,
                                        Mapped, Parted, Remembered
<1> QED BY <1>2, <1>3, <1>4 DEF Record

LEMMA ThrowsLocal ==
  ASSUME TypeOK, NEW j \in Jobs, Local(j), Throws(j)
  PROVE  Local(j)'
<1> USE DEF TypeOK
<1>1. /\ run.job = j /\ ~run.parked /\ run' = Idle /\ run'.job # j
      /\ UNCHANGED <<worker, journal, checkpoint, sends>>
      /\ row'[j] \in {"applied", "failed"}
  BY IdleRuns, JobsAssumption DEF Throws, At
<1>2. parked[j] # "attempted" /\ (j \in Plain => parked[j] = "none")
  BY <1>1 DEF Local, RunFree, Parted
<1>3. CASE UNCHANGED <<parked, lost>>
  BY <1>1, <1>2, <1>3 DEF Local, RunOnRecord, OnRecord, RunFree, Untouched, Mapped,
                          Parted, Remembered
<1>4. CASE /\ run.result = "paused"
           /\ parked' = [parked EXCEPT ![j] = run.report]
           /\ Recall(j, run.report)
  <2>1. CASE At(j, "done")
    BY <1>1, <1>4, <2>1, ParkLocal
  <2>2. CASE At(j, "preflight")
    BY <1>4, <2>2 DEF At, Local, RunOnRecord
  <2> QED BY <2>1, <2>2 DEF Throws
<1> QED BY <1>3, <1>4 DEF Throws

\* The steps of a run keep what holds of its job ...
LEMMA RunLocal ==
  ASSUME TypeOK, NEW j \in Jobs, Local(j), Running(j)
  PROVE  Local(j)'
BY PreflightLocal, GateLocal, LoadLocal, FormLocal, PreparedLocal, JournaledLocal,
   ClickLocal, WaitLocal, RecordLocal, ThrowsLocal DEF Running

\* ... and its siblings stay as they are; the gate and the attempted checkpoint keep
\* a run that began beside an unresolved sibling from the form.
LEMMA RunGuarded ==
  ASSUME TypeOK, NEW j \in Jobs, Guarded(j), Running(j)
  PROVE  Guarded(j)'
<1> USE DEF TypeOK
<1>1. \A i \in Siblings(j) : Unresolved(i)' <=> Unresolved(i)
  BY RunFrame DEF Siblings, Unresolved
<1>2. \A i \in Siblings(j)' : i \in Siblings(j)
  BY DEF Siblings
<1>3. ASSUME NEW report \in Written, NEW result \in Results, Finish(j, report, result)
      PROVE  Guarded(j)'
  <2>1. run'.step = "done"
    BY <1>3, FinishSaves
  <2> QED BY <2>1 DEF Guarded
<1>4. CASE run' = Idle
  BY <1>4, IdleRuns DEF Guarded
<1>5. CASE Preflight(j) /\ GoTo("gate")
  <2>1. run'.step = "gate" /\ At(j, "preflight")
    BY <1>5 DEF GoTo, Preflight
  <2> QED BY <1>1, <1>2, <2>1 DEF Guarded, At
<1>6. CASE Gate(j) /\ GoTo("load") /\ UNCHANGED checkpoint
  <2>1. run'.step = "load" /\ At(j, "gate")
    BY <1>6 DEF GoTo, Gate
  <2> QED BY <1>1, <1>2, <1>6, <2>1 DEF Guarded, At
<1>7. CASE Load(j) /\ checkpoint[j] \notin Clicked /\ GoTo("form")
  <2>1. run'.step = "form" /\ At(j, "load")
    BY <1>7 DEF GoTo, Load
  <2> QED BY <1>1, <1>2, <1>7, <2>1 DEF Guarded, At
<1>8. CASE Form(j) /\ GoTo("prepared")
  <2>1. run'.step = "prepared" /\ At(j, "form")
    BY <1>8 DEF GoTo, Form
  <2> QED BY <1>1, <1>2, <2>1 DEF Guarded, At
<1>9. CASE Prepared(j)
  <2>1. run'.step = "journaled" /\ At(j, "prepared")
    BY <1>9 DEF Prepared, GoTo
  <2> QED BY <1>1, <1>2, <2>1 DEF Guarded, At
<1>10. CASE Journaled(j)
  <2>1. run'.step = "armed" /\ At(j, "journaled")
    BY <1>10 DEF Journaled, GoTo
  <2> QED BY <1>1, <1>2, <2>1 DEF Guarded, At
<1>11. CASE Click(j) /\ GoTo("waiting")
  <2>1. run'.step = "waiting"
    BY <1>11 DEF GoTo
  <2> QED BY <2>1 DEF Guarded
<1>12. CASE Wait(j) /\ UNCHANGED run
  BY <1>12 DEF Wait, At, Guarded
<1>13. CASE Preflight(j)
  BY <1>4, <1>5, <1>13 DEF Preflight
<1>14. CASE Gate(j)
  <2>1. CASE Blind(j)
    <3>1. run'.step = "done"
      BY <2>1, BlindEnds
    <3> QED BY <3>1 DEF Guarded
  <2> QED BY <1>6, <1>14, <2>1 DEF Gate
<1>15. CASE Load(j)
  BY <1>3, <1>7, <1>15 DEF Load, Results, Clicked, Written
<1>16. CASE Form(j)
  BY <1>3, <1>8, <1>16 DEF Form, Results, Written
<1>17. CASE Click(j)
  BY <1>3, <1>11, <1>17 DEF Click, Results, Written
<1>18. CASE Wait(j)
  BY <1>3, <1>12, <1>18 DEF Wait, Results, Written
<1>19. CASE Record(j) \/ Throws(j)
  BY <1>4, <1>19 DEF Record, Throws
<1> QED
  BY <1>9, <1>10, <1>13, <1>14, <1>15, <1>16, <1>17, <1>18, <1>19 DEF Running

\* A step of a run keeps the invariant.
LEMMA RunKeeps ==
  ASSUME IInv, TypeOK', NEW j \in Jobs, Running(j)
  PROVE  IInv'
<1> USE DEF IInv
<1>1. run.job = j /\ run'.job \in {j, None} /\ worker' = worker
  BY RunFrame
<1>2. worker = "up"
  BY <1>1, RunningUp
<1>3. Asleep'
  BY <1>1, <1>2 DEF Asleep
<1>4. Local(j)' /\ Guarded(j)'
  BY RunLocal, RunGuarded
<1>5. ASSUME NEW i \in Jobs \ {j} PROVE Local(i)' /\ Guarded(i)'
  BY <1>1, <1>5, RunFrame, OthersKept, JobsAssumption
<1> QED BY <1>3, <1>4, <1>5

-----------------------------------------------------------------------------
(* The other steps keep the invariant. *)

LEMMA InitKeeps == Init => IInv
<1> SUFFICES ASSUME Init PROVE IInv
  OBVIOUS
<1>1. TypeOK
  BY InitTypes
<1>2. run = Idle /\ worker = "down" /\ Asleep
  BY DEF Init, Asleep
<1>3. ASSUME NEW j \in Jobs PROVE Local(j) /\ Guarded(j)
  <2>1. run.job # j /\ sends[j] = 0 /\ parked[j] = "none" /\ checkpoint[j] \notin Clicked
    BY <1>2, IdleRuns, JobsAssumption DEF Init, Clicked
  <2> QED BY <2>1 DEF Local, RunOnRecord, OnRecord, RunFree, Untouched, Mapped, Parted,
                      Remembered, Guarded
<1> QED BY <1>1, <1>2, <1>3 DEF IInv

\* The recovery of the rows: nothing is in the map yet.
LEMMA StartKeeps ==
  ASSUME IInv, TypeOK', Start
  PROVE  IInv'
<1> USE DEF IInv, TypeOK
<1>1. /\ run = Idle /\ run' = Idle /\ worker' = "starting"
      /\ UNCHANGED <<journal, checkpoint, parked, sends, lost>>
  BY DEF Start, Asleep
<1>2. ASSUME NEW j \in Jobs PROVE Local(j)' /\ Guarded(j)'
  <2>1. run.job # j /\ run'.job # j /\ parked[j] = "none"
    BY <1>1, IdleRuns, JobsAssumption DEF Asleep, Start
  <2>2. row'[j] \in {"none", "queued", "closed"} => row[j] = row'[j]
    BY DEF Start
  <2>3. Local(j)
    OBVIOUS
  <2> HIDE DEF IInv, TypeOK
  <2> QED BY <1>1, <2>1, <2>2, <2>3 DEF Local, RunOnRecord, OnRecord, RunFree, Untouched,
                  Mapped, Parted, Remembered, Guarded
<1> QED BY <1>1, <1>2 DEF Asleep

\* A crash takes the map along and leaves the disk.
LEMMA CrashKeeps ==
  ASSUME IInv, TypeOK', Crash
  PROVE  IInv'
<1> USE DEF IInv
<1>1. /\ run' = Idle /\ worker' = "down"
      /\ UNCHANGED <<row, journal, checkpoint, sends, lost>>
  BY DEF Crash
<1>2. ASSUME NEW j \in Jobs PROVE Local(j)' /\ Guarded(j)' /\ parked'[j] = "none"
  <2>1. run'.job # j /\ parked'[j] = "none"
    BY <1>1, IdleRuns, JobsAssumption DEF Crash
  <2>2. j \in Plain /\ sends[j] > 0 /\ ~lost[j] /\ row[j] \in {"none", "queued", "closed"}
          => checkpoint[j] = "receipt"
    BY DEF Local, Remembered
  <2>3. OnRecord(j)
    BY DEF Local
  <2> QED BY <1>1, <2>1, <2>2, <2>3 DEF Local, RunOnRecord, OnRecord, RunFree, Untouched,
                  Mapped, Parted, Remembered, Guarded
<1> QED BY <1>1, <1>2 DEF Asleep

\* A paused application goes into the map with what the disk says.
LEMMA ReparkKeeps ==
  ASSUME IInv, TypeOK', NEW j \in Jobs, Repark(j)
  PROVE  IInv'
<1> USE DEF IInv, TypeOK
<1>1. /\ worker = "starting" /\ run = Idle /\ row[j] = "paused_for_review"
      /\ UNCHANGED <<worker, row, journal, run, sends>>
  BY DEF Repark, Unparked, Asleep
<1>2. \A i \in Jobs : run.job # i
  BY <1>1, IdleRuns, JobsAssumption
<1>3. Local(j)' /\ Guarded(j)'
  <2>1. /\ checkpoint'[j] = Recovered(j) /\ parked'[j] = Recovered(j)
        /\ lost'[j] = (lost[j] /\ Recovered(j) \notin Clicked)
    BY DEF Repark, Recall
  <2>2. OnRecord(j)
    BY DEF Local
  <2>3. Recovered(j) \in Clicked => journal[j]
    BY <2>2 DEF Recovered, OnRecord
  <2>4. Recovered(j) \in Clicked \/ Recovered(j) = checkpoint[j]
    BY DEF Recovered, Clicked
  <2>5. Recovered(j) # "none"
    BY DEF Repark, Unparked, Recovered
  <2>6. sends[j] > 0 /\ ~lost'[j] => Recovered(j) \in Clicked
    BY <2>1, <2>2, <2>4 DEF OnRecord
  <2> HIDE DEF IInv, TypeOK
  <2>7. OnRecord(j)'
    BY <1>1, <2>1, <2>2, <2>3, <2>6 DEF OnRecord
  <2>8. Mapped(j)'
    BY <1>1, <1>2, <2>1 DEF Mapped, Clicked
  <2>9. Remembered(j)'
    BY <1>1, <1>2, <2>1, <2>5, <2>6 DEF Remembered, Clicked
  <2>10. RunOnRecord(j)' /\ RunFree(j)' /\ Parted(j)' /\ Guarded(j)'
    BY <1>1, <1>2, <2>1 DEF RunOnRecord, RunFree, Parted, Guarded
  <2> QED BY <2>7, <2>8, <2>9, <2>10 DEF Local
<1>4. ASSUME NEW i \in Jobs \ {j} PROVE Local(i)' /\ Guarded(i)'
  BY <1>1, <1>2, <1>4, OthersKept DEF Repark, Recall
<1> QED BY <1>1, <1>3, <1>4 DEF Asleep

\* The worker takes work when no paused application is missing from the map.
LEMMA ReadyKeeps ==
  ASSUME IInv, TypeOK', Ready
  PROVE  IInv'
<1> USE DEF IInv
<1>1. /\ run = Idle /\ worker' = "up"
      /\ UNCHANGED <<row, journal, checkpoint, parked, run, sends, lost>>
  BY DEF Ready, Asleep
<1>2. ASSUME NEW j \in Jobs PROVE Local(j)' /\ Guarded(j)'
  <2>1. run.job # j
    BY <1>1, IdleRuns, JobsAssumption
  <2>2. row[j] = "paused_for_review" /\ journal[j] => parked[j] # "none"
    BY DEF Ready, Unparked
  <2>3. Local(j)
    OBVIOUS
  <2>4. j \in Plain /\ sends[j] > 0 => journal[j]
    BY <2>3 DEF Local, OnRecord, Plain
  <2> QED BY <1>1, <2>1, <2>2, <2>3, <2>4 DEF Local, RunOnRecord, OnRecord, RunFree,
                  Untouched, Mapped, Parted, Remembered, Guarded
<1> QED BY <1>1, <1>2 DEF Asleep

\* What a step beside a run does to the siblings of the job that is run.
LEMMA GuardKept ==
  ASSUME NEW i \in Jobs, Guarded(i), run'.job = run.job, run'.step = run.step,
         run.job = i /\ checkpoint[i] \in Clicked => checkpoint'[i] \in Clicked,
         \A k \in Plain : Unresolved(k)' => Unresolved(k)
  PROVE  Guarded(i)'
BY DEF Guarded, Siblings, Plain

\* Intake never touches a claimed, paused or failed row but by an alias.
LEMMA IntakeKeeps ==
  ASSUME IInv, TypeOK', NEW j \in Jobs, Intake(j)
  PROVE  IInv'
<1> USE DEF IInv, TypeOK
<1>1. UNCHANGED <<worker, journal, checkpoint, parked, run, sends, lost>>
  BY DEF Intake
<1>2. row'[j] \in {"queued", "closed", "skipped"} /\ \A i \in Jobs \ {j} : row'[i] = row[i]
  BY DEF Intake, Judged
<1>3. j \in Plain => row[j] \in {"none", "closed", "queued"}
  BY DEF Intake, Judged, Plain
<1>4. \A i \in Jobs : Local(i) /\ Guarded(i)
  OBVIOUS
<1> HIDE DEF IInv, TypeOK
<1>5. Local(j)'
  BY <1>1, <1>2, <1>3, <1>4 DEF Local, RunOnRecord, OnRecord, RunFree, Untouched, Mapped,
                                Parted, Remembered
<1>6. ASSUME NEW i \in Jobs \ {j} PROVE Local(i)'
  BY <1>1, <1>2, <1>4, <1>6 DEF Local, RunOnRecord, OnRecord, RunFree, Untouched, Mapped,
                                Parted, Remembered
<1>7. \A k \in Jobs : Unresolved(k)' => Unresolved(k)
  BY <1>1, <1>2 DEF Unresolved
<1>8. ASSUME NEW i \in Jobs PROVE Guarded(i)'
  BY <1>1, <1>4, <1>7, GuardKept DEF Plain
<1> QED BY <1>1, <1>5, <1>6, <1>8 DEF Asleep, IInv

\* A free tenant has no unresolved application.
LEMMA FreeTenant ==
  ASSUME IInv, Turn, NEW j \in Jobs, ~Held(j)
  PROVE  \A i \in Siblings(j) \cap Plain : ~Unresolved(i)
<1> SUFFICES ASSUME NEW i \in Siblings(j) \cap Plain, Unresolved(i) PROVE FALSE
  OBVIOUS
<1>1. run.job # i /\ i \in Jobs /\ i \in Plain
  BY IdleRuns, JobsAssumption DEF Turn, Plain
<1>2. parked[i] \in {"attempted", "receipt"}
  <2>1. parked[i] \notin {"none", "open", "stray"}
    BY <1>1 DEF IInv, Local, Remembered, Unresolved, Turn
  <2> QED BY <1>1, <2>1 DEF IInv, TypeOK, Saved
<1>3. parked[i] # "attempted"
  BY DEF Held, Blocking
<1> QED BY <1>1, <1>2, <1>3 DEF IInv, Local, Mapped, Untouched, Unresolved

LEMMA ClaimKeeps ==
  ASSUME IInv, TypeOK', NEW j \in Jobs, Claim(j)
  PROVE  IInv'
<1> USE DEF IInv, TypeOK
<1>1. /\ worker = "up" /\ run = Idle /\ row[j] = "queued" /\ row'[j] = "applying"
      /\ \A i \in Jobs \ {j} : row'[i] = row[i]
      /\ UNCHANGED <<worker, journal, checkpoint, parked, sends, lost>>
  BY DEF Claim, Turn
<1>2. run'.job = j /\ run'.step = "preflight" /\ ~run'.parked /\ run'.result = "none"
  BY IdleRuns DEF Claim
<1>3. \A i \in Jobs : run.job # i
  BY <1>1, IdleRuns, JobsAssumption
<1>4. parked[j] # "attempted"
  BY DEF Claim, Held, Blocking
<1>5. \A i \in Siblings(j) \cap Plain : ~Unresolved(i)
  BY FreeTenant DEF Claim
<1>6. Local(j)
  OBVIOUS
<1>7. Local(j)'
  <2> HIDE DEF IInv, TypeOK
  <2> QED BY <1>1, <1>2, <1>3, <1>4, <1>6 DEF Local, RunOnRecord, OnRecord, RunFree,
                  Untouched, Mapped, Parted, Remembered
<1>8. Guarded(j)'
  BY <1>1, <1>2, <1>5 DEF Guarded, Siblings, Unresolved
<1>9. ASSUME NEW i \in Jobs \ {j} PROVE Local(i)' /\ Guarded(i)'
  BY <1>1, <1>2, <1>3, <1>9, OthersKept
<1> QED BY <1>1, <1>7, <1>8, <1>9 DEF Asleep

\* Of an application that blocks its tenant the run begins at the gate, and its
\* checkpoint says that it was attempted.
LEMMA TakeUpKeeps ==
  ASSUME IInv, TypeOK', NEW j \in Jobs, TakeUp(j)
  PROVE  IInv'
<1> USE DEF IInv, TypeOK
<1>1. /\ worker = "up" /\ run = Idle /\ parked[j] # "none"
      /\ UNCHANGED <<worker, row, journal, checkpoint, parked, sends, lost>>
  BY DEF TakeUp, Turn
<1>2. /\ run'.job = j /\ run'.parked /\ run'.result = "none"
      /\ run'.step = IF Blocking(j) THEN "gate" ELSE "preflight"
  BY IdleRuns DEF TakeUp
<1>3. \A i \in Jobs : run.job # i
  BY <1>1, IdleRuns, JobsAssumption
<1>4. Local(j)
  OBVIOUS
<1>5. Local(j)'
  <2>1. parked[j] \in {"open", "attempted", "receipt", "stray"}
    BY <1>1 DEF Saved
  <2> HIDE DEF IInv, TypeOK
  <2> QED BY <1>1, <1>2, <1>3, <1>4, <2>1 DEF Local, RunOnRecord, OnRecord, RunFree,
                  Untouched, Mapped, Parted, Remembered, Blocking
<1>6. Guarded(j)'
  <2>1. CASE Blocking(j)
    <3>1. checkpoint[j] \in Clicked
      BY <1>3, <1>4, <2>1 DEF Blocking, Local, Mapped, Untouched
    <3> QED BY <1>1, <1>2, <2>1, <3>1 DEF Guarded
  <2>2. CASE ~Blocking(j)
    <3>1. \A i \in Siblings(j) \cap Plain : ~Unresolved(i)
      BY <2>2, FreeTenant DEF TakeUp
    <3> QED BY <1>1, <1>2, <2>2, <3>1 DEF Guarded, Siblings, Unresolved
  <2> QED BY <2>1, <2>2
<1>7. ASSUME NEW i \in Jobs \ {j} PROVE Local(i)' /\ Guarded(i)'
  BY <1>1, <1>2, <1>3, <1>7, OthersKept
<1> QED BY <1>1, <1>5, <1>6, <1>7 DEF Asleep

LEMMA MailConfirmsKeeps ==
  ASSUME IInv, TypeOK', NEW j \in Jobs, MailConfirms(j)
  PROVE  IInv'
<1> USE DEF IInv, TypeOK
<1>1. /\ worker = "up" /\ run = Idle /\ row'[j] = "applied" /\ parked'[j] = "none"
      /\ \A i \in Jobs \ {j} : row'[i] = row[i] /\ parked'[i] = parked[i]
      /\ UNCHANGED <<worker, journal, checkpoint, run, sends, lost>>
  BY DEF MailConfirms, Turn, Applied
<1>2. \A i \in Jobs : run.job # i
  BY <1>1, IdleRuns, JobsAssumption
<1>3. Local(j)
  OBVIOUS
<1>4. Local(j)' /\ Guarded(j)'
  BY <1>1, <1>2, <1>3 DEF Local, RunOnRecord, OnRecord, RunFree, Untouched, Mapped,
                          Parted, Remembered, Guarded
<1>5. ASSUME NEW i \in Jobs \ {j} PROVE Local(i)' /\ Guarded(i)'
  BY <1>1, <1>2, <1>5, OthersKept
<1> QED BY <1>1, <1>4, <1>5 DEF Asleep

\* A receipt is written to the checkpoint and to the map at once.
LEMMA LateReceiptKeeps ==
  ASSUME IInv, TypeOK', NEW j \in Jobs, LateReceipt(j)
  PROVE  IInv'
<1> USE DEF IInv, TypeOK
<1>1. /\ worker = "up" /\ run.job # j /\ parked[j] = "attempted"
      /\ parked'[j] \in Clicked /\ checkpoint'[j] = "receipt"
      /\ \A i \in Jobs \ {j} : checkpoint'[i] = checkpoint[i] /\ parked'[i] = parked[i]
      /\ UNCHANGED <<worker, row, journal, run, sends, lost>>
  BY DEF LateReceipt, Blocking
<1>2. \A i \in Jobs : Local(i) /\ Guarded(i)
  OBVIOUS
<1> HIDE DEF IInv, TypeOK
<1>3. Local(j)'
  BY <1>1, <1>2 DEF Local, RunOnRecord, OnRecord, RunFree, Untouched, Mapped, Parted,
                    Remembered, Clicked
<1>4. ASSUME NEW i \in Jobs \ {j} PROVE Local(i)'
  BY <1>1, <1>2, <1>4 DEF Local, RunOnRecord, OnRecord, RunFree, Untouched, Mapped,
                          Parted, Remembered
<1>5. \A k \in Jobs : Unresolved(k)' => Unresolved(k)
  BY <1>1 DEF Unresolved
<1>6. ASSUME NEW i \in Jobs PROVE Guarded(i)'
  BY <1>1, <1>2, <1>5, GuardKept DEF Plain
<1> QED BY <1>1, <1>3, <1>4, <1>6 DEF Asleep, IInv

-----------------------------------------------------------------------------
(* The invariant, and what follows from it. *)

LEMMA NextKeeps == IInv /\ [Next]_vars => IInv'
<1> SUFFICES ASSUME IInv, [Next]_vars PROVE IInv'
  OBVIOUS
<1>1. TypeOK'
  BY NextTypes DEF IInv
<1>2. CASE UNCHANGED vars
  BY <1>2 DEF vars, IInv, TypeOK, Asleep, Local, RunOnRecord, OnRecord, RunFree, Untouched,
              Mapped, Parted, Remembered, Guarded, Unresolved, Siblings
<1> QED
  BY <1>1, <1>2, StartKeeps, CrashKeeps, ReadyKeeps, ReparkKeeps, IntakeKeeps, ClaimKeeps,
     TakeUpKeeps, RunKeeps, MailConfirmsKeeps, LateReceiptKeeps DEF Next

LEMMA Inductive == Spec => []IInv
BY InitKeeps, NextKeeps, PTL DEF Spec

LEMMA SentOnRecord == IInv => ClickOnRecord
BY DEF IInv, Local, OnRecord, ClickOnRecord, Clicked

\* submit_clicked and saveAttempt(): whatever is lost after the click but its report,
\* journal and checkpoint say that the application may have been sent.
THEOREM Recorded == Spec => []ClickOnRecord
BY Inductive, SentOnRecord, PTL

\* The worker blocks by every paused application that may have been sent, short of one
\* whose report was lost.
THEOREM Known == Spec => []AmbiguityKnown
<1>1. IInv => AmbiguityKnown
  <2> SUFFICES ASSUME IInv, NEW j \in Plain, Turn, row[j] = "paused_for_review",
                      sends[j] > 0, ~lost[j]
               PROVE  parked[j] \in Clicked
    BY DEF AmbiguityKnown
  <2>1. j \in Jobs /\ run.job # j
    BY IdleRuns, JobsAssumption DEF Turn, Plain
  <2>2. parked[j] \notin {"none", "open", "stray"}
    BY <2>1 DEF IInv, Local, Remembered, Turn
  <2> QED BY <2>1, <2>2 DEF IInv, TypeOK, Saved, Clicked
<1> QED BY <1>1, Inductive, PTL

\* Only the click sends an application, and its own.
LEMMA SendsClick ==
  ASSUME TypeOK, Next, NEW j \in Jobs, sends'[j] # sends[j]
  PROVE  Click(j)
<1> USE DEF TypeOK
<1>1. PICK k \in Jobs : Click(k)
  BY DEF Next, Running, vars, Start, Crash, Ready, Repark, Intake, Claim, TakeUp,
         Preflight, Gate, Blind, Load, Form, Prepared, Journaled, Wait, Record, Throws,
         MailConfirms, LateReceipt
<1>2. k = j
  BY <1>1 DEF Click
<1> QED BY <1>1, <1>2

\* run() under crashes, restarts and Resume: an application is sent again only after the
\* report of its click was lost.
THEOREM SentOnce == Spec => NeverSentTwice
<1>1. IInv /\ [Next]_vars => [\A j \in Jobs : Sends(j) => sends[j] = 0 \/ lost[j]]_vars
  <2> SUFFICES ASSUME IInv, Next, NEW j \in Jobs, Sends(j)
               PROVE  sends[j] = 0 \/ lost[j]
    OBVIOUS
  <2>1. sends'[j] # sends[j]
    BY DEF Sends, IInv, TypeOK
  <2>2. run.job = j /\ run.step = "armed"
    BY <2>1, SendsClick DEF IInv, Click, At
  <2> QED BY <2>2 DEF IInv, Local, RunOnRecord
<1> QED BY <1>1, Inductive, PTL DEF Spec, NeverSentTwice

\* Only intake and a preflight put a row into the queue, and neither writes a
\* checkpoint.
LEMMA Queueing ==
  ASSUME TypeOK, Next, NEW j \in Jobs, row[j] # "queued", row'[j] = "queued"
  PROVE  UNCHANGED <<checkpoint, sends, lost>>
<1> USE DEF TypeOK
<1>1. ASSUME UNCHANGED row PROVE FALSE
  BY <1>1
<1>2. CASE Start
  BY <1>2 DEF Start
<1>3. ASSUME NEW i \in Jobs, Record(i) PROVE FALSE
  BY <1>3 DEF Record, Applied, Park
<1>4. ASSUME NEW i \in Jobs, Throws(i) PROVE FALSE
  BY <1>4 DEF Throws
<1>5. ASSUME NEW i \in Jobs, Claim(i) \/ MailConfirms(i) PROVE FALSE
  BY <1>5 DEF Claim, MailConfirms, Applied
<1>6. ASSUME NEW i \in Jobs, Intake(i) \/ Preflight(i)
      PROVE  UNCHANGED <<checkpoint, sends, lost>>
  BY <1>6 DEF Intake, Preflight
<1>7. ASSUME NEW i \in Jobs,
             \/ Gate(i) \/ Load(i) \/ Form(i) \/ Prepared(i) \/ Journaled(i)
             \/ Click(i) \/ Wait(i) \/ LateReceipt(i) \/ Repark(i) \/ TakeUp(i)
      PROVE  FALSE
  BY <1>1, <1>7 DEF Gate, Load, Form, Prepared, Journaled, Click, Wait, LateReceipt,
                    Repark, TakeUp
<1>8. CASE Crash \/ Ready
  BY <1>1, <1>8 DEF Crash, Ready
<1> QED
  BY <1>2, <1>3, <1>4, <1>5, <1>6, <1>7, <1>8 DEF Next, Running

\* "Without requeueing any ambiguous submission": what may have been sent stays out
\* of the queue until a receipt settles it or its report is lost.
THEOREM Withheld == Spec => NeverRequeued
<1>1. IInv /\ IInv' /\ [Next]_vars =>
        [\A j \in Plain :
           sends[j] > 0 /\ ~lost[j] /\ checkpoint[j] # "receipt" /\ row[j] # "queued"
             => row'[j] # "queued"]_vars
  <2> SUFFICES ASSUME IInv, IInv', Next, NEW j \in Plain, sends[j] > 0, ~lost[j],
                      checkpoint[j] # "receipt", row[j] # "queued", row'[j] = "queued"
               PROVE  FALSE
    OBVIOUS
  <2>1. j \in Jobs /\ j \in Plain'
    BY DEF Plain
  <2>2. UNCHANGED <<checkpoint, sends, lost>>
    BY <2>1, Queueing DEF IInv
  <2>3. Remembered(j)'
    BY <2>1 DEF IInv, Local
  <2> QED BY <2>1, <2>2, <2>3 DEF Remembered
<1> QED BY <1>1, Inductive, PTL DEF Spec, NeverRequeued

\* An employer gets nothing more while one of its applications is paused with a
\* submit that nobody saw the outcome of.
THEOREM Blocked == Spec => ParkedBlocksSiblings
<1>1. IInv /\ [Next]_vars =>
        [\A j \in Jobs : Sends(j) =>
           \A i \in Siblings(j) \cap Plain :
             ~(row[i] = "paused_for_review" /\ sends[i] > 0 /\ ~lost[i]
               /\ checkpoint[i] # "receipt")]_vars
  <2> SUFFICES ASSUME IInv, Next, NEW j \in Jobs, Sends(j),
                      NEW i \in Siblings(j) \cap Plain
               PROVE  ~Unresolved(i)
    BY DEF Unresolved
  <2>1. sends'[j] # sends[j]
    BY DEF Sends, IInv, TypeOK
  <2>2. run.job = j /\ run.step = "armed"
    BY <2>1, SendsClick DEF IInv, Click, At
  <2> QED BY <2>2 DEF IInv, Guarded
<1> QED BY <1>1, Inductive, PTL DEF Spec, ParkedBlocksSiblings

-----------------------------------------------------------------------------
(* SubmissionOnce.  The invariant above says when the click comes; that what the  *)
(* disk, the map and the queue take for a receipt is one needs an invariant more. *)

\* A receipt is believed only of an application that arrived, and one arrives only
\* once it is sent; an applied row is out of the map and of every run.
Truthful(j) ==
  /\ received[j] => sends[j] > 0
  /\ checkpoint[j] \in {"receipt", "stray"} => received[j]
  /\ parked[j] \in {"receipt", "stray"} => received[j]
  /\ row[j] = "applied" => received[j]
  /\ run.job = j /\ (run.result = "receipt" \/ run.report \in {"receipt", "stray"})
       => received[j]
  /\ run.job = j /\ run.step = "waiting" => sends[j] > 0
  /\ run.job = j \/ parked[j] # "none" => row[j] # "applied"

Truth == \A j \in Jobs : Truthful(j)

\* A step that leaves an application alone keeps what is said of it.
LEMMA TruthFrame ==
  ASSUME NEW j, Truthful(j),
         received'[j] = received[j], sends'[j] = sends[j],
         checkpoint'[j] = checkpoint[j], parked'[j] = parked[j], row'[j] = row[j],
         run'.job # j \/ (run'.job = run.job /\ run'.result = run.result
                          /\ run'.report = run.report /\ run'.step # "waiting")
  PROVE  Truthful(j)'
BY DEF Truthful

\* A run that finishes with a receipt has one.
LEMMA TruthFinish ==
  ASSUME TypeOK, NEW j \in Jobs, NEW report \in Written, NEW result \in Results,
         Truthful(j), run.job = j, Finish(j, report, result),
         result = "receipt" \/ report \in {"receipt", "stray"} => received[j],
         UNCHANGED <<row, parked, sends, received>>
  PROVE  Truthful(j)'
<1>1. /\ run'.job = j /\ run'.step = "done" /\ run'.report = report
      /\ run'.result = result /\ checkpoint'[j] = report
  BY FinishSaves
<1> QED BY <1>1 DEF Truthful

\* A run takes only its own application to the employer.
LEMMA ReceivedFrame ==
  ASSUME TypeOK, NEW j \in Jobs, Running(j)
  PROVE  \A i \in Jobs \ {j} : received'[i] = received[i]
BY DEF TypeOK, Running, Preflight, Gate, Load, Form, Prepared, Journaled, Click, Wait,
       Record, Throws, Arrives

LEMMA RunTruthful ==
  ASSUME TypeOK, NEW j \in Jobs, Truthful(j), Running(j)
  PROVE  Truthful(j)'
<1> USE DEF TypeOK
<1>1. run.job = j
  BY RunFrame
<1>2. row[j] # "applied"
  BY <1>1 DEF Truthful
<1>3. ASSUME NEW report \in Written, NEW result \in Results, Finish(j, report, result),
             result = "receipt" \/ report \in {"receipt", "stray"} => received[j],
             UNCHANGED <<row, parked, sends, received>>
      PROVE  Truthful(j)'
  BY <1>1, <1>3, TruthFinish
<1>4. ASSUME NEW step \in Steps \ {"waiting"}, GoTo(step),
             UNCHANGED <<row, parked, checkpoint, sends, received>>
      PROVE  Truthful(j)'
  BY <1>1, <1>4 DEF GoTo, Truthful
<1>5. CASE Preflight(j)
  <2>1. CASE GoTo("gate") /\ UNCHANGED <<row, parked>>
    BY <1>4, <1>5, <2>1 DEF Preflight, Steps
  <2>2. CASE run' = Idle /\ row'[j] # "applied" /\ parked'[j] \in {parked[j], "none"}
    BY <1>2, <1>5, <2>2, IdleRuns, JobsAssumption DEF Preflight, Truthful
  <2> QED BY <1>1, <1>2, <1>5, <2>1, <2>2 DEF Preflight
<1>6. CASE Gate(j)
  <2>1. UNCHANGED <<row, parked, sends, received>>
    BY <1>6 DEF Gate
  <2>2. CASE GoTo("load") /\ UNCHANGED <<checkpoint, lost>>
    BY <1>4, <2>1, <2>2 DEF Steps
  <2>3. CASE Blind(j)
    <3>1. /\ run'.job = j /\ run'.step = "done" /\ run'.report \in {"open", "stray"}
          /\ run'.report = "stray" => received[j]
          /\ run'.result # "receipt" /\ checkpoint'[j] \in {checkpoint[j], run'.report}
      BY <1>1, <2>3, BlindEnds
    <3>2. run'.report \in {"receipt", "stray"} => received[j]
      BY <3>1
    <3>3. checkpoint'[j] \in {"receipt", "stray"} => received[j]
      BY <3>1, <3>2 DEF Truthful
    <3>4. /\ row'[j] = row[j] /\ parked'[j] = parked[j]
          /\ sends'[j] = sends[j] /\ received'[j] = received[j]
      BY <2>1
    <3> HIDE DEF TypeOK
    <3> QED BY <1>2, <3>1, <3>2, <3>3, <3>4 DEF Truthful
  <2> QED BY <1>6, <2>2, <2>3 DEF Gate
<1>7. CASE Load(j)
  <2>1. UNCHANGED <<row, parked, sends, received>>
    BY <1>7 DEF Load
  <2>2. checkpoint[j] = "receipt" => received[j]
    BY DEF Truthful
  <2>3. CASE GoTo("form") /\ UNCHANGED checkpoint
    BY <1>4, <2>1, <2>3 DEF Steps
  <2>4. CASE received[j] /\ Finish(j, "receipt", "receipt")
    BY <1>3, <2>1, <2>4 DEF Written, Results
  <2>5. ASSUME NEW result \in {"paused", "skipped", "unproven"},
               Finish(j, "attempted", result)
        PROVE  Truthful(j)'
    BY <1>3, <2>1, <2>5 DEF Written, Results
  <2> QED BY <1>7, <2>2, <2>3, <2>4, <2>5 DEF Load
<1>8. CASE Form(j)
  <2>1. CASE GoTo("prepared") /\ checkpoint' = [checkpoint EXCEPT ![j] = "open"]
    BY <1>1, <1>8, <2>1 DEF Form, GoTo, Truthful
  <2>2. ASSUME NEW result \in {"failed", "skipped", "paused", "receipt"},
               NEW report \in {"open", "stray"}, Finish(j, report, result),
               result = "receipt" \/ report = "stray" => received[j]
        PROVE  Truthful(j)'
    <3>1. UNCHANGED <<row, parked, sends, received>>
      BY <1>8 DEF Form
    <3> QED BY <1>3, <2>2, <3>1 DEF Results, Written
  <2> QED BY <1>8, <2>1, <2>2 DEF Form
<1>9. CASE Prepared(j)
  BY <1>1, <1>9 DEF Prepared, GoTo, Truthful
<1>10. CASE Journaled(j)
  BY <1>1, <1>10 DEF Journaled, GoTo, Truthful
<1>11. CASE Click(j)
  <2>1. ASSUME NEW result \in {"skipped", "unproven", "paused"},
               Finish(j, "attempted", result), UNCHANGED <<sends, received>>
        PROVE  Truthful(j)'
    BY <1>3, <1>11, <2>1 DEF Click, Results, Written
  <2>2. CASE /\ sends' = [sends EXCEPT ![j] = @ + 1]
             /\ GoTo("waiting") /\ Arrives(j) /\ UNCHANGED checkpoint
    <3>1. sends'[j] > 0
      BY <2>2
    <3>2. received[j] => received'[j]
      BY <2>2 DEF Arrives
    <3>3. run'.job = j /\ run'.result = run.result /\ run'.report = run.report
      BY <1>1, <2>2 DEF GoTo
    <3> QED BY <1>1, <1>11, <2>2, <3>1, <3>2, <3>3 DEF Click, Truthful
  <2> QED BY <1>11, <2>1, <2>2 DEF Click
<1>12. CASE Wait(j)
  <2>1. CASE Arrives(j) /\ UNCHANGED <<run, checkpoint>>
    <3>1. received[j] => received'[j]
      BY <2>1 DEF Arrives
    <3>2. sends[j] > 0
      BY <1>1, <1>12 DEF Wait, At, Truthful
    <3> QED BY <1>1, <1>12, <2>1, <3>1, <3>2 DEF Wait, Truthful
  <2>2. ASSUME NEW result \in {"receipt", "skipped", "unproven", "paused"},
               NEW report \in Clicked, Finish(j, report, result),
               result = "receipt" \/ report = "receipt" => received[j],
               UNCHANGED received
        PROVE  Truthful(j)'
    <3>1. UNCHANGED <<row, parked, sends>>
      BY <1>12 DEF Wait
    <3> QED BY <1>3, <2>2, <3>1 DEF Results, Written, Clicked
  <2> QED BY <1>12, <2>1, <2>2 DEF Wait, Clicked
<1>13. CASE Record(j)
  <2>1. run' = Idle /\ UNCHANGED <<checkpoint, sends, received>>
    BY <1>13 DEF Record
  <2>2. CASE run.result = "receipt" /\ Applied(j)
    BY <1>1, <2>1, <2>2, IdleRuns, JobsAssumption DEF Applied, Truthful
  <2>3. CASE run.result # "receipt" /\ Park(j)
    <3>1. parked'[j] = run.report /\ row'[j] = "paused_for_review"
      BY <1>2, <2>3 DEF Park
    <3> QED BY <1>1, <2>1, <3>1, IdleRuns, JobsAssumption DEF Truthful
  <2>4. CASE row'[j] \in {"skipped", "failed"} /\ UNCHANGED parked
    BY <2>1, <2>4, IdleRuns, JobsAssumption DEF Truthful
  <2> QED BY <1>13, <2>2, <2>3, <2>4 DEF Record
<1>14. CASE Throws(j)
  <2>1. run' = Idle /\ UNCHANGED <<checkpoint, sends, received>> /\ row'[j] = "failed"
    BY <1>2, <1>14 DEF Throws
  <2>2. parked'[j] \in {parked[j], run.report}
    BY <1>14 DEF Throws
  <2> QED BY <1>1, <2>1, <2>2, IdleRuns, JobsAssumption DEF Truthful
<1> QED
  BY <1>5, <1>6, <1>7, <1>8, <1>9, <1>10, <1>11, <1>12, <1>13, <1>14 DEF Running

LEMMA NextTruth == IInv /\ Truth /\ [Next]_vars => Truth'
<1> SUFFICES ASSUME IInv, Truth, [Next]_vars, NEW j \in Jobs PROVE Truthful(j)'
  BY DEF Truth
<1>0. Truthful(j)
  BY DEF Truth
<1> USE DEF IInv, TypeOK
<1>1. CASE UNCHANGED vars
  BY <1>0, <1>1 DEF vars, Truthful
<1>2. CASE Start
  BY <1>0, <1>2 DEF Start, Truthful
<1>3. CASE Crash
  BY <1>0, <1>3, IdleRuns, JobsAssumption DEF Crash, Truthful
<1>4. CASE Ready
  BY <1>0, <1>4 DEF Ready, Truthful
<1>5. ASSUME NEW i \in Jobs, Repark(i) PROVE Truthful(j)'
  BY <1>0, <1>5 DEF Repark, Unparked, Recovered, Truthful
<1>6. ASSUME NEW i \in Jobs, Intake(i) PROVE Truthful(j)'
  BY <1>0, <1>6 DEF Intake, Judged, Truthful
<1>7. ASSUME NEW i \in Jobs, Claim(i) PROVE Truthful(j)'
  BY <1>0, <1>7, IdleRuns DEF Claim, Truthful
<1>8. ASSUME NEW i \in Jobs, TakeUp(i) PROVE Truthful(j)'
  BY <1>0, <1>8, IdleRuns DEF TakeUp, Truthful
<1>9. ASSUME NEW i \in Jobs, Running(i) PROVE Truthful(j)'
  <2>1. CASE i = j
    BY <1>0, <1>9, <2>1, RunTruthful
  <2>2. CASE i # j
    <3>1. run'.job # j
      BY <1>9, <2>2, RunFrame, JobsAssumption
    <3>2. /\ received'[j] = received[j] /\ sends'[j] = sends[j]
          /\ checkpoint'[j] = checkpoint[j] /\ parked'[j] = parked[j] /\ row'[j] = row[j]
      BY <1>9, <2>2, RunFrame, ReceivedFrame
    <3> QED BY <1>0, <3>1, <3>2, TruthFrame
  <2> QED BY <2>1, <2>2
<1>10. ASSUME NEW i \in Jobs, MailConfirms(i) PROVE Truthful(j)'
  BY <1>0, <1>10, IdleRuns, JobsAssumption DEF MailConfirms, Applied, Turn, Truthful
<1>11. ASSUME NEW i \in Jobs, LateReceipt(i) PROVE Truthful(j)'
  BY <1>0, <1>11 DEF LateReceipt, Blocking, Clicked, Truthful
<1> QED
  BY <1>1, <1>2, <1>3, <1>4, <1>5, <1>6, <1>7, <1>8, <1>9, <1>10, <1>11 DEF Next

LEMMA InitTruth == Init => Truth
BY IdleRuns, JobsAssumption DEF Init, Truth, Truthful

\* A row that becomes applied is of an application that arrived, and none ceases
\* to be applied.
LEMMA AppliedRows ==
  ASSUME IInv, Truth, Truth', Next, NEW j \in Jobs
  PROVE  row[j] = "applied" => row'[j] = "applied"
<1> SUFFICES ASSUME row[j] = "applied", row'[j] # "applied" PROVE FALSE
  OBVIOUS
<1> USE DEF IInv, TypeOK
<1>1. parked[j] = "none" /\ run.job # j
  BY DEF Truth, Truthful
<1>2. row' # row
  OBVIOUS
<1>3. CASE Start
  BY <1>3 DEF Start
<1>4. ASSUME NEW i \in Jobs, Running(i) PROVE FALSE
  BY <1>1, <1>4, RunFrame
<1>5. ASSUME NEW i \in Jobs, Intake(i) PROVE FALSE
  BY <1>5 DEF Intake, Judged
<1>6. ASSUME NEW i \in Jobs, Claim(i) PROVE FALSE
  BY <1>6 DEF Claim
<1>7. ASSUME NEW i \in Jobs, MailConfirms(i) PROVE FALSE
  BY <1>7 DEF MailConfirms, Applied
<1> QED
  BY <1>2, <1>3, <1>4, <1>5, <1>6, <1>7 DEF Next, Crash, Ready, Repark, TakeUp, LateReceipt

\* A row that becomes applied does so by a step of its own.
LEMMA OneRow ==
  ASSUME TypeOK, Next, NEW j \in Jobs, row'[j] = "applied", row[j] # "applied"
  PROVE  \A i \in Jobs \ {j} : row'[i] = row[i]
<1> USE DEF TypeOK
<1>1. CASE Start
  BY <1>1 DEF Start
<1>2. CASE UNCHANGED row
  BY <1>2
<1>3. ASSUME NEW i \in Jobs, Intake(i) \/ Claim(i)
      PROVE  \A k \in Jobs \ {j} : row'[k] = row[k]
  BY <1>3 DEF Intake, Judged, Claim
<1>4. ASSUME NEW i \in Jobs, MailConfirms(i)
      PROVE  \A k \in Jobs \ {j} : row'[k] = row[k]
  BY <1>4 DEF MailConfirms, Applied
<1>5. ASSUME NEW i \in Jobs, Running(i)
      PROVE  \A k \in Jobs \ {j} : row'[k] = row[k]
  <2>1. i = j
    BY <1>5, RunFrame
  <2> QED BY <1>5, <2>1, RunFrame
<1> QED
  BY <1>1, <1>2, <1>3, <1>4, <1>5 DEF Next, Crash, Ready, Repark, TakeUp, LateReceipt

\* Only these steps show in SubmissionOnce, and the ones that settle a row.
LEMMA Unseen ==
  ASSUME TypeOK, Next,
         \A i \in Jobs : /\ ~Prepared(i) /\ ~Click(i) /\ ~Wait(i) /\ ~Gate(i)
                         /\ ~Repark(i) /\ ~Record(i) /\ ~Throws(i)
  PROVE  UNCHANGED <<journal, sends, received, lost>>
BY DEF Next, Running, Start, Crash, Ready, Intake, Claim, TakeUp, Preflight, Load, Form,
       Journaled, MailConfirms, LateReceipt

\* A step that settles no row.
Unsettled == \A i \in Jobs : (row'[i] = "applied") = (row[i] = "applied")

\* What a run does to its application on the way to the receipt.
LEMMA SeenSteps ==
  ASSUME IInv, NEW j \in Jobs, Prepared(j) \/ Click(j) \/ Wait(j)
  PROVE  /\ UNCHANGED <<row, lost>>
         /\ \/ UNCHANGED <<journal, sends, received>>
            \/ journal' = [journal EXCEPT ![j] = TRUE] /\ UNCHANGED <<sends, received>>
            \/ /\ sends' = [sends EXCEPT ![j] = @ + 1] /\ Arrives(j) /\ UNCHANGED journal
               /\ journal[j] /\ (sends[j] = 0 \/ lost[j])
            \/ /\ Arrives(j) /\ UNCHANGED <<journal, sends>> /\ run.job = j
               /\ run.step = "waiting"
<1>1. CASE Prepared(j)
  BY <1>1 DEF Prepared
<1>2. CASE Click(j)
  <2>1. journal[j] /\ (sends[j] = 0 \/ lost[j])
    BY <1>2 DEF Click, At, IInv, Local, RunOnRecord
  <2> QED BY <1>2, <2>1 DEF Click
<1>3. CASE Wait(j)
  BY <1>3 DEF Wait, At
<1> QED BY <1>1, <1>2, <1>3

LEMMA SeenMaps ==
  ASSUME IInv, Truth, NEW j \in Jobs, Prepared(j) \/ Click(j) \/ Wait(j)
  PROVE  [Once!Next]_Once!promise
<1>0. /\ journal \in [Jobs -> BOOLEAN] /\ sends \in [Jobs -> 0 .. MaxSends]
      /\ received \in [Jobs -> BOOLEAN] /\ UNCHANGED <<row, lost>>
  BY SeenSteps DEF IInv, TypeOK
<1>1. CASE UNCHANGED <<journal, sends, received>>
  BY <1>0, <1>1 DEF Once!promise
<1>2. CASE journal' = [journal EXCEPT ![j] = TRUE] /\ UNCHANGED <<sends, received>>
  <2>1. Once!Intend(j)
    BY <1>0, <1>2 DEF Once!Intend
  <2> QED BY <2>1 DEF Once!Next
<1>3. CASE /\ sends' = [sends EXCEPT ![j] = @ + 1] /\ Arrives(j) /\ UNCHANGED journal
           /\ journal[j] /\ (sends[j] = 0 \/ lost[j])
  <2>1. Once!Submit(j)
    BY <1>0, <1>3 DEF Once!Submit, Arrives
  <2> QED BY <2>1 DEF Once!Next
<1>4. CASE /\ Arrives(j) /\ UNCHANGED <<journal, sends>> /\ run.job = j
           /\ run.step = "waiting"
  <2>1. CASE received' = [received EXCEPT ![j] = received[j]]
    <3>1. UNCHANGED received
      BY <1>0, <2>1
    <3> QED BY <1>1, <1>4, <3>1
  <2>2. CASE received' = [received EXCEPT ![j] = TRUE]
    <3>1. sends[j] > 0
      BY <1>4 DEF Truth, Truthful
    <3>2. Once!Deliver(j)
      BY <1>0, <1>4, <2>2, <3>1 DEF Once!Deliver
    <3> QED BY <3>2 DEF Once!Next
  <2> QED BY <1>4, <2>1, <2>2 DEF Arrives
<1> QED BY <1>1, <1>2, <1>3, <1>4, SeenSteps

\* A run that ends blind forgets the click, a report kept in the map remembers it.
LEMMA LostMaps ==
  ASSUME TypeOK, NEW j \in Jobs, Unsettled,
         UNCHANGED <<journal, sends, received>>,
         \/ UNCHANGED lost
         \/ lost' = [lost EXCEPT ![j] = TRUE] /\ journal[j]
         \/ lost' = [lost EXCEPT ![j] = FALSE]
  PROVE  [Once!Next]_Once!promise
<1>0. [i \in Jobs |-> row'[i] = "applied"] = [i \in Jobs |-> row[i] = "applied"]
  BY DEF Unsettled
<1>1. CASE UNCHANGED lost
  BY <1>0, <1>1 DEF Once!promise
<1>2. CASE lost' = [lost EXCEPT ![j] = TRUE] /\ journal[j]
  <2>1. Once!Forget(j)
    BY <1>0, <1>2 DEF Once!Forget
  <2> QED BY <2>1 DEF Once!Next
<1>3. CASE lost' = [lost EXCEPT ![j] = FALSE]
  <2>1. Once!Remember(j)
    BY <1>0, <1>3 DEF Once!Remember
  <2> QED BY <2>1 DEF Once!Next
<1> QED BY <1>1, <1>2, <1>3

\* A row that is settled, and nothing else that shows.
LEMMA SettleMaps ==
  ASSUME IInv, Truth, Truth', Next, UNCHANGED <<journal, sends, received, lost>>
  PROVE  [Once!Next]_Once!promise
<1>1. \A j \in Jobs : row[j] = "applied" => row'[j] = "applied"
  BY AppliedRows
<1>2. CASE \A j \in Jobs : row'[j] = "applied" => row[j] = "applied"
  <2>1. \A j \in Jobs : (row'[j] = "applied") = (row[j] = "applied")
    BY <1>1, <1>2
  <2> QED BY <2>1 DEF Once!promise
<1>3. ASSUME NEW j \in Jobs, row'[j] = "applied", row[j] # "applied"
      PROVE  [Once!Next]_Once!promise
  <2>1. \A i \in Jobs \ {j} : row'[i] = row[i]
    BY <1>3, OneRow DEF IInv
  <2>2. received[j]
    BY <1>3 DEF Truth, Truthful
  <2>3. [i \in Jobs |-> row'[i] = "applied"]
          = [[i \in Jobs |-> row[i] = "applied"] EXCEPT ![j] = TRUE]
    BY <1>3, <2>1
  <2>4. Once!Settle(j)
    BY <2>2, <2>3 DEF Once!Settle
  <2> QED BY <2>4 DEF Once!Next
<1> QED BY <1>2, <1>3

\* The steps that lose a report or find it again.
LEMMA GateMaps ==
  ASSUME IInv, NEW j \in Jobs, Gate(j)
  PROVE  [Once!Next]_Once!promise
<1>1. Unsettled /\ UNCHANGED <<journal, sends, received>>
  BY DEF Gate, Unsettled
<1>2. CASE UNCHANGED lost
  BY <1>1, <1>2, LostMaps DEF IInv
<1>3. CASE Blind(j)
  <2>1. CASE checkpoint[j] \in Clicked
    <3>1. lost' = [lost EXCEPT ![j] = TRUE] /\ journal[j]
      BY <1>3, <2>1 DEF Blind, IInv, Local, OnRecord
    <3> QED BY <1>1, <3>1, LostMaps DEF IInv
  <2>2. CASE checkpoint[j] \notin Clicked
    <3>1. UNCHANGED lost
      BY <1>3, <2>2 DEF Blind, IInv, TypeOK
    <3> QED BY <1>2, <3>1
  <2> QED BY <2>1, <2>2
<1> QED BY <1>2, <1>3 DEF Gate

LEMMA RecallMaps ==
  ASSUME TypeOK, NEW j \in Jobs, NEW report, Recall(j, report), Unsettled,
         UNCHANGED <<journal, sends, received>>
  PROVE  [Once!Next]_Once!promise
<1>1. CASE report \in Clicked
  <2>1. lost' = [lost EXCEPT ![j] = FALSE]
    BY <1>1 DEF Recall
  <2> QED BY <2>1, LostMaps
<1>2. CASE report \notin Clicked
  <2>1. UNCHANGED lost
    BY <1>2 DEF Recall, TypeOK
  <2> QED BY <2>1, LostMaps
<1> QED BY <1>1, <1>2

\* Every step is a step of SubmissionOnce or changes nothing of it.
LEMMA StepMaps ==
  ASSUME IInv, Truth, Truth', Next
  PROVE  [Once!Next]_Once!promise
<1>0. TypeOK
  BY DEF IInv
<1>1. ASSUME NEW j \in Jobs, Prepared(j) \/ Click(j) \/ Wait(j)
      PROVE  [Once!Next]_Once!promise
  BY <1>1, SeenMaps
<1>2. ASSUME NEW j \in Jobs, Gate(j) PROVE [Once!Next]_Once!promise
  BY <1>2, GateMaps
<1>3. ASSUME NEW j \in Jobs, Repark(j) PROVE [Once!Next]_Once!promise
  <2>1. Unsettled /\ Recall(j, Recovered(j)) /\ UNCHANGED <<journal, sends, received>>
    BY <1>3 DEF Repark, Unsettled
  <2> QED BY <1>0, <2>1, RecallMaps
<1>4. ASSUME NEW j \in Jobs, Record(j) \/ Throws(j) PROVE [Once!Next]_Once!promise
  <2>1. UNCHANGED <<journal, sends, received>>
    BY <1>4 DEF Record, Throws
  <2>2. CASE UNCHANGED lost
    BY <2>1, <2>2, SettleMaps
  <2>3. CASE /\ Recall(j, run.report)
             /\ row'[j] = IF row[j] = "applied" THEN "applied" ELSE row'[j]
             /\ row'[j] = "applied" => row[j] = "applied"
    <3>1. Running(j)
      BY <1>4 DEF Running
    <3>2. Unsettled
      BY <1>0, <2>3, <3>1, RunFrame DEF Unsettled
    <3> QED BY <1>0, <2>1, <2>3, <3>2, RecallMaps
  <2>4. CASE Record(j) /\ Park(j)
    BY <1>0, <2>3, <2>4 DEF Park, TypeOK
  <2>5. CASE Throws(j) /\ Recall(j, run.report)
    BY <1>0, <2>3, <2>5 DEF Throws, TypeOK
  <2> QED BY <1>4, <2>2, <2>4, <2>5 DEF Record, Throws
<1>5. CASE \A i \in Jobs : /\ ~Prepared(i) /\ ~Click(i) /\ ~Wait(i) /\ ~Gate(i)
                           /\ ~Repark(i) /\ ~Record(i) /\ ~Throws(i)
  BY <1>0, <1>5, Unseen, SettleMaps
<1> QED BY <1>1, <1>2, <1>3, <1>4, <1>5

LEMMA InitMaps == Init => Once!Init
BY DEF Init, Once!Init

\* The worker under any crashes and restarts implements SubmissionOnce.
THEOREM Implements == Spec => SubmitsOnce
<1>1. Init /\ [][Next]_vars => []Truth
  <2>1. Init => Truth
    BY InitTruth
  <2>2. IInv /\ Truth /\ [Next]_vars => Truth'
    BY NextTruth
  <2> QED BY <2>1, <2>2, Inductive, PTL DEF Spec
<1>2. IInv /\ Truth /\ Truth' /\ [Next]_vars => [Once!Next]_Once!promise
  <2>1. CASE UNCHANGED vars
    BY <2>1 DEF vars, Once!promise
  <2> QED BY <2>1, StepMaps
<1> QED
  BY <1>1, <1>2, InitMaps, Inductive, PTL DEF Spec, SubmitsOnce, Once!Spec

=============================================================================
